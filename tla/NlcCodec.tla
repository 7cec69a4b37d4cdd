------------------------------- MODULE NlcCodec -------------------------------
(***************************************************************************)
(* The near-lossless codec of nlc_codec.cpp.  A frame is split into a      *)
(* brightness and two colour planes (YCoCg-R); each sample is predicted    *)
(* from its reconstructed neighbours, the residual is quantised, and the   *)
(* residuals of a line are packed into bits.  The planes are encoded by a  *)
(* thread each and put together line by line.  The decoder is the model of *)
(* the one in the core: it must follow the encoder sample by sample.       *)
(***************************************************************************)
EXTENDS Integers, Sequences

CONSTANTS
  Top,          \* largest value of a channel: 255 in the code
  Width,        \* pixels of a line
  Height,       \* lines
  Pixels,       \* pixels a picture may have, <<R, G, B>>
  Nears,        \* near_lvl
  Packs,        \* front ends: "global", "tiled", "rice"
  Tile,         \* tile: 16 in the client
  HeaderBits,   \* width_bits: 4 in the client
  RiceLimit,    \* NLC_RICE_LIMIT: 20
  EscapeBits,   \* NLC_RICE_UBITS: 12
  WordBits,     \* bits of an aligned word: 64, also the header of a line
  MaxSegment,   \* largest length of a segment: 0xffff bytes
  Capacity      \* dst_cap

ASSUME CodecAssumption ==
  /\ {Top, Width, Height, Tile, HeaderBits, RiceLimit, EscapeBits, WordBits, MaxSegment,
      Capacity} \subseteq Nat \ {0}
  /\ Nears \subseteq Nat
  /\ Pixels \subseteq (0 .. Top) \X (0 .. Top) \X (0 .. Top)
  /\ Packs \subseteq {"global", "tiled", "rice"}
\* A residual is at most twice the range of a channel and twice that when it is folded: at
\* 255 it needs 10 bits, a header of 4 counts up to 15, an escape has 12.
ASSUME ResidualAssumption ==
  /\ 4 * Top < 2 ^ (2 ^ HeaderBits - 1)
  /\ 4 * Top < 2 ^ EscapeBits

Columns == 1 .. Width
Rows == 1 .. Height
Planes == 1 .. 3

VARIABLES
  coding,    \* where the codec is
  picture,   \* the frame: pixels by line and column
  near,      \* near_lvl
  pack,      \* the front end
  rebuilt,   \* the encoder's reconstruction of each plane, row by row
  segments,  \* the packed lines of each plane
  failed,    \* povf: planes that did not fit
  encoded,   \* the encoded frame: a record for each line
  decoded    \* the decoder's rows of each plane

codecVars ==
  <<coding, picture, near, pack, rebuilt, segments, failed, encoded, decoded>>

-----------------------------------------------------------------------------
(* Arithmetic.                                                             *)

Clamp(v, lo, hi) == IF v < lo THEN lo ELSE IF v > hi THEN hi ELSE v

Magnitude(n) == IF n < 0 THEN -n ELSE n

Zigzag(v) == IF v >= 0 THEN 2 * v ELSE 2 * (-v) - 1
UnZigzag(u) == IF u % 2 = 1 THEN -((u + 1) \div 2) ELSE u \div 2

BitLen(u) == CHOOSE b \in 0 .. u : u < 2 ^ b /\ (b > 0 => 2 ^ (b - 1) <= u)

\* A wrong version: the residual is divided without rounding.
QuantTruncated(e, k) ==
  LET q == Magnitude(e) \div (2 * k + 1) IN IF e > 0 THEN q ELSE -q

Quant(e, k) ==
  LET q == (Magnitude(e) + k) \div (2 * k + 1) IN IF e > 0 THEN q ELSE -q

Dequant(q, k) == q * (2 * k + 1)

\* YCoCg-R; the halves are floors both ways.
ToYCoCg(pixel) ==
  LET co == pixel[1] - pixel[3]
      t == pixel[3] + (co \div 2)
      cg == pixel[2] - t
  IN  <<t + (cg \div 2), co, cg>>

FromYCoCg(ycc) ==
  LET t == ycc[1] - (ycc[3] \div 2)
      b == t - (ycc[2] \div 2)
  IN  <<b + ycc[2], ycc[3] + t, b>>

Lowest(p) == IF p = 1 THEN 0 ELSE -Top

\* The median edge predictor.
Predict(left, above, corner) ==
  LET low == IF left < above THEN left ELSE above
      high == IF left < above THEN above ELSE left
  IN  IF corner >= high THEN low
      ELSE IF corner <= low THEN high ELSE left + above - corner

\* The neighbours of a sample: in the row being rebuilt and in the one before it.
Prediction(row, before, x, first) ==
  LET left == IF x > 1 THEN row[x - 1] ELSE IF first THEN 0 ELSE before[x]
      above == IF first THEN left ELSE before[x]
      corner == IF x > 1 /\ ~first THEN before[x - 1] ELSE above
  IN  Predict(left, above, corner)

Rebuild(prediction, q, k, p) ==
  Clamp(prediction + Dequant(q, k), Lowest(p), Top)

-----------------------------------------------------------------------------
(* Lines.                                                                  *)

\* line_encode: <<rebuilt sample, zigzag residual>> for each column.
EncodeLine(samples, before, first, k, p) ==
  LET coded[x \in 0 .. Width] ==
        IF x = 0 THEN <<>>
        ELSE LET sofar == coded[x - 1]
                 prediction == Prediction([i \in 1 .. x - 1 |-> sofar[i][1]], before, x, first)
                 q == Quant(samples[x] - prediction, k)
             IN  Append(sofar, <<Rebuild(prediction, q, k, p), Zigzag(q)>>)
  IN  coded[Width]

\* line_decode.
DecodeLine(residuals, before, first, k, p) ==
  LET row[x \in 0 .. Width] ==
        IF x = 0 THEN <<>>
        ELSE LET sofar == row[x - 1]
             IN  Append(sofar, Rebuild(Prediction(sofar, before, x, first),
                                       UnZigzag(residuals[x]), k, p))
  IN  row[Width]

-----------------------------------------------------------------------------
(* Bits, the least significant first.                                      *)

Bits(value, n) == [i \in 1 .. n |-> (value \div 2 ^ (i - 1)) % 2]

\* Past the end a reader reads zeros.
BitAt(bits, at) == IF at <= Len(bits) THEN bits[at] ELSE 0

Read(bits, at, n) ==
  LET value[i \in 0 .. n] ==
        IF i = 0 THEN 0 ELSE value[i - 1] + BitAt(bits, at + i - 1) * 2 ^ (i - 1)
  IN  value[n]

Concat(strings) ==
  LET joined[i \in 0 .. Len(strings)] ==
        IF i = 0 THEN <<>> ELSE joined[i - 1] \o strings[i]
  IN  joined[Len(strings)]

Total(numbers) ==
  LET sum[i \in 0 .. Len(numbers)] == IF i = 0 THEN 0 ELSE sum[i - 1] + numbers[i]
  IN  sum[Len(numbers)]

\* The tiles of a line: one for the global front end.
TileLength(front) == IF front = "global" THEN Width ELSE Tile
TileCount(front) == (Width + TileLength(front) - 1) \div TileLength(front)
TileOf(front, line, i) ==
  SubSeq(line, (i - 1) * TileLength(front) + 1,
         IF i * TileLength(front) < Width THEN i * TileLength(front) ELSE Width)

Widest(tile) ==
  CHOOSE w \in {BitLen(tile[i]) : i \in DOMAIN tile} :
    \A i \in DOMAIN tile : BitLen(tile[i]) <= w

\* rice_k_for_tile.
RiceK(tile) ==
  CHOOSE k \in 0 .. 15 :
    /\ k = 15 \/ Len(tile) * 2 ^ k >= Total(tile)
    /\ k > 0 => Len(tile) * 2 ^ (k - 1) < Total(tile)

RiceBits(u, k) ==
  LET run == u \div 2 ^ k
  IN  IF run < RiceLimit THEN Bits(2 ^ run, run + 1) \o Bits(u, k)
      ELSE Bits(2 ^ RiceLimit, RiceLimit + 1) \o Bits(u, EscapeBits)

\* A tile is a header, the width or k, and its residuals.
PackTile(front, tile) ==
  IF front = "rice"
  THEN Bits(RiceK(tile), HeaderBits)
         \o Concat([i \in DOMAIN tile |-> RiceBits(tile[i], RiceK(tile))])
  ELSE Bits(Widest(tile), HeaderBits)
         \o Concat([i \in DOMAIN tile |-> Bits(tile[i], Widest(tile))])

\* Padded to a word.
Align(bits) ==
  bits \o [i \in 1 .. (WordBits - (Len(bits) % WordBits)) % WordBits |-> 0]

PackLine(front, line) ==
  Align(Concat([i \in 1 .. TileCount(front) |-> PackTile(front, TileOf(front, line, i))]))

\* rice_get: <<value, bits read>>.
ReadRice(bits, at, k) ==
  LET zeros == CHOOSE n \in 0 .. RiceLimit :
                 /\ n = RiceLimit \/ BitAt(bits, at + n) = 1
                 /\ \A i \in 0 .. n - 1 : BitAt(bits, at + i) = 0
  IN  IF zeros < RiceLimit
      THEN <<zeros * 2 ^ k + Read(bits, at + zeros + 1, k), zeros + 1 + k>>
      ELSE <<Read(bits, at + RiceLimit + 1, EscapeBits), RiceLimit + 1 + EscapeBits>>

ReadPlain(bits, at, w) == <<Read(bits, at, w), w>>

\* One sample more of a line: a header is read at the start of each tile.
UnpackStep(front, bits, before, x) ==
  LET opens == (x - 1) % TileLength(front) = 0
      header == IF opens THEN Read(bits, before.at, HeaderBits) ELSE before.header
      at == IF opens THEN before.at + HeaderBits ELSE before.at
      taken == IF front = "rice" THEN ReadRice(bits, at, header) ELSE ReadPlain(bits, at, header)
  IN  [line |-> Append(before.line, taken[1]), at |-> at + taken[2], header |-> header]

UnpackLine(front, bits) ==
  LET after[x \in 0 .. Width] ==
        IF x = 0 THEN [line |-> <<>>, at |-> 1, header |-> 0]
        ELSE LET before == after[x - 1] IN UnpackStep(front, bits, before, x)
  IN  after[Width].line

-----------------------------------------------------------------------------
(* Coding a frame.                                                         *)

NoRows == [p \in Planes |-> <<>>]
BlankRow == [x \in Columns |-> 0]
LastOf(rows) == IF rows = <<>> THEN BlankRow ELSE rows[Len(rows)]
Lengths(strings) == [i \in DOMAIN strings |-> Len(strings[i])]

CodecInit ==
  /\ coding = "idle"
  /\ picture = <<>>
  /\ near = 0
  /\ pack = "tiled"
  /\ rebuilt = NoRows
  /\ segments = NoRows
  /\ failed = {}
  /\ encoded = <<>>
  /\ decoded = NoRows

\* A frame is handed to the encoder; the options are those of the session.
EncodeFrame ==
  /\ coding = "idle"
  /\ picture' \in [Rows -> [Columns -> Pixels]]
  /\ near' \in Nears
  /\ pack' \in Packs
  /\ coding' = "planes"
  /\ UNCHANGED <<rebuilt, segments, failed, encoded, decoded>>

Samples(p, y) == [x \in Columns |-> ToYCoCg(picture[y][x])[p]]

Coded(p) ==
  LET y == Len(rebuilt[p]) + 1
  IN  EncodeLine(Samples(p, y), LastOf(rebuilt[p]), y = 1, near, p)

\* A line of a plane: each plane is the work of one thread, which stops at the first
\* segment that does not fit.
EncodeRow(p) ==
  /\ coding = "planes"
  /\ p \notin failed
  /\ Len(rebuilt[p]) < Height
  /\ LET coded == Coded(p)
         segment == PackLine(pack, [x \in Columns |-> coded[x][2]])
     IN  IF \/ Len(segment) > MaxSegment
            \/ Total(Lengths(segments[p])) + Len(segment) > Capacity
         THEN /\ failed' = failed \union {p}
              /\ UNCHANGED <<rebuilt, segments>>
         ELSE /\ rebuilt' = [rebuilt EXCEPT ![p] = Append(@, [x \in Columns |-> coded[x][1]])]
              /\ segments' = [segments EXCEPT ![p] = Append(@, segment)]
              /\ UNCHANGED failed
  /\ UNCHANGED <<coding, picture, near, pack, encoded, decoded>>

Joined == \A p \in Planes : p \in failed \/ Len(rebuilt[p]) = Height

LineRecord(y) ==
  [lengths |-> [p \in Planes |-> Len(segments[p][y])],
   bits |-> Concat([p \in Planes |-> segments[p][y]])]

\* A header and the three segments.
RecordBits(record) == WordBits + Len(record.bits)

Written(frame) == Total([y \in DOMAIN frame |-> RecordBits(frame[y])])

\* The planes are put together; a frame that does not fit is refused.
Assemble ==
  /\ coding = "planes"
  /\ Joined
  /\ LET lines == [y \in Rows |-> LineRecord(y)]
     IN  IF failed = {} /\ Written(lines) <= Capacity
         THEN encoded' = lines /\ coding' = "encoded"
         ELSE encoded' = <<>> /\ coding' = "refused"
  /\ UNCHANGED <<picture, near, pack, rebuilt, segments, failed, decoded>>

Segment(record, p) ==
  LET start == Total(SubSeq(record.lengths, 1, p - 1))
  IN  SubSeq(record.bits, start + 1, start + record.lengths[p])

\* A line of the decoder, all planes.
DecodeRow ==
  /\ coding = "encoded"
  /\ LET y == Len(decoded[1]) + 1
         row(p) == DecodeLine(UnpackLine(pack, Segment(encoded[y], p)), LastOf(decoded[p]),
                              y = 1, near, p)
     IN  /\ decoded' = [p \in Planes |-> Append(decoded[p], row(p))]
         /\ coding' = IF y = Height THEN "decoded" ELSE "encoded"
  /\ UNCHANGED <<picture, near, pack, rebuilt, segments, failed, encoded>>

\* The encoder's buffers are private to a call.
NextFrame ==
  /\ coding \in {"refused", "decoded"}
  /\ coding' = "idle" /\ picture' = <<>> /\ near' = 0 /\ pack' = "tiled"
  /\ rebuilt' = NoRows /\ segments' = NoRows /\ failed' = {} /\ encoded' = <<>>
  /\ decoded' = NoRows

CodecNext ==
  \/ EncodeFrame
  \/ \E p \in Planes : EncodeRow(p)
  \/ Assemble
  \/ DecodeRow
  \/ NextFrame

CodecSpec == CodecInit /\ [][CodecNext]_codecVars

-----------------------------------------------------------------------------
(* Properties.                                                             *)

CodecTypeOK ==
  /\ coding \in {"idle", "planes", "encoded", "refused", "decoded"}
  /\ near \in Nears \union {0}
  /\ pack \in Packs \union {"tiled"}
  /\ failed \subseteq Planes
  /\ \A p \in Planes : Len(rebuilt[p]) <= Height /\ Len(decoded[p]) <= Height

\* combine_line: the pixel of the decoder.
Shown(y, x) ==
  LET rgb == FromYCoCg(<<decoded[1][y][x], decoded[2][y][x], decoded[3][y][x]>>)
  IN  [c \in 1 .. 3 |-> Clamp(rgb[c], 0, Top)]

\* The decoder rebuilds what the encoder predicted from, line by line, through any front
\* end: were one sample different, every later one of the frame would drift.
InStep ==
  \A p \in Planes : \A y \in DOMAIN decoded[p] : decoded[p][y] = rebuilt[p][y]

\* No sample is off by more than near_lvl, also at the ends of its range.
NearlyLossless ==
  \A p \in Planes : \A y \in DOMAIN rebuilt[p] : \A x \in Columns :
    Magnitude(rebuilt[p][y][x] - Samples(p, y)[x]) <= near

\* At near_lvl 0 the picture is shown as it was.
Lossless ==
  near = 0 => \A y \in DOMAIN decoded[1] : \A x \in Columns : Shown(y, x) = picture[y][x]

\* A frame that is handed out fits, and the lengths of its segments fit their header.
EncodedFits ==
  /\ Written(encoded) <= Capacity
  /\ \A y \in DOMAIN encoded : \A p \in Planes : encoded[y].lengths[p] <= MaxSegment

\* nlc_decode gives back what nlc_encode was given, within near_lvl for each plane.
RoundTrip == InStep /\ NearlyLossless /\ Lossless /\ EncodedFits

=============================================================================
