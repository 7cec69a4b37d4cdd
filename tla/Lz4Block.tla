------------------------------- MODULE Lz4Block -------------------------------
(***************************************************************************)
(* A picture as one LZ4 block: the fast and the high-compression encoder   *)
(* of lz4/lz4.c and lz4/lz4hc.c as CmdBlit calls them, with the size of    *)
(* the picture as the capacity, and the decoder of lz4.c.  Positions count *)
(* from 0.  Both encoders are followed step by step: the hash table of the *)
(* fast one, the chains the other one walks, and every decision about the  *)
(* matches they find.                                                      *)
(***************************************************************************)
EXTENDS Integers, Sequences, FiniteSetsExt

CONSTANTS
  Pictures,      \* inputs, sequences of bytes
  Bases,         \* ByteBase: values of a byte, 256
  MinMatch,      \* MINMATCH
  LastLiterals,  \* LASTLITERALS
  MFLimit,       \* MFLIMIT
  WildCopy,      \* WILDCOPYLENGTH
  RunMask,       \* RUN_MASK and ML_MASK
  DistanceMax,   \* LZ4_DISTANCE_MAX
  SkipTrigger,   \* probes before the step of the search grows: 2^LZ4_skipTrigger
  Buckets,       \* entries of the hash table
  MaxAttempts,   \* places a search of the strong encoder looks at: 256 at its level
  Codecs,        \* codecs the user may choose, of 1 to 6
  AdaptiveSize   \* LZ4_ADAPTATIVE_CSIZE

ASSUME BlockAssumption ==
  /\ {MinMatch, LastLiterals, MFLimit, WildCopy, RunMask, SkipTrigger, Buckets}
       \subseteq Nat \ {0}
  /\ Bases \in Nat \ {0, 1} /\ AdaptiveSize \in Nat
  /\ Pictures \subseteq Seq(0 .. Bases - 1)
  /\ MaxAttempts \in Nat \ {0} /\ Codecs \subseteq 1 .. 6
  /\ DistanceMax \in 1 .. Bases * Bases - 1
  /\ WildCopy <= 3 + LastLiterals
  /\ MinMatch + LastLiterals <= MFLimit
  /\ MinMatch \in 3 .. 4 /\ LastLiterals >= 2 /\ RunMask < Bases

VARIABLES
  coder,      \* where the encoder, then the decoder, is
  lz4Frames,  \* m_lz4Frames, 1 to 6
  input,      \* the picture
  ip,
  anchor,     \* first byte that is not encoded yet
  table,      \* hashTable of the fast encoder
  forward,    \* forwardIp, step and searchMatchNb
  match,      \* start of the earlier occurrence
  lazy,       \* matches the other encoder weighs: start0, m0, m1, start2, m2
  block,      \* the output, where its last token is, and how far it was ever written to
  restored    \* what the decoder has put out, and where it is in the block

blockVars ==
  <<coder, lz4Frames, input, ip, anchor, table, forward, match, lazy, block, restored>>

TopByte == Bases - 1
End == Len(input)
MatchLimit == End - LastLiterals
LastStart == End - MFLimit

NoMatch == [len |-> 0, off |-> 0, back |-> 0]
NoLazy == [start0 |-> 0, m0 |-> NoMatch, m1 |-> NoMatch, start2 |-> 0, m2 |-> NoMatch]
NoBlock == [bytes |-> <<>>, token |-> 0, touched |-> 0, full |-> FALSE]
NotRestored == [bytes |-> <<>>, at |-> 0]
NoForward == [at |-> 0, step |-> 1, tries |-> SkipTrigger]

Highest(a, b) == IF a > b THEN a ELSE b

Bytes(p, n) == SubSeq(input, p + 1, p + n)

SameStart(p, q) == Bytes(p, MinMatch) = Bytes(q, MinMatch)

\* LZ4_count: bytes from p that are those from q, up to limit.
Count(p, q, limit) ==
  Max({n \in 0 .. limit - p : \A i \in 1 .. n : input[p + i] = input[q + i]})

\* LZ4HC_countBack and the catch-up: bytes before p that are those before q.
CountBack(p, q, low) ==
  Max({n \in 0 .. Min({p - low, q}) :
         \A i \in 0 .. n - 1 : input[p - i] = input[q - i]})

-----------------------------------------------------------------------------
(* What is written.                                                        *)

\* The bytes that follow a token for a length its four bits cannot hold.
Extension(n) ==
  IF n < RunMask THEN <<>>
  ELSE [i \in 1 .. (n - RunMask) \div TopByte |-> TopByte] \o <<(n - RunMask) % TopByte>>

Nibble(n) == IF n < RunMask THEN n ELSE RunMask

Token(literals, code) == literals * (RunMask + 1) + code

\* Room is asked for before anything is written, but after the token has its place.
RoomForLiterals(size, n) ==
  size + 1 + n + (2 + 1 + LastLiterals) + n \div TopByte <= End

\* A token and the literals up to p; they are copied in strides.
WithLiterals(b, from, p) ==
  LET n == p - from
      at == Len(b.bytes) + 1 + Len(Extension(n))
      strides == IF n = 0 THEN 1 ELSE (n + WildCopy - 1) \div WildCopy
  IN  IF ~RoomForLiterals(Len(b.bytes), n) THEN [b EXCEPT !.full = TRUE]
      ELSE [bytes |-> b.bytes \o <<Token(Nibble(n), 0)>> \o Extension(n) \o Bytes(from, n),
            token |-> Len(b.bytes) + 1,
            touched |-> Highest(b.touched, at + strides * WildCopy),
            full |-> FALSE]

\* The fast encoder asks for the bytes the length takes, the other one for one less and
\* its remainder; the fast one writes the length four bytes at a time.
RoomForMatch(fast, size, code) ==
  size + (1 + LastLiterals)
    + (IF fast THEN (code + TopByte - RunMask) \div TopByte ELSE code \div TopByte) <= End

WithMatch(fast, b, offset, code) ==
  LET size == Len(b.bytes) + 2
      bytes == b.bytes \o <<offset % Bases, (offset \div Bases) % Bases>> \o Extension(code)
      wide == IF fast /\ code >= RunMask
              THEN size + 4 * (1 + (code - RunMask) \div (4 * TopByte)) ELSE Len(bytes)
  IN  IF b.full THEN b
      ELSE IF ~RoomForMatch(fast, size, code)
      THEN [b EXCEPT !.full = TRUE, !.touched = Highest(@, size)]
      ELSE [b EXCEPT !.bytes = [bytes EXCEPT ![b.token] = @ + Nibble(code)],
                     !.touched = Highest(@, Highest(wide, Len(bytes)))]

\* LZ4HC_encodeSequence.
WithSequence(b, from, p, m) ==
  WithMatch(FALSE, WithLiterals(b, from, p), m.off, m.len - MinMatch)

RoomForLast(size, n) ==
  size + n + 1 + (n + TopByte - RunMask) \div TopByte <= End

WithLast(b, from) ==
  LET n == End - from
      bytes == b.bytes \o <<Token(Nibble(n), 0)>> \o Extension(n) \o Bytes(from, n)
  IN  IF ~RoomForLast(Len(b.bytes), n) THEN [b EXCEPT !.full = TRUE]
      ELSE [b EXCEPT !.bytes = bytes, !.touched = Highest(@, Len(bytes))]

Steps(from, to) == coder = from /\ coder' = to

\* What is written is kept, unless there was no room for it: 0 is returned.
Write(b, to) ==
  /\ block' = b
  /\ coder' = IF b.full THEN "failed" ELSE to

-----------------------------------------------------------------------------
(* CmdBlit.                                                                *)

BlockInit ==
  /\ coder = "idle" /\ lz4Frames \in Codecs
  /\ input = <<>> /\ ip = 0 /\ anchor = 0
  /\ table = [h \in 0 .. Buckets - 1 |-> 0] /\ forward = NoForward /\ match = 0
  /\ lazy = NoLazy /\ block = NoBlock /\ restored = NotRestored

Strong == lz4Frames \in {3, 4}

\* LZ4_compress_HC: from the first byte, whatever was done before.
StartStrong == coder' = "chain" /\ ip' = 0 /\ anchor' = 0

CompressBlock ==
  /\ coder = "idle"
  /\ input' \in Pictures
  /\ IF Strong THEN StartStrong ELSE coder' = "first" /\ UNCHANGED <<ip, anchor>>
  /\ UNCHANGED <<lz4Frames, table, forward, match, lazy, block, restored>>

\* The adaptive codecs turn to the strong encoder once a block is large.
Adapts == lz4Frames \in {5, 6} /\ Len(block.bytes) > AdaptiveSize

AdaptBlock ==
  /\ coder = "written" /\ Adapts
  /\ StartStrong
  /\ lz4Frames' = lz4Frames - 2
  /\ block' = [NoBlock EXCEPT !.touched = block.touched]
  /\ UNCHANGED <<input, table, forward, match, lazy, restored>>

\* The block is sent, and what the receiver makes of it.
SendBlock ==
  /\ Steps("written", "decoding")
  /\ ~Adapts
  /\ UNCHANGED <<lz4Frames, input, ip, anchor, table, forward, match, lazy, block, restored>>

NextBlock ==
  /\ coder \in {"failed", "decoded"} /\ coder' = "idle"
  /\ input' = <<>> /\ ip' = 0 /\ anchor' = 0
  /\ table' = [h \in 0 .. Buckets - 1 |-> 0] /\ forward' = NoForward /\ match' = 0
  /\ lazy' = NoLazy /\ block' = NoBlock /\ restored' = NotRestored
  /\ UNCHANGED lz4Frames

-----------------------------------------------------------------------------
(* LZ4_compress_generic_validated.                                         *)

Hash(p) ==
  LET sum[i \in 0 .. MinMatch] == IF i = 0 THEN 0 ELSE 2 * sum[i - 1] + input[p + i]
  IN  sum[MinMatch] % Buckets

\* LZ4_putPosition: the last place of a bucket is the one it gives.
Learned(places, p) == [places EXCEPT ![Hash(p)] = p]

FastKeeps == UNCHANGED <<lz4Frames, input, lazy, restored>>

FirstByte ==
  /\ coder = "first"
  /\ IF End < MFLimit + 1
     THEN coder' = "last" /\ UNCHANGED <<ip, table, forward>>
     ELSE /\ coder' = "probe"
          /\ table' = Learned(table, 0)
          /\ ip' = 1
          /\ forward' = [NoForward EXCEPT !.at = 1]
  /\ FastKeeps /\ UNCHANGED <<anchor, match, block>>

TooFar(p, q) == q + DistanceMax < p

Usable(p, q) == ~TooFar(p, q) /\ SameStart(p, q)

Candidate == table[Hash(forward.at)]

Advanced ==
  [at |-> forward.at + forward.step, step |-> forward.tries \div SkipTrigger,
   tries |-> forward.tries + 1]

\* The search goes past the last place a match may start at.
ProbeEnds ==
  /\ Steps("probe", "last")
  /\ Advanced.at > LastStart + 1
  /\ ip' = forward.at
  /\ FastKeeps /\ UNCHANGED <<anchor, table, forward, match, block>>

ProbeMisses ==
  /\ Steps("probe", "probe")
  /\ Advanced.at <= LastStart + 1
  /\ ~Usable(forward.at, Candidate)
  /\ ip' = forward.at
  /\ table' = Learned(table, forward.at)
  /\ forward' = Advanced
  /\ FastKeeps /\ UNCHANGED <<anchor, match, block>>

\* The match is extended backwards, and its literals are written.
ProbeHits ==
  LET back == CountBack(forward.at, Candidate, anchor)
  IN  /\ coder = "probe"
      /\ Advanced.at <= LastStart + 1
      /\ Usable(forward.at, Candidate)
      /\ table' = Learned(table, forward.at)
      /\ ip' = forward.at - back
      /\ match' = Candidate - back
      /\ Write(WithLiterals(block, anchor, ip'), "match")
      /\ FastKeeps /\ UNCHANGED <<anchor, forward>>

WriteMatch ==
  LET code == Count(ip + MinMatch, match + MinMatch, MatchLimit)
  IN  /\ coder = "match"
      /\ ip' = ip + MinMatch + code
      /\ anchor' = ip'
      /\ Write(WithMatch(TRUE, block, ip - match, code),
               IF ip' > LastStart THEN "last" ELSE "again")
      /\ FastKeeps /\ UNCHANGED <<table, forward, match>>

\* The table learns of the place before, and of this one; a match that starts here at once
\* has no literals, and its token is written without asking for room.
MatchAgain ==
  LET filled == Learned(table, ip - 2)
      candidate == filled[Hash(ip)]
  IN  /\ coder = "again"
      /\ table' = Learned(filled, ip)
      /\ \/ /\ Usable(ip, candidate)
            /\ coder' = "match"
            /\ match' = candidate
            /\ block' = [block EXCEPT !.bytes = Append(@, Token(0, 0)),
                                      !.token = Len(block.bytes) + 1,
                                      !.touched = Highest(@, Len(block.bytes) + 1)]
            /\ UNCHANGED <<ip, forward>>
         \/ /\ ~Usable(ip, candidate)
            /\ coder' = "probe"
            /\ ip' = ip + 1
            /\ forward' = [NoForward EXCEPT !.at = ip + 1]
            /\ UNCHANGED <<match, block>>
      /\ FastKeeps /\ UNCHANGED anchor

\* Both encoders end with literals.
WriteLast ==
  /\ coder = "last"
  /\ Write(WithLast(block, anchor), "written")
  /\ UNCHANGED <<lz4Frames, input, ip, anchor, table, forward, match, lazy, restored>>

-----------------------------------------------------------------------------
(* LZ4HC_compress_hashChain.                                               *)

OptimalLength == RunMask - 1 + MinMatch

\* LZ4HC_init_internal: the buckets start with no place of the picture in them.
NoPlace == -1

\* The place in the bucket of p before it, once LZ4HC_Insert has seen every place up to p:
\* searches never go back, so the head of the chain and each of its links are such places.
Before(p) == Max({q \in 0 .. p - 1 : Hash(q) = Hash(p)} \cup {NoPlace})

\* LZ4HC_countPattern and LZ4HC_reverseCountPattern, for a pattern of one byte: how far the
\* byte at p is repeated from p on, and how far before it.
RunFrom(p) == Max({n \in 1 .. MatchLimit - p : \A i \in 1 .. n : input[p + i] = input[p + 1]})

RunBefore(p) ==
  Max({n \in 0 .. p : \A i \in 0 .. n - 1 : input[p - i] = input[p + 1]})

Repeats(p) == RunFrom(p) >= MinMatch

\* A wrong version: an offset that is one too large for its two bytes.
LowestMatchTooFar(p) == Highest(0, p - DistanceMax - 1)

LowestMatch(p) == Highest(0, p - DistanceMax)

WholeMatch(p, q, low) ==
  LET back == CountBack(p, q, low)
  IN  [len |-> back + MinMatch + Count(p + MinMatch, q + MinMatch, MatchLimit),
       off |-> p - q, back |-> back]

Improved(p, q, low, best) ==
  IF SameStart(p, q) /\ WholeMatch(p, q, low).len > best.len
  THEN WholeMatch(p, q, low) ELSE best

\* The place q is followed by one in the same run of the byte p repeats: of the run, the
\* places that cannot be better than another are not looked at.  If the run is long enough
\* and not reached yet, the place where just as much of it is left as at p comes next;
\* otherwise the first place of the run, which without looking back is a match already.
InRun(p, q) ==
  /\ Before(q) = q - 1 /\ Repeats(p)
  /\ q - 1 >= LowestMatch(p) /\ SameStart(p, q - 1)

SkipRun(p, q, low, best) ==
  LET ahead == RunFrom(q - 1)
      back == Min({RunBefore(q - 1), q - 1 - LowestMatch(p)})
      first == q - 1 - back
      length == Min({back + ahead, RunFrom(p)})
      found == [len |-> length, off |-> p - first, back |-> 0]
  IN  IF back + ahead >= RunFrom(p) /\ ahead <= RunFrom(p)
      THEN [at |-> q - 1 + ahead - RunFrom(p), best |-> best]
      ELSE IF low < p THEN [at |-> first, best |-> best]
      ELSE [at |-> Before(first), best |-> IF length > best.len THEN found ELSE best]

\* A place of the chain is looked at, and the next one is chosen.  (The comparison of two bytes
\* that comes before a place is looked at only saves time.)
Looked(p, low, seen) ==
  LET better == Improved(p, seen.at, low, seen.best)
  IN  IF InRun(p, seen.at) THEN SkipRun(p, seen.at, low, better)
      ELSE [at |-> Before(seen.at), best |-> better]

\* The chain from p down, as long as a place is near enough and there are attempts left.
Follow(p, low, longest) ==
  LET walk[k \in 0 .. MaxAttempts] ==
        IF k = 0 THEN [at |-> Before(p), best |-> [NoMatch EXCEPT !.len = longest]]
        ELSE LET seen == walk[k - 1]
             IN  IF seen.at < LowestMatch(p) THEN seen ELSE Looked(p, low, seen)
  IN  walk[MaxAttempts].best

\* LZ4HC_InsertAndGetWiderMatch: the longest match found around p that starts at low or later
\* and is longer than longest, the nearest of these.
Search(p, low, longest) ==
  LET best == Follow(p, low, longest)
  IN  IF best.off = 0 THEN NoMatch ELSE best

LazyKeeps == UNCHANGED <<lz4Frames, input, table, forward, match, restored>>

ChainEnds ==
  /\ Steps("chain", "last")
  /\ End < MFLimit + 1 \/ ip > LastStart
  /\ LazyKeeps /\ UNCHANGED <<ip, anchor, lazy, block>>

ChainSearch ==
  /\ coder = "chain"
  /\ End >= MFLimit + 1 /\ ip <= LastStart
  /\ LET m == Search(ip, ip, MinMatch - 1)
     IN  \/ /\ m = NoMatch
            /\ ip' = ip + 1
            /\ UNCHANGED <<coder, lazy>>
         \/ /\ m # NoMatch
            /\ coder' = "second"
            /\ lazy' = [lazy EXCEPT !.start0 = ip, !.m0 = m, !.m1 = m]
            /\ UNCHANGED ip
  /\ LazyKeeps /\ UNCHANGED <<anchor, block>>

\* The match is encoded, and the search goes on behind it.
Encode(b, p, m) ==
  /\ Write(WithSequence(b, anchor, p, m), "chain")
  /\ ip' = p + m.len
  /\ anchor' = p + m.len
  /\ lazy' = NoLazy

\* _Search2: is there a longer match across the end of this one?
SecondSearch ==
  /\ coder = "second"
  /\ LET m1 == lazy.m1
         from == ip + m1.len - 2
         m2 == IF ip + m1.len <= LastStart THEN Search(from, ip, m1.len) ELSE NoMatch
         start2 == from - m2.back
         squeezed == lazy.start0 < ip /\ start2 < ip + lazy.m0.len
         p == IF squeezed THEN lazy.start0 ELSE ip
         m == IF squeezed THEN lazy.m0 ELSE m1
     IN  \/ /\ m2 = NoMatch
            /\ Encode(block, ip, m1)
         \/ /\ m2 # NoMatch /\ start2 - p < 3
            /\ ip' = start2
            /\ lazy' = [lazy EXCEPT !.m1 = m2]
            /\ UNCHANGED <<coder, anchor, block>>
         \/ /\ m2 # NoMatch /\ start2 - p >= 3
            /\ coder' = "third"
            /\ ip' = p
            /\ lazy' = [lazy EXCEPT !.m1 = m, !.start2 = start2, !.m2 = m2]
            /\ UNCHANGED <<anchor, block>>
  /\ LazyKeeps

\* How long the first of two matches shall be, if the second lets it.
Preferred(p, m1, start2, m2) ==
  Min({m1.len, OptimalLength, start2 - p + m2.len - MinMatch})

Later(m, by) == IF by > 0 THEN [m EXCEPT !.len = @ - by] ELSE m

\* _Search3.
ThirdSearch ==
  /\ coder = "third"
  /\ LET m1 == lazy.m1
         by == IF lazy.start2 - ip < OptimalLength
               THEN Highest(0, Preferred(ip, m1, lazy.start2, lazy.m2) - (lazy.start2 - ip))
               ELSE 0
         start2 == lazy.start2 + by
         m2 == Later(lazy.m2, by)
         from == start2 + m2.len - 3
         endFirst == ip + m1.len
         m3 == IF start2 + m2.len <= LastStart THEN Search(from, start2, m2.len) ELSE NoMatch
         start3 == from - m3.back
     IN  \/ \* two matches, and no third
            /\ m3 = NoMatch
            /\ LET first == [m1 EXCEPT !.len = Min({@, start2 - ip})]
                   b == WithSequence(block, anchor, ip, first)
                   both == WithSequence(b, ip + first.len, start2, m2)
               IN  Write(IF b.full THEN b ELSE both, "chain")
            /\ ip' = start2 + m2.len /\ anchor' = start2 + m2.len
            /\ lazy' = NoLazy
         \/ \* no room for the second: the third becomes the first
            /\ m3 # NoMatch /\ start3 < endFirst + 3 /\ start3 >= endFirst
            /\ LET short == Highest(0, endFirst - start2)
                   m0 == IF m2.len - short < MinMatch THEN m3 ELSE Later(m2, short)
               IN  lazy' = [lazy EXCEPT
                     !.start0 = IF m2.len - short < MinMatch THEN start3
                                ELSE start2 + short,
                     !.m0 = m0, !.m1 = m3, !.start2 = start2 + short]
            /\ Write(WithSequence(block, anchor, ip, m1), "second")
            /\ ip' = start3 /\ anchor' = endFirst
         \/ \* the third becomes the second
            /\ m3 # NoMatch /\ start3 < endFirst + 3 /\ start3 < endFirst
            /\ lazy' = [lazy EXCEPT !.start2 = start3, !.m2 = m3]
            /\ UNCHANGED <<coder, ip, anchor, block>>
         \/ \* three matches one after the other: the first is written
            /\ m3 # NoMatch /\ start3 >= endFirst + 3
            /\ LET overlap == start2 < endFirst
                   near == start2 - ip < OptimalLength
                   length == IF ~overlap THEN m1.len
                             ELSE IF near THEN Preferred(ip, m1, start2, m2)
                             ELSE start2 - ip
                   more == IF overlap /\ near
                           THEN Highest(0, length - (start2 - ip)) ELSE 0
               IN  /\ Write(WithSequence(block, anchor, ip, [m1 EXCEPT !.len = length]),
                            "third")
                   /\ anchor' = ip + length
                   /\ ip' = start2 + more
                   /\ lazy' = [lazy EXCEPT !.m1 = Later(m2, more),
                                           !.start2 = start3, !.m2 = m3]
  /\ LazyKeeps

-----------------------------------------------------------------------------
(* LZ4_decompress_generic, of a whole block into a picture of known size.  *)

Size == Len(block.bytes)
Byte(i) == block.bytes[i + 1]

\* read_variable_length: a run of full bytes, and the one that ends it.
ReadLength(nibble, at, limit, early) ==
  LET ends == {k \in at .. Size - 1 : Byte(k) # TopByte}
      last == Min(ends)
  IN  IF nibble # RunMask THEN [ok |-> TRUE, length |-> nibble, at |-> at]
      ELSE IF (early /\ at >= limit) \/ ends = {}
      THEN [ok |-> FALSE, length |-> 0, at |-> at]
      ELSE [ok |-> last + 1 <= limit, at |-> last + 1,
            length |-> RunMask + (last - at) * TopByte + Byte(last)]

\* A copy that may overlap itself, byte by byte.
Copied(bytes, offset, n) ==
  LET from == Len(bytes) - offset
  IN  bytes \o [i \in 1 .. n |-> bytes[from + ((i - 1) % offset) + 1]]

DecodeSequence ==
  LET token == Byte(restored.at)
      literals == ReadLength(token \div (RunMask + 1), restored.at + 1, Size - RunMask, TRUE)
      behind == literals.at + literals.length
      bytes == restored.bytes \o SubSeq(block.bytes, literals.at + 1, behind)
      last == \/ Len(restored.bytes) + literals.length > End - MFLimit
              \/ behind > Size - (2 + 1 + LastLiterals)
      offset == Byte(behind) + Bases * Byte(behind + 1)
      length == ReadLength(token % (RunMask + 1), behind + 2, Size - LastLiterals + 1, FALSE)
      n == length.length + MinMatch
      good == IF last THEN literals.ok /\ behind = Size /\ Len(bytes) <= End
              ELSE /\ literals.ok /\ length.ok
                   /\ offset \in 1 .. Len(bytes)
                   /\ Len(bytes) + n <= End - LastLiterals
  IN  /\ coder = "decoding"
      /\ coder' = IF ~good THEN "refused" ELSE IF last THEN "decoded" ELSE "decoding"
      /\ restored' = IF ~good THEN restored
                     ELSE IF last THEN [bytes |-> bytes, at |-> behind]
                     ELSE [bytes |-> Copied(bytes, offset, n), at |-> length.at]
      /\ UNCHANGED <<lz4Frames, input, ip, anchor, table, forward, match, lazy, block>>

BlockNext ==
  \/ CompressBlock \/ AdaptBlock \/ SendBlock \/ NextBlock
  \/ FirstByte \/ ProbeEnds \/ ProbeMisses \/ ProbeHits \/ WriteMatch \/ MatchAgain
  \/ ChainEnds \/ ChainSearch \/ SecondSearch \/ ThirdSearch
  \/ WriteLast
  \/ DecodeSequence

BlockSpec == BlockInit /\ [][BlockNext]_blockVars

-----------------------------------------------------------------------------
\* Types.
BlockTypeOK ==
  /\ coder \in {"idle", "first", "probe", "match", "again", "last", "chain", "second",
                "third", "written", "failed", "decoding", "decoded", "refused"}
  /\ lz4Frames \in 1 .. 6
  /\ input = <<>> \/ input \in Pictures
  /\ {ip, anchor, match} \subseteq 0 .. End
  /\ table \in [0 .. Buckets - 1 -> 0 .. End]

\* An encoder never writes past the capacity it was given, its strides included.
BlockInCapacity == block.touched <= End

\* What it returns is a block the decoder takes, and the picture that went in.
BlockDecodes ==
  /\ coder # "refused"
  /\ coder = "decoded" => restored.bytes = input

\* Whatever picture is compressed, no encoder writes past the buffer of the picture's size
\* CmdBlit gives it (groovymister.cpp:1083-1131), and a block that it makes there decodes to
\* the picture.
BlockRoundTrip == BlockInCapacity /\ BlockDecodes
=============================================================================
