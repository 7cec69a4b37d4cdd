----------------------------- MODULE FieldPacking -----------------------------
(***************************************************************************)
(* From a modeline somebody typed to the bytes of a field: the gate        *)
(* (ValidateModelineFor in renderer_nogpu.h) as SetModeline, StartStream   *)
(* and the mode switch use it, the byte count the client derives in        *)
(* CmdSwitchres, and nogpu_pack_frame, which writes a captured frame into  *)
(* the client's fixed buffer.  The stream options may change while a       *)
(* stream runs: it keeps those it was started with.                        *)
(***************************************************************************)
EXTENDS Naturals, FiniteSets

CONSTANTS
  BufferBytes,     \* BUFFER_SIZE
  EnvelopeWidth,   \* CRT_ENVELOPE_WIDTH
  EnvelopeHeight,  \* CRT_ENVELOPE_HEIGHT
  Widths,          \* active widths a modeline may have
  Heights          \* active heights a modeline may have

ASSUME PackingAssumption ==
  /\ {BufferBytes, EnvelopeWidth, EnvelopeHeight} \subseteq Nat
  /\ Widths \subseteq Nat /\ Heights \subseteq Nat

RgbModes == {"rgb888", "rgba8888", "rgb565"}

\* encloses: the pixel clock is positive and the blanking encloses the active area.
Modelines ==
  [hactive : Widths, vactive : Heights, interlace : BOOLEAN, encloses : BOOLEAN]

OptionSets == [rgbMode : RgbModes, oversize : BOOLEAN]

NoModeline == [hactive |-> 0, vactive |-> 0, interlace |-> FALSE, encloses |-> FALSE]

VARIABLES
  config,    \* stream_config
  selected,  \* selected_modeline
  session,   \* m_options of the stream, or none
  mode,      \* m_current_mode
  rgbSize,   \* m_RGBSize of the client
  packed     \* history: the field packed last

packingVars == <<config, selected, session, mode, rgbSize, packed>>

BytesPerPixel(rgbMode) ==
  CASE rgbMode = "rgba8888" -> 4
    [] rgbMode = "rgb565" -> 2
    [] rgbMode = "rgb888" -> 3

NoStream == [on |-> FALSE, rgbMode |-> "rgb888", oversize |-> FALSE]
NoField == [rows |-> <<>>, columns |-> 0, bytes |-> 0, field |-> 0, height |-> 0]

-----------------------------------------------------------------------------
(* The gate.                                                               *)

WellFormed(m) ==
  /\ m.encloses
  /\ m.hactive > 0 /\ m.vactive > 0
  /\ m.interlace => m.vactive % 2 = 0

PictureBytes(m, rgbMode) ==
  LET bytes == m.hactive * m.vactive * BytesPerPixel(rgbMode)
  IN  IF m.interlace THEN bytes \div 2 ELSE bytes

InEnvelope(m) == m.hactive <= EnvelopeWidth /\ m.vactive <= EnvelopeHeight

\* ValidateModelineFor says ModelineOk.
Accepts(m, options) ==
  /\ WellFormed(m)
  /\ PictureBytes(m, options.rgbMode) <= BufferBytes
  /\ options.oversize \/ InEnvelope(m)

-----------------------------------------------------------------------------
(* The calls.                                                              *)

PackingInit ==
  /\ config = [rgbMode |-> "rgb888", oversize |-> FALSE]
  /\ selected = NoModeline
  /\ session = NoStream
  /\ mode = NoModeline /\ rgbSize = 0
  /\ packed = NoField

\* Nothing keeps the options from changing while a stream runs (a save file is loaded),
\* or from refusing the modeline that is selected.
SetStreamOptions ==
  /\ config' \in OptionSets
  /\ UNCHANGED <<selected, session, mode, rgbSize, packed>>

ChooseModeline ==
  /\ \E m \in Modelines : Accepts(m, config) /\ selected' = m
  /\ UNCHANGED <<config, session, mode, rgbSize, packed>>

StartStream ==
  /\ ~session.on
  /\ Accepts(selected, config)
  /\ session' = [on |-> TRUE, rgbMode |-> config.rgbMode, oversize |-> config.oversize]
  /\ mode' = NoModeline /\ rgbSize' = 0 /\ packed' = NoField
  /\ UNCHANGED <<config, selected>>

EndStream ==
  /\ session.on
  /\ session' = NoStream
  /\ mode' = NoModeline /\ rgbSize' = 0 /\ packed' = NoField
  /\ UNCHANGED <<config, selected>>

-----------------------------------------------------------------------------
(* The stream worker.                                                      *)

\* m_RGBSize, as CmdSwitchres computes it.
ClientBytes(m, rgbMode) ==
  LET pixels == m.hactive * m.vactive
      whole == CASE rgbMode = "rgba8888" -> pixels * 4
                 [] rgbMode = "rgb565" -> pixels * 2
                 [] OTHER -> pixels * 3
  IN  IF m.interlace THEN whole \div 2 ELSE whole

\* A wrong version: the mode is asked of the options of now.
SwitchGateNow == Accepts(selected, config)

\* The mode switch asks again, with the options of the stream.
SwitchGate == Accepts(selected, session)

SwitchMode ==
  /\ session.on
  /\ mode # selected
  /\ SwitchGate
  /\ mode' = selected
  /\ rgbSize' = ClientBytes(selected, session.rgbMode)
  /\ packed' = NoField
  /\ UNCHANGED <<config, selected, session>>

\* m_height.
FieldHeight(m) == IF m.interlace THEN m.vactive \div 2 ELSE m.vactive

\* Field 0 takes the odd rows.
SourceRow(m, field, y) ==
  IF m.interlace THEN 2 * y + (IF field = 0 THEN 1 ELSE 0) ELSE y

Least(a, b) == IF a < b THEN a ELSE b

\* nogpu_pack_frame, of a capture that may be of another size: the modeline changed, and
\* the capture worker has not followed.  Row y of the field is row rows[y] of the capture.
PackFrame(field, width, height) ==
  LET bytes == mode.hactive * FieldHeight(mode) * BytesPerPixel(session.rgbMode)
  IN  /\ session.on
      /\ mode = selected
      /\ ~mode.interlace => field = 0
      /\ bytes > 0 /\ bytes <= BufferBytes
      /\ packed' =
           [rows |-> [y \in 0 .. FieldHeight(mode) - 1 |->
                        Least(SourceRow(mode, field, y), height - 1)],
            columns |-> Least(mode.hactive, width),
            bytes |-> bytes, field |-> field, height |-> height]
      /\ UNCHANGED <<config, selected, session, mode, rgbSize>>

PackField ==
  \E field \in {0, 1}, width \in Widths \ {0}, height \in Heights \ {0} :
    PackFrame(field, width, height)

PackingNext ==
  \/ SetStreamOptions \/ ChooseModeline \/ StartStream \/ EndStream
  \/ SwitchMode \/ PackField

PackingSpec == PackingInit /\ [][PackingNext]_packingVars

-----------------------------------------------------------------------------
\* Types.
PackingTypeOK ==
  /\ config \in OptionSets
  /\ selected \in Modelines \cup {NoModeline} /\ mode \in Modelines \cup {NoModeline}
  /\ session \in [on : BOOLEAN, rgbMode : RgbModes, oversize : BOOLEAN]
  /\ rgbSize \in Nat /\ packed.bytes \in Nat /\ packed.field \in {0, 1}

\* A mode in force gives a field that is not empty and fits the client's buffer, of the
\* size the client sends.
ModeFits ==
  mode # NoModeline =>
    /\ rgbSize \in 1 .. BufferBytes
    /\ rgbSize = mode.hactive * FieldHeight(mode) * BytesPerPixel(session.rgbMode)

\* A packed field is as large as the client's count, and read inside of the capture.
FieldInBounds ==
  packed # NoField =>
    /\ packed.bytes = rgbSize
    /\ packed.columns <= mode.hactive
    /\ \A y \in DOMAIN packed.rows : packed.rows[y] < packed.height

\* Of a capture of the mode's own height, one field takes every other row, and the two
\* fields take them all.
FieldsInterleave ==
  packed # NoField /\ packed.height = mode.vactive =>
    {packed.rows[y] : y \in DOMAIN packed.rows} =
      {r \in 0 .. mode.vactive - 1 : mode.interlace => r % 2 # packed.field}

\* Whatever modelines are typed and whatever the options become meanwhile, each field is
\* written inside the client's buffer and read inside the capture, is as long as the client
\* says, and with the other field covers the picture (renderer_nogpu.h:90-114, 237-306,
\* groovymister.cpp:879-886).
PackingSafe == ModeFits /\ FieldInBounds /\ FieldsInterleave
=============================================================================
