----------------------------- MODULE FrameProof -----------------------------
(***************************************************************************)
(* Proofs about the way of a frame: CaptureBuffers, for every number of    *)
(* strips, every set of modelines and every bound on the frames;           *)
(* FieldPacking, for every size of buffer and envelope and all widths and  *)
(* heights a modeline may have; FrontEnd, for every set of modelines,      *)
(* presets, options and windows, every gate and any number of events.  At  *)
(* the end the parts of MCFrame, the codecs' proofs among them, are put    *)
(* together.                                                               *)
(***************************************************************************)
EXTENDS MCFrame, BlockProof

-----------------------------------------------------------------------------
(* The buffers between the two workers.                                    *)

\* The capture worker never holds the published buffer: one bump from the
\* published index, or two, never comes back to it.
WriterSkipsPublished == Writing => wnext # published

\* What the capture worker has copied so far.
CopySoFar ==
  /\ wpc = "copy" =>
       /\ \A s \in 1 .. wrow - 1 : buffers[wnext].strips[s] = wseq + 1
       /\ buffers[wnext].size = buffers[wnext].w * buffers[wnext].h
  /\ wpc = "publish" =>
       /\ \A s \in StripIndex : buffers[wnext].strips[s] = wseq + 1
       /\ buffers[wnext].size = buffers[wnext].w * buffers[wnext].h

\* activeReadIndex says exactly which buffer the stream worker has open.
LeaseNamesReader == lease = IF Reading THEN ridx ELSE NoLease

\* A lease taken on the still-published buffer keeps the writer away, and the
\* buffer holds the frame that was the newest when the lease was taken.
FreshLease ==
  Reading /\ fresh =>
    /\ Writing => wnext # ridx
    /\ \A s \in StripIndex : buffers[ridx].strips[s] = rseq

\* What the stream worker has packed so far.
PackSoFar ==
  /\ rpc = "pack" /\ fresh => \A s \in 1 .. rrow - 1 : rframe[s] = rseq
  /\ rpc = "packed" /\ fresh => \A s \in StripIndex : rframe[s] = rseq

IInv ==
  /\ TypeOK
  /\ WriterSkipsPublished
  /\ PublishedWhole
  /\ CopySoFar
  /\ LeaseNamesReader
  /\ FreshLease
  /\ PackSoFar

-----------------------------------------------------------------------------
\* Advancing round the three buffers.
LEMMA NextIndex ==
  ASSUME NEW b \in BufferIndex
  PROVE  /\ (b + 1) % BUFFER_COUNT \in BufferIndex
         /\ (b + 1) % BUFFER_COUNT # b
         /\ (((b + 1) % BUFFER_COUNT) + 1) % BUFFER_COUNT \in BufferIndex
         /\ (((b + 1) % BUFFER_COUNT) + 1) % BUFFER_COUNT # b
         /\ (((b + 1) % BUFFER_COUNT) + 1) % BUFFER_COUNT # ((b + 1) % BUFFER_COUNT)
<1>1. b \in {0, 1, 2}
  BY DEF BufferIndex, BUFFER_COUNT
<1> QED
  BY <1>1 DEF BufferIndex, BUFFER_COUNT

\* The area of a picture is a natural number.
LEMMA AreaIsNat ==
  ASSUME NEW w \in Nat, NEW h \in Nat
  PROVE  w * h \in Nat
OBVIOUS

LEMMA InitIInv == Init => IInv
<1> SUFFICES ASSUME Init PROVE IInv
  OBVIOUS
<1> USE StripsAssumption, ModesAssumption
<1>1. TypeOK
  <2>1. DefaultMode \in [w : Nat \ {0}, h : Nat \ {0}]
    OBVIOUS
  <2>2. outWidth \in Nat /\ outHeight \in Nat
    BY <2>1 DEF Init
  <2>3. EmptyBitmap \in Bitmap
    BY DEF EmptyBitmap, Bitmap
  <2>4. buffers \in [BufferIndex -> Bitmap]
    BY <2>3 DEF Init
  <2>5. wgeo \in [w : Nat, h : Nat] /\ rframe \in [StripIndex -> Nat]
    BY DEF Init, NoMode
  <2>6. 0 \in BufferIndex /\ 1 \in StripIndex
    BY DEF BufferIndex, BUFFER_COUNT, StripIndex
  <2> QED
    BY <2>2, <2>4, <2>5, <2>6 DEF Init, TypeOK
<1>2. PublishedWhole
  BY DEF Init, PublishedWhole, EmptyBitmap, BufferIndex, BUFFER_COUNT, StripIndex
<1>3. /\ WriterSkipsPublished
      /\ CopySoFar
      /\ LeaseNamesReader
      /\ FreshLease
      /\ PackSoFar
  BY DEF Init, WriterSkipsPublished, Writing, CopySoFar, LeaseNamesReader, Reading,
         FreshLease, PackSoFar
<1> QED
  BY <1>1, <1>2, <1>3 DEF IInv

LEMMA StepTypeOK == TypeOK /\ [Next]_vars => TypeOK'
<1> SUFFICES ASSUME TypeOK, [Next]_vars PROVE TypeOK'
  OBVIOUS
<1> USE StripsAssumption, ModesAssumption
    DEF TypeOK, modeVars, writerVars, readerVars
<1>1. ASSUME NEW m \in Modes, SetOutputWidth(m) PROVE TypeOK'
  BY <1>1 DEF SetOutputWidth
<1>2. ASSUME SetOutputHeight PROVE TypeOK'
  BY <1>2 DEF SetOutputHeight, NoMode
<1>3. ASSUME SampleWidth PROVE TypeOK'
  BY <1>3 DEF SampleWidth
<1>4. ASSUME SampleHeight PROVE TypeOK'
  BY <1>4 DEF SampleHeight
<1>5. ASSUME PickBuffer PROVE TypeOK'
  BY <1>5, NextIndex DEF PickBuffer
<1>6. ASSUME AbandonFrame PROVE TypeOK'
  BY <1>6 DEF AbandonFrame
<1>7. ASSUME ResizeBuffer PROVE TypeOK'
  <2>1. /\ wgeo.w \in Nat /\ wgeo.h \in Nat
        /\ buffers[wnext] \in Bitmap
    OBVIOUS
  <2>2. wgeo.w * wgeo.h \in Nat
    BY <2>1, AreaIsNat
  <2>3. [buffers[wnext] EXCEPT !.w = wgeo.w, !.h = wgeo.h, !.size = wgeo.w * wgeo.h]
          \in Bitmap
    BY <2>1, <2>2 DEF Bitmap
  <2>4. buffers' \in [BufferIndex -> Bitmap]
    BY <1>7, <2>3 DEF ResizeBuffer
  <2>5. 1 \in StripIndex
    BY DEF StripIndex
  <2> QED
    BY <1>7, <2>4, <2>5 DEF ResizeBuffer
<1>8. ASSUME CopyStrip PROVE TypeOK'
  <2>1. [buffers[wnext] EXCEPT !.strips[wrow] = wseq + 1] \in Bitmap
    BY DEF Bitmap
  <2>2. buffers' \in [BufferIndex -> Bitmap]
    BY <1>8, <2>1 DEF CopyStrip
  <2>3. wrow' \in StripIndex
    BY <1>8 DEF CopyStrip, StripIndex
  <2> QED
    BY <1>8, <2>2, <2>3 DEF CopyStrip
<1>9. ASSUME PublishFrame PROVE TypeOK'
  BY <1>9 DEF PublishFrame
<1>10. ASSUME LoadIndex PROVE TypeOK'
  BY <1>10 DEF LoadIndex
<1>11. ASSUME TakeLease PROVE TypeOK'
  BY <1>11 DEF TakeLease
<1>12. ASSUME RejectFrame PROVE TypeOK'
  BY <1>12 DEF RejectFrame
<1>13. ASSUME AcceptFrame PROVE TypeOK'
  BY <1>13 DEF AcceptFrame, StripIndex
<1>14. ASSUME PackStrip PROVE TypeOK'
  <2>1. buffers[ridx].strips[rrow] \in Nat
    BY DEF Bitmap
  <2>2. rrow' \in StripIndex
    BY <1>14 DEF PackStrip, StripIndex
  <2> QED
    BY <1>14, <2>1, <2>2 DEF PackStrip
<1>15. ASSUME DropLease PROVE TypeOK'
  BY <1>15 DEF DropLease
<1>16. CASE UNCHANGED vars
  BY <1>16 DEF vars
<1> QED
  BY <1>1, <1>2, <1>3, <1>4, <1>5, <1>6, <1>7, <1>8, <1>9, <1>10, <1>11, <1>12, <1>13, <1>14,
     <1>15, <1>16 DEF Next, Writer, Reader

\* The invariant minus the typing.
Core ==
  /\ WriterSkipsPublished
  /\ PublishedWhole
  /\ CopySoFar
  /\ LeaseNamesReader
  /\ FreshLease
  /\ PackSoFar

LEMMA StepCore == IInv /\ TypeOK' /\ [Next]_vars => Core'
<1> SUFFICES ASSUME IInv, TypeOK', [Next]_vars PROVE Core'
  OBVIOUS
<1> USE StripsAssumption
    DEF IInv, Core, WriterSkipsPublished, PublishedWhole, CopySoFar,
        LeaseNamesReader, FreshLease, PackSoFar, Writing, Reading,
        modeVars, writerVars, readerVars
<1>t. /\ published \in BufferIndex /\ wnext \in BufferIndex /\ ridx \in BufferIndex
      /\ buffers \in [BufferIndex -> Bitmap]
      /\ wrow \in StripIndex /\ rrow \in StripIndex
      /\ rframe \in [StripIndex -> Nat]
      /\ wseq \in Nat /\ rseq \in Nat
      /\ NoLease \notin BufferIndex
  <2>1. NoLease \notin BufferIndex
    BY DEF NoLease, BufferIndex, BUFFER_COUNT
  <2> QED
    BY <2>1 DEF TypeOK
<1>1. ASSUME NEW m \in Modes, SetOutputWidth(m) PROVE Core'
  BY <1>1 DEF SetOutputWidth
<1>2. ASSUME SetOutputHeight PROVE Core'
  BY <1>2 DEF SetOutputHeight
<1>3. ASSUME SampleWidth PROVE Core'
  BY <1>3 DEF SampleWidth
<1>4. ASSUME SampleHeight PROVE Core'
  BY <1>4 DEF SampleHeight
<1>5. ASSUME PickBuffer PROVE Core'
  <2>1. wnext' # published /\ wnext' # lease
    BY <1>t, <1>5, NextIndex DEF PickBuffer
  <2> QED
    BY <1>5, <2>1 DEF PickBuffer
<1>6. ASSUME AbandonFrame PROVE Core'
  BY <1>6 DEF AbandonFrame
<1>7. ASSUME ResizeBuffer PROVE Core'
  <2>1. \A b \in BufferIndex :
          /\ buffers'[b].strips = buffers[b].strips
          /\ b # wnext => buffers'[b] = buffers[b]
    BY <1>t, <1>7 DEF ResizeBuffer, Bitmap
  <2>2. buffers'[wnext].size = buffers'[wnext].w * buffers'[wnext].h
    BY <1>t, <1>7 DEF ResizeBuffer, Bitmap
  <2>3. PublishedWhole'
    BY <1>t, <1>7, <2>1 DEF ResizeBuffer
  <2>4. CopySoFar'
    BY <1>t, <1>7, <2>2 DEF ResizeBuffer
  <2>5. FreshLease'
    BY <1>t, <1>7, <2>1 DEF ResizeBuffer
  <2> QED
    BY <1>7, <2>3, <2>4, <2>5 DEF ResizeBuffer
<1>8. ASSUME CopyStrip PROVE Core'
  <2>1. \A b \in BufferIndex : b # wnext => buffers'[b] = buffers[b]
    BY <1>t, <1>8 DEF CopyStrip
  <2>2. /\ buffers'[wnext].w = buffers[wnext].w
        /\ buffers'[wnext].h = buffers[wnext].h
        /\ buffers'[wnext].size = buffers[wnext].size
    BY <1>t, <1>8 DEF CopyStrip, Bitmap
  <2>3. /\ buffers'[wnext].strips[wrow] = wseq + 1
        /\ \A s \in StripIndex :
             s # wrow => buffers'[wnext].strips[s] = buffers[wnext].strips[s]
    BY <1>t, <1>8 DEF CopyStrip, Bitmap
  <2>4. \A s \in 1 .. wrow : buffers'[wnext].strips[s] = wseq + 1
    BY <1>t, <1>8, <2>3 DEF CopyStrip, StripIndex
  <2>5. PublishedWhole'
    BY <1>t, <1>8, <2>1 DEF CopyStrip
  <2>6. CopySoFar'
    BY <1>t, <1>8, <2>2, <2>4 DEF CopyStrip, StripIndex
  <2>7. FreshLease'
    BY <1>t, <1>8, <2>1 DEF CopyStrip
  <2> QED
    BY <1>8, <2>5, <2>6, <2>7 DEF CopyStrip
<1>9. ASSUME PublishFrame PROVE Core'
  BY <1>t, <1>9 DEF PublishFrame
<1>10. ASSUME LoadIndex PROVE Core'
  BY <1>10 DEF LoadIndex
<1>11. ASSUME TakeLease PROVE Core'
  <2>1. FreshLease'
    BY <1>t, <1>11 DEF TakeLease
  <2> QED
    BY <1>t, <1>11, <2>1 DEF TakeLease
<1>12. ASSUME RejectFrame PROVE Core'
  BY <1>12 DEF RejectFrame
<1>13. ASSUME AcceptFrame PROVE Core'
  BY <1>13 DEF AcceptFrame
<1>14. ASSUME PackStrip PROVE Core'
  <2>1. fresh => buffers[ridx].strips[rrow] = rseq
    BY <1>t, <1>14 DEF PackStrip
  <2>2. /\ rframe'[rrow] = buffers[ridx].strips[rrow]
        /\ \A s \in StripIndex : s # rrow => rframe'[s] = rframe[s]
    BY <1>t, <1>14 DEF PackStrip
  <2>3. fresh => \A s \in 1 .. rrow : rframe'[s] = rseq
    BY <1>t, <1>14, <2>1, <2>2 DEF PackStrip, StripIndex
  <2>4. PackSoFar'
    BY <1>t, <1>14, <2>3 DEF PackStrip, StripIndex
  <2> QED
    BY <1>14, <2>4 DEF PackStrip
<1>15. ASSUME DropLease PROVE Core'
  BY <1>15 DEF DropLease
<1>16. CASE UNCHANGED vars
  BY <1>16 DEF vars
<1> QED
  BY <1>1, <1>2, <1>3, <1>4, <1>5, <1>6, <1>7, <1>8, <1>9, <1>10, <1>11, <1>12,
     <1>13, <1>14, <1>15, <1>16 DEF Next, Writer, Reader

THEOREM InductiveInvariant == Spec => []IInv
<1>1. IInv /\ [Next]_vars => IInv'
  BY StepTypeOK, StepCore DEF IInv, Core
<1> QED
  BY InitIInv, <1>1, PTL DEF Spec

\* Every variable keeps its type, in particular every index stays within the
\* three buffers.
THEOREM TypeCorrect == Spec => []TypeOK
<1>1. IInv => TypeOK
  BY DEF IInv
<1> QED
  BY <1>1, InductiveInvariant, PTL

\* The published buffer is always whole (VideoCapture.h:756-789).
THEOREM PublishedIsWhole == Spec => []PublishedWhole
<1>1. IInv => PublishedWhole
  BY DEF IInv
<1> QED
  BY <1>1, InductiveInvariant, PTL

\* A frame packed under a lease taken on the still-published buffer is the
\* newest published frame, row for row (renderer_nogpu.h:245-247).
THEOREM LeasedFrameNewest == Spec => []LeasedFrameIsNewest
<1>1. IInv => LeasedFrameIsNewest
  BY DEF IInv, PackSoFar, LeasedFrameIsNewest
<1> QED
  BY <1>1, InductiveInvariant, PTL

\* Under such a lease no step of any thread changes the leased buffer
\* (VideoCapture.h:756-774).
THEOREM LeaseStable == Spec => LeasedBufferStable
<1>1. IInv /\ [Next]_vars =>
        [Reading /\ fresh => buffers'[ridx] = buffers[ridx]]_vars
  <2> SUFFICES ASSUME IInv, [Next]_vars, Reading, fresh
               PROVE  buffers'[ridx] = buffers[ridx]
    OBVIOUS
  <2>1. /\ Writing => wnext # ridx
        /\ ridx \in BufferIndex /\ wnext \in BufferIndex
        /\ buffers \in [BufferIndex -> Bitmap]
    BY DEF IInv, FreshLease, TypeOK
  <2>2. CASE ResizeBuffer
    BY <2>1, <2>2 DEF ResizeBuffer, Writing
  <2>3. CASE CopyStrip
    BY <2>1, <2>3 DEF CopyStrip, Writing
  <2>4. CASE buffers' = buffers
    BY <2>4
  <2>5. ResizeBuffer \/ CopyStrip \/ buffers' = buffers
    BY DEF Next, Writer, Reader, SetOutputWidth, SetOutputHeight, SampleWidth,
           SampleHeight, PickBuffer, AbandonFrame, PublishFrame, LoadIndex,
           TakeLease, RejectFrame, AcceptFrame, PackStrip, DropLease, vars
  <2> QED
    BY <2>2, <2>3, <2>4, <2>5
<1> QED
  BY <1>1, InductiveInvariant, PTL DEF Spec, LeasedBufferStable

-----------------------------------------------------------------------------
(* Every field is packed inside the client's buffer and read inside the    *)
(* capture.                                                                *)

(* The field nogpu_pack_frame leaves. *)
FieldOf(m, rgbMode, field, width, height) ==
  [rows |-> [y \in 0 .. FieldHeight(m) - 1 |-> Least(SourceRow(m, field, y), height - 1)],
   columns |-> Least(m.hactive, width),
   bytes |-> m.hactive * FieldHeight(m) * BytesPerPixel(rgbMode),
   field |-> field, height |-> height]

TypeInv ==
  /\ config \in OptionSets
  /\ selected \in Modelines \cup {NoModeline}
  /\ mode \in Modelines \cup {NoModeline}
  /\ session \in [on : BOOLEAN, rgbMode : RgbModes, oversize : BOOLEAN]

(* The mode in force passed the gate with the options of this stream. *)
ModeAccepted ==
  /\ mode # NoModeline =>
       Accepts(mode, session) /\ rgbSize = ClientBytes(mode, session.rgbMode)
  /\ mode = NoModeline => rgbSize = 0

(* The field packed last is one of the mode in force. *)
FieldOfMode ==
  packed # NoField =>
    /\ mode # NoModeline
    /\ \E field \in {0, 1}, width \in Nat \ {0}, height \in Nat \ {0} :
         /\ ~mode.interlace => field = 0
         /\ packed = FieldOf(mode, session.rgbMode, field, width, height)

PackingInv == TypeInv /\ ModeAccepted /\ FieldOfMode

-----------------------------------------------------------------------------
(* A pixel has two to four bytes. *)
LEMMA PixelBytes == \A r \in RgbModes : BytesPerPixel(r) \in 2 .. 4
  BY DEF RgbModes, BytesPerPixel

(* An even product is halved where its even factor is. *)
LEMMA HalfOfEven ==
  ASSUME NEW h \in Nat, NEW v \in Nat, NEW b \in Nat, v % 2 = 0
  PROVE  (h * v * b) \div 2 = h * (v \div 2) * b
  <1> DEFINE k == v \div 2
  <1>1. k \in Nat /\ v = 2 * k
    OBVIOUS
  <1> HIDE DEF k
  <1>2. h * k * b \in Nat
    BY <1>1
  <1>3. h * v * b = 2 * (h * k * b)
    BY <1>1
  <1>4. \A n \in Nat : (2 * n) \div 2 = n
    OBVIOUS
  <1>5. (h * v * b) \div 2 = h * k * b
    BY <1>2, <1>3, <1>4
  <1> QED
    BY <1>5 DEF k

(* What is known of a modeline the gate accepted: it is not the empty one, and three ways *)
(* to count its bytes agree.                                                              *)
LEMMA AcceptedFits ==
  ASSUME NEW m \in Modelines \cup {NoModeline}, NEW o, o.rgbMode \in RgbModes, Accepts(m, o)
  PROVE  /\ m \in Modelines /\ m.hactive \in Nat \ {0} /\ m.vactive \in Nat \ {0}
         /\ FieldHeight(m) \in Nat \ {0}
         /\ ClientBytes(m, o.rgbMode) = m.hactive * FieldHeight(m) * BytesPerPixel(o.rgbMode)
         /\ ClientBytes(m, o.rgbMode) \in 1 .. BufferBytes
  <1> DEFINE b == BytesPerPixel(o.rgbMode)
             h == m.hactive
             v == m.vactive
  <1>1. b \in 2 .. 4
    BY PixelBytes
  <1>2. m.interlace \in BOOLEAN /\ h \in Nat /\ v \in Nat
    <2>1. CASE m \in Modelines
      <3>1. m.interlace \in BOOLEAN /\ h \in Widths /\ v \in Heights
        BY <2>1 DEF Modelines
      <3> QED
        BY <3>1, PackingAssumption
    <2>2. CASE m = NoModeline
      <3>1. m.interlace \in BOOLEAN
        BY <2>2, Zenon DEF NoModeline
      <3>2. h = 0 /\ v = 0
        BY <2>2 DEF NoModeline
      <3> QED
        BY <3>1, <3>2
    <2> QED
      BY <2>1, <2>2
  <1>3. h > 0 /\ v > 0 /\ (m.interlace => v % 2 = 0) /\ PictureBytes(m, o.rgbMode) <= BufferBytes
    BY DEF Accepts, WellFormed
  <1>4. m \in Modelines
    BY <1>3 DEF NoModeline
  <1>5. FieldHeight(m) \in Nat \ {0}
    BY <1>2, <1>3 DEF FieldHeight
  <1>6. ClientBytes(m, o.rgbMode) = PictureBytes(m, o.rgbMode)
    BY <1>1, <1>2 DEF ClientBytes, PictureBytes, BytesPerPixel, RgbModes
  <1>7. PictureBytes(m, o.rgbMode) = h * FieldHeight(m) * b
    <2>1. CASE m.interlace
      <3>1. PictureBytes(m, o.rgbMode) = (h * v * b) \div 2 /\ FieldHeight(m) = v \div 2
        BY <2>1 DEF PictureBytes, FieldHeight
      <3>2. (h * v * b) \div 2 = h * (v \div 2) * b
        BY <1>1, <1>2, <1>3, <2>1, HalfOfEven
      <3> HIDE DEF h, v, b
      <3> QED
        BY <3>1, <3>2
    <2>2. CASE ~m.interlace
      BY <2>2 DEF PictureBytes, FieldHeight
    <2> QED
      BY <1>2, <2>1, <2>2
  <1>8. h * FieldHeight(m) * b \in Nat \ {0}
    <2> HIDE DEF h, b
    <2>1. \A x, y, z \in Nat \ {0} : x * y * z \in Nat \ {0}
      OBVIOUS
    <2>2. h \in Nat \ {0} /\ b \in Nat \ {0}
      BY <1>1, <1>2, <1>3
    <2> QED
      BY <2>1, <2>2, <1>5
  <1>9. BufferBytes \in Nat
    BY PackingAssumption
  <1> QED
    BY <1>2, <1>3, <1>4, <1>5, <1>6, <1>7, <1>8, <1>9

-----------------------------------------------------------------------------
LEMMA PackingInvInit == PackingInit => PackingInv
  BY DEF PackingInit, PackingInv, TypeInv, ModeAccepted, FieldOfMode, OptionSets, RgbModes,
         NoStream

LEMMA PackingInvStep == PackingInv /\ [PackingNext]_packingVars => PackingInv'
  <1> SUFFICES ASSUME PackingInv, [PackingNext]_packingVars PROVE PackingInv'
    OBVIOUS
  <1> USE DEF PackingInv
  <1>1. CASE SetStreamOptions
    <2>1. TypeInv'
      BY <1>1 DEF SetStreamOptions, TypeInv
    <2>2. ModeAccepted'
      BY <1>1 DEF SetStreamOptions, ModeAccepted
    <2>3. FieldOfMode'
      BY <1>1 DEF SetStreamOptions, FieldOfMode
    <2> QED
      BY <2>1, <2>2, <2>3
  <1>2. CASE ChooseModeline
    <2>1. TypeInv'
      BY <1>2 DEF ChooseModeline, TypeInv
    <2>2. ModeAccepted'
      BY <1>2 DEF ChooseModeline, ModeAccepted
    <2>3. FieldOfMode'
      BY <1>2 DEF ChooseModeline, FieldOfMode
    <2> QED
      BY <2>1, <2>2, <2>3
  <1>3. CASE StartStream
    <2>1. TypeInv'
      BY <1>3 DEF StartStream, TypeInv, OptionSets
    <2>2. ModeAccepted' /\ FieldOfMode'
      BY <1>3 DEF StartStream, ModeAccepted, FieldOfMode
    <2> QED
      BY <2>1, <2>2
  <1>4. CASE EndStream
    <2>1. TypeInv'
      BY <1>4 DEF EndStream, TypeInv, NoStream, RgbModes
    <2>2. ModeAccepted' /\ FieldOfMode'
      BY <1>4 DEF EndStream, ModeAccepted, FieldOfMode
    <2> QED
      BY <2>1, <2>2
  <1>5. CASE SwitchMode
    <2>1. TypeInv'
      BY <1>5 DEF SwitchMode, TypeInv
    <2>2. ModeAccepted'
      <3>1. Accepts(selected, session) /\ mode' = selected /\ session' = session
            /\ rgbSize' = ClientBytes(selected, session.rgbMode)
        BY <1>5 DEF SwitchMode, SwitchGate
      <3>2. selected # NoModeline
        BY <3>1 DEF Accepts, WellFormed, NoModeline
      <3> QED
        BY <3>1, <3>2 DEF ModeAccepted
    <2>3. FieldOfMode'
      BY <1>5 DEF SwitchMode, FieldOfMode
    <2> QED
      BY <2>1, <2>2, <2>3
  <1>6. CASE PackField
    <2>1. PICK field \in {0, 1}, width \in Widths \ {0}, height \in Heights \ {0} :
            PackFrame(field, width, height)
      BY <1>6 DEF PackField
    <2>2. UNCHANGED <<config, selected, session, mode, rgbSize>>
      BY <2>1 DEF PackFrame
    <2>3. packed' = FieldOf(mode, session.rgbMode, field, width, height)
      BY <2>1 DEF PackFrame, FieldOf
    <2>4. width \in Nat \ {0} /\ height \in Nat \ {0}
      BY PackingAssumption
    <2>5. mode # NoModeline
      <3>1. ASSUME mode = NoModeline PROVE FALSE
        <4>1. mode.hactive = 0 /\ FieldHeight(mode) = 0
          BY <3>1 DEF NoModeline, FieldHeight
        <4>2. mode.hactive * FieldHeight(mode) * BytesPerPixel(session.rgbMode) > 0
          BY <2>1 DEF PackFrame
        <4>3. BytesPerPixel(session.rgbMode) \in Nat
          BY PixelBytes DEF TypeInv
        <4> QED
          BY <4>1, <4>2, <4>3
      <3> QED
        BY <3>1
    <2>6. ~mode.interlace => field = 0
      BY <2>1 DEF PackFrame
    <2>7. FieldOfMode'
      BY <2>2, <2>3, <2>4, <2>5, <2>6 DEF FieldOfMode
    <2>8. TypeInv' /\ ModeAccepted'
      BY <2>2 DEF TypeInv, ModeAccepted
    <2> QED
      BY <2>7, <2>8
  <1>7. CASE UNCHANGED packingVars
    BY <1>7 DEF packingVars, TypeInv, ModeAccepted, FieldOfMode
  <1> QED
    BY <1>1, <1>2, <1>3, <1>4, <1>5, <1>6, <1>7 DEF PackingNext

-----------------------------------------------------------------------------
(* What the invariant says of the three parts of PackingSafe. *)

LEMMA InvGivesFits == PackingInv => ModeFits
  <1> SUFFICES ASSUME PackingInv, mode # NoModeline
               PROVE  /\ rgbSize \in 1 .. BufferBytes
                      /\ rgbSize = mode.hactive * FieldHeight(mode) * BytesPerPixel(session.rgbMode)
    BY DEF ModeFits
  <1>1. mode \in Modelines \cup {NoModeline} /\ session.rgbMode \in RgbModes
    BY DEF PackingInv, TypeInv
  <1>2. Accepts(mode, session) /\ rgbSize = ClientBytes(mode, session.rgbMode)
    BY DEF PackingInv, ModeAccepted
  <1> QED
    BY <1>1, <1>2, AcceptedFits

(* Row by row: where a field is read. *)
LEMMA RowsRead ==
  ASSUME PackingInv, packed # NoField
  PROVE  \E field \in {0, 1}, width \in Nat \ {0}, height \in Nat \ {0} :
           /\ packed = FieldOf(mode, session.rgbMode, field, width, height)
           /\ ~mode.interlace => field = 0
           /\ \A y \in 0 .. FieldHeight(mode) - 1 :
                /\ SourceRow(mode, field, y) \in Nat
                /\ packed.rows[y] = Least(SourceRow(mode, field, y), height - 1)
  <1>1. PICK field \in {0, 1}, width \in Nat \ {0}, height \in Nat \ {0} :
          /\ ~mode.interlace => field = 0
          /\ packed = FieldOf(mode, session.rgbMode, field, width, height)
    BY DEF PackingInv, FieldOfMode
  <1>2. mode # NoModeline /\ Accepts(mode, session)
    BY DEF PackingInv, FieldOfMode, ModeAccepted
  <1>3. FieldHeight(mode) \in Nat \ {0}
    BY <1>2, AcceptedFits DEF PackingInv, TypeInv
  <1>4. \A y \in 0 .. FieldHeight(mode) - 1 : SourceRow(mode, field, y) \in Nat
    BY <1>3 DEF SourceRow
  <1>5. \A y \in 0 .. FieldHeight(mode) - 1 :
          packed.rows[y] = Least(SourceRow(mode, field, y), height - 1)
    BY <1>1 DEF FieldOf
  <1> QED
    BY <1>1, <1>4, <1>5

LEMMA InvGivesBounds == PackingInv => FieldInBounds
  <1> SUFFICES ASSUME PackingInv, packed # NoField
               PROVE  /\ packed.bytes = rgbSize
                      /\ packed.columns <= mode.hactive
                      /\ \A y \in DOMAIN packed.rows : packed.rows[y] < packed.height
    BY DEF FieldInBounds
  <1>1. PICK field \in {0, 1}, width \in Nat \ {0}, height \in Nat \ {0} :
          /\ packed = FieldOf(mode, session.rgbMode, field, width, height)
          /\ \A y \in 0 .. FieldHeight(mode) - 1 :
               /\ SourceRow(mode, field, y) \in Nat
               /\ packed.rows[y] = Least(SourceRow(mode, field, y), height - 1)
    BY RowsRead
  <1>2. mode # NoModeline
    BY DEF PackingInv, FieldOfMode
  <1>3. packed.bytes = rgbSize
    BY <1>1, <1>2, InvGivesFits DEF ModeFits, FieldOf
  <1>4. mode.hactive \in Nat
    BY <1>2, PackingAssumption DEF PackingInv, TypeInv, Modelines
  <1>5. packed.columns <= mode.hactive
    BY <1>1, <1>4 DEF FieldOf, Least
  <1>6. packed.height = height /\ DOMAIN packed.rows = 0 .. FieldHeight(mode) - 1
    BY <1>1 DEF FieldOf
  <1>7. \A r \in Nat : Least(r, height - 1) < height
    BY DEF Least
  <1>8. \A y \in DOMAIN packed.rows : packed.rows[y] < packed.height
    BY <1>1, <1>6, <1>7
  <1> QED
    BY <1>3, <1>5, <1>8

LEMMA InvGivesInterleave == PackingInv => FieldsInterleave
  <1> SUFFICES ASSUME PackingInv, packed # NoField, packed.height = mode.vactive
               PROVE  {packed.rows[y] : y \in DOMAIN packed.rows} =
                        {r \in 0 .. mode.vactive - 1 :
                           mode.interlace => r % 2 # packed.field}
    BY DEF FieldsInterleave
  <1>1. PICK field \in {0, 1}, width \in Nat \ {0}, height \in Nat \ {0} :
          /\ packed = FieldOf(mode, session.rgbMode, field, width, height)
          /\ ~mode.interlace => field = 0
          /\ \A y \in 0 .. FieldHeight(mode) - 1 :
               /\ SourceRow(mode, field, y) \in Nat
               /\ packed.rows[y] = Least(SourceRow(mode, field, y), height - 1)
    BY RowsRead
  <1> DEFINE v == mode.vactive
  <1>2. packed.field = field /\ height = v /\ DOMAIN packed.rows = 0 .. FieldHeight(mode) - 1
    BY <1>1 DEF FieldOf
  <1>3. v \in Nat \ {0} /\ mode.interlace \in BOOLEAN
    BY <1>2, PackingAssumption DEF PackingInv, TypeInv, Modelines, NoModeline
  <1>4. mode.interlace => v % 2 = 0
    BY DEF PackingInv, FieldOfMode, ModeAccepted, Accepts, WellFormed
  <1>5. CASE mode.interlace
    <2> DEFINE o == IF field = 0 THEN 1 ELSE 0
    <2>1. DOMAIN packed.rows = 0 .. v \div 2 - 1
      BY <1>2, <1>5 DEF FieldHeight
    <2>2. \A y \in DOMAIN packed.rows : packed.rows[y] = Least(2 * y + o, v - 1)
      BY <1>1, <1>2, <1>5 DEF SourceRow
    <2> HIDE DEF v
    <2>3. \A y \in DOMAIN packed.rows : packed.rows[y] = 2 * y + o
      <3>1. TAKE y \in DOMAIN packed.rows
      <3>2. y \in 0 .. v \div 2 - 1 /\ o \in {0, 1} /\ v % 2 = 0
        BY <1>4, <1>5, <2>1 DEF v
      <3>3. 2 * y + o <= v - 1 /\ 2 * y + o \in Nat
        BY <1>3, <3>2
      <3> HIDE DEF o
      <3>4. ~(v - 1 < 2 * y + o) /\ (2 * y + o < v - 1 \/ 2 * y + o = v - 1)
        BY <1>3, <3>2, <3>3
      <3>5. Least(2 * y + o, v - 1) = 2 * y + o
        BY <3>4 DEF Least
      <3> QED
        BY <2>2, <3>5
    <2>4. \A y \in 0 .. v \div 2 - 1 :
            2 * y + o \in 0 .. v - 1 /\ (2 * y + o) % 2 # field
      BY <1>3, <1>4, <1>5
    <2>5. \A r \in 0 .. v - 1 : r % 2 # field =>
            r \div 2 \in 0 .. v \div 2 - 1 /\ r = 2 * (r \div 2) + o
      BY <1>3, <1>4, <1>5
    <2> HIDE DEF o
    <2>6. \A y \in DOMAIN packed.rows :
            packed.rows[y] \in 0 .. v - 1 /\ packed.rows[y] % 2 # field
      BY <2>1, <2>3, <2>4
    <2>7. \A r \in 0 .. v - 1 : r % 2 # field =>
            \E y \in DOMAIN packed.rows : packed.rows[y] = r
      <3>1. TAKE r \in 0 .. v - 1
      <3>2. HAVE r % 2 # field
      <3>3. r \div 2 \in DOMAIN packed.rows /\ r = 2 * (r \div 2) + o
        BY <2>1, <2>5, <3>2
      <3> QED
        BY <2>3, <3>3
    <2>8. {packed.rows[y] : y \in DOMAIN packed.rows} = {r \in 0 .. v - 1 : r % 2 # field}
      BY <2>6, <2>7
    <2> QED
      BY <1>2, <1>5, <2>8 DEF v
  <1>6. CASE ~mode.interlace
    <2>1. DOMAIN packed.rows = 0 .. v - 1
      BY <1>2, <1>6 DEF FieldHeight
    <2>2. \A y \in DOMAIN packed.rows : packed.rows[y] = Least(y, v - 1)
      BY <1>1, <1>2, <1>6 DEF SourceRow
    <2>3. \A y \in DOMAIN packed.rows : packed.rows[y] = y
      BY <1>3, <2>1, <2>2 DEF Least
    <2> QED
      BY <1>6, <2>1, <2>3
  <1> QED
    BY <1>3, <1>5, <1>6

-----------------------------------------------------------------------------
(* The mode in force passed the gate with the options of its stream, and the field packed *)
(* last is one of that mode (renderer_nogpu.h:237-306, groovymister.cpp:879-886).          *)
THEOREM GateHolds == PackingSpec => []PackingInv
  BY PackingInvInit, PackingInvStep, PTL DEF PackingSpec

(* Whatever modelines are typed and whatever the options become meanwhile, each field is  *)
(* written inside the client's buffer and read inside the capture, is as long as the      *)
(* client says, and with the other field covers the picture, for every size of buffer.    *)
THEOREM PacksInBounds == PackingSpec => []PackingSafe
  <1>1. PackingInv => PackingSafe
    BY InvGivesFits, InvGivesBounds, InvGivesInterleave DEF PackingSafe
  <1> QED
    BY <1>1, GateHolds, PTL

-----------------------------------------------------------------------------
(* The window.  A handler is an operator on one record, and a handler that *)
(* changes a control runs the handler of that control: there is one lemma  *)
(* per handler, which says what it needs of the window it is given and     *)
(* that the window it leaves is Fine, and the lemmas follow each other as  *)
(* the handlers call each other.                                           *)

(* What the handlers keep.                                                 *)

UiFields ==
  {"ready", "streaming", "preset", "text", "cache", "options", "crop", "cropmode", "size",
   "preview", "capture", "listed", "selected", "buffer", "start", "apply", "options_live",
   "pack", "closed"}

LibFields == {"on", "running", "options", "mode", "window", "source", "buffer"}

\* The fields of the window and of the library.
Shape(s) ==
  /\ s = [ui |-> s.ui, lib |-> s.lib]
  /\ s.ui = [f \in UiFields |-> s.ui[f]]
  /\ s.lib = [f \in LibFields |-> s.lib[f]]

IsPreset(preset) == preset \in 0 .. Len(Presets)

\* What the controls say of each other, whichever handler runs.
Controls(s) ==
  /\ s.ui.text \in Timings /\ s.ui.cache \in Timings /\ s.lib.mode \in Timings
  /\ s.ui.options \in Options /\ s.lib.options \in Options
  /\ IsPreset(s.ui.preset) /\ s.ui.buffer \in BufferTexts
  /\ s.ui.ready \in BOOLEAN /\ s.ui.streaming \in BOOLEAN /\ s.ui.closed \in BOOLEAN
  /\ ~s.ui.ready => s.ui.cropmode # "x2"
  /\ s.ui.preset # 0 => s.ui.text = Presets[s.ui.preset]
  /\ s.ui.selected \in s.ui.listed \union {NoWindow}
  /\ s.ui.listed \subseteq Handles /\ s.ui.listed \subseteq 0 .. opened
  /\ s.ui.ready /\ ~s.ui.closed => s.lib.on

\* A session is what it began with, and its controls are locked.
Locked(s) ==
  /\ s.ui.streaming = (s.lib.running # Idle) \/ s.ui.closed
  /\ s.lib.running # Idle => GateAccepts(s.lib.running.mode, s.lib.running.options)
  /\ s.ui.streaming => s.ui.start /\ ~s.ui.options_live /\ ~s.ui.pack /\ s.ui.ready
  /\ ~s.ui.streaming => s.ui.options_live

\* The codec's own control.
Packed(s) == s.ui.ready /\ ~s.ui.streaming => s.ui.pack = (s.ui.options \in Nlc)

\* The crop mode that was cached is the one shown.
Cropped(s) == s.ui.cropmode = "x2" => s.ui.crop = "x2"

Sane(s) == Shape(s) /\ Controls(s) /\ Locked(s)

Live(s) == s.ui.ready /\ ~s.ui.closed

Capturable(s) == s.ui.size # 0 /\ (s.ui.capture = "window" => s.ui.selected \in alive)

Applied(s) == s.lib.options = s.ui.options /\ (ValidMode(s) => s.lib.mode = s.ui.cache)

Aimed(s) ==
  /\ s.lib.window = Target(s)
  /\ s.lib.source = [crop |-> s.ui.crop, preview |-> s.ui.preview,
                     size |-> IF s.ui.crop = "x2" THEN 2 * s.lib.mode ELSE s.ui.size]

\* LibraryFollows, of any window and library.
Follows(s) == Applied(s) /\ (ValidMode(s) /\ Capturable(s) => Aimed(s))

Fine(s) == Sane(s) /\ Packed(s) /\ Cropped(s) /\ (Live(s) => Follows(s))

\* t is the same session as s, and a settings file would say the same of both, but for what
\* was changed.  A crop of twice the modeline has no size of its own.
Kept(s, t, changed) ==
  /\ \A f \in {"ready", "streaming", "closed", "text", "preset", "crop", "options", "capture",
               "buffer"} \ changed : t.ui[f] = s.ui[f]
  /\ t.ui.size = s.ui.size \/ "size" \in changed \/ t.ui.crop = "x2"
  /\ t.lib.running = s.lib.running

Same(s, t) == Kept(s, t, {})

Windows == alive \subseteq Handles /\ alive \subseteq 0 .. opened /\ opened \in Nat

-----------------------------------------------------------------------------
(* The handlers.                                                           *)

\* OnCaptureSourceChanged touches the cached crop mode and, in the library, the window and
\* the source, whichever way it leaves early.
LEMMA CaptureChanges ==
  ASSUME NEW s, Shape(s)
  PROVE  LET t == OnCaptureSourceChanged(s)
         IN  /\ Shape(t)
             /\ t.ui = [s.ui EXCEPT !.cropmode = s.ui.crop]
             /\ t.lib.on = s.lib.on /\ t.lib.running = s.lib.running
             /\ t.lib.options = s.lib.options /\ t.lib.mode = s.lib.mode
             /\ t.lib.buffer = s.lib.buffer
<1> DEFINE cached == [s EXCEPT !.ui.cropmode = s.ui.crop]
           aimed == [cached EXCEPT !.lib.window = Target(s)]
           sourced == SetSource(aimed, s.ui.crop, s.ui.size, s.ui.preview)
<1>1. Shape(cached) /\ cached.ui = [s.ui EXCEPT !.cropmode = s.ui.crop] /\ cached.lib = s.lib
  BY DEF Shape, UiFields, LibFields
<1>2. /\ Shape(aimed) /\ aimed.ui = cached.ui
      /\ aimed.lib = [s.lib EXCEPT !.window = Target(s)]
  <2> HIDE DEF cached
  <2> QED
    BY <1>1 DEF Shape, UiFields, LibFields
<1>3. /\ Shape(sourced) /\ sourced.ui = aimed.ui
      /\ sourced.lib = [aimed.lib EXCEPT !.source = sourced.lib.source]
  <2> HIDE DEF aimed
  <2> QED
    BY <1>2 DEF Shape, UiFields, LibFields, SetSource
<1>4. OnCaptureSourceChanged(s) \in {cached, aimed, sourced}
  BY <1>1 DEF OnCaptureSourceChanged, Shape
<1> HIDE DEF cached, aimed, sourced
<1>5. /\ aimed.lib.on = s.lib.on /\ aimed.lib.running = s.lib.running
      /\ aimed.lib.options = s.lib.options /\ aimed.lib.mode = s.lib.mode
      /\ aimed.lib.buffer = s.lib.buffer
  BY <1>2 DEF Shape, LibFields
<1>6. /\ sourced.lib.on = s.lib.on /\ sourced.lib.running = s.lib.running
      /\ sourced.lib.options = s.lib.options /\ sourced.lib.mode = s.lib.mode
      /\ sourced.lib.buffer = s.lib.buffer
  BY <1>2, <1>3, <1>5 DEF Shape, LibFields
<1> QED
  BY <1>1, <1>2, <1>3, <1>4, <1>5, <1>6

\* It gives the library the source that is shown when that is one it can take.
LEMMA CaptureAims ==
  ASSUME NEW s, Shape(s), s.lib.on, Windows
  PROVE  Capturable(s) => Aimed(OnCaptureSourceChanged(s))
<1> SUFFICES ASSUME Capturable(s) PROVE Aimed(OnCaptureSourceChanged(s))
  OBVIOUS
<1> DEFINE cached == [s EXCEPT !.ui.cropmode = s.ui.crop]
           aimed == [cached EXCEPT !.lib.window = Target(s)]
<1>1. ~(s.ui.capture = "window" /\ s.ui.selected = NoWindow) /\ CanCapture(s, Target(s))
  BY FrontAssumption DEF Capturable, Windows, CanCapture, Target, NoWindow
<1>2. OnCaptureSourceChanged(s) = SetSource(aimed, s.ui.crop, s.ui.size, s.ui.preview)
  BY <1>1 DEF OnCaptureSourceChanged, Capturable
<1>3. Shape(cached) /\ cached.ui = [s.ui EXCEPT !.cropmode = s.ui.crop] /\ cached.lib = s.lib
  BY DEF Shape, UiFields, LibFields
<1>4. /\ Shape(aimed) /\ aimed.ui = cached.ui
      /\ aimed.lib = [s.lib EXCEPT !.window = Target(s)]
  <2> HIDE DEF cached
  <2> QED
    BY <1>3 DEF Shape, UiFields, LibFields
<1> HIDE DEF cached, aimed
<1>5. /\ aimed.ui.crop = s.ui.crop /\ aimed.ui.preview = s.ui.preview
      /\ aimed.ui.size = s.ui.size /\ aimed.lib.mode = s.lib.mode
      /\ aimed.ui.capture = s.ui.capture /\ aimed.ui.selected = s.ui.selected
      /\ aimed.lib.window = Target(s)
  BY <1>3, <1>4 DEF Shape, UiFields, LibFields
<1> QED
  BY <1>2, <1>4, <1>5 DEF SetSource, Aimed, Target, Shape, UiFields, LibFields

\* So the library follows after it, if options and modeline were given before.
LEMMA CaptureFine ==
  ASSUME NEW s, Sane(s), Packed(s), Live(s) => Applied(s), Windows
  PROVE  Fine(OnCaptureSourceChanged(s)) \/ ~s.ui.ready
<1> DEFINE t == OnCaptureSourceChanged(s)
<1> SUFFICES ASSUME s.ui.ready PROVE Fine(t)
  OBVIOUS
<1>1. /\ Shape(t)
      /\ t.ui = [s.ui EXCEPT !.cropmode = s.ui.crop]
      /\ t.lib.on = s.lib.on /\ t.lib.running = s.lib.running
      /\ t.lib.options = s.lib.options /\ t.lib.mode = s.lib.mode
  BY CaptureChanges DEF Sane
<1>2. Live(s) => s.lib.on /\ (Capturable(s) => Aimed(t))
  BY CaptureAims DEF Sane, Controls, Live
<1> HIDE DEF t
<1>3. \A f \in UiFields \ {"cropmode"} : t.ui[f] = s.ui[f]
  BY <1>1 DEF Sane, Shape
<1>4. t.ui.cropmode = s.ui.crop
  BY <1>1 DEF Sane, Shape, UiFields
<1>5. Controls(t) /\ Cropped(t)
  BY <1>1, <1>3, <1>4 DEF Sane, Controls, Cropped, UiFields
<1>6. Locked(t) /\ Packed(t)
  BY <1>1, <1>3 DEF Sane, Locked, Packed, UiFields
<1>7. Live(t) => Follows(t)
  BY <1>1, <1>2, <1>3 DEF Live, Follows, Applied, Capturable, Aimed, ValidMode, UiFields
<1> QED
  BY <1>1, <1>5, <1>6, <1>7 DEF Fine, Sane

\* A settings file would say the same before and after it.
LEMMA CaptureSame ==
  ASSUME NEW s, Shape(s) PROVE Same(s, OnCaptureSourceChanged(s))
<1>1. /\ OnCaptureSourceChanged(s).ui = [s.ui EXCEPT !.cropmode = s.ui.crop]
      /\ OnCaptureSourceChanged(s).lib.running = s.lib.running
  BY CaptureChanges
<1> QED
  BY <1>1 DEF Shape, UiFields, Same, Kept

\* Both, of the controls that run it once the library is up.
LEMMA SourceFine ==
  ASSUME NEW s, Sane(s), Packed(s), Live(s) => Applied(s), Windows
  PROVE  Fine(SourceEvent(s)) /\ Same(s, SourceEvent(s))
  BY CaptureFine, CaptureSame DEF SourceEvent, Fine, Sane, Controls, Cropped, Same, Kept, Live

\* One handler after another.
LEMMA SameAgain ==
  ASSUME NEW s, NEW t, NEW u, Same(s, t), Same(t, u) PROVE Same(s, u)
  BY DEF Same, Kept

\* The modeline that is read is given to the library when the gate accepts it, and the source
\* after it; when it does not, nothing is asked of the library.
LEMMA ModelineFine ==
  ASSUME NEW s, Sane(s), Packed(s), Cropped(s), Live(s) => s.lib.options = s.ui.options,
         Windows
  PROVE  Fine(OnModelineChanged(s)) /\ Same(s, OnModelineChanged(s))
<1> DEFINE t == OnModelineChanged(s)
           read == [s EXCEPT !.ui.cache = s.ui.text]
           checked == Validated(read)
           timing == SetModeline(checked, s.ui.text)
           sized == UpdateCropSize(timing)
<1>0. s.ui.ready \in BOOLEAN /\ Shape(s)
  BY DEF Sane, Controls
<1>1. /\ Shape(read) /\ read.lib = s.lib /\ read.ui.cache = s.ui.text
      /\ \A g \in UiFields \ {"cache"} : read.ui[g] = s.ui[g]
  BY <1>0 DEF Shape, UiFields, LibFields
<1>2. /\ ~s.ui.ready => t = read
      /\ s.ui.ready /\ ~ValidMode(read) => t = checked
      /\ s.ui.ready /\ ValidMode(read) => t = OnCaptureSourceChanged(sized)
  BY <1>0 DEF OnModelineChanged
<1> HIDE DEF read
<1>3. /\ Shape(checked) /\ checked.lib = s.lib
      /\ checked.ui.start = (ValidMode(read) \/ read.ui.streaming)
      /\ \A g \in UiFields \ {"start"} : checked.ui[g] = read.ui[g]
  BY <1>1 DEF Validated, Shape, UiFields, LibFields
<1> HIDE DEF checked
<1>4. Sane(read) /\ Packed(read) /\ Cropped(read) /\ Same(s, read)
  BY <1>1 DEF Sane, Controls, Cropped, Locked, Packed, Same, Kept, UiFields
<1>5. Sane(checked) /\ Packed(checked) /\ Cropped(checked) /\ Same(s, checked)
  BY <1>1, <1>3, <1>4 DEF Sane, Controls, Cropped, Locked, Packed, Same, Kept, UiFields
<1>6. CASE ~s.ui.ready
  <2>1. ~Live(read)
    BY <1>1, <1>6 DEF Live, UiFields
  <2> QED
    BY <1>2, <1>4, <1>6, <2>1 DEF Fine
<1>7. CASE s.ui.ready /\ ~ValidMode(read)
  <2>1. ~ValidMode(checked)
    BY <1>3, <1>7 DEF ValidMode, UiFields
  <2>2. Live(checked) => Applied(checked)
    BY <2>1, <1>1, <1>3 DEF Live, Applied, UiFields
  <2> QED
    BY <1>2, <1>5, <1>7, <2>1, <2>2 DEF Fine, Follows
<1>8. CASE s.ui.ready /\ ValidMode(read)
  <2>1. /\ Shape(timing) /\ timing.ui = checked.ui
        /\ timing.lib.mode \in {s.ui.text, s.lib.mode}
        /\ GateAccepts(s.ui.text, s.lib.options) => timing.lib.mode = s.ui.text
        /\ \A g \in LibFields \ {"mode"} : timing.lib[g] = s.lib[g]
    BY <1>3 DEF SetModeline, Shape, UiFields, LibFields
  <2> HIDE DEF timing
  <2>2. Sane(timing) /\ Packed(timing) /\ Cropped(timing) /\ Same(s, timing)
    BY <1>5, <2>1, <1>3 DEF Sane, Controls, Cropped, Locked, Packed, Same, Kept, LibFields
  <2>3. Live(timing) => Applied(timing)
    BY <2>1, <1>1, <1>3, <1>8 DEF Live, Applied, ValidMode, UiFields, LibFields
  <2>4. /\ Shape(sized) /\ sized.lib = timing.lib
        /\ sized.ui.size = timing.ui.size \/ timing.ui.cropmode = "x2"
        /\ \A g \in UiFields \ {"size"} : sized.ui[g] = timing.ui[g]
    BY <2>1 DEF UpdateCropSize, Shape, UiFields, LibFields
  <2> HIDE DEF sized
  <2>5. Sane(sized) /\ Packed(sized) /\ Cropped(sized)
    BY <2>2, <2>4 DEF Sane, Controls, Cropped, Locked, Packed, UiFields
  <2>6. Same(timing, sized)
    BY <2>2, <2>4 DEF Same, Kept, Sane, Controls, Cropped, UiFields
  <2>7. Live(sized) => Applied(sized)
    BY <2>3, <2>4 DEF Live, Applied, ValidMode, UiFields
  <2>8. sized.ui.ready
    BY <1>1, <1>3, <1>8, <2>1, <2>4 DEF UiFields
  <2>9. Fine(t) /\ Same(sized, t)
    BY <1>2, <1>8, <2>5, <2>7, <2>8, CaptureFine, CaptureSame DEF Sane
  <2> QED
    BY <2>2, <2>6, <2>9, SameAgain
<1> QED
  BY <1>0, <1>6, <1>7, <1>8

\* New options: the gate is asked again, with them.
LEMMA OptionsFine ==
  ASSUME NEW s, Sane(s), Cropped(s), Windows
  PROVE  Fine(OnStreamOptionsChanged(s)) /\ Same(s, OnStreamOptionsChanged(s))
<1> DEFINE given == [s EXCEPT !.lib.options = s.ui.options]
           fixed == [given EXCEPT !.ui.pack = s.ui.options \in Nlc /\ ~s.ui.streaming]
<1>0. Shape(s) /\ s.ui.ready \in BOOLEAN /\ s.ui.streaming \in BOOLEAN
  BY DEF Sane, Controls
<1>1. CASE ~s.ui.ready
  BY <1>1 DEF OnStreamOptionsChanged, Fine, Live, Packed, Same, Kept
<1>2. CASE s.ui.ready
  <2>1. /\ Shape(given) /\ given.ui = s.ui /\ given.lib.options = s.ui.options
        /\ \A g \in LibFields \ {"options"} : given.lib[g] = s.lib[g]
    BY <1>0 DEF Shape, UiFields, LibFields
  <2>2. OnStreamOptionsChanged(s) = OnModelineChanged(fixed)
    BY <1>0, <1>2 DEF OnStreamOptionsChanged, Shape
  <2> HIDE DEF given
  <2>3. /\ Shape(fixed) /\ fixed.lib = given.lib
        /\ fixed.ui.pack = (s.ui.options \in Nlc /\ ~s.ui.streaming)
        /\ \A g \in UiFields \ {"pack"} : fixed.ui[g] = s.ui[g]
    BY <2>1 DEF Shape, UiFields, LibFields
  <2> HIDE DEF fixed
  <2>4. Sane(fixed) /\ Packed(fixed) /\ Cropped(fixed) /\ Same(s, fixed)
    <3>1. Controls(fixed) /\ Cropped(fixed) /\ Same(s, fixed)
      BY <1>0, <2>1, <2>3 DEF Sane, Controls, Cropped, Same, Kept, UiFields, LibFields
    <3>2. Locked(fixed)
      BY <1>0, <2>1, <2>3 DEF Sane, Locked, UiFields, LibFields
    <3>3. Packed(fixed)
      BY <1>0, <2>1, <2>3 DEF Packed, UiFields, LibFields
    <3> QED
      BY <2>3, <3>1, <3>2, <3>3 DEF Sane
  <2>5. fixed.lib.options = fixed.ui.options
    BY <2>1, <2>3 DEF UiFields
  <2> QED
    BY <2>2, <2>4, <2>5, ModelineFine, SameAgain
<1> QED
  BY <1>0, <1>1, <1>2

\* What two changes leave alone.
LEMMA KeptAgain ==
  ASSUME NEW s, NEW t, NEW u, NEW F, NEW G, Kept(s, t, F), Kept(t, u, G), "crop" \notin G
  PROVE  Kept(s, u, F \union G)
  BY DEF Kept

\* The library comes up: it has its own settings until it is given those shown.
LEMMA InitializeFine ==
  ASSUME NEW s, Sane(s), Cropped(s), ~s.ui.ready, Windows
  PROVE  /\ Fine(InitializeMiSTerCast(s, TRUE)) /\ Kept(s, InitializeMiSTerCast(s, TRUE), {"ready"})
         /\ InitializeMiSTerCast(s, TRUE).ui.ready
<1> DEFINE yes == TRUE
           a == [s EXCEPT !.ui.ready = yes]
           b == [a EXCEPT !.lib.on = yes]
           c == [b EXCEPT !.lib.options = FirstOptions]
           d == [c EXCEPT !.lib.mode = Presets[1]]
           t == [d EXCEPT !.lib.buffer = FirstBuffer]
<1>2. InitializeMiSTerCast(s, TRUE) = OnStreamOptionsChanged(t)
  BY DEF InitializeMiSTerCast
<1>1. /\ Shape(t) /\ t.lib.on = yes /\ t.lib.running = s.lib.running
      /\ t.lib.options = FirstOptions /\ t.lib.mode = Presets[1]
      /\ t.ui.ready = yes /\ \A f \in UiFields \ {"ready"} : t.ui[f] = s.ui[f]
  <2> HIDE DEF yes
  <2>1. /\ Shape(a) /\ a.lib.running = s.lib.running
        /\ a.ui.ready = yes /\ \A f \in UiFields \ {"ready"} : a.ui[f] = s.ui[f]
    BY DEF Sane, Shape, UiFields, LibFields
  <2> HIDE DEF a
  <2>2. Shape(b) /\ b.ui = a.ui /\ b.lib.on = yes /\ b.lib.running = a.lib.running
    BY <2>1 DEF Shape, UiFields, LibFields
  <2> HIDE DEF b
  <2>3. Shape(c) /\ c.ui = b.ui /\ c.lib.options = FirstOptions
        /\ c.lib.on = yes /\ c.lib.running = b.lib.running
    BY <2>2 DEF Shape, UiFields, LibFields
  <2> HIDE DEF c
  <2>4. Shape(d) /\ d.ui = c.ui /\ d.lib.options = c.lib.options /\ d.lib.mode = Presets[1]
        /\ d.lib.on = yes /\ d.lib.running = c.lib.running
    BY <2>3 DEF Shape, UiFields, LibFields
  <2> HIDE DEF d
  <2>5. Shape(t) /\ t.ui = d.ui /\ t.lib.options = d.lib.options /\ t.lib.mode = d.lib.mode
        /\ t.lib.on = yes /\ t.lib.running = d.lib.running
    BY <2>4 DEF Shape, UiFields, LibFields
  <2> QED
    BY <2>1, <2>2, <2>3, <2>4, <2>5
<1> HIDE DEF t
<1>3. Sane(t) /\ Cropped(t) /\ Kept(s, t, {"ready"})
  <2>0. Presets[1] \in Timings /\ FirstOptions \in Options
    BY FrontAssumption
  <2>1. Controls(t) /\ Cropped(t)
    BY <1>1, <2>0 DEF Sane, Controls, Cropped, UiFields
  <2>2. Locked(t) /\ Kept(s, t, {"ready"})
    BY <1>1 DEF Sane, Controls, Locked, Kept, UiFields
  <2> QED
    BY <1>1, <2>1, <2>2 DEF Sane
<1>4. Fine(OnStreamOptionsChanged(t)) /\ Same(t, OnStreamOptionsChanged(t))
  BY <1>3, OptionsFine
<1> QED
  BY <1>1, <1>2, <1>3, <1>4 DEF Same, Kept

\* The options chosen, by hand or from a file.
LEMMA SetOptionsFine ==
  ASSUME NEW s, Fine(s), Windows, NEW options \in Options
  PROVE  /\ Fine(SetOptions(s, options)) /\ Kept(s, SetOptions(s, options), {"options"})
         /\ SetOptions(s, options).ui.options = options
<1>1. CASE options = s.ui.options
  BY <1>1 DEF SetOptions, Kept
<1>2. CASE options # s.ui.options
  <2> DEFINE t == [s EXCEPT !.ui.options = options]
  <2>1. /\ Shape(t) /\ t.lib = s.lib /\ t.ui.options = options
        /\ \A f \in UiFields \ {"options"} : t.ui[f] = s.ui[f]
    BY DEF Fine, Sane, Shape, UiFields, LibFields
  <2>2. SetOptions(s, options) = OnStreamOptionsChanged(t)
    BY <1>2 DEF SetOptions
  <2> HIDE DEF t
  <2>3. Sane(t) /\ Cropped(t) /\ Kept(s, t, {"options"})
    BY <2>1 DEF Fine, Sane, Controls, Cropped, Locked, Kept, UiFields
  <2> QED
    BY <2>1, <2>2, <2>3, OptionsFine, KeptAgain DEF Same, Kept
<1> QED
  BY <1>1, <1>2

\* A preset chosen: the fields become its modeline, and are applied.
LEMMA SelectPresetFine ==
  ASSUME NEW s, Fine(s), Windows, NEW preset, IsPreset(preset)
  PROVE  /\ Fine(SelectPreset(s, preset))
         /\ Kept(s, SelectPreset(s, preset), {"preset", "text"})
         /\ SelectPreset(s, preset).ui.preset = preset
<1>0. preset # 0 => Presets[preset] \in Timings
  BY FrontAssumption DEF IsPreset
<1>1. CASE preset = s.ui.preset
  BY <1>1 DEF SelectPreset, Kept
<1>2. CASE preset # s.ui.preset /\ preset = 0
  <2> DEFINE t == [s EXCEPT !.ui.preset = 0]
  <2>1. /\ Shape(t) /\ t.lib = s.lib /\ t.ui.preset = 0
        /\ \A f \in UiFields \ {"preset"} : t.ui[f] = s.ui[f]
    BY DEF Fine, Sane, Shape, UiFields, LibFields
  <2>2. SelectPreset(s, preset) = t
    BY <1>2 DEF SelectPreset
  <2> HIDE DEF t
  <2>3. Sane(t) /\ Packed(t) /\ Cropped(t) /\ Kept(s, t, {"preset", "text"})
    BY <1>2, <2>1 DEF Fine, Sane, Controls, Cropped, Locked, Packed, Kept, UiFields
  <2>4. Live(t) => Follows(t)
    BY <2>1 DEF Fine, Live, Follows, Applied, ValidMode, Capturable, Aimed, Target, UiFields
  <2> QED
    BY <1>2, <2>1, <2>2, <2>3, <2>4 DEF Fine
<1>3. CASE preset # s.ui.preset /\ preset # 0
  <2> DEFINE chosen == [s EXCEPT !.ui.preset = preset]
             t == [chosen EXCEPT !.ui.text = Presets[preset]]
  <2>2. SelectPreset(s, preset) = OnModelineChanged(t)
    BY <1>3 DEF SelectPreset
  <2>1. /\ Shape(t) /\ t.lib = s.lib /\ t.ui.preset = preset /\ t.ui.text = Presets[preset]
        /\ \A f \in UiFields \ {"preset", "text"} : t.ui[f] = s.ui[f]
    <3>1. /\ Shape(chosen) /\ chosen.lib = s.lib /\ chosen.ui.preset = preset
          /\ \A f \in UiFields \ {"preset", "text"} : chosen.ui[f] = s.ui[f]
      BY DEF Fine, Sane, Shape, UiFields, LibFields
    <3> HIDE DEF chosen
    <3> QED
      BY <3>1 DEF Shape, UiFields, LibFields
  <2> HIDE DEF t
  <2>3. Sane(t) /\ Packed(t) /\ Cropped(t) /\ Kept(s, t, {"preset", "text"})
    BY <1>0, <1>3, <2>1 DEF Fine, Sane, Controls, Cropped, Locked, Packed, Kept, UiFields
  <2>4. Live(t) => t.lib.options = t.ui.options
    BY <2>1 DEF Fine, Live, Follows, Applied, UiFields
  <2>5. Fine(OnModelineChanged(t)) /\ Same(t, OnModelineChanged(t))
    BY <2>3, <2>4, ModelineFine
  <2> QED
    BY <2>1, <2>2, <2>3, <2>5, KeptAgain DEF Same, Kept
<1> QED
  BY <1>1, <1>2, <1>3

\* Typed or read from a file: nothing is given to the library.
LEMMA TypeModeFine ==
  ASSUME NEW s, Fine(s), Windows, NEW timing \in Timings
  PROVE  /\ Fine(TypeMode(s, timing)) /\ Kept(s, TypeMode(s, timing), {"preset", "text"})
         /\ TypeMode(s, timing).ui.text = timing
         /\ TypeMode(s, timing).ui.preset = IF timing = s.ui.text THEN s.ui.preset ELSE 0
<1>1. CASE timing = s.ui.text
  BY <1>1 DEF TypeMode, Kept
<1>2. CASE timing # s.ui.text
  <2> DEFINE custom == SelectPreset(s, 0)
             typed == [custom EXCEPT !.ui.text = timing]
             t == [typed EXCEPT !.ui.apply = typed.ui.apply \/ s.ui.streaming]
  <2>0. Fine(custom) /\ Kept(s, custom, {"preset", "text"}) /\ custom.ui.preset = 0
    BY SelectPresetFine, FrontAssumption DEF IsPreset
  <2>2. TypeMode(s, timing) = t
    BY <1>2 DEF TypeMode
  <2> HIDE DEF custom
  <2>1. /\ Shape(t) /\ t.lib = custom.lib /\ t.ui.preset = 0 /\ t.ui.text = timing
        /\ \A f \in UiFields \ {"text", "apply"} : t.ui[f] = custom.ui[f]
    <3>1. /\ Shape(typed) /\ typed.lib = custom.lib /\ typed.ui.text = timing
          /\ \A f \in UiFields \ {"text"} : typed.ui[f] = custom.ui[f]
      BY <2>0 DEF Fine, Sane, Shape, UiFields, LibFields
    <3> HIDE DEF typed
    <3> QED
      BY <2>0, <3>1 DEF Shape, UiFields, LibFields
  <2> HIDE DEF t
  <2>3. Sane(t) /\ Packed(t) /\ Cropped(t) /\ Kept(custom, t, {"text"})
    BY <2>0, <2>1 DEF Fine, Sane, Controls, Cropped, Locked, Packed, Kept, UiFields
  <2>4. Live(t) => Follows(t)
    BY <2>0, <2>1 DEF Fine, Live, Follows, Applied, ValidMode, Capturable, Aimed, Target, UiFields
  <2> QED
    BY <1>2, <2>0, <2>1, <2>2, <2>3, <2>4, KeptAgain DEF Fine
<1> QED
  BY <1>1, <1>2

\* The crop chosen: it becomes the cached one once the library is up.
LEMMA SetCropFine ==
  ASSUME NEW s, Fine(s), Windows, NEW crop
  PROVE  /\ Fine(SetCrop(s, crop)) /\ Kept(s, SetCrop(s, crop), {"crop", "size"})
         /\ SetCrop(s, crop).ui.crop = crop
<1>1. CASE crop = s.ui.crop
  BY <1>1 DEF SetCrop, Kept
<1>2. CASE crop # s.ui.crop
  <2> DEFINE t == [s EXCEPT !.ui.crop = crop]
  <2>1. /\ Shape(t) /\ t.lib = s.lib /\ t.ui.crop = crop
        /\ \A f \in UiFields \ {"crop"} : t.ui[f] = s.ui[f]
    BY DEF Fine, Sane, Shape, UiFields, LibFields
  <2>2. SetCrop(s, crop) = SourceEvent(t)
    BY <1>2 DEF SetCrop
  <2> HIDE DEF t
  <2>3. Sane(t) /\ Packed(t) /\ Kept(s, t, {"crop", "size"})
    BY <2>1 DEF Fine, Sane, Controls, Locked, Packed, Kept, UiFields
  <2>4. Live(t) => Applied(t)
    BY <2>1 DEF Fine, Live, Follows, Applied, ValidMode, UiFields
  <2> QED
    BY <2>1, <2>2, <2>3, <2>4, SourceFine, KeptAgain DEF Same, Kept
<1> QED
  BY <1>1, <1>2

\* The size typed.
LEMMA SetSizeFine ==
  ASSUME NEW s, Fine(s), Windows, NEW size
  PROVE  /\ Fine(SetSize(s, size)) /\ Kept(s, SetSize(s, size), {"size"})
         /\ SetSize(s, size).ui.size = size \/ s.ui.crop = "x2"
<1>1. CASE size = s.ui.size
  BY <1>1 DEF SetSize, Kept
<1>2. CASE size # s.ui.size
  <2> DEFINE t == [s EXCEPT !.ui.size = size]
  <2>1. /\ Shape(t) /\ t.lib = s.lib /\ t.ui.size = size
        /\ \A f \in UiFields \ {"size"} : t.ui[f] = s.ui[f]
    BY DEF Fine, Sane, Shape, UiFields, LibFields
  <2>2. SetSize(s, size) = SourceEvent(t)
    BY <1>2 DEF SetSize
  <2> HIDE DEF t
  <2>3. Sane(t) /\ Packed(t) /\ Kept(s, t, {"size"})
    BY <2>1 DEF Fine, Sane, Controls, Locked, Packed, Kept, UiFields
  <2>4. Live(t) => Applied(t)
    BY <2>1 DEF Fine, Live, Follows, Applied, ValidMode, UiFields
  <2>5. Fine(SourceEvent(t)) /\ Same(t, SourceEvent(t))
    BY <2>3, <2>4, SourceFine
  <2>6. SourceEvent(t).ui.size = size \/ s.ui.crop = "x2"
    BY <2>1, <2>5 DEF Same, Kept, UiFields
  <2> QED
    BY <2>2, <2>3, <2>5, <2>6, KeptAgain DEF Same
<1> QED
  BY <1>1, <1>2

\* The preview chosen. StartPressed turns it off with a session about to begin.
LEMMA SetPreviewFine ==
  ASSUME NEW s, Sane(s), Packed(s), Cropped(s), Live(s) => Follows(s), Windows, NEW preview
  PROVE  Fine(SetPreview(s, preview)) /\ Same(s, SetPreview(s, preview))
<1>1. CASE preview = s.ui.preview
  BY <1>1 DEF SetPreview, Fine, Same, Kept
<1>2. CASE preview # s.ui.preview
  <2> DEFINE t == [s EXCEPT !.ui.preview = preview]
  <2>1. /\ Shape(t) /\ t.lib = s.lib
        /\ \A f \in UiFields \ {"preview"} : t.ui[f] = s.ui[f]
    BY DEF Sane, Shape, UiFields, LibFields
  <2>2. SetPreview(s, preview) = SourceEvent(t)
    BY <1>2 DEF SetPreview
  <2> HIDE DEF t
  <2>3. Sane(t) /\ Packed(t) /\ Same(s, t)
    BY <2>1 DEF Sane, Controls, Locked, Packed, Same, Kept, UiFields
  <2>4. Live(t) => Applied(t)
    BY <2>1 DEF Live, Follows, Applied, ValidMode, UiFields
  <2> QED
    BY <2>1, <2>2, <2>3, <2>4, SourceFine, KeptAgain DEF Same
<1> QED
  BY <1>1, <1>2

\* The audio buffer typed.
LEMMA SetBufferFine ==
  ASSUME NEW s, Fine(s), Windows, NEW buffer \in BufferTexts
  PROVE  /\ Fine(SetBuffer(s, buffer)) /\ Kept(s, SetBuffer(s, buffer), {"buffer"})
         /\ SetBuffer(s, buffer).ui.buffer = buffer
<1> DEFINE typed == [s EXCEPT !.ui.buffer = buffer]
           given == IF s.ui.ready /\ buffer # 0 THEN buffer ELSE typed.lib.buffer
           t == [typed EXCEPT !.lib.buffer = given]
<1>1. SetBuffer(s, buffer) = t
  BY DEF SetBuffer
<1>2. /\ Shape(typed) /\ typed.lib = s.lib /\ typed.ui.buffer = buffer
      /\ \A f \in UiFields \ {"buffer"} : typed.ui[f] = s.ui[f]
  BY DEF Fine, Sane, Shape, UiFields, LibFields
<1> HIDE DEF typed, given
<1>3. Shape(t) /\ t.ui = typed.ui /\ \A f \in LibFields \ {"buffer"} : t.lib[f] = typed.lib[f]
  BY <1>2 DEF Shape, UiFields, LibFields
<1> HIDE DEF t
<1>4. /\ Sane(t) /\ Packed(t) /\ Cropped(t) /\ Kept(s, t, {"buffer"})
  BY <1>2, <1>3 DEF Fine, Sane, Controls, Cropped, Locked, Packed, Kept, UiFields, LibFields
<1>5. Live(t) => Follows(t)
  BY <1>2, <1>3 DEF Fine, Live, Follows, Applied, ValidMode, Capturable, Aimed, Target, UiFields,
                    LibFields
<1> QED
  BY <1>1, <1>2, <1>3, <1>4, <1>5 DEF Fine

\* The list is sorted: one of the windows comes first.
LEMMA FirstIsOne ==
  ASSUME NEW windows, windows \subseteq Handles, windows # {}
  PROVE  First(windows) \in windows
<1> DEFINE titles == {Title[w] : w \in windows}
<1>1. titles \subseteq Nat /\ titles # {}
  BY FrontAssumption
<1>2. PICK title \in titles : \A other \in titles : title <= other
  BY <1>1, LeastNatural
<1> DEFINE ties == {w \in windows : Title[w] = title}
<1>3. ties \subseteq Nat /\ ties # {}
  BY <1>2, FrontAssumption
<1>4. PICK w \in ties : \A v \in ties : w <= v
  BY <1>3, LeastNatural
<1>5. \A v \in windows : Title[w] < Title[v] \/ (Title[w] = Title[v] /\ w <= v)
  <2> TAKE v \in windows
  <2>1. Title[w] = title /\ title <= Title[v] /\ title \in Nat /\ Title[v] \in Nat
    BY <1>1, <1>2, <1>4
  <2>2. Title[v] = title => w <= v
    BY <1>4
  <2> QED
    BY <2>1, <2>2
<1> QED
  BY <1>4, <1>5 DEF First

\* A refresh selects a window that is open, or none.
LEMMA ChoiceIsThere ==
  ASSUME NEW s, NEW preferred, NEW selectFirst, Windows
  PROVE  Choice(s, preferred, selectFirst) \in alive \union {NoWindow}
<1> DEFINE matching == Titled(alive, Wanted(s, preferred))
<1>1. matching \subseteq alive
  BY DEF Titled
<1>2. matching # {} => First(matching) \in alive
  BY <1>1, FirstIsOne DEF Windows
<1>3. alive # {} => First(alive) \in alive
  BY FirstIsOne DEF Windows
<1> QED
  BY <1>2, <1>3 DEF Choice

\* Whether the handler of the source runs depends on what is captured.
LEMMA RefreshFine ==
  ASSUME NEW s, Sane(s), Packed(s), Cropped(s), Windows, NEW preferred, NEW selectFirst,
         Live(s) => Applied(s) /\ (s.ui.capture # "window" => Follows(s))
  PROVE  /\ Fine(RefreshWindowSources(s, preferred, selectFirst))
         /\ Same(s, RefreshWindowSources(s, preferred, selectFirst))
<1> DEFINE choice == Choice(s, preferred, selectFirst)
           shown == [s EXCEPT !.ui.listed = alive]
           t == [shown EXCEPT !.ui.selected = choice]
<1>0. choice \in alive \union {NoWindow}
  BY ChoiceIsThere
<1>1. RefreshWindowSources(s, preferred, selectFirst)
        = IF s.ui.capture = "window" THEN SourceEvent(t) ELSE t
  BY DEF RefreshWindowSources
<1> HIDE DEF choice
<1>2. /\ Shape(shown) /\ shown.lib = s.lib
      /\ shown.ui.listed = alive
      /\ \A f \in UiFields \ {"listed"} : shown.ui[f] = s.ui[f]
  BY DEF Sane, Shape, UiFields, LibFields
<1> HIDE DEF shown
<1>3. /\ Shape(t) /\ t.lib = s.lib /\ t.ui.selected = choice /\ t.ui.listed = alive
      /\ \A f \in UiFields \ {"listed", "selected"} : t.ui[f] = s.ui[f]
  BY <1>2 DEF Shape, UiFields, LibFields
<1> HIDE DEF t
<1>4. Sane(t) /\ Packed(t) /\ Cropped(t) /\ Same(s, t)
  <2>1. Controls(t)
    BY <1>0, <1>3 DEF Sane, Controls, Windows, UiFields
  <2> QED
    BY <1>3, <2>1 DEF Sane, Cropped, Locked, Packed, Same, Kept, UiFields
<1>5. Live(t) => Applied(t)
  BY <1>3 DEF Live, Applied, ValidMode, UiFields
<1>6. CASE s.ui.capture = "window"
  BY <1>1, <1>4, <1>5, <1>6, SourceFine, KeptAgain DEF Same
<1>7. CASE s.ui.capture # "window"
  <2>1. Live(t) => Follows(t)
    BY <1>3, <1>7 DEF Live, Follows, Applied, ValidMode, Capturable, Aimed, Target, UiFields
  <2> QED
    BY <1>1, <1>4, <1>7, <2>1 DEF Fine
<1> QED
  BY <1>6, <1>7

\* A window of the list is selected.
LEMMA SelectWindowFine ==
  ASSUME NEW s, Fine(s), Windows, NEW window \in s.ui.listed, s.ui.capture = "window"
  PROVE  Fine(SelectWindow(s, window))
<1> DEFINE t == [s EXCEPT !.ui.selected = window]
<1>1. SelectWindow(s, window) = IF window = s.ui.selected THEN t ELSE SourceEvent(t)
  BY DEF SelectWindow
<1>2. /\ Shape(t) /\ t.lib = s.lib /\ t.ui.selected = window
      /\ \A f \in UiFields \ {"selected"} : t.ui[f] = s.ui[f]
  BY DEF Fine, Sane, Shape, UiFields, LibFields
<1> HIDE DEF t
<1>3. Sane(t) /\ Packed(t) /\ Cropped(t)
  BY <1>2 DEF Fine, Sane, Controls, Cropped, Locked, Packed, UiFields
<1>4. Live(t) => Applied(t)
  BY <1>2 DEF Fine, Live, Follows, Applied, ValidMode, UiFields
<1>5. CASE window = s.ui.selected
  <2>1. Live(t) => Follows(t)
    BY <1>2, <1>5 DEF Fine, Live, Follows, Applied, ValidMode, Capturable, Aimed, Target, UiFields
  <2> QED
    BY <1>1, <1>3, <1>5, <2>1 DEF Fine
<1>6. CASE window # s.ui.selected
  BY <1>1, <1>3, <1>4, <1>6, SourceFine
<1> QED
  BY <1>5, <1>6

\* Display or window: the list is filled the first time it is needed.
LEMMA SetCaptureFine ==
  ASSUME NEW s, Fine(s), Windows, NEW capture
  PROVE  /\ Fine(SetCapture(s, capture)) /\ Kept(s, SetCapture(s, capture), {"capture"})
         /\ SetCapture(s, capture).ui.capture = capture
<1>1. CASE capture = s.ui.capture
  BY <1>1 DEF SetCapture, Kept
<1>2. CASE capture # s.ui.capture
  <2> DEFINE changed == [s EXCEPT !.ui.capture = capture]
             listed == RefreshWindowSources(changed, NoTitle, TRUE)
             t == IF capture = "window" /\ s.ui.listed = {} THEN listed ELSE changed
  <2>1. SetCapture(s, capture) = SourceEvent(t)
    BY <1>2 DEF SetCapture
  <2>2. /\ Shape(changed) /\ changed.lib = s.lib /\ changed.ui.capture = capture
        /\ \A f \in UiFields \ {"capture"} : changed.ui[f] = s.ui[f]
    BY DEF Fine, Sane, Shape, UiFields, LibFields
  <2> HIDE DEF changed
  <2>3. Sane(changed) /\ Packed(changed) /\ Cropped(changed) /\ Kept(s, changed, {"capture"})
    BY <2>2 DEF Fine, Sane, Controls, Cropped, Locked, Packed, Kept, UiFields
  <2>4. Live(changed) => Applied(changed)
    BY <2>2 DEF Fine, Live, Follows, Applied, ValidMode, UiFields
  <2>5. capture = "window" => Fine(listed) /\ Same(changed, listed)
    BY <2>2, <2>3, <2>4, RefreshFine
  <2> HIDE DEF listed
  <2>6. Sane(t) /\ Packed(t) /\ (Live(t) => Applied(t)) /\ Same(changed, t)
    BY <2>3, <2>4, <2>5 DEF Fine, Live, Follows, Same, Kept
  <2>7. Fine(SourceEvent(t)) /\ Same(t, SourceEvent(t))
    BY <2>6, SourceFine
  <2> HIDE DEF t
  <2>8. Kept(s, SourceEvent(t), {"capture"})
    BY <2>3, <2>6, <2>7 DEF Same, Kept
  <2>9. SourceEvent(t).ui.capture = capture
    BY <2>2, <2>6, <2>7 DEF Same, Kept
  <2> QED
    BY <2>1, <2>7, <2>8, <2>9
<1> QED
  BY <1>1, <1>2

-----------------------------------------------------------------------------
(* A settings file that is loaded.                                         *)

\* What any file says: it was saved by this window.
Loadable ==
  file # <<>> =>
    /\ file.preset # 0 => file.text = Presets[file.preset]
    /\ file.buffer # 0 /\ file.good \in {2, 5}
    /\ file.text \in Timings /\ IsPreset(file.preset)
    /\ file.options \in Options /\ file.buffer \in BufferTexts

\* A preset a file names has the modeline the file gives, so the fields do not undo it.
LEMMA LoadModeFine ==
  ASSUME NEW s, Fine(s), Windows, Loadable, file # <<>>
  PROVE  /\ Fine(LoadMode(s))
         /\ LoadMode(s).ui.text = file.text /\ LoadMode(s).ui.preset = file.preset
<1> DEFINE picked == SelectPreset(s, file.preset)
<1>1. Fine(picked) /\ picked.ui.preset = file.preset
  BY SelectPresetFine DEF Loadable
<1>2. file.preset # 0 => picked.ui.text = file.text
  BY <1>1 DEF Fine, Sane, Controls, Loadable
<1>3. LoadMode(s) = TypeMode(picked, file.text)
  BY DEF LoadMode
<1> HIDE DEF picked
<1> QED
  BY <1>1, <1>2, <1>3, TypeModeFine DEF Loadable

\* The crop and its size.
LEMMA LoadSourceFine ==
  ASSUME NEW s, Fine(s), Windows
  PROVE  /\ Fine(LoadSource(s)) /\ Kept(s, LoadSource(s), {"crop", "size"})
         /\ LoadSource(s).ui.crop = file.crop
         /\ LoadSource(s).ui.size = file.size \/ file.crop = "x2"
<1> DEFINE cut == SetCrop(s, file.crop)
<1>1. Fine(cut) /\ Kept(s, cut, {"crop", "size"}) /\ cut.ui.crop = file.crop
  BY SetCropFine
<1>2. LoadSource(s) = SetSize(cut, file.size)
  BY DEF LoadSource
<1> HIDE DEF cut
<1>3. /\ Fine(LoadSource(s)) /\ Kept(cut, LoadSource(s), {"size"})
      /\ LoadSource(s).ui.size = file.size \/ file.crop = "x2"
  BY <1>1, <1>2, SetSizeFine
<1>4. LoadSource(s).ui.crop = file.crop
  BY <1>1, <1>3 DEF Kept
<1>5. Kept(s, LoadSource(s), {"crop", "size"})
  BY <1>1, <1>3 DEF Kept
<1> QED
  BY <1>3, <1>4, <1>5

\* The source, and the window list with the title of the file.
LEMMA LoadCaptureFine ==
  ASSUME NEW s, Fine(s), Windows
  PROVE  /\ Fine(LoadCapture(s)) /\ Kept(s, LoadCapture(s), {"capture"})
         /\ LoadCapture(s).ui.capture = IF file.version >= 3 THEN file.capture ELSE "display"
<1> DEFINE capture == IF file.version >= 3 THEN file.capture ELSE "display"
           switched == SetCapture(s, capture)
           window == file.version >= 3 /\ file.capture = "window"
<1>1. Fine(switched) /\ Kept(s, switched, {"capture"}) /\ switched.ui.capture = capture
  BY SetCaptureFine
<1>2. LoadCapture(s) = IF window THEN RefreshWindowSources(switched, file.title, FALSE)
                       ELSE switched
  BY DEF LoadCapture
<1> HIDE DEF switched, window
<1>3. CASE window
  <2> DEFINE t == LoadCapture(s)
  <2>1. Live(switched) => Applied(switched) /\ Follows(switched)
    BY <1>1 DEF Fine, Follows
  <2>2. Fine(t) /\ Same(switched, t)
    BY <1>1, <1>2, <1>3, <2>1, RefreshFine DEF Fine
  <2> HIDE DEF t, capture
  <2>3. Kept(s, t, {"capture"}) /\ t.ui.capture = capture
    BY <1>1, <2>2 DEF Same, Kept
  <2> QED
    BY <2>2, <2>3 DEF t, capture
<1>4. CASE ~window
  BY <1>1, <1>2, <1>4
<1> QED
  BY <1>3, <1>4

\* The handlers once more, and the buffer.
LEMMA LoadBufferFine ==
  ASSUME NEW s, Fine(s), Windows, Loadable, file # <<>>
  PROVE  /\ Fine(LoadBuffer(s)) /\ Kept(s, LoadBuffer(s), {"buffer"})
         /\ LoadBuffer(s).ui.buffer = IF file.version >= 4 THEN file.buffer ELSE FirstBuffer
<1> DEFINE buffer == IF file.version >= 4 /\ file.buffer # 0 THEN file.buffer ELSE FirstBuffer
           given == OnStreamOptionsChanged(s)
           set == SetBuffer(given, buffer)
           t == [set EXCEPT !.lib.buffer = buffer]
<1>1. Fine(given) /\ Same(s, given)
  BY OptionsFine DEF Fine
<1>2. Fine(set) /\ Kept(given, set, {"buffer"}) /\ set.ui.buffer = buffer
  BY <1>1, SetBufferFine, FrontAssumption DEF Loadable
<1>3. LoadBuffer(s) = t
  BY DEF LoadBuffer
<1>4. buffer = IF file.version >= 4 THEN file.buffer ELSE FirstBuffer
  BY DEF Loadable
<1> HIDE DEF given, set, buffer
<1>5. Shape(t) /\ t.ui = set.ui /\ \A f \in LibFields \ {"buffer"} : t.lib[f] = set.lib[f]
  BY <1>2 DEF Fine, Sane, Shape, UiFields, LibFields
<1> HIDE DEF t
<1>6. Sane(t) /\ Packed(t) /\ Cropped(t) /\ Kept(set, t, {})
  BY <1>2, <1>5 DEF Fine, Sane, Controls, Cropped, Locked, Packed, Kept, UiFields, LibFields
<1>7. Live(t) => Follows(t)
  BY <1>2, <1>5 DEF Fine, Live, Follows, Applied, ValidMode, Capturable, Aimed, Target, UiFields,
                    LibFields
<1>8. Kept(s, t, {"buffer"})
  BY <1>1, <1>2, <1>6 DEF Same, Kept
<1> QED
  BY <1>2, <1>3, <1>4, <1>5, <1>6, <1>7, <1>8 DEF Fine

\* SettingsRestored, of any window.
Restored(s) ==
  /\ <<s.ui.text, s.ui.crop, s.ui.size>> = <<file.text, file.crop, file.size>>
       \/ (s.ui.crop = "x2" /\ s.ui.text = file.text /\ file.crop = "x2")
  /\ s.ui.options = IF file.version >= 2 THEN file.options ELSE OldOptions
  /\ s.ui.capture = IF file.version >= 3 THEN file.capture ELSE "display"
  /\ s.ui.buffer = IF file.version >= 4 THEN file.buffer ELSE FirstBuffer
  /\ s.ui.preset = file.preset

\* A file read to its end is what is shown, and wherever it ends the library follows.
LEMMA LoadFine ==
  ASSUME NEW s, Fine(s), Windows, Loadable, file # <<>>
  PROVE  Fine(LoadSaveFile(s)) /\ (file.good = 5 => Restored(LoadSaveFile(s)))
<1> DEFINE timing == LoadMode(s)
           source == LoadSource(timing)
           options == LoadOptions(source)
           capture == LoadCapture(options)
           t == LoadBuffer(capture)
           shown == IF file.version >= 2 THEN file.options ELSE OldOptions
<1>1. Fine(timing) /\ timing.ui.text = file.text /\ timing.ui.preset = file.preset
  BY LoadModeFine
<1>2. /\ Fine(source) /\ Kept(timing, source, {"crop", "size"})
      /\ source.ui.crop = file.crop
      /\ source.ui.size = file.size \/ file.crop = "x2"
  BY <1>1, LoadSourceFine
<1>3. Fine(options) /\ Kept(source, options, {"options"}) /\ options.ui.options = shown
  BY <1>2, SetOptionsFine, FrontAssumption DEF LoadOptions, Loadable
<1>4. /\ Fine(capture) /\ Kept(options, capture, {"capture"})
      /\ capture.ui.capture = IF file.version >= 3 THEN file.capture ELSE "display"
  BY <1>3, LoadCaptureFine
<1>5. /\ Fine(t) /\ Kept(capture, t, {"buffer"})
      /\ t.ui.buffer = IF file.version >= 4 THEN file.buffer ELSE FirstBuffer
  BY <1>4, LoadBufferFine
<1>6. LoadSaveFile(s) = <<s, timing, source, options, capture, t>>[file.good + 1]
  BY DEF LoadSaveFile
<1> HIDE DEF timing, source, options, capture, t, shown
<1>7. CASE file.good = 2
  BY <1>2, <1>6, <1>7
<1>8. CASE file.good = 5
  <2>1. LoadSaveFile(s) = t
    BY <1>6, <1>8
  <2>2. /\ t.ui.text = file.text /\ t.ui.preset = file.preset /\ t.ui.crop = file.crop
        /\ t.ui.options = shown /\ t.ui.capture = capture.ui.capture
        /\ t.ui.size = file.size \/ file.crop = "x2"
    <3>1. /\ source.ui.text = file.text /\ source.ui.preset = file.preset
      BY <1>1, <1>2 DEF Kept
    <3>2. /\ options.ui.text = file.text /\ options.ui.preset = file.preset
          /\ options.ui.crop = file.crop
          /\ options.ui.size = file.size \/ file.crop = "x2"
      BY <1>2, <1>3, <3>1 DEF Kept
    <3>3. /\ capture.ui.text = file.text /\ capture.ui.preset = file.preset
          /\ capture.ui.crop = file.crop /\ capture.ui.options = shown
          /\ capture.ui.size = file.size \/ file.crop = "x2"
      BY <1>3, <1>4, <3>2 DEF Kept
    <3> QED
      BY <1>5, <3>3 DEF Kept
  <2> QED
    BY <1>4, <1>5, <2>1, <2>2 DEF Restored, shown
<1> QED
  BY <1>7, <1>8 DEF Loadable

-----------------------------------------------------------------------------
(* The window as it comes up, and one lemma per event.                     *)

\* The window as it comes up.
LEMMA ConstructedFine ==
  ASSUME Windows
  PROVE  Fine(Constructed) /\ Constructed.ui.ready = FALSE
<1> DEFINE s == [ui |-> FirstShown, lib |-> Native]
<1>1. s.ui = FirstShown /\ s.lib = Native
  OBVIOUS
<1>2. Shape(s)
  BY DEF Shape, UiFields, LibFields, FirstShown, Native
<1>3. Controls(s)
  <2>1. /\ s.ui.preset = 1 /\ s.ui.text = Presets[1] /\ s.ui.cropmode = "custom"
        /\ s.ui.selected = NoWindow /\ s.ui.listed = {} /\ s.ui.cache = Presets[1]
        /\ s.ui.options = FirstOptions /\ s.ui.buffer = FirstBuffer
        /\ s.lib.mode = Presets[1] /\ s.lib.options = FirstOptions
    BY <1>1 DEF FirstShown, Native
  <2>3. Presets[1] \in Timings /\ FirstOptions \in Options /\ FirstBuffer \in BufferTexts
        /\ IsPreset(1)
    BY FrontAssumption DEF IsPreset
  <2>2. s.ui.ready = FALSE /\ s.ui.streaming = FALSE /\ s.ui.closed = FALSE
    BY <1>1 DEF FirstShown
  <2> HIDE DEF s
  <2> QED
    BY <2>1, <2>2, <2>3 DEF Controls
<1>4. Locked(s) /\ Packed(s) /\ Cropped(s) /\ ~Live(s) /\ s.ui.ready = FALSE
  BY <1>1 DEF Locked, Packed, Cropped, Live, FirstShown, Native, Idle
<1> HIDE DEF s
<1>5. Fine(Constructed) /\ Same(s, Constructed)
  BY <1>2, <1>3, <1>4, RefreshFine DEF Constructed, Sane, s
<1> QED
  BY <1>4, <1>5 DEF Same, Kept

\* Fine is about a window while the windows of other programs stay.
LEMMA Moved ==
  ASSUME NEW s, Fine(s), front' = s, UNCHANGED <<alive, opened>>
  PROVE  Fine(front)'
<1>1. Sane(front)'
  BY DEF Fine, Sane, Shape, Controls, Locked
<1>2. Packed(front)' /\ Cropped(front)'
  BY DEF Fine, Packed, Cropped
<1>3. (Live(front) => Follows(front))'
  BY DEF Fine, Live, Follows, Applied, ValidMode, Capturable, Aimed, Target
<1> QED
  BY <1>1, <1>2, <1>3 DEF Fine

\* An event whose handler leaves a window that is Fine.
LEMMA Became ==
  ASSUME NEW s, Fine(s), Become(s) PROVE Fine(front)'
  BY Moved DEF Become

\* A session begins: what it runs with is what the gate was just asked about.
LEMMA BeginFine ==
  ASSUME NEW s, Fine(s), s.ui.ready, ~s.ui.closed, s.ui.start = TRUE, CanStart(s)
  PROVE  Fine(SetStreamControlsEnabled([BeginStream(s) EXCEPT !.ui.streaming = TRUE], FALSE))
<1> DEFINE yes == TRUE
           no == FALSE
           running == [options |-> s.lib.options, mode |-> s.lib.mode, buffer |-> s.lib.buffer]
           begun == [s EXCEPT !.lib.running = running]
           on == [begun EXCEPT !.ui.streaming = yes]
           locked == [on EXCEPT !.ui.options_live = no]
           t == [locked EXCEPT !.ui.pack = no /\ on.ui.options \in Nlc]
<1>1. SetStreamControlsEnabled([BeginStream(s) EXCEPT !.ui.streaming = TRUE], FALSE) = t
  BY DEF SetStreamControlsEnabled, BeginStream
<1>2. running # Idle /\ GateAccepts(running.mode, running.options)
  BY DEF CanStart, Idle
<1> HIDE DEF yes, no, running
<1>3. /\ Shape(begun) /\ begun.ui = s.ui /\ begun.lib.running = running
      /\ \A f \in LibFields \ {"running"} : begun.lib[f] = s.lib[f]
  BY DEF Fine, Sane, Shape, UiFields, LibFields
<1> HIDE DEF begun
<1>4. /\ Shape(on) /\ on.lib = begun.lib /\ on.ui.streaming = yes
      /\ \A f \in UiFields \ {"streaming"} : on.ui[f] = s.ui[f]
  BY <1>3 DEF Shape, UiFields, LibFields
<1> HIDE DEF on
<1>5. /\ Shape(locked) /\ locked.lib = begun.lib /\ locked.ui.options_live = no
      /\ \A f \in UiFields \ {"options_live"} : locked.ui[f] = on.ui[f]
  BY <1>4 DEF Shape, UiFields, LibFields
<1> HIDE DEF locked
<1>6. /\ Shape(t) /\ t.lib = begun.lib /\ t.ui.pack = (no /\ on.ui.options \in Nlc)
      /\ \A f \in UiFields \ {"pack"} : t.ui[f] = locked.ui[f]
  BY <1>5 DEF Shape, UiFields, LibFields
<1> HIDE DEF t
<1>7. /\ t.ui.streaming = yes /\ t.ui.options_live = no /\ t.ui.pack = (no /\ on.ui.options \in Nlc)
      /\ t.lib.running = running
      /\ \A f \in UiFields \ {"streaming", "options_live", "pack"} : t.ui[f] = s.ui[f]
      /\ \A f \in LibFields \ {"running"} : t.lib[f] = s.lib[f]
  BY <1>3, <1>4, <1>5, <1>6 DEF UiFields
<1>8. Controls(t) /\ Cropped(t)
  BY <1>7 DEF Fine, Sane, Controls, Cropped, UiFields, LibFields, yes
<1>9. Locked(t) /\ Packed(t)
  <2>1. t.ui.streaming /\ ~t.ui.options_live /\ ~t.ui.pack
    BY <1>7 DEF yes, no
  <2>2. t.ui.start /\ t.ui.ready
    BY <1>7 DEF UiFields
  <2> QED
    <3>1. t.lib.running # Idle /\ GateAccepts(t.lib.running.mode, t.lib.running.options)
      BY <1>2, <1>7
    <3>2. t.ui.streaming = (t.lib.running # Idle)
      BY <1>7, <3>1 DEF yes
    <3> QED
      BY <2>1, <2>2, <3>1, <3>2 DEF Locked, Packed
<1>10. Live(t) => Follows(t)
  BY <1>7 DEF Fine, Live, Follows, Applied, ValidMode, Capturable, Aimed, Target, UiFields,
               LibFields
<1> QED
  BY <1>1, <1>6, <1>8, <1>9, <1>10 DEF Fine, Sane

\* A session ends: its controls are live again, the codec's own if the codec is chosen.
LEMMA StopFine ==
  ASSUME NEW s, Fine(s), ~s.ui.closed
  PROVE  Fine(SetStreamControlsEnabled(
                [s EXCEPT !.lib.running = Idle, !.ui.streaming = FALSE, !.ui.apply = FALSE], TRUE))
<1> DEFINE yes == TRUE
           no == FALSE
           ended == [s EXCEPT !.lib.running = Idle]
           off == [ended EXCEPT !.ui.streaming = no]
           plain == [off EXCEPT !.ui.apply = no]
           free == [plain EXCEPT !.ui.options_live = yes]
           t == [free EXCEPT !.ui.pack = yes /\ plain.ui.options \in Nlc]
<1>1. SetStreamControlsEnabled(
        [s EXCEPT !.lib.running = Idle, !.ui.streaming = FALSE, !.ui.apply = FALSE], TRUE) = t
  BY DEF SetStreamControlsEnabled
<1> HIDE DEF yes, no
<1>3. /\ Shape(ended) /\ ended.ui = s.ui /\ ended.lib.running = Idle
      /\ \A f \in LibFields \ {"running"} : ended.lib[f] = s.lib[f]
  BY DEF Fine, Sane, Shape, UiFields, LibFields
<1> HIDE DEF ended
<1>4. /\ Shape(off) /\ off.lib = ended.lib /\ off.ui.streaming = no
      /\ \A f \in UiFields \ {"streaming"} : off.ui[f] = s.ui[f]
  BY <1>3 DEF Shape, UiFields, LibFields
<1> HIDE DEF off
<1>5. /\ Shape(plain) /\ plain.lib = ended.lib
      /\ \A f \in UiFields \ {"apply"} : plain.ui[f] = off.ui[f]
  BY <1>4 DEF Shape, UiFields, LibFields
<1> HIDE DEF plain
<1>6. /\ Shape(free) /\ free.lib = ended.lib /\ free.ui.options_live = yes
      /\ \A f \in UiFields \ {"options_live"} : free.ui[f] = plain.ui[f]
  BY <1>5 DEF Shape, UiFields, LibFields
<1> HIDE DEF free
<1>7. /\ Shape(t) /\ t.lib = ended.lib /\ t.ui.pack = (yes /\ plain.ui.options \in Nlc)
      /\ \A f \in UiFields \ {"pack"} : t.ui[f] = free.ui[f]
  BY <1>6 DEF Shape, UiFields, LibFields
<1> HIDE DEF t
<1>8. /\ t.ui.streaming = no /\ t.ui.options_live = yes
      /\ t.ui.pack = (yes /\ s.ui.options \in Nlc) /\ t.lib.running = Idle
      /\ \A f \in UiFields \ {"streaming", "options_live", "pack", "apply"} : t.ui[f] = s.ui[f]
      /\ \A f \in LibFields \ {"running"} : t.lib[f] = s.lib[f]
  BY <1>3, <1>4, <1>5, <1>6, <1>7 DEF UiFields
<1>9. Controls(t) /\ Cropped(t)
  BY <1>8 DEF Fine, Sane, Controls, Cropped, UiFields, LibFields, no
<1>10. Locked(t) /\ Packed(t)
  <2>1. ~t.ui.streaming /\ t.ui.options_live /\ t.ui.pack = (s.ui.options \in Nlc)
    BY <1>8 DEF yes, no
  <2>2. t.ui.options = s.ui.options
    BY <1>8 DEF UiFields
  <2>3. t.ui.streaming = (t.lib.running # Idle)
    BY <1>8 DEF no
  <2> QED
    BY <1>8, <2>1, <2>2, <2>3 DEF Locked, Packed
<1>11. Live(t) => Follows(t)
  BY <1>8 DEF Fine, Live, Follows, Applied, ValidMode, Capturable, Aimed, Target, UiFields,
               LibFields
<1> QED
  BY <1>1, <1>7, <1>9, <1>10, <1>11 DEF Fine, Sane

\* The last look at modeline and buffer before a session.
LEMMA CheckedFine ==
  ASSUME NEW s, Fine(s), NEW buffer
  PROVE  LET checked == Validated([s EXCEPT !.lib.buffer = buffer])
         IN  /\ Fine(checked) /\ Same(s, checked)
             /\ ValidMode([s EXCEPT !.lib.buffer = buffer]) => checked.ui.start = TRUE
<1> DEFINE buffered == [s EXCEPT !.lib.buffer = buffer]
           start == ValidMode(buffered) \/ buffered.ui.streaming
           t == [buffered EXCEPT !.ui.start = start]
<1>1. Validated(buffered) = t
  BY DEF Validated
<1>2. start \in BOOLEAN
  OBVIOUS
<1>3. /\ Shape(buffered) /\ buffered.ui = s.ui
      /\ \A f \in LibFields \ {"buffer"} : buffered.lib[f] = s.lib[f]
  BY DEF Fine, Sane, Shape, UiFields, LibFields
<1>4. (s.ui.streaming => start) /\ (ValidMode(buffered) => start)
  BY <1>3
<1> HIDE DEF buffered, start
<1>5. /\ Shape(t) /\ t.lib = buffered.lib /\ t.ui.start = start
      /\ \A f \in UiFields \ {"start"} : t.ui[f] = s.ui[f]
  BY <1>3 DEF Shape, UiFields, LibFields
<1> HIDE DEF t
<1>6. Controls(t) /\ Cropped(t) /\ Same(s, t)
  BY <1>3, <1>5 DEF Fine, Sane, Controls, Cropped, Same, Kept, UiFields, LibFields
<1>7. Locked(t) /\ Packed(t)
  BY <1>3, <1>4, <1>5 DEF Fine, Sane, Locked, Packed, UiFields, LibFields
<1>8. Live(t) => Follows(t)
  BY <1>3, <1>5 DEF Fine, Live, Follows, Applied, ValidMode, Capturable, Aimed, Target, UiFields,
                    LibFields
<1>9. Fine(t) /\ Same(s, t) /\ (ValidMode(buffered) => t.ui.start = TRUE)
  BY <1>2, <1>4, <1>5, <1>6, <1>7, <1>8 DEF Fine, Sane
<1> QED
  BY <1>1, <1>9 DEF buffered

\* Turning the preview off leaves the start button as it is.
LEMMA BlindStart ==
  ASSUME NEW s, Shape(s) PROVE SetPreview(s, FALSE).ui.start = s.ui.start
<1> DEFINE no == FALSE
           t == [s EXCEPT !.ui.preview = no]
<1>1. SetPreview(s, FALSE) \in {s, t, OnCaptureSourceChanged(t)}
  BY DEF SetPreview, SourceEvent
<1> HIDE DEF no
<1>2. Shape(t) /\ t.ui.start = s.ui.start
  BY DEF Shape, UiFields, LibFields
<1> HIDE DEF t
<1>3. OnCaptureSourceChanged(t).ui.start = s.ui.start
  <2>1. OnCaptureSourceChanged(t).ui = [t.ui EXCEPT !.cropmode = t.ui.crop]
    BY <1>2, CaptureChanges
  <2>2. t.ui = [f \in UiFields |-> t.ui[f]]
    BY <1>2 DEF Shape
  <2>3. OnCaptureSourceChanged(t).ui.start = t.ui.start
    BY <2>1, <2>2 DEF UiFields
  <2> QED
    BY <1>2, <2>3
<1> QED
  BY <1>1, <1>2, <1>3

\* The modeline typed is applied.
LEMMA ApplyFine ==
  ASSUME Fine(front), Windows
  PROVE  Fine([OnModelineChanged(front) EXCEPT !.ui.apply = FALSE])
<1> DEFINE s == OnModelineChanged(front)
           no == FALSE
           t == [s EXCEPT !.ui.apply = no]
<1>1. Fine(s)
  BY ModelineFine DEF Fine, Follows, Applied
<1> HIDE DEF s, no
<1>2. /\ Shape(t) /\ t.lib = s.lib
      /\ \A f \in UiFields \ {"apply"} : t.ui[f] = s.ui[f]
  BY <1>1 DEF Fine, Sane, Shape, UiFields, LibFields
<1> HIDE DEF t
<1>3. Sane(t) /\ Packed(t) /\ Cropped(t)
  BY <1>1, <1>2 DEF Fine, Sane, Controls, Cropped, Locked, Packed, UiFields
<1>4. Live(t) => Follows(t)
  BY <1>1, <1>2 DEF Fine, Live, Follows, Applied, ValidMode, Capturable, Aimed, Target, UiFields
<1> QED
  BY <1>3, <1>4 DEF Fine, s, t, no

\* The window is closed, whatever ran.
LEMMA ClosedFine ==
  ASSUME NEW s, Fine(s), ~s.ui.closed
  PROVE  Fine([s EXCEPT !.ui.closed = TRUE, !.lib.running = Idle, !.lib.on = FALSE])
<1> DEFINE yes == TRUE
           no == FALSE
           shut == [s EXCEPT !.ui.closed = yes]
           ended == [shut EXCEPT !.lib.running = Idle]
           t == [ended EXCEPT !.lib.on = no]
<1>1. [s EXCEPT !.ui.closed = TRUE, !.lib.running = Idle, !.lib.on = FALSE] = t
  OBVIOUS
<1> HIDE DEF yes, no
<1>2. /\ Shape(shut) /\ shut.lib = s.lib /\ shut.ui.closed = yes
      /\ \A f \in UiFields \ {"closed"} : shut.ui[f] = s.ui[f]
  BY DEF Fine, Sane, Shape, UiFields, LibFields
<1> HIDE DEF shut
<1>3. Shape(ended) /\ ended.ui = shut.ui /\ ended.lib.running = Idle
      /\ ended.lib.mode = s.lib.mode /\ ended.lib.options = s.lib.options
  BY <1>2 DEF Shape, UiFields, LibFields
<1> HIDE DEF ended
<1>4. Shape(t) /\ t.ui = shut.ui /\ t.lib.running = Idle
      /\ t.lib.mode = s.lib.mode /\ t.lib.options = s.lib.options
  BY <1>3 DEF Shape, UiFields, LibFields
<1> HIDE DEF t
<1>5. t.ui.closed = TRUE /\ \A f \in UiFields \ {"closed"} : t.ui[f] = s.ui[f]
  BY <1>2, <1>4 DEF yes
<1>6. Controls(t)
  <2>1. /\ t.ui.ready = s.ui.ready /\ t.ui.streaming = s.ui.streaming
        /\ t.ui.text = s.ui.text /\ t.ui.cache = s.ui.cache /\ t.ui.options = s.ui.options
        /\ t.ui.preset = s.ui.preset /\ t.ui.buffer = s.ui.buffer
        /\ t.ui.cropmode = s.ui.cropmode /\ t.ui.selected = s.ui.selected
        /\ t.ui.listed = s.ui.listed
    BY <1>5 DEF UiFields
  <2> QED
    BY <1>4, <1>5, <2>1 DEF Fine, Sane, Controls
<1>9. Cropped(t) /\ Packed(t)
  BY <1>5 DEF Fine, Cropped, Packed, UiFields
<1>7. Locked(t)
  BY <1>4, <1>5 DEF Fine, Sane, Locked, UiFields
<1>8. ~Live(t)
  BY <1>5 DEF Live
<1> QED
  BY <1>1, <1>4, <1>6, <1>7, <1>8, <1>9 DEF Fine, Sane

\* All the ways in which a press on the start button ends.
LEMMA StartFine ==
  ASSUME Fine(front), Windows, NEW up \in BOOLEAN, NEW resolves \in BOOLEAN,
         StartPressed(up, resolves)
  PROVE  Fine(front)'
<1> DEFINE asked == IF ui.ready THEN front ELSE InitializeMiSTerCast(front, up)
           buffered == [asked EXCEPT !.lib.buffer = ui.buffer]
           checked == Validated(buffered)
           blind == SetPreview(checked, FALSE)
           started == SetStreamControlsEnabled(
                        [BeginStream(blind) EXCEPT !.ui.streaming = TRUE], FALSE)
<1>0. /\ Become(IF ~asked.ui.ready \/ ui.buffer = 0 THEN asked
                ELSE IF ~ValidMode(buffered) THEN checked
                     ELSE IF ~resolves \/ ~CanStart(blind) THEN blind ELSE started)
      /\ ~front.ui.closed
  BY DEF StartPressed, Become, Event, ui
<1>1. Fine(asked) /\ ~asked.ui.closed
  <2>1. CASE front.ui.ready
    BY <1>0, <2>1 DEF ui
  <2>2. CASE ~front.ui.ready /\ up
    <3>1. asked = InitializeMiSTerCast(front, TRUE)
      BY <2>2 DEF ui, InitializeMiSTerCast
    <3>2. Fine(asked) /\ Kept(front, asked, {"ready"})
      BY <2>2, <3>1, InitializeFine DEF Fine
    <3> QED
      BY <1>0, <3>2 DEF Kept
  <2>3. CASE ~front.ui.ready /\ ~up
    BY <1>0, <2>3 DEF ui, InitializeMiSTerCast
  <2> QED
    BY <2>1, <2>2, <2>3
<1>2. /\ Fine(checked) /\ Same(asked, checked)
      /\ ValidMode(buffered) => checked.ui.start = TRUE
  BY <1>1, CheckedFine
<1>3. Fine(blind) /\ Same(checked, blind) /\ blind.ui.start = checked.ui.start
  <2> DEFINE no == FALSE
  <2>1. blind = SetPreview(checked, no)
    OBVIOUS
  <2>2. Shape(checked)
    BY <1>2 DEF Fine, Sane
  <2>3. blind.ui.start = checked.ui.start
    <3> HIDE DEF checked
    <3> QED
      BY <2>2, BlindStart
  <2> HIDE DEF no, checked, blind
  <2>4. Fine(SetPreview(checked, no)) /\ Same(checked, SetPreview(checked, no))
    BY <1>2, SetPreviewFine DEF Fine
  <2> QED
    BY <2>1, <2>3, <2>4
<1>4. asked.ui.ready => blind.ui.ready
  BY <1>2, <1>3 DEF Same, Kept
<1>5. ~blind.ui.closed
  BY <1>1, <1>2, <1>3 DEF Same, Kept
<1>6. asked.ui.ready /\ ValidMode(buffered) /\ CanStart(blind) => Fine(started)
  BY <1>2, <1>3, <1>4, <1>5, BeginFine
<1> HIDE DEF asked, buffered, checked, blind, started
<1> QED
  BY <1>0, <1>1, <1>2, <1>3, <1>6, Became

-----------------------------------------------------------------------------
(* Whatever the order of the events.                                       *)

FrontInv == Fine(front) /\ Windows /\ Loadable /\ (loaded => Restored(front))

\* The invariant holds at first.
LEMMA FrontStart == FrontInit => FrontInv
<1> SUFFICES ASSUME FrontInit PROVE FrontInv
  OBVIOUS
<1>1. Windows
  BY FrontAssumption DEF FrontInit, Windows
<1>2. Fine(front)
  BY <1>1, ConstructedFine DEF FrontInit
<1> QED
  BY <1>1, <1>2 DEF FrontInv, FrontInit, Loadable

\* A handler ran: neither the file nor the windows of other programs have moved.
LEMMA HandlerInv ==
  ASSUME FrontInv, NEW s, Fine(s), Become(s) PROVE FrontInv'
<1>1. Fine(front)'
  BY Became
<1>2. Windows' /\ Loadable' /\ ~loaded'
  BY DEF FrontInv, Become, Windows, Loadable
<1> QED
  BY <1>1, <1>2 DEF FrontInv

\* Every event keeps it.
LEMMA FrontSteps == FrontInv /\ [FrontNext]_frontVars => FrontInv'
<1> SUFFICES ASSUME FrontInv, [FrontNext]_frontVars PROVE FrontInv'
  OBVIOUS
<1>0. Fine(front) /\ Windows /\ Loadable
  BY DEF FrontInv
<1>1. CASE LibraryReady
  <2>1. Sane(front) /\ Cropped(front) /\ ~front.ui.ready
    BY <1>0, <1>1, ConstructedFine DEF LibraryReady, Fine
  <2> DEFINE t == InitializeMiSTerCast(front, TRUE)
  <2>2. Fine(t) /\ Kept(front, t, {"ready"})
    BY <1>0, <2>1, InitializeFine
  <2>3. front' = t /\ UNCHANGED <<alive, opened, file, loaded>>
    BY <1>1 DEF LibraryReady
  <2> HIDE DEF t
  <2>4. Fine(front)'
    BY <2>2, <2>3, Moved
  <2>5. Restored(front) => Restored(t)
    BY <2>2 DEF Restored, Kept
  <2>6. (loaded => Restored(front))'
    BY <2>3, <2>5 DEF FrontInv, Restored
  <2> QED
    BY <1>0, <2>3, <2>4, <2>6 DEF FrontInv, Windows, Loadable
<1>2. ASSUME NEW m \in Timings, EditMode(m) PROVE FrontInv'
  BY <1>0, <1>2, TypeModeFine, HandlerInv DEF EditMode
<1>3. ASSUME NEW p \in 0 .. Len(Presets), PickPreset(p) PROVE FrontInv'
  BY <1>0, <1>3, SelectPresetFine, HandlerInv DEF PickPreset, IsPreset
<1>4. CASE ApplyModeline
  BY <1>0, <1>4, ApplyFine, HandlerInv DEF ApplyModeline
<1>5. ASSUME NEW o \in Options, EditOptions(o) PROVE FrontInv'
  BY <1>0, <1>5, SetOptionsFine, HandlerInv DEF EditOptions
<1>6. ASSUME NEW c \in {"custom", "x2"}, EditCrop(c) PROVE FrontInv'
  BY <1>0, <1>6, SetCropFine, HandlerInv DEF EditCrop
<1>7. ASSUME NEW n \in SizeTexts, EditSize(n) PROVE FrontInv'
  BY <1>0, <1>7, SetSizeFine, HandlerInv DEF EditSize
<1>8. CASE EditPreview
  <2> DEFINE other == ~ui.preview
  <2>1. Become(SetPreview(front, other))
    BY <1>8 DEF EditPreview
  <2> HIDE DEF other
  <2> QED
    BY <1>0, <2>1, SetPreviewFine, HandlerInv DEF Fine
<1>9. ASSUME NEW b \in BufferTexts, EditBuffer(b) PROVE FrontInv'
  BY <1>0, <1>9, SetBufferFine, HandlerInv DEF EditBuffer
<1>10. ASSUME NEW c \in {"display", "window"}, EditCapture(c) PROVE FrontInv'
  BY <1>0, <1>10, SetCaptureFine, HandlerInv DEF EditCapture
<1>11. ASSUME NEW w \in Handles, PickWindow(w) PROVE FrontInv'
  BY <1>0, <1>11, SelectWindowFine, HandlerInv DEF PickWindow, ui
<1>12. CASE RefreshWindows
  <2> DEFINE yes == TRUE
  <2>1. Become(RefreshWindowSources(front, NoTitle, yes))
    BY <1>12 DEF RefreshWindows
  <2> HIDE DEF yes
  <2> QED
    BY <1>0, <2>1, RefreshFine, HandlerInv DEF Fine, Follows
<1>13. ASSUME NEW up \in BOOLEAN, NEW resolves \in BOOLEAN, StartPressed(up, resolves)
       PROVE FrontInv'
  <2>1. Fine(front)'
    BY <1>0, <1>13, StartFine
  <2>2. Windows' /\ Loadable' /\ ~loaded'
    BY <1>0, <1>13 DEF StartPressed, Become, Windows, Loadable
  <2> QED
    BY <2>1, <2>2 DEF FrontInv
<1>14. CASE StopPressed
  BY <1>0, <1>14, StopFine, HandlerInv DEF StopPressed, Become, Event, ui
<1>15. ASSUME NEW v \in 1 .. 4, NEW g \in {2, 5}, SaveSettings(v, g) PROVE FrontInv'
  <2>1. UNCHANGED <<front, alive, opened>> /\ ~loaded' /\ file' = Settings(ui, v, g)
        /\ front.ui.buffer # 0
    BY <1>15 DEF SaveSettings, ui
  <2>2. Fine(front)'
    BY <1>0, <2>1, Moved
  <2>3. /\ file'.preset = front.ui.preset /\ file'.text = front.ui.text
        /\ file'.buffer = front.ui.buffer /\ file'.good = g /\ file'.options = front.ui.options
    BY <2>1 DEF Settings, ui
  <2>4. Loadable'
    BY <1>0, <2>1, <2>3 DEF Loadable, Fine, Sane, Controls
  <2> QED
    BY <1>0, <2>1, <2>2, <2>4 DEF FrontInv, Windows
<1>16. CASE LoadSettings
  <2> DEFINE t == LoadSaveFile(front)
  <2>1. /\ front' = t /\ UNCHANGED <<alive, opened, file>> /\ loaded' = (file.good = 5)
        /\ file # <<>>
    BY <1>16 DEF LoadSettings
  <2>2. Fine(t) /\ (file.good = 5 => Restored(t))
    BY <1>0, <2>1, LoadFine
  <2> HIDE DEF t
  <2>3. Fine(front)'
    BY <2>1, <2>2, Moved
  <2>4. (loaded => Restored(front))'
    BY <2>1, <2>2 DEF Restored
  <2> QED
    BY <1>0, <2>1, <2>3, <2>4 DEF FrontInv, Windows, Loadable
<1>17. CASE Closing
  BY <1>0, <1>17, ClosedFine, HandlerInv DEF Closing, Become, Event, ui
<1>18. CASE Launch
  <2>1. Fine(Constructed) /\ front' = Constructed /\ UNCHANGED <<alive, opened, file>> /\ ~loaded'
    BY <1>0, <1>18, ConstructedFine DEF Launch
  <2>2. Fine(front)'
    BY <2>1, Moved
  <2> QED
    BY <1>0, <2>1, <2>2 DEF FrontInv, Windows, Loadable
<1>19. CASE WindowOpens
  <2>1. /\ opened + 1 \in Handles /\ opened' = opened + 1 /\ alive' = alive \union {opened + 1}
        /\ ~loaded' /\ UNCHANGED <<front, file>>
    BY <1>19 DEF WindowOpens
  <2>2. Windows' /\ Loadable'
    BY <1>0, <2>1 DEF Windows, Loadable
  <2>3. Sane(front)' /\ Packed(front)' /\ Cropped(front)'
    <3>1. 0 .. opened \subseteq 0 .. opened'
      BY <1>0, <2>1 DEF Windows
    <3>2. Controls(front)'
      BY <1>0, <2>1, <3>1 DEF Fine, Sane, Controls
    <3> QED
      BY <1>0, <2>1, <3>2 DEF Fine, Sane, Shape, Locked, Packed, Cropped
  <2>4. front.ui.selected # opened + 1
    <3>1. front.ui.selected \in 0 .. opened
      BY <1>0 DEF Fine, Sane, Controls, Windows, NoWindow
    <3> QED
      BY <1>0, <3>1 DEF Windows
  <2>5. (Live(front) => Follows(front))'
    BY <1>0, <2>1, <2>4 DEF Fine, Live, Follows, Applied, ValidMode, Capturable, Aimed, Target
  <2> QED
    BY <2>1, <2>2, <2>3, <2>5 DEF FrontInv, Fine
<1>20. CASE WindowCloses
  <2>1. /\ alive' \subseteq alive /\ ~loaded' /\ UNCHANGED <<front, opened, file>>
    BY <1>20 DEF WindowCloses
  <2>2. Windows' /\ Loadable'
    BY <1>0, <2>1 DEF Windows, Loadable
  <2>3. Sane(front)' /\ Packed(front)' /\ Cropped(front)'
    BY <1>0, <2>1 DEF Fine, Sane, Shape, Controls, Locked, Packed, Cropped, Windows
  <2>4. (Live(front) => Follows(front))'
    BY <1>0, <2>1 DEF Fine, Live, Follows, Applied, ValidMode, Capturable, Aimed, Target
  <2> QED
    BY <2>1, <2>2, <2>3, <2>4 DEF FrontInv, Fine
<1>21. CASE UNCHANGED frontVars
  <2>1. Fine(front)'
    BY <1>0, <1>21, Moved DEF frontVars
  <2> QED
    BY <1>21, <2>1 DEF FrontInv, frontVars, Windows, Loadable, Restored
<1> QED
  BY <1>1, <1>2, <1>3, <1>4, <1>5, <1>6, <1>7, <1>8, <1>9, <1>10, <1>11, <1>12, <1>13, <1>14,
     <1>15, <1>16, <1>17, <1>18, <1>19, <1>20, <1>21 DEF FrontNext

\* It is what was to be shown.
LEMMA FrontInvSuffices == FrontInv => FrontEndSound
<1> SUFFICES ASSUME FrontInv PROVE FrontEndSound
  OBVIOUS
<1>1. LibraryFollows
  BY DEF FrontInv, Fine, Live, Follows, Applied, Capturable, Aimed, LibraryFollows, SourceTaken,
         ui, lib
<1>2. SessionHeld
  BY DEF FrontInv, Fine, Sane, Locked, Packed, SessionHeld, ui, lib
<1>3. SettingsRestored
  BY DEF FrontInv, Restored, SettingsRestored, ui
<1> QED
  BY <1>1, <1>2, <1>3 DEF FrontEndSound

\* What is shown and what the library has are values they can have.
THEOREM FrontTypeCorrect == FrontSpec => []FrontTypeOK
<1>1. FrontSpec => []FrontInv
  BY FrontStart, FrontSteps, PTL DEF FrontSpec
<1>2. FrontInit => events \in 0 .. MaxEvents
  BY FrontAssumption DEF FrontInit
<1>3. events \in 0 .. MaxEvents /\ [FrontNext]_frontVars => (events \in 0 .. MaxEvents)'
  <2> SUFFICES ASSUME events \in 0 .. MaxEvents, [FrontNext]_frontVars
               PROVE  (events \in 0 .. MaxEvents)'
    OBVIOUS
  <2>1. Event => (events \in 0 .. MaxEvents)'
    BY FrontAssumption DEF Event
  <2>2. \A s : Become(s) => Event
    BY DEF Become
  <2>3. Event \/ events' = events
    BY <2>2 DEF FrontNext, LibraryReady, EditMode, PickPreset, ApplyModeline, EditOptions, EditCrop,
       EditSize, EditPreview, EditBuffer, EditCapture, PickWindow, RefreshWindows, StartPressed,
       StopPressed, SaveSettings, LoadSettings, Closing, Launch, WindowOpens, WindowCloses,
       frontVars
  <2> QED
    BY <2>1, <2>3
<1>4. FrontInv /\ events \in 0 .. MaxEvents => FrontTypeOK
  BY DEF FrontInv, Fine, Sane, Controls, Windows, FrontTypeOK, IsPreset, ui, lib
<1> QED
  BY <1>1, <1>2, <1>3, <1>4, PTL DEF FrontSpec

\* After any sequence of events the library has the settings shown that it accepts, a session
\* runs what it began with, and a settings file that was read to its end is what is shown.
THEOREM FrontEndIsSound == FrontSpec => []FrontEndSound
<1>1. FrontSpec => []FrontInv
  BY FrontStart, FrontSteps, PTL DEF FrontSpec
<1> QED
  BY <1>1, FrontInvSuffices, PTL

-----------------------------------------------------------------------------
(* The parts together.                                                     *)

\* Whatever part a behaviour of MCFrame is about, it is a behaviour of every part: the others
\* rest in their initial states.
THEOREM FrameParts ==
  FrameSpec => Spec /\ PackingSpec /\ CodecSpec /\ FrontSpec /\ BlockSpec
<1>1. FrameInit => Init /\ PackingInit /\ CodecInit /\ FrontInit /\ BlockInit
  BY DEF FrameInit
<1>2. [FrameNext]_framePartVars => [Next]_vars
  BY DEF FrameNext, framePartVars
<1>3. [FrameNext]_framePartVars => [PackingNext]_packingVars
  BY DEF FrameNext, framePartVars
<1>4. [FrameNext]_framePartVars => [CodecNext]_codecVars
  BY DEF FrameNext, framePartVars
<1>5. [FrameNext]_framePartVars => [FrontNext]_frontVars
  BY DEF FrameNext, framePartVars
<1>6. [FrameNext]_framePartVars => [BlockNext]_blockVars
  BY DEF FrameNext, framePartVars
<1> QED
  BY <1>1, <1>2, <1>3, <1>4, <1>5, <1>6, PTL
  DEF FrameSpec, Spec, PackingSpec, CodecSpec, FrontSpec, BlockSpec

\* What the invariant of the packing says of its variables.
LEMMA InvGivesTypes == PackingInv => PackingTypeOK
<1> SUFFICES ASSUME PackingInv PROVE PackingTypeOK
  OBVIOUS
<1>1. TypeInv /\ ModeAccepted /\ FieldOfMode
  BY DEF PackingInv
<1>2. mode \in Modelines \cup {NoModeline} /\ session.rgbMode \in RgbModes
  BY <1>1 DEF TypeInv
<1>3. BufferBytes \in Nat
  BY PackingAssumption
<1>4. rgbSize \in Nat
  <2>1. CASE mode = NoModeline
    BY <1>1, <2>1 DEF ModeAccepted
  <2>2. CASE mode # NoModeline
    <3>1. Accepts(mode, session) /\ rgbSize = ClientBytes(mode, session.rgbMode)
      BY <1>1, <2>2 DEF ModeAccepted
    <3>2. ClientBytes(mode, session.rgbMode) \in 1 .. BufferBytes
      BY <1>2, <3>1, AcceptedFits
    <3> QED
      BY <1>3, <3>1, <3>2
  <2> QED
    BY <2>1, <2>2
<1>5. packed.bytes \in Nat /\ packed.field \in {0, 1}
  <2>1. CASE packed = NoField
    BY <2>1 DEF NoField
  <2>2. CASE packed # NoField
    <3>1. mode # NoModeline
      BY <1>1, <2>2 DEF FieldOfMode
    <3>2. PICK field \in {0, 1}, width \in Nat \ {0}, height \in Nat \ {0} :
            packed = FieldOf(mode, session.rgbMode, field, width, height)
      BY <1>1, <2>2 DEF FieldOfMode
    <3>3. /\ packed.field = field
          /\ packed.bytes = mode.hactive * FieldHeight(mode) * BytesPerPixel(session.rgbMode)
      BY <3>2 DEF FieldOf
    <3>4. Accepts(mode, session)
      BY <1>1, <3>1 DEF ModeAccepted
    <3>5. /\ ClientBytes(mode, session.rgbMode)
               = mode.hactive * FieldHeight(mode) * BytesPerPixel(session.rgbMode)
          /\ ClientBytes(mode, session.rgbMode) \in 1 .. BufferBytes
      BY <1>2, <3>4, AcceptedFits
    <3> QED
      BY <1>3, <3>3, <3>5
  <2> QED
    BY <2>1, <2>2
<1> QED
  BY <1>1, <1>4, <1>5 DEF PackingTypeOK, TypeInv

\* All variables of the way of a frame keep their types, for every value of the constants.
THEOREM FrameTypes == FrameSpec => []FrameTypeOK
<1>1. PackingSpec => []PackingTypeOK
  BY InvGivesTypes, GateHolds, PTL
<1> QED
  BY <1>1, FrameParts, TypeCorrect, CodecTypes, FrontTypeCorrect, BlockTypes, PTL
  DEF FrameTypeOK
=============================================================================
