----------------------------- MODULE CaptureProof -----------------------------
(***************************************************************************)
(* What a session captures, for a pool of any size, all sizes of source,   *)
(* crop and modeline, all offsets and all sample rates: the handshake with *)
(* the pool of a window, the crop of a frame and its target, the audio     *)
(* device; then the three of them together, as they are run.               *)
(***************************************************************************)
EXTENDS MCCapture, TLAPS

\* NoFrameSleptThrough is kept by a callback only because it then makes the
\* counter pass the sample: no sample is ahead of the counter.
Handshake ==
  /\ TypeOK
  /\ seen <= signal
  /\ NoFrameSleptThrough

LEMMA RebuildTypeOK ==
  ASSUME TypeOK, Rebuild
  PROVE  /\ pool' \in {"none", "half", "open"}
         /\ queued' = 0 /\ held' = 0 /\ arriving' \in Nat
         /\ failures' \in 0 .. MaxFailures
  BY SizesAssumption DEF TypeOK, Rebuild

LEMMA InitHandshake == Init => Handshake
<1> SUFFICES ASSUME Init PROVE Handshake
  OBVIOUS
<1>1. 0 \in 0 .. MaxFailures
  BY SizesAssumption
<1>2. TypeOK
  BY <1>1 DEF Init, TypeOK
<1> QED
  BY <1>2 DEF Init, Handshake, NoFrameSleptThrough

\* One case for each action; the worker only falls asleep on an empty pool.
LEMMA StepHandshake == Handshake /\ [Next]_vars => Handshake'
<1> SUFFICES ASSUME Handshake, [Next]_vars PROVE Handshake'
  OBVIOUS
<1> USE SizesAssumption DEF Handshake, NoFrameSleptThrough, TypeOK
<1>1. CASE CheckStop
  BY <1>1 DEF CheckStop, WorkerGoes, poolVars
<1>2. CASE RebuildMissing \/ AcquireFails
  <2>1. Rebuild
    BY <1>2 DEF RebuildMissing, AcquireFails
  <2>2. worker' = "check" /\ UNCHANGED <<stop, caller, signal, seen>>
    BY <1>2 DEF RebuildMissing, AcquireFails, WorkerGoes
  <2> QED
    BY <2>1, <2>2, RebuildTypeOK
<1>3. CASE SampleSignal
  BY <1>3 DEF SampleSignal, WorkerGoes, poolVars
<1>4. CASE TakeFrame
  BY <1>4 DEF TakeFrame, WorkerGoes
<1>5. CASE DrainEmpty
  BY <1>5 DEF DrainEmpty, WorkerGoes, poolVars
<1>6. CASE FrameDone \/ Resized
  BY <1>6 DEF FrameDone, Resized, WorkerGoes
<1>7. CASE WokenUp \/ WaitTimesOut
  BY <1>7 DEF WokenUp, WaitTimesOut, WorkerGoes, poolVars
<1>8. CASE FrameQueued
  BY <1>8 DEF FrameQueued
<1>9. CASE FrameArrived
  BY <1>9 DEF FrameArrived
<1>10. CASE RaiseStop
  BY <1>10 DEF RaiseStop, poolVars
<1>11. CASE WakeVideoCapture
  BY <1>11 DEF WakeVideoCapture, poolVars
<1>12. CASE RestartVideoCapture
  <2>1. Rebuild
    BY <1>12 DEF RestartVideoCapture
  <2>2. /\ worker' = "check" /\ stop' \in BOOLEAN /\ caller' = "idle"
        /\ UNCHANGED <<signal, seen>>
    BY <1>12 DEF RestartVideoCapture
  <2> QED
    BY <2>1, <2>2, RebuildTypeOK
<1>13. CASE Shutdown
  BY <1>13 DEF Shutdown
<1>14. CASE UNCHANGED vars
  BY <1>14 DEF vars, poolVars
<1> QED
  BY <1>1, <1>2, <1>3, <1>4, <1>5, <1>6, <1>7, <1>8, <1>9, <1>10, <1>11, <1>12,
     <1>13, <1>14 DEF Next, Worker, Caller

\* Whatever fairness is assumed, in the specification that the timeout helps
\* and in the one it does not: the inductive invariant of the handshake.
THEOREM HandshakeHolds == Init /\ [][Next]_vars => []Handshake
  BY InitHandshake, StepHandshake, PTL

-----------------------------------------------------------------------------
(* The crop of a frame. *)

Steps == {"idle", "size", "mode", "place", "target", "draw", "drawn"}

SizesInv ==
  /\ options.width \in Nat /\ options.height \in Nat
  /\ source.width \in Nat /\ source.height \in Nat
  /\ area.width \in Nat /\ area.height \in Nat
  /\ area.x \in Int /\ area.y \in Int /\ options.x \in Int /\ options.y \in Int

NamesInv ==
  /\ rotation \in Rotations /\ turned \in Rotations /\ cropping \in Steps
  /\ options.cropmode \in CropModes /\ options.alignment \in Alignments
  /\ swapped \in BOOLEAN /\ torn \in BOOLEAN

RecordsInv ==
  /\ DOMAIN area = {"x", "y", "width", "height"}
  /\ area = [x |-> area.x, y |-> area.y, width |-> area.width, height |-> area.height]

\* From ClampSize on, the area is no larger than the source.
ClampedInv ==
  cropping = "place" \/ Placed =>
    area.width <= source.width /\ area.height <= source.height

PlacedInv == CropInside /\ CropAligned

\* Which way the area lies, while nobody has touched the rotation.
TurnedInv ==
  ~torn =>
    /\ cropping = "mode" => swapped = Turns(rotation)
    /\ (cropping = "place" \/ Placed) /\ options.cropmode # "source" =>
         swapped = Turns(rotation)
    /\ cropping = "drawn" => turned = rotation

RestInv == cropping = "idle" => ~torn

TargetSizes == (Outputs \X Outputs) \cup {NoSize}

Parts == {TargetParts[i] : i \in 1 .. Len(TargetParts)}

\* A target with a size is whole: only one that could not be made has none.
TargetInv ==
  /\ out \in TargetSizes
  /\ target \in [parts : SUBSET Parts, size : TargetSizes, device : {"this"}]
  /\ target.size # NoSize => target = Made(Len(TargetParts), target.size)
  /\ TargetFits

CropInv ==
  /\ SizesInv /\ NamesInv /\ RecordsInv /\ ClampedInv /\ PlacedInv /\ TurnedInv /\ RestInv
  /\ TargetInv

-----------------------------------------------------------------------------
\* KeepInside lays a length inside a side that is no shorter, and leaves alone what lies
\* there already.
LEMMA KeptInside ==
  ASSUME NEW n \in Int, NEW length \in Nat, NEW side \in Nat, length <= side
  PROVE  /\ KeepInside(n, length, side) \in Nat
         /\ KeepInside(n, length, side) + length <= side
         /\ 0 <= n /\ n + length <= side => KeepInside(n, length, side) = n
  BY DEF KeepInside

\* An alignment alone lays the length inside the side, and where it says.
LEMMA AlignedInside ==
  ASSUME NEW a, NEW near, NEW far, near \cap far = {},
         NEW length \in Nat, NEW side \in Nat, length <= side
  PROVE  /\ Aligned(a, near, far, length, side) \in Int
         /\ 0 <= Aligned(a, near, far, length, side)
         /\ Aligned(a, near, far, length, side) + length <= side
         /\ SitsAt(a, near, far, Aligned(a, near, far, length, side), length, side)
  <1>1. CASE a \in near
    <2>1. Aligned(a, near, far, length, side) = 0 /\ a \notin far
      BY <1>1 DEF Aligned
    <2> QED
      BY <1>1, <2>1 DEF SitsAt
  <1>2. CASE a \notin near /\ a \in far
    <2>1. Aligned(a, near, far, length, side) = side - length
      BY <1>2 DEF Aligned
    <2> QED
      BY <1>2, <2>1 DEF SitsAt
  <1>3. CASE a \notin near /\ a \notin far
    <2> DEFINE k == side \div 2 - length \div 2
    <2>1. Aligned(a, near, far, length, side) = k
      BY <1>3 DEF Aligned
    <2>2. k \in Int /\ 0 <= k /\ k + length <= side /\ 2 * k + length - side \in {-1, 0, 1}
      OBVIOUS
    <2> QED
      BY <1>3, <2>1, <2>2 DEF SitsAt
  <1> QED
    BY <1>1, <1>2, <1>3

\* The place of one side: an offset is added, and the result kept inside.
LEMMA PlacedAlong ==
  ASSUME NEW a, NEW near, NEW far, near \cap far = {}, NEW offset \in Int,
         NEW length \in Nat, NEW side \in Nat, length <= side
  PROVE  LET n == KeepInside(offset + Aligned(a, near, far, length, side), length, side)
         IN  /\ n \in Nat /\ n + length <= side
             /\ offset = 0 => SitsAt(a, near, far, n, length, side)
  <1> DEFINE k == Aligned(a, near, far, length, side)
  <1>1. /\ k \in Int /\ 0 <= k /\ k + length <= side
        /\ SitsAt(a, near, far, k, length, side)
    BY AlignedInside
  <1> HIDE DEF k
  <1>2. offset + k \in Int
    BY <1>1
  <1>3. /\ KeepInside(offset + k, length, side) \in Nat
        /\ KeepInside(offset + k, length, side) + length <= side
    BY <1>2, KeptInside
  <1>4. ASSUME offset = 0
        PROVE  KeepInside(offset + k, length, side) = k
    BY <1>1, <1>2, <1>4, KeptInside
  <1> QED
    BY <1>1, <1>3, <1>4 DEF k

\* What the modes make of the sizes are sizes.
LEMMA ModeSizes ==
  ASSUME SizesInv, NamesInv, NEW r
  PROVE  ModeWidth(r) \in Nat /\ ModeHeight \in Nat
  <1>1. /\ (source.height * 3) \div 4 \in Nat /\ (source.height * 4) \div 3 \in Nat
        /\ (source.height * 4) \div 5 \in Nat /\ (source.height * 5) \div 4 \in Nat
    BY DEF SizesInv
  <1>2. source.width \in Nat /\ area.width \in Nat /\ source.height \in Nat /\ area.height \in Nat
    BY DEF SizesInv
  <1>3. ModeWidth(r) \in Nat
    BY <1>1, <1>2 DEF ModeWidth
  <1> QED
    BY <1>2, <1>3 DEF ModeHeight

LEMMA AtMostBounds ==
  ASSUME NEW n \in Nat, NEW limit \in Nat
  PROVE  AtMost(n, limit) \in Nat /\ AtMost(n, limit) <= limit
  BY DEF AtMost

-----------------------------------------------------------------------------
\* What is made has a size of a modeline, or none; and all of it is there if all was made.
LEMMA MadeParts ==
  ASSUME NEW n \in 0 .. Len(TargetParts), NEW size \in TargetSizes
  PROVE  /\ Made(n, size) \in [parts : SUBSET Parts, size : TargetSizes, device : {"this"}]
         /\ Made(n, size).size = size
  <1>1. Len(TargetParts) = 3
    BY DEF TargetParts
  <1>2. {TargetParts[i] : i \in 1 .. n} \subseteq Parts
    BY <1>1 DEF Parts
  <1> QED
    BY <1>2 DEF Made

LEMMA OutputSize ==
  ASSUME NEW size \in Outputs \X Outputs
  PROVE  size \in TargetSizes /\ size # NoSize
  BY CropAssumption DEF TargetSizes, NoSize

\* A tick that is over leaves the invariant, whatever target it leaves.
LEMMA TickOverSound ==
  ASSUME CropInv, TickOver,
         target' \in [parts : SUBSET Parts, size : TargetSizes, device : {"this"}],
         target'.size # NoSize => target' = Made(Len(TargetParts), target'.size)
  PROVE  CropInv'
  <1> USE DEF CropInv, TickOver
  <1>1. SizesInv'
    BY DEF SizesInv, NoOptions, NoArea
  <1>2. NamesInv'
    BY DEF NamesInv, NoOptions, Rotations, CropModes, Alignments, Steps
  <1>3. RecordsInv'
    BY DEF RecordsInv, NoArea
  <1>4. ClampedInv' /\ PlacedInv' /\ TurnedInv' /\ RestInv'
    BY DEF ClampedInv, PlacedInv, CropInside, CropAligned, Placed, TurnedInv, RestInv
  <1>5. TargetInv'
    BY DEF TargetInv, TargetSizes, TargetFits
  <1> QED
    BY <1>1, <1>2, <1>3, <1>4, <1>5

LEMMA CropInvInit == CropInit => CropInv
  <1> SUFFICES ASSUME CropInit PROVE CropInv
    OBVIOUS
  <1> USE DEF CropInit
  <1>1. SizesInv
    BY DEF SizesInv, NoOptions, NoArea
  <1>2. NamesInv
    BY DEF NamesInv, NoOptions, Rotations, CropModes, Alignments, Steps
  <1>3. RecordsInv
    BY DEF RecordsInv, NoArea
  <1>4. ClampedInv /\ PlacedInv /\ TurnedInv /\ RestInv
    BY DEF ClampedInv, PlacedInv, CropInside, CropAligned, Placed, TurnedInv, RestInv
  <1>5. TargetInv
    <2>1. 0 \in 0 .. Len(TargetParts) /\ NoSize \in TargetSizes
      BY DEF TargetParts, TargetSizes
    <2> QED
      BY <2>1, MadeParts DEF TargetInv, TargetFits
  <1> QED
    BY <1>1, <1>2, <1>3, <1>4, <1>5 DEF CropInv

LEMMA CropInvRotate == CropInv /\ Rotate => CropInv'
  <1> SUFFICES ASSUME CropInv, Rotate PROVE CropInv'
    OBVIOUS
  <1> USE DEF CropInv, Rotate
  <1>1. SizesInv'
    BY DEF SizesInv
  <1>2. NamesInv'
    BY DEF NamesInv
  <1>3. RecordsInv'
    BY DEF RecordsInv
  <1>4. ClampedInv'
    BY DEF ClampedInv, Placed
  <1>5. PlacedInv'
    BY DEF PlacedInv, CropInside, CropAligned, Placed
  <1>6. TurnedInv' /\ RestInv'
    BY DEF TurnedInv, RestInv, Placed
  <1>7. TargetInv'
    BY DEF TargetInv, TargetFits
  <1> QED
    BY <1>1, <1>2, <1>3, <1>4, <1>5, <1>6, <1>7

LEMMA CropInvCleanup == CropInv /\ CleanupVideoCapture => CropInv'
  <1> SUFFICES ASSUME CropInv, CleanupVideoCapture PROVE CropInv'
    OBVIOUS
  <1> USE DEF CropInv, CleanupVideoCapture
  <1>1. SizesInv' /\ RecordsInv' /\ ClampedInv'
    BY DEF SizesInv, RecordsInv, ClampedInv, Placed
  <1>2. NamesInv'
    BY DEF NamesInv
  <1>3. PlacedInv' /\ TurnedInv' /\ RestInv'
    BY DEF PlacedInv, CropInside, CropAligned, Placed, TurnedInv, RestInv
  <1>4. TargetInv'
    <2>1. 0 \in 0 .. Len(TargetParts) /\ NoSize \in TargetSizes
      BY DEF TargetParts, TargetSizes
    <2> QED
      BY <2>1, MadeParts DEF TargetInv, TargetFits
  <1> QED
    BY <1>1, <1>2, <1>3, <1>4

LEMMA CropInvAcquire == CropInv /\ AcquireFrame => CropInv'
  <1> SUFFICES ASSUME CropInv, AcquireFrame PROVE CropInv'
    OBVIOUS
  <1> USE DEF CropInv
  <1>1. PICK mode \in CropModes, typed \in Sizes, offset \in Offsets, a \in Alignments :
          options' = [cropmode |-> mode, width |-> SizeFor(mode, typed).width,
                      height |-> SizeFor(mode, typed).height,
                      x |-> offset[1], y |-> offset[2], alignment |-> a]
    BY DEF AcquireFrame
  <1>2. SizeFor(mode, typed).width \in Nat /\ SizeFor(mode, typed).height \in Nat
    <2>1. typed \in [width : Nat, height : Nat] /\ ActiveSize \in [width : Nat, height : Nat]
      BY CropAssumption
    <2>2. /\ typed.width \in Nat /\ typed.height \in Nat
          /\ 2 * ActiveSize.width \in Nat /\ 2 * ActiveSize.height \in Nat
      BY <2>1
    <2> QED
      BY <2>2 DEF SizeFor
  <1>3. offset[1] \in Int /\ offset[2] \in Int
    BY CropAssumption
  <1>4. source'.width \in Nat /\ source'.height \in Nat
    <2>1. source' \in [width : Nat, height : Nat]
      BY CropAssumption DEF AcquireFrame
    <2> QED
      BY <2>1
  <1>5. UNCHANGED area
    BY DEF AcquireFrame
  <1>6. SizesInv'
    BY <1>1, <1>2, <1>3, <1>4, <1>5 DEF SizesInv
  <1>7. NamesInv'
    <2>1. options'.cropmode \in CropModes /\ options'.alignment \in Alignments
      BY <1>1
    <2> QED
      BY <2>1 DEF NamesInv, AcquireFrame, Steps
  <1>8. RecordsInv'
    BY <1>5 DEF RecordsInv
  <1>9. cropping = "idle" /\ cropping' = "size" /\ ~torn'
    BY DEF AcquireFrame, RestInv
  <1>10. ClampedInv' /\ PlacedInv' /\ TurnedInv' /\ RestInv'
    BY <1>9 DEF ClampedInv, PlacedInv, CropInside, CropAligned, Placed, TurnedInv, RestInv
  <1>11. TargetInv'
    BY DEF AcquireFrame, TargetInv, TargetFits
  <1> QED
    BY <1>6, <1>7, <1>8, <1>10, <1>11

LEMMA CropInvRead == CropInv /\ ReadSize => CropInv'
  <1> SUFFICES ASSUME CropInv, ReadSize PROVE CropInv'
    OBVIOUS
  <1> USE DEF CropInv, ReadSize
  <1>1. area' \in {[x |-> 0, y |-> 0, width |-> options.height, height |-> options.width],
                   [x |-> 0, y |-> 0, width |-> options.width, height |-> options.height]}
    BY DEF NoArea
  <1>2. SizesInv'
    <2>1. /\ area'.x = 0 /\ area'.y = 0
          /\ area'.width \in {options.width, options.height}
          /\ area'.height \in {options.width, options.height}
      BY <1>1
    <2> QED
      BY <2>1 DEF SizesInv
  <1>3. NamesInv'
    <2>1. Turns(rotation) \in BOOLEAN
      BY DEF Turns
    <2> QED
      BY <2>1 DEF NamesInv, Steps
  <1>4. RecordsInv'
    BY <1>1 DEF RecordsInv
  <1>5. ClampedInv' /\ PlacedInv' /\ RestInv'
    BY DEF ClampedInv, PlacedInv, CropInside, CropAligned, Placed, RestInv
  <1>6. TurnedInv'
    BY DEF TurnedInv, Placed
  <1>7. TargetInv'
    BY DEF TargetInv, TargetFits
  <1> QED
    BY <1>2, <1>3, <1>4, <1>5, <1>6, <1>7

LEMMA CropInvClamp == CropInv /\ ClampSize => CropInv'
  <1> SUFFICES ASSUME CropInv, ClampSize PROVE CropInv'
    OBVIOUS
  <1> DEFINE w == AtMost(ModeWidth(rotation), source.width)
             h == AtMost(ModeHeight, source.height)
  <1>1. w \in Nat /\ h \in Nat /\ w <= source.width /\ h <= source.height
    BY ModeSizes, AtMostBounds DEF CropInv, SizesInv
  <1>2. /\ cropping = "mode" /\ cropping' = "place"
        /\ UNCHANGED <<rotation, options, source, turned, torn, out, target>>
    BY DEF ClampSize
  <1>3. area' = [area EXCEPT !.width = w, !.height = h]
    BY DEF ClampSize
  <1> HIDE DEF w, h
  <1>4. area' = [x |-> area.x, y |-> area.y, width |-> w, height |-> h]
    BY <1>3 DEF CropInv, RecordsInv
  <1>5. SizesInv'
    BY <1>1, <1>2, <1>4 DEF CropInv, SizesInv
  <1>6. RecordsInv'
    BY <1>4 DEF RecordsInv
  <1>7. ClampedInv'
    BY <1>1, <1>2, <1>4 DEF ClampedInv
  <1>8. PlacedInv' /\ RestInv'
    BY <1>2 DEF PlacedInv, CropInside, CropAligned, Placed, RestInv
  <1>9. swapped' = IF options.cropmode \in {"full43", "full54"} THEN Turns(rotation) ELSE swapped
    BY DEF ClampSize
  <1>10. NamesInv'
    <2>1. Turns(rotation) \in BOOLEAN
      BY DEF Turns
    <2> QED
      BY <1>2, <1>9, <2>1 DEF CropInv, NamesInv, Steps
  <1>11. TurnedInv'
    BY <1>2, <1>9 DEF CropInv, TurnedInv, Placed
  <1>12. TargetInv'
    BY <1>2 DEF CropInv, TargetInv, TargetFits
  <1> QED
    BY <1>5, <1>6, <1>7, <1>8, <1>10, <1>11, <1>12 DEF CropInv

LEMMA CropInvPlace == CropInv /\ Place => CropInv'
  <1> SUFFICES ASSUME CropInv, Place PROVE CropInv'
    OBVIOUS
  <1> DEFINE nx == KeepInside(options.x + Aligned(options.alignment, LeftOnes, RightOnes,
                                                  area.width, source.width),
                              area.width, source.width)
             ny == KeepInside(options.y + Aligned(options.alignment, TopOnes, BottomOnes,
                                                  area.height, source.height),
                              area.height, source.height)
  <1>1. /\ cropping = "place" /\ cropping' = "target"
        /\ UNCHANGED <<rotation, options, source, swapped, turned, torn, out, target>>
    BY DEF Place
  <1>2. area' = [x |-> nx, y |-> ny, width |-> area.width, height |-> area.height]
    BY DEF Place, CropInv, RecordsInv
  <1>3. /\ area.width \in Nat /\ area.height \in Nat /\ source.width \in Nat
        /\ source.height \in Nat /\ options.x \in Int /\ options.y \in Int
        /\ area.width <= source.width /\ area.height <= source.height
    BY <1>1 DEF CropInv, SizesInv, ClampedInv
  <1>4. LeftOnes \cap RightOnes = {} /\ TopOnes \cap BottomOnes = {}
    BY DEF LeftOnes, RightOnes, TopOnes, BottomOnes
  <1>5. /\ nx \in Nat /\ nx + area.width <= source.width
        /\ options.x = 0 => SitsAt(options.alignment, LeftOnes, RightOnes,
                                   nx, area.width, source.width)
    BY <1>3, <1>4, PlacedAlong
  <1>6. /\ ny \in Nat /\ ny + area.height <= source.height
        /\ options.y = 0 => SitsAt(options.alignment, TopOnes, BottomOnes,
                                   ny, area.height, source.height)
    BY <1>3, <1>4, PlacedAlong
  <1> HIDE DEF nx, ny
  <1>7. SizesInv'
    BY <1>1, <1>2, <1>5, <1>6 DEF CropInv, SizesInv
  <1>8. RecordsInv'
    BY <1>2 DEF RecordsInv
  <1>9. ClampedInv'
    BY <1>1, <1>2, <1>3 DEF ClampedInv, Placed
  <1>10. PlacedInv'
    BY <1>1, <1>2, <1>5, <1>6 DEF PlacedInv, CropInside, CropAligned
  <1>11. NamesInv'
    BY <1>1 DEF CropInv, NamesInv, Steps
  <1>12. TurnedInv' /\ RestInv'
    BY <1>1 DEF CropInv, TurnedInv, RestInv, Placed
  <1>13. TargetInv'
    BY <1>1 DEF CropInv, TargetInv, TargetFits
  <1> QED
    BY <1>7, <1>8, <1>9, <1>10, <1>11, <1>12, <1>13 DEF CropInv

\* The rest of a tick looks at the target only, once the target is there.
LEMMA CropInvDrawStep ==
  ASSUME CropInv, cropping = "target", cropping' = "draw", TargetInv',
         UNCHANGED <<rotation, options, source, area, swapped, turned, torn>>
  PROVE  CropInv'
  <1> USE DEF CropInv
  <1>1. SizesInv' /\ RecordsInv'
    BY DEF SizesInv, RecordsInv
  <1>2. NamesInv'
    BY DEF NamesInv, Steps
  <1>3. ClampedInv' /\ PlacedInv'
    BY DEF ClampedInv, PlacedInv, CropInside, CropAligned, Placed
  <1>4. TurnedInv' /\ RestInv'
    BY DEF TurnedInv, RestInv, Placed
  <1> QED
    BY <1>1, <1>2, <1>3, <1>4

LEMMA CropInvTarget == CropInv /\ EnsureScaleTargets => CropInv'
  <1> SUFFICES ASSUME CropInv, EnsureScaleTargets PROVE CropInv'
    OBVIOUS
  <1>1. TargetInv
    BY DEF CropInv
  <1>2. cropping = "target"
    BY DEF EnsureScaleTargets
  <1>3. PICK size \in Outputs \X Outputs :
          \/ /\ ReadyFor(size)
             /\ cropping' = "draw" /\ out' = size
             /\ UNCHANGED <<rotation, options, source, area, swapped, turned, torn, target>>
          \/ /\ ~ReadyFor(size)
             /\ cropping' = "draw" /\ out' = size
             /\ target' = Made(Len(TargetParts), size)
             /\ UNCHANGED <<rotation, options, source, area, swapped, turned, torn>>
          \/ /\ ~ReadyFor(size)
             /\ \E n \in 0 .. Len(TargetParts) - 1 : target' = Made(n, NoSize)
             /\ TickOver
    BY DEF EnsureScaleTargets
  <1>4. size \in TargetSizes /\ size # NoSize
    BY OutputSize
  <1>5. CASE /\ ReadyFor(size)
             /\ cropping' = "draw" /\ out' = size
             /\ UNCHANGED <<rotation, options, source, area, swapped, turned, torn, target>>
    <2>1. target.size = size
      BY <1>5 DEF ReadyFor
    <2>2. TargetInv'
      BY <1>1, <1>4, <1>5, <2>1 DEF TargetInv, TargetFits
    <2> QED
      BY <1>2, <1>5, <2>2, CropInvDrawStep
  <1>6. CASE /\ cropping' = "draw" /\ out' = size
             /\ target' = Made(Len(TargetParts), size)
             /\ UNCHANGED <<rotation, options, source, area, swapped, turned, torn>>
    <2>1. Len(TargetParts) \in 0 .. Len(TargetParts)
      BY DEF TargetParts
    <2>2. /\ target' \in [parts : SUBSET Parts, size : TargetSizes, device : {"this"}]
          /\ target'.size = size
      BY <1>4, <1>6, <2>1, MadeParts
    <2>3. TargetInv'
      BY <1>4, <1>6, <2>2 DEF TargetInv, TargetFits
    <2> QED
      BY <1>2, <1>6, <2>3, CropInvDrawStep
  <1>7. CASE /\ \E n \in 0 .. Len(TargetParts) - 1 : target' = Made(n, NoSize)
             /\ TickOver
    <2>1. PICK n \in 0 .. Len(TargetParts) - 1 : target' = Made(n, NoSize)
      BY <1>7
    <2>2. n \in 0 .. Len(TargetParts) /\ NoSize \in TargetSizes
      BY DEF TargetParts, TargetSizes
    <2>3. /\ target' \in [parts : SUBSET Parts, size : TargetSizes, device : {"this"}]
          /\ target'.size = NoSize
      BY <2>1, <2>2, MadeParts
    <2> QED
      BY <1>7, <2>3, TickOverSound
  <1> QED
    BY <1>3, <1>5, <1>6, <1>7

LEMMA CropInvDraw == CropInv /\ DrawTurned => CropInv'
  <1> SUFFICES ASSUME CropInv, DrawTurned PROVE CropInv'
    OBVIOUS
  <1> USE DEF CropInv, DrawTurned
  <1>1. SizesInv'
    BY DEF SizesInv
  <1>2. NamesInv'
    BY DEF NamesInv, Steps
  <1>3. RecordsInv' /\ ClampedInv'
    BY DEF RecordsInv, ClampedInv, Placed
  <1>4. PlacedInv'
    BY DEF PlacedInv, CropInside, CropAligned, Placed
  <1>5. TurnedInv' /\ RestInv'
    BY DEF TurnedInv, RestInv, Placed
  <1>6. TargetInv'
    BY DEF TargetInv, TargetFits
  <1> QED
    BY <1>1, <1>2, <1>3, <1>4, <1>5, <1>6

LEMMA CropInvShown == CropInv /\ FrameShown => CropInv'
  <1> SUFFICES ASSUME CropInv, FrameShown PROVE CropInv'
    OBVIOUS
  <1>1. TickOver /\ UNCHANGED target
    BY DEF FrameShown
  <1>2. TargetInv
    BY DEF CropInv
  <1> QED
    BY <1>1, <1>2, TickOverSound DEF TargetInv

LEMMA CropInvStep == CropInv /\ [CropNext]_cropVars => CropInv'
  <1>1. CropInv /\ UNCHANGED cropVars => CropInv'
    BY DEF cropVars, CropInv, SizesInv, NamesInv, RecordsInv, ClampedInv, PlacedInv,
           CropInside, CropAligned, Placed, TurnedInv, RestInv, TargetInv, TargetFits
  <1> QED
    BY <1>1, CropInvRotate, CropInvCleanup, CropInvAcquire, CropInvRead, CropInvClamp,
       CropInvPlace, CropInvTarget, CropInvDraw, CropInvShown DEF CropNext

-----------------------------------------------------------------------------
\* The crop keeps its sizes, and knows which way it lies, through every tick and every
\* change of the rotation in the middle of one (VideoCapture.h:553-740).
THEOREM CropInvariant == CropSpec => []CropInv
  BY CropInvInit, CropInvStep, PTL DEF CropSpec

-----------------------------------------------------------------------------
(* The audio device of a session. *)

\* Where the interfaces of a session are open, and what they hold.
Untouched ==
  /\ opened = {} /\ comThread = "none" /\ apartments = 0
  /\ ~usable /\ ~recording

OpenedInv ==
  /\ ~attempted => Untouched /\ ~started
  /\ caster \in {"idle", "open"} => Untouched
  /\ \/ comThread = "this" /\ apartments = 1
     \/ comThread = "none" /\ apartments = 0
  /\ caster = "idle" => soundBuffer = "null"
  /\ caster = "open" => ~attempted

RecordingInv ==
  /\ caster = "start" => attempted /\ ~started /\ opened = Interfaces
  /\ recording => started
  /\ started => attempted
  /\ started /\ caster \in {"renderer", "draw", "stop", "cleanup"} => opened = Interfaces /\ usable
  /\ started /\ caster \in {"renderer", "draw", "stop"} => recording

BufferInv ==
  /\ soundBuffer = "live" <=> caster = "draw"
  /\ soundBuffer = "freed" => caster = "stop"

AnnouncedInv ==
  /\ caster = "draw" => announced = SoundRate
  /\ coreSound => announced # 0
  /\ heard \in {0, announced}

AudioInv == AudioTypeOK /\ OpenedInv /\ RecordingInv /\ BufferInv /\ AnnouncedInv

\* All eight calls leave every interface; fewer leave no other.
LEMMA CallsLeave ==
  ASSUME opened \subseteq Interfaces
  PROVE  /\ \A n \in 0 .. Len(Calls) : LeftBy(n) \subseteq Interfaces
         /\ LeftBy(Len(Calls)) = Interfaces
  <1>1. Len(Calls) = 8
    BY DEF Calls
  <1>2. /\ Calls[2] = "enumerator" /\ Calls[3] = "device" /\ Calls[4] = "client"
        /\ Calls[5] = "format" /\ Calls[8] = "capture"
    BY DEF Calls
  <1>3. \A c \in Interfaces : \E i \in 1 .. 8 : Calls[i] = c
    BY <1>2 DEF Interfaces
  <1>4. \A n \in 0 .. Len(Calls) : LeftBy(n) \subseteq Interfaces
    BY DEF LeftBy
  <1>5. LeftBy(8) = Interfaces
    BY <1>3 DEF LeftBy
  <1> QED
    BY <1>1, <1>4, <1>5

LEMMA AudioInvInit == AudioInit => AudioInv
  <1> SUFFICES ASSUME AudioInit PROVE AudioInv
    OBVIOUS
  <1> USE DEF AudioInit
  <1>1. AudioTypeOK
    BY DEF AudioTypeOK
  <1>2. OpenedInv /\ RecordingInv
    BY DEF OpenedInv, Untouched, RecordingInv
  <1>3. BufferInv /\ AnnouncedInv
    BY DEF BufferInv, AnnouncedInv
  <1> QED
    BY <1>1, <1>2, <1>3 DEF AudioInv

\* Only the step that opens the client reasons about how far the opening came.
LEMMA AudioInvOpen == AudioInv /\ InitAudioCapture => AudioInv'
  <1> SUFFICES ASSUME AudioInv, InitAudioCapture PROVE AudioInv'
    OBVIOUS
  <1>1. PICK n \in 0 .. Len(Calls) :
          /\ CasterGoes("open", IF n = Len(Calls) THEN "start" ELSE "renderer")
          /\ wanted
          /\ attempted' = TRUE
          /\ apartments' = IF n > 0 THEN apartments + 1 ELSE apartments
          /\ comThread' = IF n > 0 THEN "this" ELSE comThread
          /\ opened' = LeftBy(n)
          /\ IF "format" \in opened'
             THEN sampleRate' \in Rates /\ usable' \in BOOLEAN
             ELSE UNCHANGED <<sampleRate, usable>>
          /\ UNCHANGED <<wanted, started, recording, soundBuffer, announced, coreSound, heard>>
    BY DEF InitAudioCapture
  <1>2. /\ caster = "open" /\ caster' \in {"start", "renderer"}
        /\ caster' = "start" => n = Len(Calls)
    BY <1>1 DEF CasterGoes
  <1>3. /\ opened' \subseteq Interfaces
        /\ caster' = "start" => opened' = Interfaces
    BY <1>1, <1>2, CallsLeave DEF AudioInv, AudioTypeOK
  <1>4. ~started /\ ~recording /\ apartments = 0 /\ comThread = "none" /\ ~usable
    BY <1>2 DEF AudioInv, OpenedInv, Untouched
  <1>5. /\ apartments' \in {0, 1} /\ comThread' \in {"none", "this"}
        /\ comThread' = "this" <=> apartments' = 1
    BY <1>1, <1>4
  <1>6. sampleRate' \in Rates \cup {0} /\ usable' \in BOOLEAN
    BY <1>1 DEF AudioInv, AudioTypeOK
  <1>7. AudioTypeOK'
    BY <1>1, <1>2, <1>3, <1>5, <1>6 DEF AudioInv, AudioTypeOK
  <1>8. OpenedInv'
    BY <1>1, <1>2, <1>5 DEF AudioInv, OpenedInv
  <1>9. RecordingInv'
    BY <1>1, <1>2, <1>3, <1>4 DEF AudioInv, RecordingInv
  <1>10. BufferInv' /\ AnnouncedInv'
    BY <1>1, <1>2 DEF AudioInv, BufferInv, AnnouncedInv
  <1> QED
    BY <1>7, <1>8, <1>9, <1>10 DEF AudioInv

\* A start succeeds only on a client whose format can be read.
LEMMA AudioInvStart == AudioInv /\ StartAudioCapture => AudioInv'
  <1> SUFFICES ASSUME AudioInv, StartAudioCapture PROVE AudioInv'
    OBVIOUS
  <1> USE DEF AudioInv, StartAudioCapture, CasterGoes, soundVars
  <1>1. AudioTypeOK'
    BY DEF AudioTypeOK, OpenedInv
  <1>2. OpenedInv'
    BY DEF OpenedInv, RecordingInv, Untouched
  <1>3. RecordingInv'
    BY DEF RecordingInv
  <1>4. BufferInv' /\ AnnouncedInv'
    BY DEF BufferInv, AnnouncedInv
  <1> QED
    BY <1>1, <1>2, <1>3, <1>4

LEMMA SoundRateAccepted ==
  ASSUME AudioTypeOK PROVE SoundRate \in Accepted \cup {0}
  BY DEF SoundRate

LEMMA AudioInvStep == AudioInv /\ [AudioNext]_audioVars => AudioInv'
  <1> SUFFICES ASSUME AudioInv, [AudioNext]_audioVars PROVE AudioInv'
    OBVIOUS
  <1> USE DEF AudioInv, CasterGoes, soundVars, deviceVars
  <1>1. CASE StartSession
    <2> USE <1>1 DEF StartSession
    <2>1. AudioTypeOK'
      BY SoundRateAccepted DEF AudioTypeOK, AnnouncedInv
    <2>2. OpenedInv'
      BY DEF OpenedInv, Untouched, RecordingInv, AudioTypeOK
    <2>3. RecordingInv'
      BY DEF RecordingInv, OpenedInv, Untouched, AudioTypeOK
    <2>4. BufferInv'
      BY DEF BufferInv, OpenedInv, AudioTypeOK
    <2>5. AnnouncedInv'
      BY DEF AnnouncedInv, SoundRate, AudioTypeOK
    <2> QED
      BY <2>1, <2>2, <2>3, <2>4, <2>5
  <1>2. CASE WithoutAudio
    <2> USE <1>2 DEF WithoutAudio
    <2>1. AudioTypeOK'
      BY SoundRateAccepted DEF AudioTypeOK, AnnouncedInv
    <2>2. OpenedInv'
      BY DEF OpenedInv, Untouched, RecordingInv, AudioTypeOK
    <2>3. RecordingInv'
      BY DEF RecordingInv, OpenedInv, Untouched, AudioTypeOK
    <2>4. BufferInv'
      BY DEF BufferInv, OpenedInv, AudioTypeOK
    <2>5. AnnouncedInv'
      BY DEF AnnouncedInv, SoundRate, AudioTypeOK
    <2> QED
      BY <2>1, <2>2, <2>3, <2>4, <2>5
  <1>3. CASE Connect
    <2> USE <1>3 DEF Connect, CmdInit
    <2>1. AudioTypeOK'
      BY SoundRateAccepted DEF AudioTypeOK, AnnouncedInv
    <2>2. OpenedInv'
      BY DEF OpenedInv, Untouched, RecordingInv, AudioTypeOK
    <2>3. RecordingInv'
      BY DEF RecordingInv, OpenedInv, Untouched, AudioTypeOK
    <2>4. BufferInv'
      BY DEF BufferInv, OpenedInv, AudioTypeOK
    <2>5. AnnouncedInv'
      BY DEF AnnouncedInv, SoundRate, AudioTypeOK
    <2> QED
      BY <2>1, <2>2, <2>3, <2>4, <2>5
  <1>4. CASE Reconnect
    <2> USE <1>4 DEF Reconnect, CmdInit
    <2>1. AudioTypeOK'
      BY SoundRateAccepted DEF AudioTypeOK, AnnouncedInv
    <2>2. OpenedInv'
      BY DEF OpenedInv, Untouched, RecordingInv, AudioTypeOK
    <2>3. RecordingInv'
      BY DEF RecordingInv, OpenedInv, Untouched, AudioTypeOK
    <2>4. BufferInv'
      BY DEF BufferInv, OpenedInv, AudioTypeOK
    <2>5. AnnouncedInv'
      BY DEF AnnouncedInv, SoundRate, AudioTypeOK
    <2> QED
      BY <2>1, <2>2, <2>3, <2>4, <2>5
  <1>5. CASE Acknowledge
    <2> USE <1>5 DEF Acknowledge
    <2>1. AudioTypeOK'
      BY SoundRateAccepted DEF AudioTypeOK, AnnouncedInv
    <2>2. OpenedInv'
      BY DEF OpenedInv, Untouched, RecordingInv, AudioTypeOK
    <2>3. RecordingInv'
      BY DEF RecordingInv, OpenedInv, Untouched, AudioTypeOK
    <2>4. BufferInv'
      BY DEF BufferInv, OpenedInv, AudioTypeOK
    <2>5. AnnouncedInv'
      BY DEF AnnouncedInv, SoundRate, AudioTypeOK
    <2> QED
      BY <2>1, <2>2, <2>3, <2>4, <2>5
  <1>6. CASE TickAudio
    <2> USE <1>6 DEF TickAudio, AddAudioToRecording
    <2>1. AudioTypeOK'
      BY SoundRateAccepted DEF AudioTypeOK, AnnouncedInv
    <2>2. OpenedInv'
      BY DEF OpenedInv, Untouched, RecordingInv, AudioTypeOK
    <2>3. RecordingInv'
      BY DEF RecordingInv, OpenedInv, Untouched, AudioTypeOK
    <2>4. BufferInv'
      BY DEF BufferInv, OpenedInv, AudioTypeOK
    <2>5. AnnouncedInv'
      BY DEF AnnouncedInv, SoundRate, AudioTypeOK
    <2> QED
      BY <2>1, <2>2, <2>3, <2>4, <2>5
  <1>7. CASE RendererEnds
    <2> USE <1>7 DEF RendererEnds
    <2>1. AudioTypeOK'
      BY SoundRateAccepted DEF AudioTypeOK, AnnouncedInv
    <2>2. OpenedInv'
      BY DEF OpenedInv, Untouched, RecordingInv, AudioTypeOK
    <2>3. RecordingInv'
      BY DEF RecordingInv, OpenedInv, Untouched, AudioTypeOK
    <2>4. BufferInv'
      BY DEF BufferInv, OpenedInv, AudioTypeOK
    <2>5. AnnouncedInv'
      BY DEF AnnouncedInv, SoundRate, AudioTypeOK
    <2> QED
      BY <2>1, <2>2, <2>3, <2>4, <2>5
  <1>8. CASE StopAudioCapture
    <2> USE <1>8 DEF StopAudioCapture
    <2>1. AudioTypeOK'
      BY SoundRateAccepted DEF AudioTypeOK, AnnouncedInv
    <2>2. OpenedInv'
      BY DEF OpenedInv, Untouched, RecordingInv, AudioTypeOK
    <2>3. RecordingInv'
      BY DEF RecordingInv, OpenedInv, Untouched, AudioTypeOK
    <2>4. BufferInv'
      BY DEF BufferInv, OpenedInv, AudioTypeOK
    <2>5. AnnouncedInv'
      BY DEF AnnouncedInv, SoundRate, AudioTypeOK
    <2> QED
      BY <2>1, <2>2, <2>3, <2>4, <2>5
  <1>9. CASE CleanupAudioCapture
    <2> USE <1>9 DEF CleanupAudioCapture
    <2>1. apartments = IF comThread = "this" THEN 1 ELSE 0
      BY DEF OpenedInv
    <2>2. apartments' = 0
      <3>1. CASE attempted
        BY <2>1, <3>1
      <3>2. CASE ~attempted
        BY <3>2 DEF OpenedInv, Untouched
      <3> QED
        BY <3>1, <3>2
    <2>3. opened' = {} /\ comThread' = "none" /\ ~usable' /\ ~recording'
      BY DEF OpenedInv, Untouched
    <2>4. caster = "cleanup" /\ caster' = "idle" /\ UNCHANGED <<wanted, attempted, started, soundVars>>
      OBVIOUS
    <2>5. usable' = FALSE /\ recording' = FALSE
      BY DEF OpenedInv, Untouched, AudioTypeOK
    <2> USE <2>2, <2>3, <2>4, <2>5
    <2>6. AudioTypeOK'
      BY DEF AudioTypeOK
    <2>7. OpenedInv'
      BY DEF OpenedInv, Untouched, BufferInv, AudioTypeOK, RecordingInv
    <2>8. RecordingInv'
      BY DEF RecordingInv
    <2>9. BufferInv' /\ AnnouncedInv'
      BY DEF BufferInv, AnnouncedInv, AudioTypeOK
    <2> QED
      BY <2>6, <2>7, <2>8, <2>9
  <1>10. CASE UNCHANGED audioVars
    BY <1>10 DEF audioVars, AudioTypeOK, OpenedInv, Untouched, RecordingInv, BufferInv,
       AnnouncedInv, SoundRate
  <1> QED
    BY <1>1, <1>2, <1>3, <1>4, <1>5, <1>6, <1>7, <1>8, <1>9, <1>10, AudioInvOpen, AudioInvStart DEF AudioNext

\* What a session opened is where the invariant says, through every call that fails and
\* every end of a session (AudioCapture.h:163-285, MiSTerCastLib.cpp:95-133).
THEOREM AudioInvariant == AudioSpec => []AudioInv
  BY AudioInvInit, AudioInvStep, PTL DEF AudioSpec

-----------------------------------------------------------------------------
(* The three parts together. *)

CaptureInv == Handshake /\ CropInv /\ AudioInv

\* A step of one part leaves the state of the others alone.
THEOREM CaptureInvariant == CaptureSpec => []CaptureInv
  <1>1. CaptureInit => CaptureInv
    BY InitHandshake, CropInvInit, AudioInvInit DEF CaptureInit, CaptureInv
  <1>2. CaptureInv /\ [CaptureNext]_captureVars => CaptureInv'
    <2> SUFFICES ASSUME CaptureInv, [CaptureNext]_captureVars PROVE CaptureInv'
      OBVIOUS
    <2>1. [Next]_vars /\ [CropNext]_cropVars /\ [AudioNext]_audioVars
      BY DEF CaptureNext, captureVars
    <2> QED
      BY <2>1, StepHandshake, CropInvStep, AudioInvStep DEF CaptureInv
  <1> QED
    BY <1>1, <1>2, PTL DEF CaptureSpec

\* The state of all three keeps its types.
THEOREM CaptureTypeCorrect == CaptureSpec => []CaptureTypeOK
  <1>1. Handshake => TypeOK
    BY DEF Handshake
  <1>2. CropInv => CropTypeOK
    <2>1. SizesInv /\ NamesInv => /\ rotation \in Rotations /\ turned \in Rotations
                                /\ {swapped, torn} \subseteq BOOLEAN
                                /\ options.cropmode \in CropModes
                                /\ options.alignment \in Alignments
      BY DEF SizesInv, NamesInv
    <2>2. NamesInv =>
            cropping \in {"idle", "size", "mode", "place", "target", "draw", "drawn"}
      BY DEF NamesInv, Steps
    <2>3. SizesInv =>
            /\ {options.width, options.height, source.width, source.height} \subseteq Nat
            /\ {area.width, area.height, area.x, area.y, options.x, options.y} \subseteq Int
      BY DEF SizesInv
    <2>4. TargetInv => /\ {out, target.size} \subseteq (Outputs \X Outputs) \cup {NoSize}
                       /\ target.parts \subseteq {TargetParts[i] : i \in 1 .. Len(TargetParts)}
      BY DEF TargetInv, TargetSizes, Parts
    <2> QED
      BY <2>1, <2>2, <2>3, <2>4 DEF CropInv, CropTypeOK
  <1>3. CaptureInv => CaptureTypeOK
    BY <1>1, <1>2 DEF CaptureInv, AudioInv, CaptureTypeOK
  <1> QED
    BY <1>3, CaptureInvariant, PTL

\* A worker never sleeps over a frame that no callback will announce: what the comment at
\* VideoCapture.h:143-145 promises.
THEOREM NoSignalMissed == CaptureSpec => []NoFrameSleptThrough
  <1>1. CaptureInv => NoFrameSleptThrough
    BY DEF CaptureInv, Handshake
  <1> QED
    BY <1>1, CaptureInvariant, PTL

\* Whatever is typed and however the rotation changes under the tick, what is drawn lies in
\* the source and where its alignment says, it is turned as it was cut unless the rotation
\* changed during the tick, and the target holds it, whatever failed in the ticks before
\* (VideoCapture.h:82-128, 553-668, 693, 717-754).
THEOREM DrawnWhereAsked == CaptureSpec => []CropSound
  <1>1. CropInv => CropInside /\ CropAligned /\ TargetFits
    BY DEF CropInv, PlacedInv, TargetInv
  <1>2. CropInv => CropTurned
    BY DEF CropInv, TurnedInv, CropTurned, Placed
  <1>3. CaptureInv => CropSound
    BY <1>1, <1>2 DEF CaptureInv, CropSound
  <1> QED
    BY <1>3, CaptureInvariant, PTL

\* What a session opened it uses while it is there and closes in the end, whichever call
\* into Windows failed, and its sound plays at the rate that was agreed
\* (AudioCapture.h:163-357, MiSTerCastLib.cpp:95-133).
THEOREM AudioIsPaired == CaptureSpec => []AudioPaired
  <1>1. AudioInv => AudioReleased
    BY DEF AudioInv, OpenedInv, Untouched, AudioReleased
  <1>2. AudioInv => AudioReady
    BY DEF AudioInv, RecordingInv, BufferInv, AudioReady
  <1>3. AudioInv => SoundAsAnnounced
    BY DEF AudioInv, AnnouncedInv, SoundAsAnnounced
  <1>4. CaptureInv => AudioPaired
    BY <1>1, <1>2, <1>3 DEF CaptureInv, AudioPaired
  <1> QED
    BY <1>4, CaptureInvariant, PTL
=============================================================================
