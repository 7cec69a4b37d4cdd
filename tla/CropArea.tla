------------------------------- MODULE CropArea -------------------------------
(***************************************************************************)
(* Which part of the source a frame shows, and which way it is turned      *)
(* (SetSource in MiSTerCastLib.cpp, the first half of TickVideoCapture in  *)
(* VideoCapture.h).  The crop comes from the options the capture worker    *)
(* has taken over; the rotation is read from source_config itself, up to   *)
(* three times, while the user interface may write it.  The crop is drawn  *)
(* into a target of the size of the modeline, which lives through many     *)
(* ticks and is made of three objects of the graphics device.              *)
(***************************************************************************)
EXTENDS Integers, Sequences

CONSTANTS
  Sources,     \* sizes the captured source may have
  Sizes,       \* crop sizes a user may type
  ActiveSize,  \* active area of the modeline
  Offsets,     \* offsets a user may type, <<x, y>>
  Outputs      \* widths and heights of modelines that passed the gate

ASSUME CropAssumption ==
  /\ Sources \subseteq [width : Nat, height : Nat]
  /\ Sizes \subseteq [width : Nat, height : Nat]
  /\ ActiveSize \in [width : Nat, height : Nat]
  /\ Offsets \subseteq Int \X Int
  /\ Outputs \subseteq Nat \ {0}

Rotations == {"none", "cw90", "ccw90", "flip180"}

\* X2 stands for the modes X1 to X5.
CropModes == {"custom", "X2", "full43", "full54", "source"}

Alignments ==
  {"center", "topLeft", "top", "topRight", "right", "bottomRight", "bottom", "bottomLeft",
   "left"}

VARIABLES
  rotation,  \* source_config.rotation
  options,   \* currentSourceOptions, of the crop
  cropping,  \* where the tick is
  source,    \* size of the captured picture
  area,      \* width and height so far, then the rectangle
  swapped,   \* the crop was turned
  turned,    \* history: the rotation at the second look, then the one drawn with
  torn,      \* history: the rotation changed during this tick
  out,       \* outWidth and outHeight
  target     \* scaleTarget and its like: what is there, of which size and device

cropVars == <<rotation, options, cropping, source, area, swapped, turned, torn, out, target>>

Turns(r) == r \in {"cw90", "ccw90"}

SizeFor(cropmode, typed) ==
  IF cropmode = "X2"
  THEN [width |-> 2 * ActiveSize.width, height |-> 2 * ActiveSize.height]
  ELSE typed

NoOptions ==
  [cropmode |-> "source", width |-> 0, height |-> 0, x |-> 0, y |-> 0,
   alignment |-> "center"]

NoArea == [x |-> 0, y |-> 0, width |-> 0, height |-> 0]

NoSize == <<0, 0>>

\* In the order they are made.
TargetParts == <<"scaleTarget", "scaleStaging", "scaleTargetBitmap">>

\* The first n of them, on the device there is.
Made(n, size) ==
  [parts |-> {TargetParts[i] : i \in 1 .. n}, size |-> size, device |-> "this"]

CropInit ==
  /\ rotation = "none" /\ options = NoOptions
  /\ cropping = "idle"
  /\ source = [width |-> 0, height |-> 0]
  /\ area = NoArea /\ swapped = FALSE /\ turned = "none" /\ torn = FALSE
  /\ out = NoSize /\ target = Made(0, NoSize)

-----------------------------------------------------------------------------
\* SetSource writes the rotation where the capture worker reads it; the rest waits for the
\* next tick.
Rotate ==
  /\ rotation' \in Rotations \ {rotation}
  /\ torn' = (cropping # "idle")
  /\ UNCHANGED <<options, cropping, source, area, swapped, turned, out, target>>

\* A wrong version: the target stays, of a device that is gone.
CleanupKeepsTarget ==
  /\ cropping = "idle"
  /\ target' = [target EXCEPT !.device = IF target.parts = {} THEN "this" ELSE "old"]
  /\ UNCHANGED <<rotation, options, cropping, source, area, swapped, turned, torn, out>>

\* CleanupVideoCapture and another device, by a tick that got no frame or for a restart.
CleanupVideoCapture ==
  /\ cropping = "idle"
  /\ target' = Made(0, NoSize)
  /\ UNCHANGED <<rotation, options, cropping, source, area, swapped, turned, torn, out>>

\* A tick takes over the options SetSource left, and acquires a frame.
AcquireFrame ==
  /\ cropping = "idle" /\ cropping' = "size"
  /\ \E mode \in CropModes, typed \in Sizes, offset \in Offsets, a \in Alignments :
       options' = [cropmode |-> mode, width |-> SizeFor(mode, typed).width,
                   height |-> SizeFor(mode, typed).height,
                   x |-> offset[1], y |-> offset[2], alignment |-> a]
  /\ source' \in Sources
  /\ UNCHANGED <<rotation, area, swapped, turned, torn, out, target>>

\* The first look at the rotation: the size that was asked for lies on its side.
ReadSize ==
  /\ cropping = "size" /\ cropping' = "mode"
  /\ swapped' = Turns(rotation)
  /\ area' = IF Turns(rotation)
             THEN [NoArea EXCEPT !.width = options.height, !.height = options.width]
             ELSE [NoArea EXCEPT !.width = options.width, !.height = options.height]
  /\ UNCHANGED <<rotation, options, source, turned, torn, out, target>>

\* The second look, for the modes that follow the shape of the television.
ModeWidth(r) ==
  CASE options.cropmode = "full43" ->
         IF Turns(r) THEN (source.height * 3) \div 4 ELSE (source.height * 4) \div 3
    [] options.cropmode = "full54" ->
         IF Turns(r) THEN (source.height * 4) \div 5 ELSE (source.height * 5) \div 4
    [] options.cropmode = "source" -> source.width
    [] OTHER -> area.width

ModeHeight ==
  IF options.cropmode \in {"full43", "full54", "source"} THEN source.height ELSE area.height

AtMost(n, limit) == IF n > limit THEN limit ELSE n

ClampSize ==
  /\ cropping = "mode" /\ cropping' = "place"
  /\ area' = [area EXCEPT !.width = AtMost(ModeWidth(rotation), source.width),
                          !.height = AtMost(ModeHeight, source.height)]
  /\ swapped' = IF options.cropmode \in {"full43", "full54"} THEN Turns(rotation) ELSE swapped
  /\ UNCHANGED <<rotation, options, source, turned, torn, out, target>>

\* Where a rectangle of this length lies along a side of the source, before the offset.
Aligned(alignment, near, far, length, side) ==
  CASE alignment \in near -> 0
    [] alignment \in far -> side - length
    [] OTHER -> side \div 2 - length \div 2

LeftOnes == {"topLeft", "left", "bottomLeft"}
RightOnes == {"topRight", "right", "bottomRight"}
TopOnes == {"topLeft", "top", "topRight"}
BottomOnes == {"bottomLeft", "bottom", "bottomRight"}

\* A wrong version: only the offset is looked at.
KeepInsideLoose(n, length, side) ==
  IF n < 0 THEN 0 ELSE IF n > side THEN side - length ELSE n

KeepInside(n, length, side) ==
  IF n < 0 THEN 0 ELSE IF n + length > side THEN side - length ELSE n

Place ==
  /\ cropping = "place" /\ cropping' = "target"
  /\ area' =
       [area EXCEPT
          !.x = KeepInside(options.x + Aligned(options.alignment, LeftOnes, RightOnes,
                                               area.width, source.width),
                           area.width, source.width),
          !.y = KeepInside(options.y + Aligned(options.alignment, TopOnes, BottomOnes,
                                               area.height, source.height),
                           area.height, source.height)]
  /\ UNCHANGED <<rotation, options, source, swapped, turned, torn, out, target>>

\* Nothing of a tick is left, but the target.
TickOver ==
  /\ cropping' = "idle"
  /\ options' = NoOptions /\ area' = NoArea
  /\ source' = [width |-> 0, height |-> 0]
  /\ swapped' = FALSE /\ turned' = "none" /\ torn' = FALSE /\ out' = NoSize
  /\ UNCHANGED rotation

ReadyFor(size) == "scaleTarget" \in target.parts /\ target.size = size

\* A target of another size is made again, part by part; a part that fails ends the tick,
\* and leaves the parts before it without a size.  Width and height are two loads.
EnsureScaleTargets ==
  /\ cropping = "target"
  /\ \E size \in Outputs \X Outputs :
       \/ /\ ReadyFor(size)
          /\ cropping' = "draw" /\ out' = size
          /\ UNCHANGED <<rotation, options, source, area, swapped, turned, torn, target>>
       \/ /\ ~ReadyFor(size)
          /\ cropping' = "draw" /\ out' = size
          /\ target' = Made(Len(TargetParts), size)
          /\ UNCHANGED <<rotation, options, source, area, swapped, turned, torn>>
       \/ /\ ~ReadyFor(size)
          /\ \E n \in 0 .. Len(TargetParts) - 1 : target' = Made(n, NoSize)
          /\ TickOver

\* The third look: the picture is drawn turned.
DrawTurned ==
  /\ cropping = "draw" /\ cropping' = "drawn"
  /\ turned' = rotation
  /\ UNCHANGED <<rotation, options, source, area, swapped, torn, out, target>>

\* The frame is read back from the staging texture, or the drawing has failed.
FrameShown ==
  /\ cropping = "drawn"
  /\ TickOver
  /\ UNCHANGED target

CropNext ==
  \/ Rotate \/ CleanupVideoCapture \/ AcquireFrame \/ ReadSize \/ ClampSize \/ Place
  \/ EnsureScaleTargets \/ DrawTurned \/ FrameShown

CropSpec == CropInit /\ [][CropNext]_cropVars

-----------------------------------------------------------------------------
\* Types.
CropTypeOK ==
  /\ rotation \in Rotations /\ turned \in Rotations
  /\ cropping \in {"idle", "size", "mode", "place", "target", "draw", "drawn"}
  /\ {swapped, torn} \subseteq BOOLEAN
  /\ {options.width, options.height, source.width, source.height} \subseteq Nat
  /\ {area.width, area.height, area.x, area.y, options.x, options.y} \subseteq Int
  /\ options.cropmode \in CropModes /\ options.alignment \in Alignments
  /\ {out, target.size} \subseteq (Outputs \X Outputs) \cup {NoSize}
  /\ target.parts \subseteq {TargetParts[i] : i \in 1 .. Len(TargetParts)}

Placed == cropping \in {"target", "draw", "drawn"}

\* The rectangle lies in the source.
CropInside ==
  Placed =>
    /\ area.x \in Nat /\ area.x + area.width <= source.width
    /\ area.y \in Nat /\ area.y + area.height <= source.height

\* An alignment that no offset disturbs puts the rectangle at its edge, or in the middle.
SitsAt(alignment, near, far, n, length, side) ==
  /\ alignment \in near => n = 0
  /\ alignment \in far => n + length = side
  /\ alignment \notin near \cup far => 2 * n + length - side \in {-1, 0, 1}

CropAligned ==
  Placed =>
    /\ options.x = 0 => SitsAt(options.alignment, LeftOnes, RightOnes,
                               area.x, area.width, source.width)
    /\ options.y = 0 => SitsAt(options.alignment, TopOnes, BottomOnes,
                               area.y, area.height, source.height)

\* A crop that lies on its side is drawn turned, and no other is.
CropTurned ==
  cropping = "drawn" /\ ~torn /\ options.cropmode # "source" => swapped = Turns(turned)

\* What is drawn into is there, whole, on the device that draws, and of the size the frame
\* is published with.
TargetFits ==
  cropping \in {"draw", "drawn"} => target = Made(Len(TargetParts), out) /\ out # NoSize

\* Whatever is typed and however the rotation changes under the tick, what is drawn lies in
\* the source and where its alignment says; it is turned as it was cut, unless the rotation
\* changed during the tick (VideoCapture.h:553-668, 717-740); and the target holds it,
\* whatever failed in the ticks before (VideoCapture.h:82-128, 693, 742-754).
CropSound == CropInside /\ CropAligned /\ CropTurned /\ TargetFits
=============================================================================
