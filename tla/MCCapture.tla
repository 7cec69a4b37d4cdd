----------------------------- MODULE MCCapture -----------------------------
(* The two sources of a stream on small instances: the pool of a captured   *)
(* window, the crop of a frame, and the audio device of a session.  They    *)
(* share no state, so each is explored on its own: a behaviour is one of    *)
(* the part it starts with, the others rest in their initial states.        *)
EXTENDS WindowCapture, CropArea, AudioDevice

\* A wide and a tall screen; a crop that fits, and one that is too tall or too wide.
MCSources == {[width |-> 8, height |-> 5], [width |-> 3, height |-> 7]}
MCSizes == {[width |-> 3, height |-> 2], [width |-> 4, height |-> 9]}
MCActive == [width |-> 2, height |-> 1]
MCOffsets == {<<0, 0>>, <<-5, 2>>, <<1, -9>>, <<9, 1>>}

VARIABLE part

captureVars == <<part, vars, cropVars, audioVars>>

CaptureInit ==
  /\ part \in {"window", "crop", "audio"}
  /\ Init /\ CropInit /\ AudioInit

CaptureNext ==
  \/ part = "window" /\ Next /\ UNCHANGED <<part, cropVars, audioVars>>
  \/ part = "crop" /\ CropNext /\ UNCHANGED <<part, vars, audioVars>>
  \/ part = "audio" /\ AudioNext /\ UNCHANGED <<part, vars, cropVars>>

\* Threads run and queued callbacks are delivered; the worker of the pool is only ever woken
\* by a signal.
CaptureFairness ==
  /\ WF_vars(part = "window" /\ Worker)
  /\ WF_vars(part = "window" /\ FrameArrived)
  /\ WF_vars(part = "window" /\ Caller)

CaptureSpec == CaptureInit /\ [][CaptureNext]_captureVars /\ CaptureFairness

\* The types of all three parts.
CaptureTypeOK == TypeOK /\ CropTypeOK /\ AudioTypeOK
=============================================================================
