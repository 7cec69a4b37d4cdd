------------------------------- MODULE Lifecycle -------------------------------
(***************************************************************************)
(* The library's entry points (MiSTerCastLib.cpp) and its two worker       *)
(* threads: capture_screen, which runs for the life of the program and is  *)
(* replaced whenever the capture source changes, and cast_screen, one per  *)
(* streaming session.  The caller is the front end's user interface        *)
(* thread; lifecycleMutex is therefore never contended.  What is shared    *)
(* with the workers is not under that mutex: the two stop flags, the       *)
(* source options (source_config, newSourceOptions, currentSourceOptions,  *)
(* hasNewSourceOptions), the capture device and the buffers.               *)
(*                                                                         *)
(* A call is modelled step by step where a worker can see the difference.  *)
(* Threads are never reused: the k-th one created has number k.  The crop  *)
(* stands for every source option that is not the display or the window;   *)
(* the two halves of it are copied one after the other, as the unguarded   *)
(* struct copies of the code may be.                                       *)
(***************************************************************************)
EXTENDS Naturals, FiniteSets

CONSTANTS
  Displays,      \* display numbers
  FirstDisplay,  \* the one Initialize captures: 0 in the code
  Windows,       \* window handles
  NoWindow,      \* the handle 0: capture the display
  CropSizes,     \* sizes of the crop, each as wide as it is high
  MaxCaptures,   \* bound: capture workers created
  MaxSessions    \* bound: stream workers created

ASSUME SourcesAssumption == FirstDisplay \in Displays /\ NoWindow \notin Windows
ASSUME CropAssumption == CropSizes # {}
ASSUME BoundsAssumption == MaxCaptures \in Nat \ {0} /\ MaxSessions \in Nat

None == [window |-> NoWindow, display |-> "none"]
\* The crops the user chooses; a torn copy is none of them.
Crop == {[width |-> n, height |-> n] : n \in CropSizes}
TornCrop == [width : CropSizes, height : CropSizes]
NoCrop == CHOOSE c \in Crop : TRUE

CaptureThread == 1 .. MaxCaptures
StreamThread == 1 .. MaxSessions

VARIABLES
  \* user interface thread
  ui,           \* where it is in a call; "idle" between calls
  isStreaming,  \* what the front end believes
  closing,      \* the window is being closed
  \* library state
  initialized,
  captureTask,  \* captureScreenTask: number of the thread it holds, 0: none
  castTask,     \* castScreenTask
  captures,     \* capture workers created so far
  sessions,     \* streamSession
  stopCapture, stopStream,
  config,       \* source_config
  new, hasNew,  \* newSourceOptions, hasNewSourceOptions
  current,      \* currentSourceOptions
  displayIndex,
  device,       \* what the capture device is open on
  buffers,      \* is videoCaptures allocated?
  \* workers
  capture,      \* where each capture worker is
  stream,       \* where each stream worker is
  \* environment and history
  openWindows,
  drawnBy,      \* session of the last picture drawn
  handedOver    \* the running capture worker was started by a restart, and no
                \* options were published since

uiVars == <<ui, isStreaming, closing>>
taskVars == <<initialized, captureTask, castTask, captures, sessions>>
flagVars == <<stopCapture, stopStream>>
optionVars == <<config, new, hasNew, current>>
deviceVars == <<displayIndex, device, buffers>>
workerVars == <<capture, stream>>
historyVars == <<openWindows, drawnBy, handedOver>>
vars == <<uiVars, taskVars, flagVars, optionVars, deviceVars, workerVars, historyVars>>

Init ==
  /\ ui = "idle" /\ isStreaming = FALSE /\ closing = FALSE
  /\ initialized = FALSE /\ captureTask = 0 /\ castTask = 0
  /\ captures = 0 /\ sessions = 0
  /\ stopCapture = FALSE /\ stopStream = FALSE
  /\ config = [display |-> FirstDisplay, window |-> NoWindow, crop |-> NoCrop]
  /\ new = [window |-> NoWindow, crop |-> NoCrop] /\ hasNew = FALSE
  /\ current = [window |-> NoWindow, crop |-> NoCrop]
  /\ displayIndex = FirstDisplay /\ device = None /\ buffers = FALSE
  /\ capture = [k \in CaptureThread |-> "unborn"]
  /\ stream = [k \in StreamThread |-> "unborn"]
  /\ openWindows = Windows /\ drawnBy = 0 /\ handedOver = FALSE

Live(pc) == pc \notin {"unborn", "ended"}

\* Every worker logs, and shows previews, through callbacks into the front end,
\* which only queues the message for its own thread: they return at once.  The
\* wrong version waits until that thread has handled it.
CallbackWaits == ui = "idle"

CallbackReturns == TRUE

-----------------------------------------------------------------------------
(* The capture device.                                                     *)

\* A wrong version: a window capture starts with the duplication left open.
OpenedBeside(display, window) ==
  {None} \cup
    IF window = NoWindow \/ window \in openWindows
    THEN {[window |-> window, display |-> display]}
    ELSE {}

\* What InitializeVideoCapture opens for a display and a window; any of its
\* steps may fail, and a window that is gone always does.
Opened(display, window) ==
  {None} \cup
    IF window = NoWindow THEN {[window |-> NoWindow, display |-> display]}
    ELSE IF window \in openWindows THEN {[window |-> window, display |-> "none"]}
    ELSE {}

\* CleanupVideoCapture, then InitializeVideoCapture.
Reopen(display) ==
  /\ displayIndex' = display
  /\ current' = [current EXCEPT !.window = config.window]
  /\ device' \in Opened(display, config.window)

\* The test at the head of a tick.
DeviceMissing ==
  IF current.window = NoWindow THEN device.display = "none"
                               ELSE device.window = NoWindow

-----------------------------------------------------------------------------
(* Initialize.  No worker exists yet, so everything up to the creation of  *)
(* the capture worker is one step.  The three ticks that fill the buffers  *)
(* may lose the device again.                                              *)

InitializeFails ==
  /\ ui = "idle" /\ ~initialized
  /\ displayIndex' = FirstDisplay
  /\ device' = None
  /\ buffers' = TRUE
  /\ UNCHANGED <<uiVars, taskVars, flagVars, optionVars, workerVars, historyVars>>

InitializeOpens ==
  /\ ui = "idle" /\ ~initialized
  /\ Reopen(FirstDisplay)
  /\ buffers' = TRUE
  /\ ui' = "spawn"
  /\ UNCHANGED <<isStreaming, closing, taskVars, flagVars, config, new, hasNew,
                 workerVars, historyVars>>

\* A new capture worker, for Initialize and for a restart.
SpawnCapture ==
  /\ ui = "spawn"
  /\ captures < MaxCaptures
  /\ stopCapture' = FALSE
  /\ captures' = captures + 1
  /\ captureTask' = captures + 1
  /\ capture' = [capture EXCEPT ![captures + 1] = "check"]
  /\ handedOver' = initialized
  /\ initialized' = TRUE
  /\ ui' = "idle"
  /\ UNCHANGED <<isStreaming, closing, castTask, sessions, stopStream, optionVars,
                 deviceVars, stream, openWindows, drawnBy>>

-----------------------------------------------------------------------------
(* StartStream, StopStream.                                                *)

StartStream ==
  /\ ui = "idle"
  /\ initialized /\ castTask = 0 /\ ~isStreaming
  /\ sessions < MaxSessions
  /\ stopStream' = FALSE
  /\ sessions' = sessions + 1
  /\ castTask' = sessions + 1
  /\ stream' = [stream EXCEPT ![sessions + 1] = "start"]
  /\ isStreaming' = TRUE
  /\ UNCHANGED <<ui, closing, initialized, captureTask, captures, stopCapture, optionVars,
                 deviceVars, capture, historyVars>>

StopStream ==
  /\ ui = "idle"
  /\ isStreaming
  /\ stopStream' = TRUE
  /\ ui' = "joinStream"
  /\ UNCHANGED <<isStreaming, closing, taskVars, stopCapture, optionVars, deviceVars,
                 workerVars, historyVars>>

Joinable(task, pc) == task # 0 => pc[task] = "ended"

\* A wrong version: the stream worker is let go instead of joined.
DetachStream ==
  /\ ui = "joinStream"
  /\ castTask' = 0
  /\ isStreaming' = FALSE
  /\ ui' = IF closing THEN "stopCapture" ELSE "idle"
  /\ UNCHANGED <<closing, initialized, captureTask, captures, sessions, flagVars,
                 optionVars, deviceVars, workerVars, historyVars>>

JoinStream ==
  /\ ui = "joinStream"
  /\ Joinable(castTask, stream)
  /\ castTask' = 0
  /\ isStreaming' = FALSE
  /\ ui' = IF closing THEN "stopCapture" ELSE "idle"
  /\ UNCHANGED <<closing, initialized, captureTask, captures, sessions, flagVars,
                 optionVars, deviceVars, workerVars, historyVars>>

-----------------------------------------------------------------------------
(* SetCaptureWindow, SetSource, RestartVideoCapture.                       *)

SetCaptureWindow(w) ==
  /\ ui = "idle" /\ initialized
  /\ captures < MaxCaptures
  /\ w \in openWindows \cup {NoWindow}
  /\ w # config.window
  /\ config' = [config EXCEPT !.window = w]
  /\ ui' = "stopCapture"
  /\ UNCHANGED <<isStreaming, closing, taskVars, flagVars, new, hasNew, current,
                 deviceVars, workerVars, historyVars>>

SetSource(display, crop) ==
  /\ ui = "idle" /\ initialized
  /\ config' = [config EXCEPT !.display = display, !.crop = crop]
  /\ IF displayIndex # display
     THEN captures < MaxCaptures /\ ui' = "stopCapture" /\ UNCHANGED handedOver
     ELSE ui' = "publish" /\ handedOver' = FALSE
  /\ UNCHANGED <<isStreaming, closing, taskVars, flagVars, new, hasNew, current,
                 deviceVars, workerVars, openWindows, drawnBy>>

StopCapture ==
  /\ ui = "stopCapture"
  /\ stopCapture' = TRUE
  /\ ui' = "joinCapture"
  /\ UNCHANGED <<isStreaming, closing, taskVars, stopStream, optionVars, deviceVars,
                 workerVars, historyVars>>

\* A wrong version: the capture worker is let go instead of joined.
DetachCapture ==
  /\ ui = "joinCapture"
  /\ captureTask' = 0
  /\ ui' = IF closing THEN "free" ELSE "swap"
  /\ UNCHANGED <<isStreaming, closing, initialized, castTask, captures, sessions, flagVars,
                 optionVars, deviceVars, workerVars, historyVars>>

JoinCapture ==
  /\ ui = "joinCapture"
  /\ Joinable(captureTask, capture)
  /\ captureTask' = 0
  /\ ui' = IF closing THEN "free" ELSE "swap"
  /\ UNCHANGED <<isStreaming, closing, initialized, castTask, captures, sessions, flagVars,
                 optionVars, deviceVars, workerVars, historyVars>>

\* A wrong version: the new options are not published on a restart.
SwapKeepsOptions ==
  /\ ui = "swap"
  /\ Reopen(config.display)
  /\ ui' = "spawn"
  /\ UNCHANGED <<isStreaming, closing, taskVars, flagVars, config, new, hasNew, buffers,
                 workerVars, historyVars>>

SwapCapture ==
  /\ ui = "swap"
  /\ Reopen(config.display)
  /\ ui' = "publish"
  /\ UNCHANGED <<isStreaming, closing, taskVars, flagVars, config, new, hasNew, buffers,
                 workerVars, historyVars>>

\* SetSourceOptions: a struct copy, then the flag.
PublishWidth ==
  /\ ui = "publish"
  /\ new' = [new EXCEPT !.window = config.window, !.crop.width = config.crop.width]
  /\ ui' = "publishHeight"
  /\ UNCHANGED <<isStreaming, closing, taskVars, flagVars, config, hasNew, current,
                 deviceVars, workerVars, historyVars>>

PublishHeight ==
  /\ ui = "publishHeight"
  /\ new' = [new EXCEPT !.crop.height = config.crop.height]
  /\ ui' = "raise"
  /\ UNCHANGED <<isStreaming, closing, taskVars, flagVars, config, hasNew, current,
                 deviceVars, workerVars, historyVars>>

RaiseNewOptions ==
  /\ ui = "raise"
  /\ hasNew' = TRUE
  /\ ui' = IF captureTask = 0 THEN "spawn" ELSE "idle"
  /\ UNCHANGED <<isStreaming, closing, taskVars, flagVars, config, new, current,
                 deviceVars, workerVars, historyVars>>

-----------------------------------------------------------------------------
(* MainWindow_Closing: StopStream if it is streaming, then Shutdown.       *)

Close ==
  /\ ui = "idle"
  /\ closing' = TRUE
  /\ stopStream' = TRUE
  /\ ui' = "joinStream"
  /\ UNCHANGED <<isStreaming, taskVars, stopCapture, optionVars, deviceVars, workerVars,
                 historyVars>>

FreeBuffers ==
  /\ ui = "free"
  /\ device' = None
  /\ buffers' = FALSE
  /\ initialized' = FALSE
  /\ ui' = "closed"
  /\ UNCHANGED <<isStreaming, closing, captureTask, castTask, captures, sessions, flagVars,
                 optionVars, displayIndex, workerVars, historyVars>>

-----------------------------------------------------------------------------
(* capture_screen and TickVideoCapture.                                    *)

CaptureGoes(k, from, to) ==
  /\ capture[k] = from
  /\ capture' = [capture EXCEPT ![k] = to]

Frozen == <<uiVars, taskVars, flagVars, stream, historyVars>>

CheckStopCapture(k) ==
  /\ \/ stopCapture /\ CallbackReturns /\ CaptureGoes(k, "check", "ended")
     \/ ~stopCapture /\ CaptureGoes(k, "check", "options")
  /\ UNCHANGED <<optionVars, deviceVars, Frozen>>

LookForOptions(k) ==
  /\ CaptureGoes(k, "options", IF hasNew THEN "copy" ELSE "tick")
  /\ UNCHANGED <<optionVars, deviceVars, Frozen>>

CopyWidth(k) ==
  /\ CaptureGoes(k, "copy", "copyHeight")
  /\ current' = [current EXCEPT !.window = new.window, !.crop.width = new.crop.width]
  /\ UNCHANGED <<config, new, hasNew, deviceVars, Frozen>>

CopyHeight(k) ==
  /\ CaptureGoes(k, "copyHeight", "clear")
  /\ current' = [current EXCEPT !.crop.height = new.crop.height]
  /\ UNCHANGED <<config, new, hasNew, deviceVars, Frozen>>

ClearNewOptions(k) ==
  /\ CaptureGoes(k, "clear", "tick")
  /\ hasNew' = FALSE
  /\ UNCHANGED <<config, new, current, deviceVars, Frozen>>

\* Nothing to capture now (a timeout, a window that is minimised or gone, a
\* Direct2D failure): the next tick tries again.
TickWithoutFrame(k) ==
  /\ ~DeviceMissing
  /\ CaptureGoes(k, "tick", "check")
  /\ UNCHANGED <<optionVars, deviceVars, Frozen>>

\* A wrong version: the rebuild goes back to the first display.
RebuildFirstDisplay(k) ==
  /\ CaptureGoes(k, "tick", "check")
  /\ Reopen(FirstDisplay)
  /\ UNCHANGED <<config, new, hasNew, buffers, Frozen>>

\* The device is gone, or fails on the way: rebuild it on this thread.
Rebuild(k) ==
  /\ CaptureGoes(k, "tick", "check")
  /\ Reopen(displayIndex)
  /\ UNCHANGED <<config, new, hasNew, buffers, Frozen>>

TickTakesFrame(k) ==
  /\ ~DeviceMissing
  /\ current.window \in openWindows \cup {NoWindow}
  /\ CaptureGoes(k, "tick", "frame")
  /\ UNCHANGED <<optionVars, deviceVars, Frozen>>

PublishFrame(k) ==
  /\ CallbackReturns
  /\ CaptureGoes(k, "frame", "check")
  /\ UNCHANGED <<optionVars, deviceVars, Frozen>>

\* An exception out of a tick ends the worker; nobody restarts it.
CaptureFails(k) ==
  /\ CallbackReturns
  /\ CaptureGoes(k, "tick", "ended")
  /\ UNCHANGED <<optionVars, deviceVars, Frozen>>

-----------------------------------------------------------------------------
(* cast_screen.                                                            *)

StreamGoes(k, from, to) ==
  /\ stream[k] = from
  /\ stream' = [stream EXCEPT ![k] = to]
  /\ UNCHANGED <<uiVars, taskVars, flagVars, optionVars, deviceVars, capture, openWindows,
                 handedOver>>

\* The audio client, opened or not, then the loop.
StartAudio(k) == StreamGoes(k, "start", "check") /\ UNCHANGED drawnBy

CheckStopStream(k) ==
  /\ StreamGoes(k, "check", IF stopStream THEN "close" ELSE "draw")
  /\ UNCHANGED drawnBy

Draw(k) == StreamGoes(k, "draw", "check") /\ drawnBy' = k

StreamFails(k) == StreamGoes(k, "draw", "close") /\ UNCHANGED drawnBy

\* The renderer's destructor, then the audio client.
CloseSession(k) ==
  /\ CallbackReturns
  /\ StreamGoes(k, "close", "ended")
  /\ UNCHANGED drawnBy

-----------------------------------------------------------------------------
WindowCloses(w) ==
  /\ w \in openWindows
  /\ openWindows' = openWindows \ {w}
  /\ UNCHANGED <<uiVars, taskVars, flagVars, optionVars, deviceVars, workerVars, drawnBy,
                 handedOver>>

\* Inside a call the user interface thread runs on; between calls the user acts.
InCall ==
  \/ SpawnCapture \/ JoinStream \/ StopCapture \/ JoinCapture \/ SwapCapture
  \/ PublishWidth \/ PublishHeight \/ RaiseNewOptions \/ FreeBuffers

User ==
  \/ InitializeFails \/ InitializeOpens \/ StartStream \/ StopStream \/ Close
  \/ \E w \in Windows \cup {NoWindow} : SetCaptureWindow(w)
  \/ \E display \in Displays, crop \in Crop : SetSource(display, crop)

CaptureWorker(k) ==
  \/ CheckStopCapture(k) \/ LookForOptions(k) \/ CopyWidth(k) \/ CopyHeight(k)
  \/ ClearNewOptions(k) \/ TickWithoutFrame(k) \/ Rebuild(k) \/ TickTakesFrame(k)
  \/ PublishFrame(k) \/ CaptureFails(k)

StreamWorker(k) ==
  \/ StartAudio(k) \/ CheckStopStream(k) \/ Draw(k) \/ StreamFails(k) \/ CloseSession(k)

Next ==
  \/ User
  \/ InCall
  \/ \E k \in CaptureThread : CaptureWorker(k)
  \/ \E k \in StreamThread : StreamWorker(k)
  \/ \E w \in Windows : WindowCloses(w)

\* The operating system runs every thread that can run.
Fairness ==
  /\ WF_vars(InCall)
  /\ \A k \in CaptureThread : WF_vars(CaptureWorker(k))
  /\ \A k \in StreamThread : WF_vars(StreamWorker(k))

Spec == Init /\ [][Next]_vars /\ Fairness

-----------------------------------------------------------------------------
\* Never a display and a window at once.
Source == [window : {NoWindow}, display : Displays \cup {"none"}]
            \cup [window : Windows, display : {"none"}]
Options == [window : Windows \cup {NoWindow}, crop : TornCrop]

CallsTyped ==
  /\ ui \in {"idle", "spawn", "joinStream", "stopCapture", "joinCapture", "swap",
             "publish", "publishHeight", "raise", "free", "closed"}
  /\ isStreaming \in BOOLEAN /\ closing \in BOOLEAN /\ initialized \in BOOLEAN
  /\ captureTask \in 0 .. MaxCaptures /\ castTask \in 0 .. MaxSessions
  /\ captures \in 0 .. MaxCaptures /\ sessions \in 0 .. MaxSessions
  /\ stopCapture \in BOOLEAN /\ stopStream \in BOOLEAN

OptionsTyped ==
  /\ config \in [display : Displays, window : Windows \cup {NoWindow}, crop : Crop]
  /\ new \in Options /\ hasNew \in BOOLEAN /\ current \in Options
  /\ displayIndex \in Displays /\ device \in Source /\ buffers \in BOOLEAN

WorkersTyped ==
  /\ capture \in [CaptureThread -> {"unborn", "check", "options", "copy", "copyHeight",
                                    "clear", "tick", "frame", "ended"}]
  /\ stream \in [StreamThread -> {"unborn", "start", "check", "draw", "close", "ended"}]
  /\ openWindows \subseteq Windows
  /\ drawnBy \in 0 .. MaxSessions /\ handedOver \in BOOLEAN

TypeOK == CallsTyped /\ OptionsTyped /\ WorkersTyped

\* "Capture cannot be swapped under the worker" (MiSTerCastLib.cpp:366): while
\* a call rebuilds or frees the capture device, and while a second worker
\* would be created, no capture worker is alive.
CaptureExclusive ==
  /\ ui \in {"swap", "spawn", "free"} => \A k \in CaptureThread : ~Live(capture[k])
  /\ Cardinality({k \in CaptureThread : Live(capture[k])}) <= 1

\* No worker that may look at a frame outlives the buffers
\* (MiSTerCastLib.cpp:217-221, VideoCapture.h:400, renderer_nogpu.h:247).
BuffersOutliveWorkers ==
  (\E k \in CaptureThread : Live(capture[k])) \/ (\E k \in StreamThread : Live(stream[k]))
    => buffers

\* A std::thread that still runs, or ended without being joined, is never
\* replaced or forgotten by the pointer that owns it: that would end the
\* process (MiSTerCastLib.cpp:141-149, 206, 231, 375).
EveryThreadOwned ==
  /\ \A k \in CaptureThread : Live(capture[k]) => k = captureTask
  /\ \A k \in StreamThread : Live(stream[k]) => k = castTask

\* A capture worker started by a restart captures with the options of that
\* restart from its first tick on, whatever its predecessor had taken or left
\* (MiSTerCastLib.cpp:366-376).
RestartHandsOver ==
  \A k \in CaptureThread :
    ui = "idle" /\ handedOver /\ capture[k] \in {"tick", "frame"}
      => current = [window |-> config.window, crop |-> config.crop]

\* Once a call that changed the source has returned, every frame published
\* comes from the display or window it selected (MiSTerCastLib.cpp:372,
\* VideoCapture.h:246-247, 386-395).
FrameFromSelectedSource ==
  \A k \in CaptureThread :
    ui = "idle" /\ capture[k] = "frame"
      => device = IF config.window = NoWindow
                  THEN [window |-> NoWindow, display |-> config.display]
                  ELSE [window |-> config.window, display |-> "none"]

\* Every worker that runs is held by its pointer until it is joined, and has its buffers.
WorkersHeld == EveryThreadOwned /\ BuffersOutliveWorkers

\* Every call returns: no join waits for a worker that waits for the caller, or
\* that never looks at its flag again.
CallsReturn == ui # "idle" ~> ui \in {"idle", "closed"}

\* The calls keep what StreamService promises.
phase ==
  IF castTask = 0 THEN (IF ui = "joinStream" THEN "stopping" ELSE "stopped")
  ELSE IF ui = "joinStream" THEN "stopping" ELSE "started"

Service == INSTANCE StreamService WITH session <- sessions

\* What of that promise is safety.
ServiceSafe == Service!Init /\ [][Service!Next]_Service!vars

ImplementsService == Service!Spec
=============================================================================
