---------------------------- MODULE LifecycleProof ----------------------------
(***************************************************************************)
(* What the calls and the workers keep, for any number of displays,        *)
(* windows, restarts and sessions: every worker is held by its pointer and *)
(* has its buffers, a restarted capture worker works with the options it   *)
(* was started for, and frames come from the source that was selected.     *)
(***************************************************************************)
EXTENDS Lifecycle, FiniteSetTheorems, TLAPS

\* Who holds which thread, call by call.
Held ==
  /\ EveryThreadOwned
  /\ castTask \in {0, sessions}
  /\ ui \in {"swap", "spawn", "free", "closed"} \/ ~initialized => captureTask = 0
  /\ castTask # 0 => initialized
  /\ initialized \/ ui = "spawn" => buffers
  /\ ui \in {"swap", "publish", "publishHeight", "raise"} => initialized
  /\ ui \in {"stopCapture", "joinCapture"} => initialized \/ closing
  /\ ui \in {"free", "closed"} => closing
  /\ closing => ui \in {"joinStream", "stopCapture", "joinCapture", "free", "closed"}
  /\ closing /\ ui # "joinStream" => castTask = 0

\* The options in force once a call has handed them over.
Chosen == [window |-> config.window, crop |-> config.crop]

\* How far a worker has come in taking the options published last.
Took(k) ==
  /\ capture[k] \in {"copy", "copyHeight"} => hasNew
  /\ hasNew => new = Chosen
  /\ capture[k] \in {"check", "options"} => hasNew \/ current = Chosen
  /\ capture[k] = "copyHeight" =>
       current.window = Chosen.window /\ current.crop.width = Chosen.crop.width
  /\ capture[k] \in {"clear", "tick", "frame"} => current = Chosen

\* What SetSourceOptions has stored so far, and what a worker started by a restart does with it.
Handed ==
  /\ ui \in {"publishHeight", "raise"} =>
       new.window = Chosen.window /\ new.crop.width = Chosen.crop.width
  /\ ui = "raise" => new.crop.height = Chosen.crop.height
  /\ ui = "spawn" /\ initialized => hasNew /\ new = Chosen
  /\ ui \in {"publish", "publishHeight", "raise"} /\ captureTask # 0 => ~handedOver
  /\ ui \in {"idle", "joinStream"} /\ handedOver =>
       \A k \in CaptureThread : Live(capture[k]) => Took(k)

\* What the device is opened on for the source in force.
Selected ==
  IF config.window = NoWindow
  THEN [window |-> NoWindow, display |-> config.display]
  ELSE [window |-> config.window, display |-> "none"]

\* Calls in which the device belongs to the source selected before.
Replacing == ui \in {"stopCapture", "joinCapture", "swap", "free", "closed"}

Sourced ==
  /\ ~initialized /\ ui # "closed" => config.display = FirstDisplay
  /\ ~Replacing => displayIndex = config.display /\ device \in {None, Selected}
  /\ ~Replacing =>
       \A k \in CaptureThread : capture[k] = "frame" => device = Selected

LifecycleInv == TypeOK /\ Held /\ Handed /\ Sourced

-----------------------------------------------------------------------------
(* Types.                                                                  *)

\* Whatever comes of an opening is a source.
LEMMA OpenedIsSource ==
  ASSUME NEW display \in Displays, NEW window \in Windows \cup {NoWindow}
  PROVE  None \in Source /\ Opened(display, window) \subseteq Source
BY SourcesAssumption DEF None, Source, Opened

\* A crop has two halves, and options are stored field by field.
LEMMA OptionsStored ==
  ASSUME NEW o \in Options, NEW w \in Windows \cup {NoWindow}, NEW n \in CropSizes
  PROVE  /\ [o EXCEPT !.window = w, !.crop.width = n] =
              [window |-> w, crop |-> [width |-> n, height |-> o.crop.height]]
         /\ [o EXCEPT !.crop.height = n] =
              [window |-> o.window, crop |-> [width |-> o.crop.width, height |-> n]]
         /\ [o EXCEPT !.window = w, !.crop.width = n] \in Options
         /\ [o EXCEPT !.crop.height = n] \in Options
<1>1. PICK v \in Windows \cup {NoWindow}, c \in TornCrop : o = [window |-> v, crop |-> c]
  BY DEF Options
<1>2. PICK x \in CropSizes, y \in CropSizes : c = [width |-> x, height |-> y]
  BY DEF TornCrop
<1>3. o = [window |-> v, crop |-> [width |-> x, height |-> y]]
  BY <1>1, <1>2
<1>4. [o EXCEPT !.window = w, !.crop.width = n] =
        [window |-> w, crop |-> [width |-> n, height |-> y]]
  <2>1. [o EXCEPT !.window = w, !.crop.width = n] =
          [[o EXCEPT !.window = w] EXCEPT !.crop.width = n]
    OBVIOUS
  <2>2. [o EXCEPT !.window = w] = [window |-> w, crop |-> [width |-> x, height |-> y]]
    BY <1>3
  <2>3. [[window |-> w, crop |-> [width |-> x, height |-> y]] EXCEPT !.crop.width = n] =
          [window |-> w, crop |-> [width |-> n, height |-> y]]
    OBVIOUS
  <2> QED
    BY <2>1, <2>2, <2>3
<1>5. [o EXCEPT !.crop.height = n] =
        [window |-> v, crop |-> [width |-> x, height |-> n]]
  BY <1>3
<1> QED
  BY <1>3, <1>4, <1>5 DEF Options, TornCrop

LEMMA TypeStep ==
  ASSUME TypeOK, [Next]_vars
  PROVE  TypeOK'
<1> USE SourcesAssumption, CropAssumption, BoundsAssumption
<1>1. CASE InitializeFails
  <2>1. config.window \in Windows \cup {NoWindow}
    BY DEF TypeOK, OptionsTyped
  <2>2. device' \in Source /\ displayIndex' \in Displays
    BY <1>1, <2>1, SourcesAssumption, OpenedIsSource DEF InitializeFails, TypeOK,
        OptionsTyped
  <2>3. CallsTyped'
    BY <1>1 DEF InitializeFails, TypeOK, CallsTyped, uiVars, taskVars, flagVars,
        optionVars, workerVars, historyVars
  <2>4. OptionsTyped'
    BY <1>1, <2>2 DEF InitializeFails, TypeOK, OptionsTyped, uiVars, taskVars, flagVars,
        optionVars, workerVars, historyVars
  <2>5. WorkersTyped'
    BY <1>1 DEF InitializeFails, TypeOK, WorkersTyped, uiVars, taskVars, flagVars,
        optionVars, workerVars, historyVars
  <2> QED
    BY <2>3, <2>4, <2>5 DEF TypeOK
<1>2. CASE InitializeOpens
  <2>1. config.window \in Windows \cup {NoWindow}
    BY DEF TypeOK, OptionsTyped
  <2>2. device' \in Source /\ displayIndex' \in Displays
    BY <1>2, <2>1, SourcesAssumption, OpenedIsSource DEF InitializeOpens, TypeOK,
        OptionsTyped, Reopen
  <2>3. current' \in Options
    BY <1>2, <2>1 DEF InitializeOpens, Reopen, TypeOK, OptionsTyped, Options
  <2>4. CallsTyped'
    BY <1>2 DEF InitializeOpens, Reopen, TypeOK, CallsTyped, taskVars, flagVars,
        workerVars, historyVars
  <2>5. OptionsTyped'
    BY <1>2, <2>2, <2>3 DEF InitializeOpens, Reopen, TypeOK, OptionsTyped, taskVars,
        flagVars, workerVars, historyVars
  <2>6. WorkersTyped'
    BY <1>2 DEF InitializeOpens, Reopen, TypeOK, WorkersTyped, taskVars, flagVars,
        workerVars, historyVars
  <2> QED
    BY <2>4, <2>5, <2>6 DEF TypeOK
<1>3. CASE StartStream
  <2>1. sessions + 1 \in StreamThread
    BY <1>3 DEF StartStream, TypeOK, CallsTyped, StreamThread
  <2>2. /\ captureTask' \in 0 .. MaxCaptures /\ castTask' \in 0 .. MaxSessions
        /\ captures' \in 0 .. MaxCaptures /\ sessions' \in 0 .. MaxSessions
    BY <1>3, <2>1 DEF StartStream, TypeOK, CallsTyped, optionVars, deviceVars, historyVars
  <2>3. /\ isStreaming' \in BOOLEAN /\ closing' \in BOOLEAN /\ initialized' \in BOOLEAN
        /\ stopCapture' \in BOOLEAN /\ stopStream' \in BOOLEAN
    BY <1>3 DEF StartStream, TypeOK, CallsTyped, optionVars, deviceVars, historyVars
  <2>4. ui' \in {"idle", "spawn", "joinStream", "stopCapture", "joinCapture", "swap",
                 "publish", "publishHeight", "raise", "free", "closed"}
    BY <1>3 DEF StartStream, TypeOK, CallsTyped, optionVars, deviceVars, historyVars
  <2>5. CallsTyped'
    BY <2>2, <2>3, <2>4 DEF CallsTyped
  <2>6. OptionsTyped'
    BY <1>3, <2>1 DEF StartStream, TypeOK, OptionsTyped, optionVars, deviceVars,
        historyVars
  <2>7. stream' \in [StreamThread ->
                  {"unborn", "start", "check", "draw", "close", "ended"}]
    BY <1>3, <2>1 DEF StartStream, TypeOK, WorkersTyped
  <2>8. WorkersTyped'
    BY <1>3, <2>1, <2>7 DEF StartStream, TypeOK, WorkersTyped, optionVars, deviceVars,
        historyVars
  <2> QED
    BY <2>5, <2>6, <2>8 DEF TypeOK
<1>4. CASE StopStream
  BY <1>4 DEF StopStream, TypeOK, CallsTyped, OptionsTyped, WorkersTyped, CaptureThread,
      StreamThread, taskVars, optionVars, deviceVars, workerVars, historyVars
<1>5. CASE Close
  BY <1>5 DEF Close, TypeOK, CallsTyped, OptionsTyped, WorkersTyped, CaptureThread,
      StreamThread, taskVars, optionVars, deviceVars, workerVars, historyVars
<1>6. ASSUME NEW w \in Windows \cup {NoWindow}, SetCaptureWindow(w) PROVE TypeOK'
  BY <1>6 DEF SetCaptureWindow, TypeOK, CallsTyped, OptionsTyped, WorkersTyped,
      CaptureThread, StreamThread, taskVars, flagVars, deviceVars, workerVars, historyVars
<1>7. ASSUME NEW display \in Displays, NEW crop \in Crop, SetSource(display, crop) PROVE TypeOK'
  BY <1>7 DEF SetSource, TypeOK, CallsTyped, OptionsTyped, WorkersTyped, CaptureThread,
      StreamThread, taskVars, flagVars, deviceVars, workerVars
<1>8. CASE SpawnCapture
  <2>1. captures + 1 \in CaptureThread
    BY <1>8 DEF SpawnCapture, TypeOK, CallsTyped, CaptureThread
  <2>2. /\ captureTask' \in 0 .. MaxCaptures /\ castTask' \in 0 .. MaxSessions
        /\ captures' \in 0 .. MaxCaptures /\ sessions' \in 0 .. MaxSessions
    BY <1>8, <2>1 DEF SpawnCapture, TypeOK, CallsTyped, optionVars, deviceVars
  <2>3. /\ isStreaming' \in BOOLEAN /\ closing' \in BOOLEAN /\ initialized' \in BOOLEAN
        /\ stopCapture' \in BOOLEAN /\ stopStream' \in BOOLEAN
    BY <1>8 DEF SpawnCapture, TypeOK, CallsTyped, optionVars, deviceVars
  <2>4. ui' \in {"idle", "spawn", "joinStream", "stopCapture", "joinCapture", "swap",
                 "publish", "publishHeight", "raise", "free", "closed"}
    BY <1>8 DEF SpawnCapture, TypeOK, CallsTyped, optionVars, deviceVars
  <2>5. CallsTyped'
    BY <2>2, <2>3, <2>4 DEF CallsTyped
  <2>6. OptionsTyped'
    BY <1>8, <2>1 DEF SpawnCapture, TypeOK, OptionsTyped, optionVars, deviceVars
  <2>7. capture' \in [CaptureThread ->
                  {"unborn", "check", "options", "copy", "copyHeight",
                   "clear", "tick", "frame", "ended"}]
    BY <1>8, <2>1 DEF SpawnCapture, TypeOK, WorkersTyped
  <2>8. handedOver' \in BOOLEAN
    BY <1>8 DEF SpawnCapture, TypeOK, CallsTyped
  <2>9. WorkersTyped'
    BY <1>8, <2>1, <2>7, <2>8 DEF SpawnCapture, TypeOK, WorkersTyped, optionVars,
        deviceVars
  <2> QED
    BY <2>5, <2>6, <2>9 DEF TypeOK
<1>9. CASE JoinStream
  <2>1. /\ captureTask' \in 0 .. MaxCaptures /\ castTask' \in 0 .. MaxSessions
        /\ captures' \in 0 .. MaxCaptures /\ sessions' \in 0 .. MaxSessions
    BY <1>9 DEF JoinStream, TypeOK, CallsTyped, flagVars, optionVars, deviceVars,
        workerVars, historyVars
  <2>2. /\ isStreaming' \in BOOLEAN /\ closing' \in BOOLEAN /\ initialized' \in BOOLEAN
        /\ stopCapture' \in BOOLEAN /\ stopStream' \in BOOLEAN
    BY <1>9 DEF JoinStream, TypeOK, CallsTyped, flagVars, optionVars, deviceVars,
        workerVars, historyVars
  <2>3. ui' \in {"idle", "spawn", "joinStream", "stopCapture", "joinCapture", "swap",
                 "publish", "publishHeight", "raise", "free", "closed"}
    BY <1>9 DEF JoinStream, TypeOK, CallsTyped, flagVars, optionVars, deviceVars,
        workerVars, historyVars
  <2>4. CallsTyped'
    BY <2>1, <2>2, <2>3 DEF CallsTyped
  <2>5. OptionsTyped'
    BY <1>9 DEF JoinStream, TypeOK, OptionsTyped, flagVars, optionVars, deviceVars,
        workerVars, historyVars
  <2>6. WorkersTyped'
    BY <1>9 DEF JoinStream, TypeOK, WorkersTyped, flagVars, optionVars, deviceVars,
        workerVars, historyVars
  <2> QED
    BY <2>4, <2>5, <2>6 DEF TypeOK
<1>10. CASE StopCapture
  BY <1>10 DEF StopCapture, TypeOK, CallsTyped, OptionsTyped, WorkersTyped, CaptureThread,
      StreamThread, taskVars, optionVars, deviceVars, workerVars, historyVars
<1>11. CASE JoinCapture
  BY <1>11 DEF JoinCapture, TypeOK, CallsTyped, OptionsTyped, WorkersTyped, CaptureThread,
      StreamThread, Joinable, flagVars, optionVars, deviceVars, workerVars, historyVars
<1>12. CASE SwapCapture
  <2>1. config.window \in Windows \cup {NoWindow}
    BY DEF TypeOK, OptionsTyped
  <2>2. device' \in Source /\ displayIndex' \in Displays
    BY <1>12, <2>1, SourcesAssumption, OpenedIsSource DEF SwapCapture, TypeOK,
        OptionsTyped, Reopen
  <2>3. current' \in Options
    BY <1>12, <2>1 DEF SwapCapture, Reopen, TypeOK, OptionsTyped, Options
  <2>4. CallsTyped'
    BY <1>12 DEF SwapCapture, Reopen, TypeOK, CallsTyped, taskVars, flagVars, workerVars,
        historyVars
  <2>5. OptionsTyped'
    BY <1>12, <2>2, <2>3 DEF SwapCapture, Reopen, TypeOK, OptionsTyped, taskVars, flagVars,
        workerVars, historyVars
  <2>6. WorkersTyped'
    BY <1>12 DEF SwapCapture, Reopen, TypeOK, WorkersTyped, taskVars, flagVars, workerVars,
        historyVars
  <2> QED
    BY <2>4, <2>5, <2>6 DEF TypeOK
<1>13. CASE PublishWidth
  <2>1. config.window \in Windows \cup {NoWindow} /\ config.crop.width \in CropSizes
        /\ config.crop.height \in CropSizes
    BY DEF TypeOK, OptionsTyped, Crop, Options, TornCrop
  <2>2. new \in Options
    BY DEF TypeOK, OptionsTyped
  <2>3. new' \in Options
    BY <1>13, <2>1, <2>2, OptionsStored DEF PublishWidth
  <2>4. CallsTyped'
    BY <1>13 DEF PublishWidth, TypeOK, CallsTyped, taskVars, flagVars, deviceVars,
        workerVars, historyVars
  <2>5. OptionsTyped'
    BY <1>13, <2>3 DEF PublishWidth, TypeOK, OptionsTyped, taskVars, flagVars, deviceVars,
        workerVars, historyVars
  <2>6. WorkersTyped'
    BY <1>13 DEF PublishWidth, TypeOK, WorkersTyped, taskVars, flagVars, deviceVars,
        workerVars, historyVars
  <2> QED
    BY <2>4, <2>5, <2>6 DEF TypeOK
<1>14. CASE PublishHeight
  <2>1. config.window \in Windows \cup {NoWindow} /\ config.crop.width \in CropSizes
        /\ config.crop.height \in CropSizes
    BY DEF TypeOK, OptionsTyped, Crop, Options, TornCrop
  <2>2. new \in Options
    BY DEF TypeOK, OptionsTyped
  <2>3. new' \in Options
    BY <1>14, <2>1, <2>2, OptionsStored DEF PublishHeight
  <2>4. CallsTyped'
    BY <1>14 DEF PublishHeight, TypeOK, CallsTyped, taskVars, flagVars, deviceVars,
        workerVars, historyVars
  <2>5. OptionsTyped'
    BY <1>14, <2>3 DEF PublishHeight, TypeOK, OptionsTyped, taskVars, flagVars, deviceVars,
        workerVars, historyVars
  <2>6. WorkersTyped'
    BY <1>14 DEF PublishHeight, TypeOK, WorkersTyped, taskVars, flagVars, deviceVars,
        workerVars, historyVars
  <2> QED
    BY <2>4, <2>5, <2>6 DEF TypeOK
<1>15. CASE RaiseNewOptions
  BY <1>15 DEF RaiseNewOptions, TypeOK, CallsTyped, OptionsTyped, WorkersTyped,
      CaptureThread, StreamThread, taskVars, flagVars, deviceVars, workerVars, historyVars
<1>16. CASE FreeBuffers
  <2>1. device' \in Source
    BY <1>16, SourcesAssumption, OpenedIsSource DEF FreeBuffers, TypeOK, OptionsTyped
  <2>2. CallsTyped'
    BY <1>16 DEF FreeBuffers, TypeOK, CallsTyped, flagVars, optionVars, workerVars,
        historyVars
  <2>3. OptionsTyped'
    BY <1>16, <2>1 DEF FreeBuffers, TypeOK, OptionsTyped, flagVars, optionVars, workerVars,
        historyVars
  <2>4. WorkersTyped'
    BY <1>16 DEF FreeBuffers, TypeOK, WorkersTyped, flagVars, optionVars, workerVars,
        historyVars
  <2> QED
    BY <2>2, <2>3, <2>4 DEF TypeOK
<1>17. ASSUME NEW k \in CaptureThread, CheckStopCapture(k) PROVE TypeOK'
  BY <1>17 DEF CheckStopCapture, TypeOK, CallsTyped, OptionsTyped, WorkersTyped,
      CaptureThread, StreamThread, CaptureGoes, Frozen, uiVars, taskVars, flagVars,
      optionVars, deviceVars, historyVars
<1>18. ASSUME NEW k \in CaptureThread, LookForOptions(k) PROVE TypeOK'
  BY <1>18 DEF LookForOptions, TypeOK, CallsTyped, OptionsTyped, WorkersTyped,
      CaptureThread, StreamThread, CaptureGoes, Frozen, uiVars, taskVars, flagVars,
      optionVars, deviceVars, historyVars
<1>19. ASSUME NEW k \in CaptureThread, CopyWidth(k) PROVE TypeOK'
  <2>1. new.window \in Windows \cup {NoWindow} /\ new.crop.width \in CropSizes
        /\ new.crop.height \in CropSizes
    BY DEF TypeOK, OptionsTyped, Crop, Options, TornCrop
  <2>2. current \in Options
    BY DEF TypeOK, OptionsTyped
  <2>3. current' \in Options
    BY <1>19, <2>1, <2>2, OptionsStored DEF CopyWidth
  <2>4. CallsTyped'
    BY <1>19 DEF CopyWidth, CaptureGoes, Frozen, TypeOK, CallsTyped, uiVars, taskVars,
        flagVars, deviceVars, historyVars
  <2>5. OptionsTyped'
    BY <1>19, <2>3 DEF CopyWidth, CaptureGoes, Frozen, TypeOK, OptionsTyped, uiVars,
        taskVars, flagVars, deviceVars, historyVars
  <2>6. WorkersTyped'
    BY <1>19 DEF CopyWidth, CaptureGoes, Frozen, TypeOK, WorkersTyped, uiVars, taskVars,
        flagVars, deviceVars, historyVars
  <2> QED
    BY <2>4, <2>5, <2>6 DEF TypeOK
<1>20. ASSUME NEW k \in CaptureThread, CopyHeight(k) PROVE TypeOK'
  <2>1. new.window \in Windows \cup {NoWindow} /\ new.crop.width \in CropSizes
        /\ new.crop.height \in CropSizes
    BY DEF TypeOK, OptionsTyped, Crop, Options, TornCrop
  <2>2. current \in Options
    BY DEF TypeOK, OptionsTyped
  <2>3. current' \in Options
    BY <1>20, <2>1, <2>2, OptionsStored DEF CopyHeight
  <2>4. CallsTyped'
    BY <1>20 DEF CopyHeight, CaptureGoes, Frozen, TypeOK, CallsTyped, uiVars, taskVars,
        flagVars, deviceVars, historyVars
  <2>5. OptionsTyped'
    BY <1>20, <2>3 DEF CopyHeight, CaptureGoes, Frozen, TypeOK, OptionsTyped, uiVars,
        taskVars, flagVars, deviceVars, historyVars
  <2>6. WorkersTyped'
    BY <1>20 DEF CopyHeight, CaptureGoes, Frozen, TypeOK, WorkersTyped, uiVars, taskVars,
        flagVars, deviceVars, historyVars
  <2> QED
    BY <2>4, <2>5, <2>6 DEF TypeOK
<1>21. ASSUME NEW k \in CaptureThread, ClearNewOptions(k) PROVE TypeOK'
  BY <1>21 DEF ClearNewOptions, TypeOK, CallsTyped, OptionsTyped, WorkersTyped,
      CaptureThread, StreamThread, CaptureGoes, Frozen, uiVars, taskVars, flagVars,
      deviceVars, historyVars
<1>22. ASSUME NEW k \in CaptureThread, TickWithoutFrame(k) PROVE TypeOK'
  BY <1>22 DEF TickWithoutFrame, TypeOK, CallsTyped, OptionsTyped, WorkersTyped,
      CaptureThread, StreamThread, CaptureGoes, Frozen, uiVars, taskVars, flagVars,
      optionVars, deviceVars, historyVars
<1>23. ASSUME NEW k \in CaptureThread, Rebuild(k) PROVE TypeOK'
  <2>1. config.window \in Windows \cup {NoWindow}
    BY DEF TypeOK, OptionsTyped
  <2>2. device' \in Source /\ displayIndex' \in Displays
    BY <1>23, <2>1, SourcesAssumption, OpenedIsSource DEF Rebuild, TypeOK, OptionsTyped,
        Reopen, CaptureGoes
  <2>3. current' \in Options
    BY <1>23, <2>1 DEF Rebuild, Reopen, TypeOK, OptionsTyped, Options, CaptureGoes
  <2>4. CallsTyped'
    BY <1>23 DEF Rebuild, CaptureGoes, Frozen, Reopen, TypeOK, CallsTyped, uiVars,
        taskVars, flagVars, historyVars
  <2>5. OptionsTyped'
    BY <1>23, <2>2, <2>3 DEF Rebuild, CaptureGoes, Frozen, Reopen, TypeOK, OptionsTyped,
        uiVars, taskVars, flagVars, historyVars
  <2>6. WorkersTyped'
    BY <1>23 DEF Rebuild, CaptureGoes, Frozen, Reopen, TypeOK, WorkersTyped, uiVars,
        taskVars, flagVars, historyVars
  <2> QED
    BY <2>4, <2>5, <2>6 DEF TypeOK
<1>24. ASSUME NEW k \in CaptureThread, TickTakesFrame(k) PROVE TypeOK'
  BY <1>24 DEF TickTakesFrame, TypeOK, CallsTyped, OptionsTyped, WorkersTyped,
      CaptureThread, StreamThread, CaptureGoes, Frozen, uiVars, taskVars, flagVars,
      optionVars, deviceVars, historyVars
<1>25. ASSUME NEW k \in CaptureThread, PublishFrame(k) PROVE TypeOK'
  BY <1>25 DEF PublishFrame, TypeOK, CallsTyped, OptionsTyped, WorkersTyped,
      CaptureThread, StreamThread, CaptureGoes, Frozen, uiVars, taskVars, flagVars,
      optionVars, deviceVars, historyVars
<1>26. ASSUME NEW k \in CaptureThread, CaptureFails(k) PROVE TypeOK'
  BY <1>26 DEF CaptureFails, TypeOK, CallsTyped, OptionsTyped, WorkersTyped,
      CaptureThread, StreamThread, CaptureGoes, Frozen, uiVars, taskVars, flagVars,
      optionVars, deviceVars, historyVars
<1>27. ASSUME NEW k \in StreamThread, StartAudio(k) PROVE TypeOK'
  BY <1>27 DEF StartAudio, TypeOK, CallsTyped, OptionsTyped, WorkersTyped, CaptureThread,
      StreamThread, StreamGoes, uiVars, taskVars, flagVars, optionVars, deviceVars
<1>28. ASSUME NEW k \in StreamThread, CheckStopStream(k) PROVE TypeOK'
  BY <1>28 DEF CheckStopStream, TypeOK, CallsTyped, OptionsTyped, WorkersTyped,
      CaptureThread, StreamThread, StreamGoes, uiVars, taskVars, flagVars, optionVars,
      deviceVars
<1>29. ASSUME NEW k \in StreamThread, Draw(k) PROVE TypeOK'
  BY <1>29 DEF Draw, TypeOK, CallsTyped, OptionsTyped, WorkersTyped, CaptureThread,
      StreamThread, StreamGoes, uiVars, taskVars, flagVars, optionVars, deviceVars
<1>30. ASSUME NEW k \in StreamThread, StreamFails(k) PROVE TypeOK'
  BY <1>30 DEF StreamFails, TypeOK, CallsTyped, OptionsTyped, WorkersTyped, CaptureThread,
      StreamThread, StreamGoes, uiVars, taskVars, flagVars, optionVars, deviceVars
<1>31. ASSUME NEW k \in StreamThread, CloseSession(k) PROVE TypeOK'
  BY <1>31 DEF CloseSession, TypeOK, CallsTyped, OptionsTyped, WorkersTyped,
      CaptureThread, StreamThread, StreamGoes, uiVars, taskVars, flagVars, optionVars,
      deviceVars
<1>32. ASSUME NEW w \in Windows, WindowCloses(w) PROVE TypeOK'
  BY <1>32 DEF WindowCloses, TypeOK, CallsTyped, OptionsTyped, WorkersTyped,
      CaptureThread, StreamThread, uiVars, taskVars, flagVars, optionVars, deviceVars,
      workerVars
<1>33. CASE UNCHANGED vars
  BY <1>33 DEF vars, TypeOK, CallsTyped, OptionsTyped, WorkersTyped, CaptureThread,
      StreamThread, uiVars, taskVars, flagVars, optionVars, deviceVars, workerVars,
      historyVars
<1> QED
  BY <1>1, <1>2, <1>3, <1>4, <1>5, <1>6, <1>7, <1>8, <1>9, <1>10, <1>11, <1>12, <1>13,
      <1>14, <1>15, <1>16, <1>17, <1>18, <1>19, <1>20, <1>21, <1>22, <1>23, <1>24, <1>25,
      <1>26, <1>27, <1>28, <1>29, <1>30, <1>31, <1>32, <1>33 DEF Next, User, InCall,
      CaptureWorker, StreamWorker

-----------------------------------------------------------------------------
(* Threads, options and device.                                            *)

LEMMA HeldStep ==
  ASSUME TypeOK, Held, [Next]_vars
  PROVE  Held'
<1> USE SourcesAssumption, CropAssumption, BoundsAssumption
<1>1. CASE InitializeFails
  BY <1>1 DEF InitializeFails, TypeOK, CallsTyped, WorkersTyped, Held, EveryThreadOwned,
      Live, CaptureThread, StreamThread, uiVars, taskVars, flagVars, optionVars,
      workerVars, historyVars
<1>2. CASE InitializeOpens
  BY <1>2 DEF InitializeOpens, TypeOK, CallsTyped, WorkersTyped, Held, EveryThreadOwned,
      Live, CaptureThread, StreamThread, Reopen, Opened, None, taskVars, flagVars,
      workerVars, historyVars
<1>3. CASE StartStream
  BY <1>3 DEF StartStream, TypeOK, CallsTyped, WorkersTyped, Held, EveryThreadOwned, Live,
      CaptureThread, StreamThread, optionVars, deviceVars, historyVars
<1>4. CASE StopStream
  BY <1>4 DEF StopStream, TypeOK, CallsTyped, WorkersTyped, Held, EveryThreadOwned, Live,
      CaptureThread, StreamThread, taskVars, optionVars, deviceVars, workerVars,
      historyVars
<1>5. CASE Close
  BY <1>5 DEF Close, TypeOK, CallsTyped, WorkersTyped, Held, EveryThreadOwned, Live,
      CaptureThread, StreamThread, taskVars, optionVars, deviceVars, workerVars,
      historyVars
<1>6. ASSUME NEW w \in Windows \cup {NoWindow}, SetCaptureWindow(w) PROVE Held'
  BY <1>6 DEF SetCaptureWindow, TypeOK, CallsTyped, WorkersTyped, Held, EveryThreadOwned,
      Live, CaptureThread, StreamThread, taskVars, flagVars, deviceVars, workerVars,
      historyVars
<1>7. ASSUME NEW display \in Displays, NEW crop \in Crop, SetSource(display, crop) PROVE Held'
  BY <1>7 DEF SetSource, TypeOK, CallsTyped, WorkersTyped, Held, EveryThreadOwned, Live,
      CaptureThread, StreamThread, taskVars, flagVars, deviceVars, workerVars
<1>8. CASE SpawnCapture
  BY <1>8 DEF SpawnCapture, TypeOK, CallsTyped, WorkersTyped, Held, EveryThreadOwned,
      Live, CaptureThread, StreamThread, optionVars, deviceVars
<1>9. CASE JoinStream
  BY <1>9 DEF JoinStream, TypeOK, CallsTyped, WorkersTyped, Held, EveryThreadOwned, Live,
      CaptureThread, StreamThread, Joinable, flagVars, optionVars, deviceVars, workerVars,
      historyVars
<1>10. CASE StopCapture
  BY <1>10 DEF StopCapture, TypeOK, CallsTyped, WorkersTyped, Held, EveryThreadOwned,
      Live, CaptureThread, StreamThread, taskVars, optionVars, deviceVars, workerVars,
      historyVars
<1>11. CASE JoinCapture
  BY <1>11 DEF JoinCapture, TypeOK, CallsTyped, WorkersTyped, Held, EveryThreadOwned,
      Live, CaptureThread, StreamThread, Joinable, flagVars, optionVars, deviceVars,
      workerVars, historyVars
<1>12. CASE SwapCapture
  BY <1>12 DEF SwapCapture, TypeOK, CallsTyped, WorkersTyped, Held, EveryThreadOwned,
      Live, CaptureThread, StreamThread, Reopen, Opened, None, taskVars, flagVars,
      workerVars, historyVars
<1>13. CASE PublishWidth
  BY <1>13 DEF PublishWidth, TypeOK, CallsTyped, WorkersTyped, Held, EveryThreadOwned,
      Live, CaptureThread, StreamThread, taskVars, flagVars, deviceVars, workerVars,
      historyVars
<1>14. CASE PublishHeight
  BY <1>14 DEF PublishHeight, TypeOK, CallsTyped, WorkersTyped, Held, EveryThreadOwned,
      Live, CaptureThread, StreamThread, taskVars, flagVars, deviceVars, workerVars,
      historyVars
<1>15. CASE RaiseNewOptions
  BY <1>15 DEF RaiseNewOptions, TypeOK, CallsTyped, WorkersTyped, Held, EveryThreadOwned,
      Live, CaptureThread, StreamThread, taskVars, flagVars, deviceVars, workerVars,
      historyVars
<1>16. CASE FreeBuffers
  BY <1>16 DEF FreeBuffers, TypeOK, CallsTyped, WorkersTyped, Held, EveryThreadOwned,
      Live, CaptureThread, StreamThread, flagVars, optionVars, workerVars, historyVars
<1>17. ASSUME NEW k \in CaptureThread, CheckStopCapture(k) PROVE Held'
  BY <1>17 DEF CheckStopCapture, TypeOK, CallsTyped, WorkersTyped, Held, EveryThreadOwned,
      Live, CaptureThread, StreamThread, CaptureGoes, Frozen, uiVars, taskVars, flagVars,
      optionVars, deviceVars, historyVars
<1>18. ASSUME NEW k \in CaptureThread, LookForOptions(k) PROVE Held'
  BY <1>18 DEF LookForOptions, TypeOK, CallsTyped, WorkersTyped, Held, EveryThreadOwned,
      Live, CaptureThread, StreamThread, CaptureGoes, Frozen, uiVars, taskVars, flagVars,
      optionVars, deviceVars, historyVars
<1>19. ASSUME NEW k \in CaptureThread, CopyWidth(k) PROVE Held'
  BY <1>19 DEF CopyWidth, TypeOK, CallsTyped, WorkersTyped, Held, EveryThreadOwned, Live,
      CaptureThread, StreamThread, CaptureGoes, Frozen, uiVars, taskVars, flagVars,
      deviceVars, historyVars
<1>20. ASSUME NEW k \in CaptureThread, CopyHeight(k) PROVE Held'
  BY <1>20 DEF CopyHeight, TypeOK, CallsTyped, WorkersTyped, Held, EveryThreadOwned, Live,
      CaptureThread, StreamThread, CaptureGoes, Frozen, uiVars, taskVars, flagVars,
      deviceVars, historyVars
<1>21. ASSUME NEW k \in CaptureThread, ClearNewOptions(k) PROVE Held'
  BY <1>21 DEF ClearNewOptions, TypeOK, CallsTyped, WorkersTyped, Held, EveryThreadOwned,
      Live, CaptureThread, StreamThread, CaptureGoes, Frozen, uiVars, taskVars, flagVars,
      deviceVars, historyVars
<1>22. ASSUME NEW k \in CaptureThread, TickWithoutFrame(k) PROVE Held'
  BY <1>22 DEF TickWithoutFrame, TypeOK, CallsTyped, WorkersTyped, Held, EveryThreadOwned,
      Live, CaptureThread, StreamThread, CaptureGoes, Frozen, uiVars, taskVars, flagVars,
      optionVars, deviceVars, historyVars
<1>23. ASSUME NEW k \in CaptureThread, Rebuild(k) PROVE Held'
  BY <1>23 DEF Rebuild, TypeOK, CallsTyped, WorkersTyped, Held, EveryThreadOwned, Live,
      CaptureThread, StreamThread, CaptureGoes, Frozen, Reopen, Opened, None, uiVars,
      taskVars, flagVars, historyVars
<1>24. ASSUME NEW k \in CaptureThread, TickTakesFrame(k) PROVE Held'
  BY <1>24 DEF TickTakesFrame, TypeOK, CallsTyped, WorkersTyped, Held, EveryThreadOwned,
      Live, CaptureThread, StreamThread, CaptureGoes, Frozen, uiVars, taskVars, flagVars,
      optionVars, deviceVars, historyVars
<1>25. ASSUME NEW k \in CaptureThread, PublishFrame(k) PROVE Held'
  BY <1>25 DEF PublishFrame, TypeOK, CallsTyped, WorkersTyped, Held, EveryThreadOwned,
      Live, CaptureThread, StreamThread, CaptureGoes, Frozen, uiVars, taskVars, flagVars,
      optionVars, deviceVars, historyVars
<1>26. ASSUME NEW k \in CaptureThread, CaptureFails(k) PROVE Held'
  BY <1>26 DEF CaptureFails, TypeOK, CallsTyped, WorkersTyped, Held, EveryThreadOwned,
      Live, CaptureThread, StreamThread, CaptureGoes, Frozen, uiVars, taskVars, flagVars,
      optionVars, deviceVars, historyVars
<1>27. ASSUME NEW k \in StreamThread, StartAudio(k) PROVE Held'
  BY <1>27 DEF StartAudio, TypeOK, CallsTyped, WorkersTyped, Held, EveryThreadOwned, Live,
      CaptureThread, StreamThread, StreamGoes, uiVars, taskVars, flagVars, optionVars,
      deviceVars
<1>28. ASSUME NEW k \in StreamThread, CheckStopStream(k) PROVE Held'
  BY <1>28 DEF CheckStopStream, TypeOK, CallsTyped, WorkersTyped, Held, EveryThreadOwned,
      Live, CaptureThread, StreamThread, StreamGoes, uiVars, taskVars, flagVars,
      optionVars, deviceVars
<1>29. ASSUME NEW k \in StreamThread, Draw(k) PROVE Held'
  BY <1>29 DEF Draw, TypeOK, CallsTyped, WorkersTyped, Held, EveryThreadOwned, Live,
      CaptureThread, StreamThread, StreamGoes, uiVars, taskVars, flagVars, optionVars,
      deviceVars
<1>30. ASSUME NEW k \in StreamThread, StreamFails(k) PROVE Held'
  BY <1>30 DEF StreamFails, TypeOK, CallsTyped, WorkersTyped, Held, EveryThreadOwned,
      Live, CaptureThread, StreamThread, StreamGoes, uiVars, taskVars, flagVars,
      optionVars, deviceVars
<1>31. ASSUME NEW k \in StreamThread, CloseSession(k) PROVE Held'
  BY <1>31 DEF CloseSession, TypeOK, CallsTyped, WorkersTyped, Held, EveryThreadOwned,
      Live, CaptureThread, StreamThread, StreamGoes, uiVars, taskVars, flagVars,
      optionVars, deviceVars
<1>32. ASSUME NEW w \in Windows, WindowCloses(w) PROVE Held'
  BY <1>32 DEF WindowCloses, TypeOK, CallsTyped, WorkersTyped, Held, EveryThreadOwned,
      Live, CaptureThread, StreamThread, uiVars, taskVars, flagVars, optionVars,
      deviceVars, workerVars
<1>33. CASE UNCHANGED vars
  BY <1>33 DEF vars, TypeOK, CallsTyped, WorkersTyped, Held, EveryThreadOwned, Live,
      CaptureThread, StreamThread, uiVars, taskVars, flagVars, optionVars, deviceVars,
      workerVars, historyVars
<1> QED
  BY <1>1, <1>2, <1>3, <1>4, <1>5, <1>6, <1>7, <1>8, <1>9, <1>10, <1>11, <1>12, <1>13,
      <1>14, <1>15, <1>16, <1>17, <1>18, <1>19, <1>20, <1>21, <1>22, <1>23, <1>24, <1>25,
      <1>26, <1>27, <1>28, <1>29, <1>30, <1>31, <1>32, <1>33 DEF Next, User, InCall,
      CaptureWorker, StreamWorker

LEMMA HandedStep ==
  ASSUME TypeOK, Held, Handed, [Next]_vars
  PROVE  Handed'
<1> USE SourcesAssumption, CropAssumption, BoundsAssumption
<1>1. CASE InitializeFails
  BY <1>1 DEF InitializeFails, TypeOK, CallsTyped, OptionsTyped, WorkersTyped, Held,
      EveryThreadOwned, Live, Handed, Took, Chosen, CaptureThread, Options, TornCrop,
      Crop, uiVars, taskVars, flagVars, optionVars, workerVars, historyVars
<1>2. CASE InitializeOpens
  BY <1>2 DEF InitializeOpens, TypeOK, CallsTyped, OptionsTyped, WorkersTyped, Held,
      EveryThreadOwned, Live, Handed, Took, Chosen, CaptureThread, Options, TornCrop,
      Crop, Reopen, Opened, None, taskVars, flagVars, workerVars, historyVars
<1>3. CASE StartStream
  BY <1>3 DEF StartStream, TypeOK, CallsTyped, OptionsTyped, WorkersTyped, Held,
      EveryThreadOwned, Live, Handed, Took, Chosen, CaptureThread, Options, TornCrop,
      Crop, optionVars, deviceVars, historyVars
<1>4. CASE StopStream
  BY <1>4 DEF StopStream, TypeOK, CallsTyped, OptionsTyped, WorkersTyped, Held,
      EveryThreadOwned, Live, Handed, Took, Chosen, CaptureThread, Options, TornCrop,
      Crop, taskVars, optionVars, deviceVars, workerVars, historyVars
<1>5. CASE Close
  BY <1>5 DEF Close, TypeOK, CallsTyped, OptionsTyped, WorkersTyped, Held,
      EveryThreadOwned, Live, Handed, Took, Chosen, CaptureThread, Options, TornCrop,
      Crop, taskVars, optionVars, deviceVars, workerVars, historyVars
<1>6. ASSUME NEW w \in Windows \cup {NoWindow}, SetCaptureWindow(w) PROVE Handed'
  BY <1>6 DEF SetCaptureWindow, TypeOK, CallsTyped, OptionsTyped, WorkersTyped, Held,
      EveryThreadOwned, Live, Handed, Took, Chosen, CaptureThread, Options, TornCrop,
      Crop, taskVars, flagVars, deviceVars, workerVars, historyVars
<1>7. ASSUME NEW display \in Displays, NEW crop \in Crop, SetSource(display, crop) PROVE Handed'
  BY <1>7 DEF SetSource, TypeOK, CallsTyped, OptionsTyped, WorkersTyped, Held,
      EveryThreadOwned, Live, Handed, Took, Chosen, CaptureThread, Options, TornCrop,
      Crop, taskVars, flagVars, deviceVars, workerVars
<1>8. CASE SpawnCapture
  BY <1>8 DEF SpawnCapture, TypeOK, CallsTyped, OptionsTyped, WorkersTyped, Held,
      EveryThreadOwned, Live, Handed, Took, Chosen, CaptureThread, Options, TornCrop,
      Crop, optionVars, deviceVars
<1>9. CASE JoinStream
  BY <1>9 DEF JoinStream, TypeOK, CallsTyped, OptionsTyped, WorkersTyped, Held,
      EveryThreadOwned, Live, Handed, Took, Chosen, CaptureThread, Options, TornCrop,
      Crop, Joinable, flagVars, optionVars, deviceVars, workerVars, historyVars
<1>10. CASE StopCapture
  BY <1>10 DEF StopCapture, TypeOK, CallsTyped, OptionsTyped, WorkersTyped, Held,
      EveryThreadOwned, Live, Handed, Took, Chosen, CaptureThread, Options, TornCrop,
      Crop, taskVars, optionVars, deviceVars, workerVars, historyVars
<1>11. CASE JoinCapture
  BY <1>11 DEF JoinCapture, TypeOK, CallsTyped, OptionsTyped, WorkersTyped, Held,
      EveryThreadOwned, Live, Handed, Took, Chosen, CaptureThread, Options, TornCrop,
      Crop, Joinable, flagVars, optionVars, deviceVars, workerVars, historyVars
<1>12. CASE SwapCapture
  BY <1>12 DEF SwapCapture, TypeOK, CallsTyped, OptionsTyped, WorkersTyped, Held,
      EveryThreadOwned, Live, Handed, Took, Chosen, CaptureThread, Options, TornCrop,
      Crop, Reopen, Opened, None, taskVars, flagVars, workerVars, historyVars
<1>13. CASE PublishWidth
  BY <1>13 DEF PublishWidth, TypeOK, CallsTyped, OptionsTyped, WorkersTyped, Held,
      EveryThreadOwned, Live, Handed, Took, Chosen, CaptureThread, Options, TornCrop,
      Crop, taskVars, flagVars, deviceVars, workerVars, historyVars
<1>14. CASE PublishHeight
  BY <1>14 DEF PublishHeight, TypeOK, CallsTyped, OptionsTyped, WorkersTyped, Held,
      EveryThreadOwned, Live, Handed, Took, Chosen, CaptureThread, Options, TornCrop,
      Crop, taskVars, flagVars, deviceVars, workerVars, historyVars
<1>15. CASE RaiseNewOptions
  BY <1>15 DEF RaiseNewOptions, TypeOK, CallsTyped, OptionsTyped, WorkersTyped, Held,
      EveryThreadOwned, Live, Handed, Took, Chosen, CaptureThread, Options, TornCrop,
      Crop, taskVars, flagVars, deviceVars, workerVars, historyVars
<1>16. CASE FreeBuffers
  BY <1>16 DEF FreeBuffers, TypeOK, CallsTyped, OptionsTyped, WorkersTyped, Held,
      EveryThreadOwned, Live, Handed, Took, Chosen, CaptureThread, Options, TornCrop,
      Crop, flagVars, optionVars, workerVars, historyVars
<1>17. ASSUME NEW k \in CaptureThread, CheckStopCapture(k) PROVE Handed'
  BY <1>17 DEF CheckStopCapture, TypeOK, CallsTyped, OptionsTyped, WorkersTyped, Held,
      EveryThreadOwned, Live, Handed, Took, Chosen, CaptureThread, Options, TornCrop,
      Crop, CaptureGoes, Frozen, uiVars, taskVars, flagVars, optionVars, deviceVars,
      historyVars
<1>18. ASSUME NEW k \in CaptureThread, LookForOptions(k) PROVE Handed'
  BY <1>18 DEF LookForOptions, TypeOK, CallsTyped, OptionsTyped, WorkersTyped, Held,
      EveryThreadOwned, Live, Handed, Took, Chosen, CaptureThread, Options, TornCrop,
      Crop, CaptureGoes, Frozen, uiVars, taskVars, flagVars, optionVars, deviceVars,
      historyVars
<1>19. ASSUME NEW k \in CaptureThread, CopyWidth(k) PROVE Handed'
  BY <1>19 DEF CopyWidth, TypeOK, CallsTyped, OptionsTyped, WorkersTyped, Held,
      EveryThreadOwned, Live, Handed, Took, Chosen, CaptureThread, Options, TornCrop,
      Crop, CaptureGoes, Frozen, uiVars, taskVars, flagVars, deviceVars, historyVars
<1>20. ASSUME NEW k \in CaptureThread, CopyHeight(k) PROVE Handed'
  BY <1>20 DEF CopyHeight, TypeOK, CallsTyped, OptionsTyped, WorkersTyped, Held,
      EveryThreadOwned, Live, Handed, Took, Chosen, CaptureThread, Options, TornCrop,
      Crop, CaptureGoes, Frozen, uiVars, taskVars, flagVars, deviceVars, historyVars
<1>21. ASSUME NEW k \in CaptureThread, ClearNewOptions(k) PROVE Handed'
  BY <1>21 DEF ClearNewOptions, TypeOK, CallsTyped, OptionsTyped, WorkersTyped, Held,
      EveryThreadOwned, Live, Handed, Took, Chosen, CaptureThread, Options, TornCrop,
      Crop, CaptureGoes, Frozen, uiVars, taskVars, flagVars, deviceVars, historyVars
<1>22. ASSUME NEW k \in CaptureThread, TickWithoutFrame(k) PROVE Handed'
  BY <1>22 DEF TickWithoutFrame, TypeOK, CallsTyped, OptionsTyped, WorkersTyped, Held,
      EveryThreadOwned, Live, Handed, Took, Chosen, CaptureThread, Options, TornCrop,
      Crop, CaptureGoes, Frozen, uiVars, taskVars, flagVars, optionVars, deviceVars,
      historyVars
<1>23. ASSUME NEW k \in CaptureThread, Rebuild(k) PROVE Handed'
  BY <1>23 DEF Rebuild, TypeOK, CallsTyped, OptionsTyped, WorkersTyped, Held,
      EveryThreadOwned, Live, Handed, Took, Chosen, CaptureThread, Options, TornCrop,
      Crop, CaptureGoes, Frozen, Reopen, Opened, None, uiVars, taskVars, flagVars,
      historyVars
<1>24. ASSUME NEW k \in CaptureThread, TickTakesFrame(k) PROVE Handed'
  BY <1>24 DEF TickTakesFrame, TypeOK, CallsTyped, OptionsTyped, WorkersTyped, Held,
      EveryThreadOwned, Live, Handed, Took, Chosen, CaptureThread, Options, TornCrop,
      Crop, CaptureGoes, Frozen, uiVars, taskVars, flagVars, optionVars, deviceVars,
      historyVars
<1>25. ASSUME NEW k \in CaptureThread, PublishFrame(k) PROVE Handed'
  BY <1>25 DEF PublishFrame, TypeOK, CallsTyped, OptionsTyped, WorkersTyped, Held,
      EveryThreadOwned, Live, Handed, Took, Chosen, CaptureThread, Options, TornCrop,
      Crop, CaptureGoes, Frozen, uiVars, taskVars, flagVars, optionVars, deviceVars,
      historyVars
<1>26. ASSUME NEW k \in CaptureThread, CaptureFails(k) PROVE Handed'
  BY <1>26 DEF CaptureFails, TypeOK, CallsTyped, OptionsTyped, WorkersTyped, Held,
      EveryThreadOwned, Live, Handed, Took, Chosen, CaptureThread, Options, TornCrop,
      Crop, CaptureGoes, Frozen, uiVars, taskVars, flagVars, optionVars, deviceVars,
      historyVars
<1>27. ASSUME NEW k \in StreamThread, StartAudio(k) PROVE Handed'
  BY <1>27 DEF StartAudio, TypeOK, CallsTyped, OptionsTyped, WorkersTyped, Held,
      EveryThreadOwned, Live, Handed, Took, Chosen, CaptureThread, Options, TornCrop,
      Crop, StreamGoes, uiVars, taskVars, flagVars, optionVars, deviceVars
<1>28. ASSUME NEW k \in StreamThread, CheckStopStream(k) PROVE Handed'
  BY <1>28 DEF CheckStopStream, TypeOK, CallsTyped, OptionsTyped, WorkersTyped, Held,
      EveryThreadOwned, Live, Handed, Took, Chosen, CaptureThread, Options, TornCrop,
      Crop, StreamGoes, uiVars, taskVars, flagVars, optionVars, deviceVars
<1>29. ASSUME NEW k \in StreamThread, Draw(k) PROVE Handed'
  BY <1>29 DEF Draw, TypeOK, CallsTyped, OptionsTyped, WorkersTyped, Held,
      EveryThreadOwned, Live, Handed, Took, Chosen, CaptureThread, Options, TornCrop,
      Crop, StreamGoes, uiVars, taskVars, flagVars, optionVars, deviceVars
<1>30. ASSUME NEW k \in StreamThread, StreamFails(k) PROVE Handed'
  BY <1>30 DEF StreamFails, TypeOK, CallsTyped, OptionsTyped, WorkersTyped, Held,
      EveryThreadOwned, Live, Handed, Took, Chosen, CaptureThread, Options, TornCrop,
      Crop, StreamGoes, uiVars, taskVars, flagVars, optionVars, deviceVars
<1>31. ASSUME NEW k \in StreamThread, CloseSession(k) PROVE Handed'
  BY <1>31 DEF CloseSession, TypeOK, CallsTyped, OptionsTyped, WorkersTyped, Held,
      EveryThreadOwned, Live, Handed, Took, Chosen, CaptureThread, Options, TornCrop,
      Crop, StreamGoes, uiVars, taskVars, flagVars, optionVars, deviceVars
<1>32. ASSUME NEW w \in Windows, WindowCloses(w) PROVE Handed'
  BY <1>32 DEF WindowCloses, TypeOK, CallsTyped, OptionsTyped, WorkersTyped, Held,
      EveryThreadOwned, Live, Handed, Took, Chosen, CaptureThread, Options, TornCrop,
      Crop, uiVars, taskVars, flagVars, optionVars, deviceVars, workerVars
<1>33. CASE UNCHANGED vars
  BY <1>33 DEF vars, TypeOK, CallsTyped, OptionsTyped, WorkersTyped, Held,
      EveryThreadOwned, Live, Handed, Took, Chosen, CaptureThread, Options, TornCrop,
      Crop, uiVars, taskVars, flagVars, optionVars, deviceVars, workerVars, historyVars
<1> QED
  BY <1>1, <1>2, <1>3, <1>4, <1>5, <1>6, <1>7, <1>8, <1>9, <1>10, <1>11, <1>12, <1>13,
      <1>14, <1>15, <1>16, <1>17, <1>18, <1>19, <1>20, <1>21, <1>22, <1>23, <1>24, <1>25,
      <1>26, <1>27, <1>28, <1>29, <1>30, <1>31, <1>32, <1>33 DEF Next, User, InCall,
      CaptureWorker, StreamWorker

LEMMA SourcedStep ==
  ASSUME TypeOK, Held, Sourced, [Next]_vars
  PROVE  Sourced'
<1> USE SourcesAssumption, CropAssumption, BoundsAssumption
<1>1. CASE InitializeFails
  BY <1>1 DEF InitializeFails, TypeOK, CallsTyped, OptionsTyped, WorkersTyped, Held,
      EveryThreadOwned, Live, Sourced, Selected, Replacing, CaptureThread, uiVars,
      taskVars, flagVars, optionVars, workerVars, historyVars
<1>2. CASE InitializeOpens
  BY <1>2 DEF InitializeOpens, TypeOK, CallsTyped, OptionsTyped, WorkersTyped, Held,
      EveryThreadOwned, Live, Sourced, Selected, Replacing, CaptureThread, Reopen, Opened,
      None, taskVars, flagVars, workerVars, historyVars
<1>3. CASE StartStream
  BY <1>3 DEF StartStream, TypeOK, CallsTyped, OptionsTyped, WorkersTyped, Held,
      EveryThreadOwned, Live, Sourced, Selected, Replacing, CaptureThread, optionVars,
      deviceVars, historyVars
<1>4. CASE StopStream
  BY <1>4 DEF StopStream, TypeOK, CallsTyped, OptionsTyped, WorkersTyped, Held,
      EveryThreadOwned, Live, Sourced, Selected, Replacing, CaptureThread, taskVars,
      optionVars, deviceVars, workerVars, historyVars
<1>5. CASE Close
  BY <1>5 DEF Close, TypeOK, CallsTyped, OptionsTyped, WorkersTyped, Held,
      EveryThreadOwned, Live, Sourced, Selected, Replacing, CaptureThread, taskVars,
      optionVars, deviceVars, workerVars, historyVars
<1>6. ASSUME NEW w \in Windows \cup {NoWindow}, SetCaptureWindow(w) PROVE Sourced'
  BY <1>6 DEF SetCaptureWindow, TypeOK, CallsTyped, OptionsTyped, WorkersTyped, Held,
      EveryThreadOwned, Live, Sourced, Selected, Replacing, CaptureThread, taskVars,
      flagVars, deviceVars, workerVars, historyVars
<1>7. ASSUME NEW display \in Displays, NEW crop \in Crop, SetSource(display, crop) PROVE Sourced'
  BY <1>7 DEF SetSource, TypeOK, CallsTyped, OptionsTyped, WorkersTyped, Held,
      EveryThreadOwned, Live, Sourced, Selected, Replacing, CaptureThread, taskVars,
      flagVars, deviceVars, workerVars
<1>8. CASE SpawnCapture
  BY <1>8 DEF SpawnCapture, TypeOK, CallsTyped, OptionsTyped, WorkersTyped, Held,
      EveryThreadOwned, Live, Sourced, Selected, Replacing, CaptureThread, optionVars,
      deviceVars
<1>9. CASE JoinStream
  BY <1>9 DEF JoinStream, TypeOK, CallsTyped, OptionsTyped, WorkersTyped, Held,
      EveryThreadOwned, Live, Sourced, Selected, Replacing, CaptureThread, Joinable,
      flagVars, optionVars, deviceVars, workerVars, historyVars
<1>10. CASE StopCapture
  BY <1>10 DEF StopCapture, TypeOK, CallsTyped, OptionsTyped, WorkersTyped, Held,
      EveryThreadOwned, Live, Sourced, Selected, Replacing, CaptureThread, taskVars,
      optionVars, deviceVars, workerVars, historyVars
<1>11. CASE JoinCapture
  BY <1>11 DEF JoinCapture, TypeOK, CallsTyped, OptionsTyped, WorkersTyped, Held,
      EveryThreadOwned, Live, Sourced, Selected, Replacing, CaptureThread, Joinable,
      flagVars, optionVars, deviceVars, workerVars, historyVars
<1>12. CASE SwapCapture
  BY <1>12 DEF SwapCapture, TypeOK, CallsTyped, OptionsTyped, WorkersTyped, Held,
      EveryThreadOwned, Live, Sourced, Selected, Replacing, CaptureThread, Reopen, Opened,
      None, taskVars, flagVars, workerVars, historyVars
<1>13. CASE PublishWidth
  BY <1>13 DEF PublishWidth, TypeOK, CallsTyped, OptionsTyped, WorkersTyped, Held,
      EveryThreadOwned, Live, Sourced, Selected, Replacing, CaptureThread, taskVars,
      flagVars, deviceVars, workerVars, historyVars
<1>14. CASE PublishHeight
  BY <1>14 DEF PublishHeight, TypeOK, CallsTyped, OptionsTyped, WorkersTyped, Held,
      EveryThreadOwned, Live, Sourced, Selected, Replacing, CaptureThread, taskVars,
      flagVars, deviceVars, workerVars, historyVars
<1>15. CASE RaiseNewOptions
  BY <1>15 DEF RaiseNewOptions, TypeOK, CallsTyped, OptionsTyped, WorkersTyped, Held,
      EveryThreadOwned, Live, Sourced, Selected, Replacing, CaptureThread, taskVars,
      flagVars, deviceVars, workerVars, historyVars
<1>16. CASE FreeBuffers
  BY <1>16 DEF FreeBuffers, TypeOK, CallsTyped, OptionsTyped, WorkersTyped, Held,
      EveryThreadOwned, Live, Sourced, Selected, Replacing, CaptureThread, flagVars,
      optionVars, workerVars, historyVars
<1>17. ASSUME NEW k \in CaptureThread, CheckStopCapture(k) PROVE Sourced'
  BY <1>17 DEF CheckStopCapture, TypeOK, CallsTyped, OptionsTyped, WorkersTyped, Held,
      EveryThreadOwned, Live, Sourced, Selected, Replacing, CaptureThread, CaptureGoes,
      Frozen, uiVars, taskVars, flagVars, optionVars, deviceVars, historyVars
<1>18. ASSUME NEW k \in CaptureThread, LookForOptions(k) PROVE Sourced'
  BY <1>18 DEF LookForOptions, TypeOK, CallsTyped, OptionsTyped, WorkersTyped, Held,
      EveryThreadOwned, Live, Sourced, Selected, Replacing, CaptureThread, CaptureGoes,
      Frozen, uiVars, taskVars, flagVars, optionVars, deviceVars, historyVars
<1>19. ASSUME NEW k \in CaptureThread, CopyWidth(k) PROVE Sourced'
  BY <1>19 DEF CopyWidth, TypeOK, CallsTyped, OptionsTyped, WorkersTyped, Held,
      EveryThreadOwned, Live, Sourced, Selected, Replacing, CaptureThread, CaptureGoes,
      Frozen, uiVars, taskVars, flagVars, deviceVars, historyVars
<1>20. ASSUME NEW k \in CaptureThread, CopyHeight(k) PROVE Sourced'
  BY <1>20 DEF CopyHeight, TypeOK, CallsTyped, OptionsTyped, WorkersTyped, Held,
      EveryThreadOwned, Live, Sourced, Selected, Replacing, CaptureThread, CaptureGoes,
      Frozen, uiVars, taskVars, flagVars, deviceVars, historyVars
<1>21. ASSUME NEW k \in CaptureThread, ClearNewOptions(k) PROVE Sourced'
  BY <1>21 DEF ClearNewOptions, TypeOK, CallsTyped, OptionsTyped, WorkersTyped, Held,
      EveryThreadOwned, Live, Sourced, Selected, Replacing, CaptureThread, CaptureGoes,
      Frozen, uiVars, taskVars, flagVars, deviceVars, historyVars
<1>22. ASSUME NEW k \in CaptureThread, TickWithoutFrame(k) PROVE Sourced'
  BY <1>22 DEF TickWithoutFrame, TypeOK, CallsTyped, OptionsTyped, WorkersTyped, Held,
      EveryThreadOwned, Live, Sourced, Selected, Replacing, CaptureThread, CaptureGoes,
      Frozen, uiVars, taskVars, flagVars, optionVars, deviceVars, historyVars
<1>23. ASSUME NEW k \in CaptureThread, Rebuild(k) PROVE Sourced'
  BY <1>23 DEF Rebuild, TypeOK, CallsTyped, OptionsTyped, WorkersTyped, Held,
      EveryThreadOwned, Live, Sourced, Selected, Replacing, CaptureThread, CaptureGoes,
      Frozen, Reopen, Opened, None, uiVars, taskVars, flagVars, historyVars
<1>24. ASSUME NEW k \in CaptureThread, TickTakesFrame(k) PROVE Sourced'
  BY <1>24 DEF TickTakesFrame, DeviceMissing, None, TypeOK, OptionsTyped, Held, Sourced,
      Selected, Replacing, CaptureThread, CaptureGoes, Frozen, uiVars, taskVars,
      optionVars, deviceVars, WorkersTyped
<1>25. ASSUME NEW k \in CaptureThread, PublishFrame(k) PROVE Sourced'
  BY <1>25 DEF PublishFrame, TypeOK, CallsTyped, OptionsTyped, WorkersTyped, Held,
      EveryThreadOwned, Live, Sourced, Selected, Replacing, CaptureThread, CaptureGoes,
      Frozen, uiVars, taskVars, flagVars, optionVars, deviceVars, historyVars
<1>26. ASSUME NEW k \in CaptureThread, CaptureFails(k) PROVE Sourced'
  BY <1>26 DEF CaptureFails, TypeOK, CallsTyped, OptionsTyped, WorkersTyped, Held,
      EveryThreadOwned, Live, Sourced, Selected, Replacing, CaptureThread, CaptureGoes,
      Frozen, uiVars, taskVars, flagVars, optionVars, deviceVars, historyVars
<1>27. ASSUME NEW k \in StreamThread, StartAudio(k) PROVE Sourced'
  BY <1>27 DEF StartAudio, TypeOK, CallsTyped, OptionsTyped, WorkersTyped, Held,
      EveryThreadOwned, Live, Sourced, Selected, Replacing, CaptureThread, StreamGoes,
      uiVars, taskVars, flagVars, optionVars, deviceVars
<1>28. ASSUME NEW k \in StreamThread, CheckStopStream(k) PROVE Sourced'
  BY <1>28 DEF CheckStopStream, TypeOK, CallsTyped, OptionsTyped, WorkersTyped, Held,
      EveryThreadOwned, Live, Sourced, Selected, Replacing, CaptureThread, StreamGoes,
      uiVars, taskVars, flagVars, optionVars, deviceVars
<1>29. ASSUME NEW k \in StreamThread, Draw(k) PROVE Sourced'
  BY <1>29 DEF Draw, TypeOK, CallsTyped, OptionsTyped, WorkersTyped, Held,
      EveryThreadOwned, Live, Sourced, Selected, Replacing, CaptureThread, StreamGoes,
      uiVars, taskVars, flagVars, optionVars, deviceVars
<1>30. ASSUME NEW k \in StreamThread, StreamFails(k) PROVE Sourced'
  BY <1>30 DEF StreamFails, TypeOK, CallsTyped, OptionsTyped, WorkersTyped, Held,
      EveryThreadOwned, Live, Sourced, Selected, Replacing, CaptureThread, StreamGoes,
      uiVars, taskVars, flagVars, optionVars, deviceVars
<1>31. ASSUME NEW k \in StreamThread, CloseSession(k) PROVE Sourced'
  BY <1>31 DEF CloseSession, TypeOK, CallsTyped, OptionsTyped, WorkersTyped, Held,
      EveryThreadOwned, Live, Sourced, Selected, Replacing, CaptureThread, StreamGoes,
      uiVars, taskVars, flagVars, optionVars, deviceVars
<1>32. ASSUME NEW w \in Windows, WindowCloses(w) PROVE Sourced'
  BY <1>32 DEF WindowCloses, TypeOK, CallsTyped, OptionsTyped, WorkersTyped, Held,
      EveryThreadOwned, Live, Sourced, Selected, Replacing, CaptureThread, uiVars,
      taskVars, flagVars, optionVars, deviceVars, workerVars
<1>33. CASE UNCHANGED vars
  BY <1>33 DEF vars, TypeOK, CallsTyped, OptionsTyped, WorkersTyped, Held,
      EveryThreadOwned, Live, Sourced, Selected, Replacing, CaptureThread, uiVars,
      taskVars, flagVars, optionVars, deviceVars, workerVars, historyVars
<1> QED
  BY <1>1, <1>2, <1>3, <1>4, <1>5, <1>6, <1>7, <1>8, <1>9, <1>10, <1>11, <1>12, <1>13,
      <1>14, <1>15, <1>16, <1>17, <1>18, <1>19, <1>20, <1>21, <1>22, <1>23, <1>24, <1>25,
      <1>26, <1>27, <1>28, <1>29, <1>30, <1>31, <1>32, <1>33 DEF Next, User, InCall,
      CaptureWorker, StreamWorker

-----------------------------------------------------------------------------
(* The theorems.                                                           *)

LEMMA LifecycleStarts ==
  ASSUME Init
  PROVE  LifecycleInv
<1> USE SourcesAssumption, CropAssumption, BoundsAssumption
<1>1. NoCrop \in Crop
  BY DEF NoCrop, Crop
<1>2. CallsTyped
  <2>1. /\ captureTask \in 0 .. MaxCaptures /\ castTask \in 0 .. MaxSessions
        /\ captures \in 0 .. MaxCaptures /\ sessions \in 0 .. MaxSessions
    BY DEF Init
  <2> QED
    BY <2>1, Zenon DEF Init, CallsTyped
<1>3. OptionsTyped
  <2>1. device \in Source
    BY OpenedIsSource DEF Init
  <2>2. Crop \subseteq TornCrop
    BY DEF Crop, TornCrop
  <2>3. [window |-> NoWindow, crop |-> NoCrop] \in Options
    BY <1>1, <2>2 DEF Options
  <2> QED
    BY <1>1, <2>1, <2>3 DEF Init, OptionsTyped
<1>4. WorkersTyped
  <2>1. drawnBy \in 0 .. MaxSessions
    BY DEF Init
  <2> QED
    BY <2>1, Zenon DEF Init, WorkersTyped
<1>5. Held
  BY DEF Init, Held, EveryThreadOwned, Live
<1>6. Handed
  BY DEF Init, Handed
<1>7. Sourced
  BY DEF Init, Sourced, Selected, Replacing, None
<1> QED
  BY <1>2, <1>3, <1>4, <1>5, <1>6, <1>7 DEF LifecycleInv, TypeOK

\* What every call and every step of a worker keeps: who holds which thread, how far a
\* worker has come in taking the options published last, and what the device is open on
\* (Initialize to SetCaptureWindow, capture_screen, cast_screen).
THEOREM LifecycleInvariant == Spec => []LifecycleInv
<1>1. LifecycleInv /\ [Next]_vars => LifecycleInv'
  BY TypeStep, HeldStep, HandedStep, SourcedStep DEF LifecycleInv
<1> QED
  BY LifecycleStarts, <1>1, PTL DEF Spec

\* The library keeps its types.
THEOREM LifecycleTypeCorrect == Spec => []TypeOK
<1>1. LifecycleInv => TypeOK
  BY DEF LifecycleInv
<1> QED
  BY LifecycleInvariant, <1>1, PTL

\* However calls and workers interleave, a worker that runs is held by its pointer until it
\* is joined, and the buffers are there as long as one runs (MiSTerCastLib.cpp:141-149,
\* 206, 217-221, 231, 375).
THEOREM WorkersAreHeld == Spec => []WorkersHeld
<1>1. LifecycleInv => WorkersHeld
  BY SourcesAssumption, BoundsAssumption
     DEF LifecycleInv, TypeOK, CallsTyped, Held, WorkersHeld, EveryThreadOwned,
         BuffersOutliveWorkers, Live, CaptureThread, StreamThread
<1> QED
  BY LifecycleInvariant, <1>1, PTL

\* While a call swaps or frees the capture device no capture worker runs, and there are never
\* two of them (MiSTerCastLib.cpp:366).
THEOREM CaptureIsExclusive == Spec => []CaptureExclusive
<1>1. ASSUME LifecycleInv
      PROVE  CaptureExclusive
  <2> DEFINE alive == {k \in CaptureThread : Live(capture[k])}
  <2>1. alive \subseteq {captureTask}
    BY <1>1 DEF LifecycleInv, Held, EveryThreadOwned
  <2>2. Cardinality(alive) <= 1
    <3>1. IsFiniteSet({captureTask}) /\ Cardinality({captureTask}) = 1
      BY FS_Singleton
    <3>2. Cardinality(alive) <= Cardinality({captureTask})
      BY <2>1, <3>1, FS_Subset
    <3> QED
      BY <3>1, <3>2
  <2>3. ui \in {"swap", "spawn", "free"} => \A k \in CaptureThread : ~Live(capture[k])
    BY <1>1, BoundsAssumption
       DEF LifecycleInv, Held, EveryThreadOwned, CaptureThread
  <2> QED
    BY <2>2, <2>3 DEF CaptureExclusive
<1> QED
  BY LifecycleInvariant, <1>1, PTL

\* A worker started by a restart looks at no frame before it has the options of that restart,
\* whatever its predecessor had taken or left (MiSTerCastLib.cpp:366-376,
\* VideoCapture.h:378-384).
THEOREM RestartHandsItsOptionsOver == Spec => []RestartHandsOver
<1>1. LifecycleInv => RestartHandsOver
  BY DEF LifecycleInv, Handed, Took, Chosen, Live, RestartHandsOver
<1> QED
  BY LifecycleInvariant, <1>1, PTL

\* No frame of the source before reaches the stream once a call has selected another one
\* (MiSTerCastLib.cpp:372, VideoCapture.h:246-247, 386-395).
THEOREM FramesComeFromSelected == Spec => []FrameFromSelectedSource
<1>1. LifecycleInv => FrameFromSelectedSource
  BY DEF LifecycleInv, Sourced, Selected, Replacing, FrameFromSelectedSource
<1> QED
  BY LifecycleInvariant, <1>1, PTL

-----------------------------------------------------------------------------
(* The calls implement the service, step by step.                          *)

LEMMA ServiceStep ==
  ASSUME TypeOK, Held, [Next]_vars
  PROVE  [Service!Next]_Service!vars
<1> USE SourcesAssumption, CropAssumption, BoundsAssumption
<1>1. CASE InitializeFails
  BY <1>1 DEF InitializeFails, CallsTyped, Held, EveryThreadOwned, Live, CaptureThread,
      StreamThread, phase, Service!Next, Service!Start, Service!Draw, Service!AskToStop,
      Service!Stopped, Service!vars, TypeOK, uiVars, taskVars, flagVars, optionVars,
      deviceVars, workerVars, historyVars
<1>2. CASE InitializeOpens
  BY <1>2 DEF InitializeOpens, CallsTyped, Held, EveryThreadOwned, Live, CaptureThread,
      StreamThread, phase, Service!Next, Service!Start, Service!Draw, Service!AskToStop,
      Service!Stopped, Service!vars, TypeOK, Reopen, Opened, None, uiVars, taskVars,
      flagVars, optionVars, deviceVars, workerVars, historyVars
<1>3. CASE StartStream
  BY <1>3 DEF StartStream, CallsTyped, Held, EveryThreadOwned, Live, CaptureThread,
      StreamThread, phase, Service!Next, Service!Start, Service!Draw, Service!AskToStop,
      Service!Stopped, Service!vars, TypeOK, uiVars, taskVars, flagVars, optionVars,
      deviceVars, workerVars, historyVars
<1>4. CASE StopStream
  BY <1>4 DEF StopStream, CallsTyped, Held, EveryThreadOwned, Live, CaptureThread,
      StreamThread, phase, Service!Next, Service!Start, Service!Draw, Service!AskToStop,
      Service!Stopped, Service!vars, TypeOK, uiVars, taskVars, flagVars, optionVars,
      deviceVars, workerVars, historyVars
<1>5. CASE Close
  BY <1>5 DEF Close, CallsTyped, Held, EveryThreadOwned, Live, CaptureThread,
      StreamThread, phase, Service!Next, Service!Start, Service!Draw, Service!AskToStop,
      Service!Stopped, Service!vars, TypeOK, uiVars, taskVars, flagVars, optionVars,
      deviceVars, workerVars, historyVars
<1>6. ASSUME NEW w \in Windows \cup {NoWindow}, SetCaptureWindow(w) PROVE [Service!Next]_Service!vars
  BY <1>6 DEF SetCaptureWindow, CallsTyped, Held, EveryThreadOwned, Live, CaptureThread,
      StreamThread, phase, Service!Next, Service!Start, Service!Draw, Service!AskToStop,
      Service!Stopped, Service!vars, TypeOK, uiVars, taskVars, flagVars, optionVars,
      deviceVars, workerVars, historyVars
<1>7. ASSUME NEW display \in Displays, NEW crop \in Crop, SetSource(display, crop) PROVE [Service!Next]_Service!vars
  BY <1>7 DEF SetSource, CallsTyped, Held, EveryThreadOwned, Live, CaptureThread,
      StreamThread, phase, Service!Next, Service!Start, Service!Draw, Service!AskToStop,
      Service!Stopped, Service!vars, TypeOK, uiVars, taskVars, flagVars, optionVars,
      deviceVars, workerVars, historyVars
<1>8. CASE SpawnCapture
  BY <1>8 DEF SpawnCapture, CallsTyped, Held, EveryThreadOwned, Live, CaptureThread,
      StreamThread, phase, Service!Next, Service!Start, Service!Draw, Service!AskToStop,
      Service!Stopped, Service!vars, TypeOK, uiVars, taskVars, flagVars, optionVars,
      deviceVars, workerVars, historyVars
<1>9. CASE JoinStream
  BY <1>9 DEF JoinStream, CallsTyped, Held, EveryThreadOwned, Live, CaptureThread,
      StreamThread, phase, Service!Next, Service!Start, Service!Draw, Service!AskToStop,
      Service!Stopped, Service!vars, TypeOK, Joinable, uiVars, taskVars, flagVars,
      optionVars, deviceVars, workerVars, historyVars
<1>10. CASE StopCapture
  BY <1>10 DEF StopCapture, CallsTyped, Held, EveryThreadOwned, Live, CaptureThread,
      StreamThread, phase, Service!Next, Service!Start, Service!Draw, Service!AskToStop,
      Service!Stopped, Service!vars, TypeOK, uiVars, taskVars, flagVars, optionVars,
      deviceVars, workerVars, historyVars
<1>11. CASE JoinCapture
  BY <1>11 DEF JoinCapture, CallsTyped, Held, EveryThreadOwned, Live, CaptureThread,
      StreamThread, phase, Service!Next, Service!Start, Service!Draw, Service!AskToStop,
      Service!Stopped, Service!vars, TypeOK, Joinable, uiVars, taskVars, flagVars,
      optionVars, deviceVars, workerVars, historyVars
<1>12. CASE SwapCapture
  BY <1>12 DEF SwapCapture, CallsTyped, Held, EveryThreadOwned, Live, CaptureThread,
      StreamThread, phase, Service!Next, Service!Start, Service!Draw, Service!AskToStop,
      Service!Stopped, Service!vars, TypeOK, Reopen, Opened, None, uiVars, taskVars,
      flagVars, optionVars, deviceVars, workerVars, historyVars
<1>13. CASE PublishWidth
  BY <1>13 DEF PublishWidth, CallsTyped, Held, EveryThreadOwned, Live, CaptureThread,
      StreamThread, phase, Service!Next, Service!Start, Service!Draw, Service!AskToStop,
      Service!Stopped, Service!vars, TypeOK, uiVars, taskVars, flagVars, optionVars,
      deviceVars, workerVars, historyVars
<1>14. CASE PublishHeight
  BY <1>14 DEF PublishHeight, CallsTyped, Held, EveryThreadOwned, Live, CaptureThread,
      StreamThread, phase, Service!Next, Service!Start, Service!Draw, Service!AskToStop,
      Service!Stopped, Service!vars, TypeOK, uiVars, taskVars, flagVars, optionVars,
      deviceVars, workerVars, historyVars
<1>15. CASE RaiseNewOptions
  BY <1>15 DEF RaiseNewOptions, CallsTyped, Held, EveryThreadOwned, Live, CaptureThread,
      StreamThread, phase, Service!Next, Service!Start, Service!Draw, Service!AskToStop,
      Service!Stopped, Service!vars, TypeOK, uiVars, taskVars, flagVars, optionVars,
      deviceVars, workerVars, historyVars
<1>16. CASE FreeBuffers
  BY <1>16 DEF FreeBuffers, CallsTyped, Held, EveryThreadOwned, Live, CaptureThread,
      StreamThread, phase, Service!Next, Service!Start, Service!Draw, Service!AskToStop,
      Service!Stopped, Service!vars, TypeOK, uiVars, taskVars, flagVars, optionVars,
      deviceVars, workerVars, historyVars
<1>17. ASSUME NEW k \in CaptureThread, CheckStopCapture(k) PROVE [Service!Next]_Service!vars
  BY <1>17 DEF CheckStopCapture, CallsTyped, Held, EveryThreadOwned, Live, CaptureThread,
      StreamThread, phase, Service!Next, Service!Start, Service!Draw, Service!AskToStop,
      Service!Stopped, Service!vars, TypeOK, CaptureGoes, Frozen, uiVars, taskVars,
      flagVars, optionVars, deviceVars, workerVars, historyVars
<1>18. ASSUME NEW k \in CaptureThread, LookForOptions(k) PROVE [Service!Next]_Service!vars
  BY <1>18 DEF LookForOptions, CallsTyped, Held, EveryThreadOwned, Live, CaptureThread,
      StreamThread, phase, Service!Next, Service!Start, Service!Draw, Service!AskToStop,
      Service!Stopped, Service!vars, TypeOK, CaptureGoes, Frozen, uiVars, taskVars,
      flagVars, optionVars, deviceVars, workerVars, historyVars
<1>19. ASSUME NEW k \in CaptureThread, CopyWidth(k) PROVE [Service!Next]_Service!vars
  BY <1>19 DEF CopyWidth, CallsTyped, Held, EveryThreadOwned, Live, CaptureThread,
      StreamThread, phase, Service!Next, Service!Start, Service!Draw, Service!AskToStop,
      Service!Stopped, Service!vars, TypeOK, CaptureGoes, Frozen, uiVars, taskVars,
      flagVars, optionVars, deviceVars, workerVars, historyVars
<1>20. ASSUME NEW k \in CaptureThread, CopyHeight(k) PROVE [Service!Next]_Service!vars
  BY <1>20 DEF CopyHeight, CallsTyped, Held, EveryThreadOwned, Live, CaptureThread,
      StreamThread, phase, Service!Next, Service!Start, Service!Draw, Service!AskToStop,
      Service!Stopped, Service!vars, TypeOK, CaptureGoes, Frozen, uiVars, taskVars,
      flagVars, optionVars, deviceVars, workerVars, historyVars
<1>21. ASSUME NEW k \in CaptureThread, ClearNewOptions(k) PROVE [Service!Next]_Service!vars
  BY <1>21 DEF ClearNewOptions, CallsTyped, Held, EveryThreadOwned, Live, CaptureThread,
      StreamThread, phase, Service!Next, Service!Start, Service!Draw, Service!AskToStop,
      Service!Stopped, Service!vars, TypeOK, CaptureGoes, Frozen, uiVars, taskVars,
      flagVars, optionVars, deviceVars, workerVars, historyVars
<1>22. ASSUME NEW k \in CaptureThread, TickWithoutFrame(k) PROVE [Service!Next]_Service!vars
  BY <1>22 DEF TickWithoutFrame, CallsTyped, Held, EveryThreadOwned, Live, CaptureThread,
      StreamThread, phase, Service!Next, Service!Start, Service!Draw, Service!AskToStop,
      Service!Stopped, Service!vars, TypeOK, CaptureGoes, Frozen, uiVars, taskVars,
      flagVars, optionVars, deviceVars, workerVars, historyVars
<1>23. ASSUME NEW k \in CaptureThread, Rebuild(k) PROVE [Service!Next]_Service!vars
  BY <1>23 DEF Rebuild, CallsTyped, Held, EveryThreadOwned, Live, CaptureThread,
      StreamThread, phase, Service!Next, Service!Start, Service!Draw, Service!AskToStop,
      Service!Stopped, Service!vars, TypeOK, CaptureGoes, Frozen, Reopen, Opened, None,
      uiVars, taskVars, flagVars, optionVars, deviceVars, workerVars, historyVars
<1>24. ASSUME NEW k \in CaptureThread, TickTakesFrame(k) PROVE [Service!Next]_Service!vars
  BY <1>24 DEF TickTakesFrame, CallsTyped, Held, EveryThreadOwned, Live, CaptureThread,
      StreamThread, phase, Service!Next, Service!Start, Service!Draw, Service!AskToStop,
      Service!Stopped, Service!vars, TypeOK, CaptureGoes, Frozen, uiVars, taskVars,
      flagVars, optionVars, deviceVars, workerVars, historyVars
<1>25. ASSUME NEW k \in CaptureThread, PublishFrame(k) PROVE [Service!Next]_Service!vars
  BY <1>25 DEF PublishFrame, CallsTyped, Held, EveryThreadOwned, Live, CaptureThread,
      StreamThread, phase, Service!Next, Service!Start, Service!Draw, Service!AskToStop,
      Service!Stopped, Service!vars, TypeOK, CaptureGoes, Frozen, uiVars, taskVars,
      flagVars, optionVars, deviceVars, workerVars, historyVars
<1>26. ASSUME NEW k \in CaptureThread, CaptureFails(k) PROVE [Service!Next]_Service!vars
  BY <1>26 DEF CaptureFails, CallsTyped, Held, EveryThreadOwned, Live, CaptureThread,
      StreamThread, phase, Service!Next, Service!Start, Service!Draw, Service!AskToStop,
      Service!Stopped, Service!vars, TypeOK, CaptureGoes, Frozen, uiVars, taskVars,
      flagVars, optionVars, deviceVars, workerVars, historyVars
<1>27. ASSUME NEW k \in StreamThread, StartAudio(k) PROVE [Service!Next]_Service!vars
  BY <1>27 DEF StartAudio, CallsTyped, Held, EveryThreadOwned, Live, CaptureThread,
      StreamThread, phase, Service!Next, Service!Start, Service!Draw, Service!AskToStop,
      Service!Stopped, Service!vars, TypeOK, StreamGoes, uiVars, taskVars, flagVars,
      optionVars, deviceVars, workerVars, historyVars
<1>28. ASSUME NEW k \in StreamThread, CheckStopStream(k) PROVE [Service!Next]_Service!vars
  BY <1>28 DEF CheckStopStream, CallsTyped, Held, EveryThreadOwned, Live, CaptureThread,
      StreamThread, phase, Service!Next, Service!Start, Service!Draw, Service!AskToStop,
      Service!Stopped, Service!vars, TypeOK, StreamGoes, uiVars, taskVars, flagVars,
      optionVars, deviceVars, workerVars, historyVars
<1>29. ASSUME NEW k \in StreamThread, Draw(k) PROVE [Service!Next]_Service!vars
  BY <1>29 DEF Draw, CallsTyped, Held, EveryThreadOwned, Live, CaptureThread,
      StreamThread, phase, Service!Next, Service!Start, Service!Draw, Service!AskToStop,
      Service!Stopped, Service!vars, TypeOK, StreamGoes, uiVars, taskVars, flagVars,
      optionVars, deviceVars, workerVars, historyVars
<1>30. ASSUME NEW k \in StreamThread, StreamFails(k) PROVE [Service!Next]_Service!vars
  BY <1>30 DEF StreamFails, CallsTyped, Held, EveryThreadOwned, Live, CaptureThread,
      StreamThread, phase, Service!Next, Service!Start, Service!Draw, Service!AskToStop,
      Service!Stopped, Service!vars, TypeOK, StreamGoes, uiVars, taskVars, flagVars,
      optionVars, deviceVars, workerVars, historyVars
<1>31. ASSUME NEW k \in StreamThread, CloseSession(k) PROVE [Service!Next]_Service!vars
  BY <1>31 DEF CloseSession, CallsTyped, Held, EveryThreadOwned, Live, CaptureThread,
      StreamThread, phase, Service!Next, Service!Start, Service!Draw, Service!AskToStop,
      Service!Stopped, Service!vars, TypeOK, StreamGoes, uiVars, taskVars, flagVars,
      optionVars, deviceVars, workerVars, historyVars
<1>32. ASSUME NEW w \in Windows, WindowCloses(w) PROVE [Service!Next]_Service!vars
  BY <1>32 DEF WindowCloses, CallsTyped, Held, EveryThreadOwned, Live, CaptureThread,
      StreamThread, phase, Service!Next, Service!Start, Service!Draw, Service!AskToStop,
      Service!Stopped, Service!vars, TypeOK, uiVars, taskVars, flagVars, optionVars,
      deviceVars, workerVars, historyVars
<1>33. CASE UNCHANGED vars
  BY <1>33 DEF vars, CallsTyped, Held, EveryThreadOwned, Live, CaptureThread,
      StreamThread, phase, Service!Next, Service!Start, Service!Draw, Service!AskToStop,
      Service!Stopped, Service!vars, TypeOK, uiVars, taskVars, flagVars, optionVars,
      deviceVars, workerVars, historyVars
<1> QED
  BY <1>1, <1>2, <1>3, <1>4, <1>5, <1>6, <1>7, <1>8, <1>9, <1>10, <1>11, <1>12, <1>13,
      <1>14, <1>15, <1>16, <1>17, <1>18, <1>19, <1>20, <1>21, <1>22, <1>23, <1>24, <1>25,
      <1>26, <1>27, <1>28, <1>29, <1>30, <1>31, <1>32, <1>33 DEF Next, User, InCall,
      CaptureWorker, StreamWorker

\* StartStream, StopStream and Shutdown keep what StreamService promises of their safety: one
\* session at a time, pictures only of the last, none after a stop has returned
\* (MiSTerCastLib.cpp:228-253, 111-133).
THEOREM CallsImplementService == Spec => ServiceSafe
<1>1. ASSUME Init
      PROVE  Service!Init
  BY <1>1 DEF Init, phase, Service!Init
<1>2. LifecycleInv /\ [Next]_vars => [Service!Next]_Service!vars
  BY ServiceStep DEF LifecycleInv
<1> QED
  BY LifecycleInvariant, <1>1, <1>2, PTL DEF Spec, ServiceSafe

=============================================================================
