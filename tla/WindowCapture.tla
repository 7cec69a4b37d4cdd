----------------------------- MODULE WindowCapture -----------------------------
(***************************************************************************)
(* Capturing one window (VideoCapture.h): the frame pool and its callback, *)
(* the capture worker that drains the pool and sleeps on a condition       *)
(* variable, and the calls that stop that worker (RestartVideoCapture and  *)
(* Shutdown in MiSTerCastLib.cpp).  The three meet in windowFrameSignal, a *)
(* counter under windowFrameMutex: the callback and a stop increment it,   *)
(* the worker samples it before it drains and sleeps while it is the same. *)
(***************************************************************************)
EXTENDS Naturals

CONSTANTS
  PoolSize,     \* frames the pool lends: 2 in the code
  MaxSignals,   \* bound: increments of windowFrameSignal
  MaxFailures   \* bound: failures to open or to read the window

ASSUME SizesAssumption ==
  PoolSize \in Nat \ {0} /\ MaxSignals \in Nat /\ MaxFailures \in Nat

VARIABLES
  worker,    \* where capture_screen is
  stop,      \* stopCapture
  caller,    \* where the thread that stops the worker is
  signal,    \* windowFrameSignal
  seen,      \* signalSeen
  pool,      \* "none", "open", or "half": made, but its session was never started
  queued,    \* frames waiting in the pool
  arriving,  \* FrameArrived callbacks on their way
  held,      \* frames the worker holds
  failures

poolVars == <<pool, queued, arriving, held, failures>>
vars == <<worker, stop, caller, signal, seen, poolVars>>

\* CleanupVideoCapture and InitializeVideoCapture: a callback that runs already
\* when its registration is revoked may still finish.
Rebuild ==
  /\ queued' = 0
  /\ held' = 0
  /\ arriving' \in 0 .. arriving
  /\ \/ pool' = "open" /\ UNCHANGED failures
     \/ pool' \in {"none", "half"} /\ failures < MaxFailures /\ failures' = failures + 1

Init ==
  /\ worker = "check" /\ stop = FALSE /\ caller = "idle"
  /\ signal = 0 /\ seen = 0
  /\ pool = "open" /\ queued = 0 /\ arriving = 0 /\ held = 0 /\ failures = 0

-----------------------------------------------------------------------------
(* The worker.                                                             *)

WorkerGoes(from, to) ==
  /\ worker = from
  /\ worker' = to
  /\ UNCHANGED <<stop, caller>>

CheckStop ==
  /\ WorkerGoes("check", IF stop THEN "ended" ELSE IF pool = "none" THEN "rebuild" ELSE "sample")
  /\ UNCHANGED <<signal, seen, poolVars>>

RebuildMissing ==
  /\ WorkerGoes("rebuild", "check")
  /\ Rebuild
  /\ UNCHANGED <<signal, seen>>

SampleSignal ==
  /\ WorkerGoes("sample", "drain")
  /\ seen' = signal
  /\ UNCHANGED <<signal, poolVars>>

\* A wrong version: the older frame is not given back.
TakeFrameKeepsOld ==
  /\ queued > 0
  /\ WorkerGoes("drain", "drain")
  /\ queued' = queued - 1
  /\ held' = held + 1
  /\ UNCHANGED <<signal, seen, pool, arriving, failures>>

\* The newest frame is wanted: one taken before is closed.
TakeFrame ==
  /\ queued > 0
  /\ WorkerGoes("drain", "drain")
  /\ queued' = queued - 1
  /\ held' = 1
  /\ UNCHANGED <<signal, seen, pool, arriving, failures>>

\* A wrong version: the signal is sampled after the pool was found empty, when
\* another frame may have come.
DrainThenSample ==
  /\ WorkerGoes("drain", IF held = 1 THEN "frame" ELSE "wait")
  /\ seen' = signal
  /\ UNCHANGED <<signal, poolVars>>

DrainEmpty ==
  /\ queued = 0
  /\ WorkerGoes("drain", IF held = 1 THEN "frame" ELSE "wait")
  /\ UNCHANGED <<signal, seen, poolVars>>

AcquireFails ==
  /\ WorkerGoes("drain", "check")
  /\ failures < MaxFailures
  /\ Rebuild
  /\ UNCHANGED <<signal, seen>>

\* The frame is copied out, or given up, and closed.
FrameDone ==
  /\ WorkerGoes("frame", "check")
  /\ held' = 0
  /\ UNCHANGED <<signal, seen, pool, queued, arriving, failures>>

\* The window has another size: the pool is made again, on the same object.
Resized ==
  /\ WorkerGoes("frame", "check")
  /\ held' = 0
  /\ queued' = 0
  /\ UNCHANGED <<signal, seen, pool, arriving, failures>>

WokenUp ==
  /\ signal # seen
  /\ WorkerGoes("wait", "check")
  /\ UNCHANGED <<signal, seen, poolVars>>

\* 32 ms have passed.
WaitTimesOut ==
  /\ WorkerGoes("wait", "check")
  /\ UNCHANGED <<signal, seen, poolVars>>

-----------------------------------------------------------------------------
(* The pool and its callback.                                              *)

FrameQueued ==
  /\ pool = "open"
  /\ queued + held < PoolSize
  /\ signal + arriving < MaxSignals
  /\ queued' = queued + 1
  /\ arriving' = arriving + 1
  /\ UNCHANGED <<worker, stop, caller, signal, seen, pool, held, failures>>

\* WakeVideoCapture, by the callback.  A wrong version only notifies.
ArrivedNotifies ==
  /\ arriving > 0
  /\ arriving' = arriving - 1
  /\ UNCHANGED <<worker, stop, caller, signal, seen, pool, queued, held, failures>>

FrameArrived ==
  /\ arriving > 0
  /\ arriving' = arriving - 1
  /\ signal' = signal + 1
  /\ UNCHANGED <<worker, stop, caller, seen, pool, queued, held, failures>>

-----------------------------------------------------------------------------
(* JoinWorker for the capture worker, then a restart or the end.           *)

RaiseStop ==
  /\ caller = "idle"
  /\ signal + arriving < MaxSignals
  /\ stop' = TRUE
  /\ caller' = "wake"
  /\ UNCHANGED <<worker, signal, seen, poolVars>>

\* WakeVideoCapture, by the caller.
WakeVideoCapture ==
  /\ caller = "wake"
  /\ signal' = signal + 1
  /\ caller' = "join"
  /\ UNCHANGED <<worker, stop, seen, poolVars>>

RestartVideoCapture ==
  /\ caller = "join" /\ worker = "ended"
  /\ Rebuild
  /\ stop' = FALSE
  /\ worker' = "check"
  /\ caller' = "idle"
  /\ UNCHANGED <<signal, seen>>

Shutdown ==
  /\ caller = "join" /\ worker = "ended"
  /\ pool' = "none" /\ queued' = 0 /\ held' = 0 /\ arriving' \in 0 .. arriving
  /\ caller' = "closed"
  /\ UNCHANGED <<worker, stop, signal, seen, failures>>

-----------------------------------------------------------------------------
Worker ==
  \/ CheckStop \/ RebuildMissing \/ SampleSignal \/ TakeFrame \/ DrainEmpty
  \/ AcquireFails \/ FrameDone \/ Resized \/ WokenUp

Caller == WakeVideoCapture \/ RestartVideoCapture \/ Shutdown

Next == Worker \/ WaitTimesOut \/ FrameQueued \/ FrameArrived \/ RaiseStop \/ Caller

\* Threads run and queued callbacks are delivered.
EventFairness == WF_vars(Worker) /\ WF_vars(FrameArrived) /\ WF_vars(Caller)

\* The worker is only ever woken by a signal.
EventSpec == Init /\ [][Next]_vars /\ EventFairness

Spec == EventSpec /\ WF_vars(WaitTimesOut)

-----------------------------------------------------------------------------
TypeOK ==
  /\ worker \in {"check", "rebuild", "sample", "drain", "frame", "wait", "ended"}
  /\ stop \in BOOLEAN
  /\ caller \in {"idle", "wake", "join", "closed"}
  /\ signal \in Nat /\ seen \in Nat
  /\ pool \in {"none", "half", "open"}
  /\ queued \in Nat /\ arriving \in Nat /\ held \in {0, 1}
  /\ failures \in 0 .. MaxFailures

\* "A signal raised during the drain cannot be missed" (VideoCapture.h:143-145):
\* a worker that sleeps with nothing to wake it has, for every frame in the
\* pool, a callback still to come.
NoFrameSleptThrough ==
  worker = "wait" /\ signal = seen => queued <= arriving

\* Every frame is taken without the help of the 32 ms timeout, which the code
\* has for windows that draw nothing (VideoCapture.h:470-478).
FramesTaken == queued > 0 ~> queued = 0

\* "Rebuild rather than exiting, so the worker recovers when the source comes
\* back" (VideoCapture.h:388-389): capture that is not open is opened again,
\* unless the worker is being stopped.
SourceRecovers == pool # "open" ~> pool = "open" \/ stop
=============================================================================
