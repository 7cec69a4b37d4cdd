---------------------------- MODULE StreamService ----------------------------
(***************************************************************************)
(* What StartStream, StopStream and Shutdown (MiSTerCastLib.cpp) promise   *)
(* their caller, without threads: one session at a time, pictures only     *)
(* from the session that was started last, none once a stop has returned,  *)
(* and a stop that does return.                                            *)
(***************************************************************************)
EXTENDS Naturals

VARIABLES
  phase,     \* "stopped", "started", or "stopping": a stop was asked for
  session,   \* the number of the last session started
  drawnBy    \* the session of the last picture drawn, 0 before the first

vars == <<phase, session, drawnBy>>

Init == phase = "stopped" /\ session = 0 /\ drawnBy = 0

Start ==
  /\ phase = "stopped"
  /\ phase' = "started"
  /\ session' = session + 1
  /\ UNCHANGED drawnBy

Draw ==
  /\ phase # "stopped"
  /\ drawnBy' = session
  /\ UNCHANGED <<phase, session>>

AskToStop ==
  /\ phase' = "stopping"
  /\ UNCHANGED <<session, drawnBy>>

Stopped ==
  /\ phase = "stopping"
  /\ phase' = "stopped"
  /\ UNCHANGED <<session, drawnBy>>

Next == Start \/ Draw \/ AskToStop \/ Stopped

Spec == Init /\ [][Next]_vars /\ WF_vars(Stopped)
=============================================================================
