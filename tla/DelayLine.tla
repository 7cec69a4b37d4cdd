------------------------------- MODULE DelayLine -------------------------------
(***************************************************************************)
(* What the ring of AudioTimeline.h promises, without the ring: a line of  *)
(* sample places, numbered from the moment it was started.  Sound is put   *)
(* on places at or after the head and at most Length after it; the line    *)
(* plays places in order, with silence for those nothing was put on, and a *)
(* place the head has passed is never heard again.                         *)
(***************************************************************************)
EXTENDS Integers

CONSTANT Length

VARIABLES
  head,    \* the place that plays next
  line,    \* places that hold sound
  sounded, \* what the last send played: the places that held sound,
  silent   \* and those that did not

vars == <<head, line, sounded, silent>>

Init == head = 0 /\ line = {} /\ sounded = {} /\ silent = {}

Restart == head' = 0 /\ line' = {} /\ sounded' = {} /\ silent' = {}

Quiet == sounded' = {} /\ silent' = {} /\ UNCHANGED <<head, line>>

Put ==
  /\ line \subseteq line'
  /\ \A i \in line' \ line : head <= i /\ i < head + Length
  /\ UNCHANGED <<head, sounded, silent>>

Move ==
  /\ head' >= head
  /\ line' = {i \in line : i >= head'}

Skip == Move /\ UNCHANGED <<sounded, silent>>

\* A send plays some of the places between the old head and the new one.
Play ==
  /\ Move
  /\ \A i \in sounded' \cup silent' : head <= i /\ i <= head'
  /\ sounded' \subseteq line
  /\ silent' \cap line = {}

Next == Restart \/ Quiet \/ Put \/ Skip \/ Play

Spec == Init /\ [][Next]_vars
=============================================================================
