---------------------------- MODULE MCAudioTimeline ----------------------------
(* AudioTimeline on small instances.  The clocks of the core and of the sound  *)
(* device are each slow, right or fast as far as they may be.  Disturbances,   *)
(* MaxDisturbances of them in all, are a clock that changes its rate, a time   *)
(* stamp that comes late, a change of the link and a glitch; every other       *)
(* choice is free.                                                             *)
EXTENDS AudioTimeline

CONSTANT MaxDisturbances  \* bound

VARIABLES
  coreRate,    \* what the core's clock is fast by, in grains a sample
  packetSlip,  \* samples more than PacketFrames that a packet takes
  turns        \* changes of a rate and late stamps so far

MCInit ==
  /\ Init
  /\ coreRate \in {-Drift, 0, Drift} /\ packetSlip \in {-Slip, 0, Slip} /\ turns = 0

Turn ==
  /\ pc = "out"
  /\ turns' = turns + 1
  /\ \/ coreRate' \in {-Drift, 0, Drift} \ {coreRate} /\ UNCHANGED packetSlip
     \/ packetSlip' \in {-Slip, 0, Slip} \ {packetSlip} /\ UNCHANGED coreRate
  /\ UNCHANGED vars

\* A sample period is the core's and the device's too, by their rates.
KeepsRates ==
  now' # now =>
    /\ fieldPart' = (fieldPart + Grain + coreRate) % (FieldFrames * Grain)
    /\ packetStart' # packetStart <=> now' - packetStart >= PacketFrames + packetSlip

LateStamp ==
  /\ Len(packets') > Len(packets) /\ UNCHANGED glitches
  /\ packets'[Len(packets')].timestamp > packetStart

MCNext ==
  /\ \/ Turn
     \/ /\ Next /\ KeepsRates
        /\ turns' = IF LateStamp THEN turns + 1 ELSE turns
        /\ UNCHANGED <<coreRate, packetSlip>>
  /\ turns' + changes' + glitches' <= MaxDisturbances

MCSpec == MCInit /\ [][MCNext]_<<vars, coreRate, packetSlip, turns>>
=============================================================================
