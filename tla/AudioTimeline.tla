----------------------------- MODULE AudioTimeline -----------------------------
(***************************************************************************)
(* The sound of a stream (AudioTimeline.h, TickAudioCapture in             *)
(* AudioCapture.h).  WASAPI's packets are placed by their time stamps in a *)
(* ring of slots, bufferMs late; what is sent after each picture is        *)
(* measured by the receiver: an estimate, from its field counter, of how   *)
(* much it has played.  Three clocks meet here, and none keeps the pace of *)
(* another: the host's, the sound device's and the core's.                 *)
(*                                                                         *)
(* Time is counted in samples of the host's clock, so sampleAt is a        *)
(* difference; the phase of the timeline, a double in the code, and the    *)
(* progress of the core are counted in Grains of a sample.                 *)
(***************************************************************************)
EXTENDS Integers, Sequences

CONSTANTS
  Delay,          \* m_delay: bufferMs in samples
  Lead,           \* m_lead: half of it, at most 40 ms
  RingSize,       \* m_slots.size(): bufferMs + 250 ms
  SendLimit,      \* AUDIO_MAX_SAMPLES / 2
  FieldFrames,    \* m_samplesPerField
  ReanchorLimit,  \* 100 ms: an estimate off by more is corrected
  Tolerance,      \* 2 ms: a packet this near to the last one's end follows it
  FreshLimit,     \* 100 ms: a packet older than that steers nothing
  ServoTime,      \* 10 s: a send corrects the error by its own length over this
  Grain,          \* grains in a sample
  MaxCorrection,  \* a thousandth of a sample, in grains: the most a sample is corrected by
  Drift,          \* grains a sample by which the core's clock may be fast or slow
  PacketFrames,   \* samples in a packet of the device
  Slip,           \* how many samples more or less the host's clock may see in a packet
  Jitter,         \* how late a good time stamp may be
  MaxPackets,     \* packets that wait for a worker that is in time
  MaxTime, MaxChanges, MaxGlitches   \* bounds

\* How long a worker that is in time may be away.
Wait == MaxPackets * (PacketFrames + Slip)

\* The smallest correction that outruns the drift of the core, and the error it takes.
Weight == Grain \div Drift - 1
Pull == (Grain + Weight - 1) \div Weight
Deadband == ServoTime * Pull

\* The most that a packet is moved by when its time stamp is believed.
LongestHole == Tolerance + Slip + Jitter

ASSUME TimesAssumption ==
  /\ Delay \in Nat /\ Lead \in Nat /\ FieldFrames \in Nat \ {0}
  /\ ReanchorLimit \in Nat /\ Tolerance \in Nat /\ FreshLimit \in Nat
  /\ ServoTime \in Nat \ {0} /\ Grain \in Nat \ {0} /\ MaxCorrection \in Nat
  /\ Drift \in Nat \ {0} /\ PacketFrames \in Nat \ {0} /\ Slip \in Nat /\ Jitter \in Nat
  /\ MaxPackets \in Nat /\ MaxTime \in Nat /\ MaxChanges \in Nat /\ MaxGlitches \in Nat
\* Lead is at most 40 ms of at most 48 kHz (renderer_nogpu.h:487), a send 4096 samples, and a
\* correction is less than a sample.
ASSUME SizesAssumption ==
  /\ RingSize \in Nat \ {0} /\ SendLimit \in Nat
  /\ Lead <= SendLimit /\ MaxCorrection < Grain
\* What SoundUnbroken rests on.  The core's clock drifts by less than a sample in a field, and
\* by less than a correction makes up for (a thousandth); a send and a packet are shorter than
\* the ten seconds of the servo; a packet of the device in time is fresh, and a worker in time
\* comes before the estimate is corrected (100 ms each); and the ring, 250 ms longer than the
\* delay, holds what comes meanwhile.
ASSUME PaceAssumption ==
  /\ Drift * (FieldFrames + 1) <= Grain /\ Pull <= MaxCorrection
  /\ SendLimit <= ServoTime /\ PacketFrames + Slip + FieldFrames <= ServoTime
  /\ PacketFrames + 2 * Slip <= FreshLimit
  /\ FieldFrames * Grain + Wait * (Grain + Drift) <= ReanchorLimit * Grain
  /\ Delay + LongestHole <= RingSize
  /\ Wait + Delay + LongestHole + FieldFrames + 3 + Deadband \div Grain - Lead <= RingSize

VARIABLES
  now,
  \* the core, the link and the sound device
  coreFrame,         \* fields the core has shown
  fieldPart,         \* how far it is in the next one, in grains
  displayFrame,      \* fpga.frame: the last count an ACK brought
  accepting,         \* isConnected() && fpga.audio
  session,           \* mode revision and reconnect epoch
  changes,           \* of the link, so far
  devicePosition,
  packetStart,       \* when the packet began that the device is filling
  packets,           \* captured, not yet fetched
  pausing,           \* the stream worker is held up
  glitches,
  \* TickAudioCapture
  pc,
  audioActive,       \* audioTimelineActive
  audioSession,      \* audioModeRevision, audioReconnectEpoch
  lastDisplayFrame,  \* audioLastDisplayFrame
  \* ReceiverAudioClock
  baseFrame, lastFrame, lastCall, played, offset,
  clockDue,          \* m_due
  \* AudioTimeline
  epoch,
  phase,             \* m_sourcePhase, in grains
  output,
  slots,             \* the index in each slot
  expected,          \* m_expectedPosition, or NoPosition when not m_positionValid
  packetEnd, lastPacketEnd,
  \* history: places that time stamps which moved away left free, what the last send played,
  \* and whether a gap was heard
  holes, sounded, silent, heard, gap, disturbed

deviceVars == <<devicePosition, packetStart, packets>>
coreVars == <<coreFrame, fieldPart>>
worldVars == <<now, coreVars, displayFrame, accepting, session, changes, pausing, glitches>>
gateVars == <<audioActive, audioSession, lastDisplayFrame>>
clockVars == <<baseFrame, lastFrame, lastCall, played, offset, clockDue>>
placeVars == <<expected, packetEnd, lastPacketEnd>>
timelineVars == <<epoch, phase, output, slots, holes, placeVars>>
soundVars == <<sounded, silent, heard, gap>>
vars == <<worldVars, deviceVars, pc, gateVars, clockVars, timelineVars, soundVars, disturbed>>

Ring == 0 .. RingSize - 1
Empty == -1
NoPosition == -1

Slot(index) == index % RingSize
Index(p) == p \div Grain
HeadIndex == Index(phase)
SampleAt(time) == time - epoch
Larger(a, b) == IF a > b THEN a ELSE b
Distance(a, b) == IF a > b THEN a - b ELSE b - a

Init ==
  /\ now = 0 /\ coreFrame = 0 /\ fieldPart = 0 /\ displayFrame = 0
  /\ accepting \in BOOLEAN /\ session = 1 /\ changes = 0 /\ glitches = 0
  /\ pausing = FALSE
  /\ devicePosition = 0 /\ packetStart = 0 /\ packets = <<>>
  /\ pc = "out"
  /\ audioActive = FALSE /\ audioSession = 0 /\ lastDisplayFrame = 0
  /\ baseFrame = 0 /\ lastFrame = 0 /\ lastCall = 0
  /\ played = 0 /\ offset = 0 /\ clockDue = 0
  /\ epoch = 0 /\ phase = 0 /\ output = 0 /\ slots = [k \in Ring |-> Empty]
  /\ expected = NoPosition /\ packetEnd = 0 /\ lastPacketEnd = 0
  /\ holes = {} /\ sounded = {} /\ silent = {} /\ heard = FALSE /\ gap = FALSE /\ disturbed = FALSE

-----------------------------------------------------------------------------
(* The world outside, between two ticks.                                   *)

Glitch == glitches < MaxGlitches /\ glitches' = glitches + 1 /\ disturbed' = TRUE
NoGlitch == UNCHANGED <<glitches, disturbed>>

Packet(stamp, valid, discontinuity) ==
  [position |-> devicePosition, timestamp |-> stamp, valid |-> valid,
   discontinuity |-> discontinuity]

\* A sample period passes.  A worker that is not held up fetches packets in time.
TimePasses ==
  /\ pc = "out" /\ now < MaxTime
  /\ pausing \/ Len(packets) < MaxPackets
  /\ now' = now + 1
  /\ UNCHANGED <<accepting, session, changes, pausing, pc, gateVars, clockVars, timelineVars,
                 soundVars>>

\* The core's clock is fast or slow, now more and now less.  The core counts the field it has
\* shown.
CoreRuns ==
  \E d \in -Drift .. Drift :
    LET progress == fieldPart + Grain + d
    IN  /\ fieldPart' = progress % (FieldFrames * Grain)
        /\ coreFrame' = coreFrame + progress \div (FieldFrames * Grain)

FieldDue == coreFrame' > coreFrame

\* An ACK brings the new count, unless the worker who would read it is held up.
Report ==
  \/ FieldDue /\ displayFrame' = coreFrame'
  \/ (~FieldDue \/ pausing) /\ UNCHANGED displayFrame

\* The device fills a packet by its own clock, a little faster or slower than the host's.
PacketMayCome == now + 1 - packetStart >= PacketFrames - Slip
PacketMustCome == now + 1 - packetStart >= PacketFrames + Slip

Deliver(packet) ==
  /\ packets' = Append(packets, packet)
  /\ devicePosition' = devicePosition + PacketFrames
  /\ packetStart' = now + 1

\* The device delivers the packet it has filled; the time stamp of a good one is
\* late by no more than Jitter.
GoodPacket ==
  \E e \in 0 .. Jitter : Deliver(Packet(packetStart + e, TRUE, FALSE))

DeviceRuns ==
  \/ PacketMayCome /\ GoodPacket
  \/ ~PacketMustCome /\ UNCHANGED deviceVars

\* A packet without a time stamp, one with a wrong one, or none: then the next
\* one's position tells.
BadPacket ==
  \/ Deliver(Packet(0, FALSE, FALSE))
  \/ Deliver(Packet(packetStart + LongestHole + 1, TRUE, FALSE))
  \/ Deliver(Packet(packetStart, TRUE, TRUE))
  \/ /\ devicePosition' = devicePosition + PacketFrames
     /\ packetStart' = now + 1
     /\ UNCHANGED packets

Elapse == TimePasses /\ CoreRuns /\ Report /\ DeviceRuns /\ NoGlitch

ElapseBadPacket ==
  /\ TimePasses
  /\ PacketMayCome
  /\ CoreRuns
  /\ Report
  /\ BadPacket
  /\ Glitch

ElapseMissedReport ==
  /\ TimePasses
  /\ CoreRuns
  /\ FieldDue
  /\ UNCHANGED displayFrame
  /\ DeviceRuns
  /\ Glitch

\* The core forgets its count, or has gone on unheard.
CoreCountsAnew ==
  /\ pc = "out"
  /\ coreFrame' \in {0, coreFrame + 2, coreFrame + 3}
  /\ displayFrame' = coreFrame'
  /\ Glitch
  /\ UNCHANGED <<now, fieldPart, accepting, session, changes, pausing, deviceVars, pc, gateVars,
                 clockVars, timelineVars, soundVars>>

Pause ==
  /\ pc = "out"
  /\ ~pausing
  /\ pausing' = TRUE
  /\ Glitch
  /\ UNCHANGED <<now, coreVars, displayFrame, accepting, session, changes, deviceVars, pc,
                 gateVars, clockVars, timelineVars, soundVars>>

\* The link or the core's sound goes or comes, or there is another mode or
\* session.
LinkChanges ==
  /\ pc = "out"
  /\ changes < MaxChanges
  /\ changes' = changes + 1
  /\ session' \in {session, session + 1}
  /\ accepting' \in BOOLEAN
  /\ session' # session \/ accepting' # accepting
  /\ UNCHANGED <<now, coreVars, displayFrame, glitches, pausing, deviceVars, pc, gateVars,
                 clockVars, timelineVars, soundVars, disturbed>>

-----------------------------------------------------------------------------
(* TickAudioCapture, once per draw.                                        *)

\* A wrong version: a core that counts anew goes unnoticed.
IgnoresNewCount ==
  ~audioActive \/ session # audioSession

ClockIsStale ==
  ~audioActive \/ session # audioSession \/ displayFrame < lastDisplayFrame

StartClock ==
  /\ baseFrame' = displayFrame /\ lastFrame' = displayFrame
  /\ lastCall' = now
  /\ played' = 0 /\ offset' = 0 /\ clockDue' = Lead

StartTimeline ==
  /\ epoch' = now
  /\ phase' = 0 /\ output' = 0
  /\ slots' = [k \in Ring |-> Empty]
  /\ expected' = NoPosition /\ packetEnd' = 0 /\ lastPacketEnd' = 0
  /\ holes' = {} /\ heard' = FALSE /\ gap' = FALSE

TickBegins ==
  /\ pc = "out"
  /\ pc' = "drain"
  /\ audioActive' = accepting
  /\ lastDisplayFrame' = displayFrame
  /\ IF accepting /\ ClockIsStale
     THEN StartTimeline /\ StartClock /\ audioSession' = session
     ELSE UNCHANGED <<timelineVars, heard, gap, clockVars, audioSession>>
  /\ sounded' = {} /\ silent' = {}
  /\ pausing' = FALSE
  /\ UNCHANGED <<now, coreVars, displayFrame, accepting, session, changes, glitches,
                 deviceVars, disturbed>>

Fetch ==
  /\ pc = "drain"
  /\ packets # <<>>
  /\ packets' = Tail(packets)
  /\ UNCHANGED <<worldVars, devicePosition, packetStart, pc, gateVars, clockVars, epoch, phase,
                 output, soundVars, disturbed>>

DropPacket ==
  /\ Fetch
  /\ ~accepting
  /\ UNCHANGED <<slots, holes, placeVars>>

RejectPacket ==
  /\ Fetch
  /\ accepting
  /\ ~Head(packets).valid
  /\ expected' = NoPosition
  /\ UNCHANGED <<slots, holes, packetEnd, lastPacketEnd>>

\* A wrong version: nothing is too late.
FitsAnyEarlier(index) == index < HeadIndex + RingSize

\* A wrong version: nothing is too early.
FitsAnyLater(index) == HeadIndex <= index

\* What push keeps of a packet: neither too late nor beyond the ring.
Fits(index) == HeadIndex <= index /\ index < HeadIndex + RingSize

\* A wrong version: every time stamp is believed.
FollowsExactly(packet, stamped) ==
  /\ packet.position = expected
  /\ ~packet.discontinuity
  /\ stamped = packetEnd

\* A packet that comes where the last one ended follows it, whatever a few
\* samples of its time stamp say.
Follows(packet, stamped) ==
  /\ packet.position = expected
  /\ ~packet.discontinuity
  /\ Distance(stamped, packetEnd) <= Tolerance

\* A time stamp that has moved ahead by more than Tolerance leaves these places free.
LeftFree(start) ==
  IF expected # NoPosition /\ start - packetEnd \in Tolerance + 1 .. LongestHole
  THEN packetEnd .. start - 1
  ELSE {}

PlacePacket ==
  LET packet == Head(packets)
      stamped == SampleAt(packet.timestamp) + Delay
      start == IF Follows(packet, stamped) THEN packetEnd ELSE stamped
      places == {i \in start .. start + PacketFrames - 1 : Fits(i)}
  IN  /\ Fetch
      /\ accepting
      /\ packet.valid
      /\ expected' = packet.position + PacketFrames
      /\ packetEnd' = start + PacketFrames
      /\ lastPacketEnd' = packet.timestamp + PacketFrames
      /\ slots' = [k \in Ring |-> IF \E i \in places : Slot(i) = k
                                  THEN CHOOSE i \in places : Slot(i) = k
                                  ELSE slots[k]]
      /\ holes' = holes \cup LeftFree(start)

Drained ==
  /\ pc = "drain"
  /\ packets = <<>>
  /\ pc' = IF accepting THEN "clock" ELSE "out"
  /\ UNCHANGED <<worldVars, deviceVars, gateVars, clockVars, timelineVars, soundVars, disturbed>>

\* A wrong version: what is due may become less.
DueLatest(estimate) == estimate + Lead

\* ReceiverAudioClock::due.
DueFor(estimate) == Larger(clockDue, estimate + Lead)

Observed == (displayFrame - baseFrame) * FieldFrames + offset

TooFar(observed) == Distance(observed, played) > ReanchorLimit

ClockAsked ==
  /\ pc = "clock"
  /\ pc' = "send"
  /\ lastCall' = now
  /\ UNCHANGED <<worldVars, deviceVars, gateVars, baseFrame, timelineVars, soundVars, disturbed>>

CountsFields ==
  /\ ClockAsked
  /\ displayFrame > lastFrame
  /\ ~TooFar(Observed)
  /\ played' = Observed
  /\ clockDue' = DueFor(Observed)
  /\ lastFrame' = displayFrame
  /\ UNCHANGED offset

\* The estimate stays; the count is made to agree with it.
ShiftsCount ==
  /\ ClockAsked
  /\ displayFrame > lastFrame
  /\ TooFar(Observed)
  /\ offset' = offset + played - Observed
  /\ clockDue' = DueFor(played)
  /\ lastFrame' = displayFrame
  /\ UNCHANGED played

\* Without a new count the host's clock goes on alone.
Extrapolates ==
  /\ ClockAsked
  /\ displayFrame <= lastFrame
  /\ played' = played + Larger(0, now - lastCall)
  /\ clockDue' = DueFor(played + Larger(0, now - lastCall))
  /\ UNCHANGED <<offset, lastFrame>>

\* A wrong version: one slot too far is emptied.
PassedAndNext(old, new) ==
  IF new - old >= RingSize
  THEN [k \in Ring |-> Empty]
  ELSE [k \in Ring |-> IF slots[k] \in old .. new THEN Empty ELSE slots[k]]

\* advance: every slot the head passes is emptied.
Passed(old, new) ==
  IF new - old >= RingSize
  THEN [k \in Ring |-> Empty]
  ELSE [k \in Ring |-> IF slots[k] \in old .. new - 1 THEN Empty ELSE slots[k]]

AdvanceTo(newPhase) ==
  /\ phase' = newPhase
  /\ slots' = Passed(HeadIndex, Index(newPhase))
  /\ holes' = {i \in holes : i >= Index(newPhase)}

\* More is due than one send may carry: both clocks start again from here.
\* The estimate asked for once more is the same, so render never has to skip.
Reanchor ==
  /\ pc = "send"
  /\ clockDue - output > SendLimit
  /\ baseFrame' = displayFrame /\ lastFrame' = displayFrame
  /\ lastCall' = now
  /\ played' = output /\ offset' = 0 /\ clockDue' = output + Lead
  /\ AdvanceTo(Larger(phase, SampleAt(now) * Grain))
  /\ disturbed' = TRUE
  /\ UNCHANGED <<worldVars, deviceVars, pc, gateVars, epoch, output, placeVars, soundVars>>

NothingDue ==
  /\ pc = "send"
  /\ clockDue <= output
  /\ pc' = "out"
  /\ UNCHANGED <<worldVars, deviceVars, gateVars, clockVars, timelineVars, soundVars, disturbed>>

\* A wrong version: a timeline that is behind is slowed down.
CorrectionReversed(error) ==
  LET wanted == IF error >= 0 THEN -(error \div ServoTime) ELSE (-error) \div ServoTime
  IN  IF wanted > MaxCorrection THEN MaxCorrection ELSE Larger(-MaxCorrection, wanted)

\* The error is made up for in the time of the servo, and by no more than a thousandth.
Correction(error) ==
  LET wanted == IF error >= 0 THEN error \div ServoTime ELSE -((-error) \div ServoTime)
  IN  IF wanted > MaxCorrection THEN MaxCorrection ELSE Larger(-MaxCorrection, wanted)

\* The pace of a send: faster or slower as the timeline, after it, would be behind or ahead of
\* where it should be, unless the packets are old.
Step(due) ==
  LET fresh == lastPacketEnd # 0 /\ now - lastPacketEnd < FreshLimit
      error == (SampleAt(now) + Lead - (due - output)) * Grain - phase
  IN  Grain + IF fresh THEN Correction(error) ELSE 0

\* Between a sample's capture and the moment it is due lie, at worst, its packet and the next,
\* the field the estimate may be ahead by, and the lead.
DelayIsEnough ==
  Delay - Lead >=
    FieldFrames + PacketFrames + Tolerance + 2 * Slip + Deadband \div Grain + 1

\* A gap is no fault where a time stamp left a hole, nor after all that was captured when the
\* delay is too short.
Owed(index) == index \notin holes /\ (index < packetEnd \/ DelayIsEnough)

Holds(index) == slots[Slot(index)] = index

Render ==
  LET count == clockDue - output
      places == {Index(phase + k * Step(clockDue)) : k \in 0 .. count - 1}
  IN  /\ pc = "send"
      /\ 0 < count /\ count <= SendLimit
      /\ sounded' = {i \in places : Holds(i)}
      /\ silent' = {i \in places : ~Holds(i)}
      /\ heard' = (heard \/ sounded' # {})
      /\ gap' = (gap \/ \E i \in silent' :
                        Owed(i) /\ (heard \/ \E j \in sounded' : j < i))
      /\ AdvanceTo(phase + count * Step(clockDue))
      /\ output' = clockDue
      /\ pc' = "out"
      /\ UNCHANGED <<worldVars, deviceVars, gateVars, clockVars, epoch, placeVars, disturbed>>

World ==
  Elapse \/ ElapseBadPacket \/ ElapseMissedReport \/ CoreCountsAnew \/ Pause \/ LinkChanges

TickAudioCapture ==
  \/ TickBegins \/ DropPacket \/ RejectPacket \/ PlacePacket \/ Drained
  \/ CountsFields \/ ShiftsCount \/ Extrapolates
  \/ Reanchor \/ NothingDue \/ Render

Next == World \/ TickAudioCapture

Spec == Init /\ [][Next]_vars

-----------------------------------------------------------------------------
PacketType ==
  [position : Nat, timestamp : Int, valid : BOOLEAN, discontinuity : BOOLEAN]

TypeOK ==
  /\ now \in Nat /\ coreFrame \in Nat /\ displayFrame \in Nat
  /\ fieldPart \in 0 .. FieldFrames * Grain - 1
  /\ accepting \in BOOLEAN /\ session \in Nat
  /\ changes \in 0 .. MaxChanges /\ pausing \in BOOLEAN /\ glitches \in 0 .. MaxGlitches
  /\ devicePosition \in Nat /\ packetStart \in Nat /\ packets \in Seq(PacketType)
  /\ pc \in {"out", "drain", "clock", "send"}
  /\ audioActive \in BOOLEAN /\ audioSession \in Nat /\ lastDisplayFrame \in Nat
  /\ baseFrame \in Nat /\ lastFrame \in Nat /\ lastCall \in Nat
  /\ played \in Nat /\ offset \in Int /\ clockDue \in Nat
  /\ epoch \in Nat /\ phase \in Nat /\ output \in Nat
  /\ slots \in [Ring -> Nat \cup {Empty}]
  /\ expected \in Nat \cup {NoPosition} /\ packetEnd \in Int /\ lastPacketEnd \in Int
  /\ holes \in SUBSET Int /\ sounded \in SUBSET Nat /\ silent \in SUBSET Nat
  /\ heard \in BOOLEAN /\ gap \in BOOLEAN /\ disturbed \in BOOLEAN

\* A slot holds no place but those the ring can tell apart: at most its size
\* ahead of the head, each in its own slot, none that was passed.  Otherwise a
\* sample of some earlier round would be taken for a place to come
\* (AudioTimeline.h:136-151, 224-247).
SlotsInWindow ==
  \A k \in Ring : slots[k] # Empty =>
    /\ slots[k] \in HeadIndex .. HeadIndex + RingSize - 1
    /\ Slot(slots[k]) = k

\* The receiver is never sent more than its lead and one correction beyond what
\* it is thought to have played, however its count stalls, jumps or starts
\* again, and no send goes beyond what was due (AudioTimeline.h:28-58, 64-73,
\* AudioCapture.h:347-355).
ReceiverBufferBounded ==
  output <= clockDue /\ clockDue <= played + Lead + ReanchorLimit

\* After a tick the estimate rests on the count the tick was given: a core that
\* counts anew does not leave the host's clock alone until the new count has
\* overtaken the old one (AudioCapture.h:291-304, AudioTimeline.h:32).
ClockFollowsCount ==
  pc = "out" /\ audioActive => lastFrame = lastDisplayFrame

\* The head is where the host's clock says, but for the field the count may be behind and the
\* error that the servo does not outrun.
HeadOnTime ==
  LET ahead == phase - (SampleAt(lastCall) + Lead) * Grain
  IN  /\ ahead <= (FieldFrames + 1) * Grain + Deadband
      /\ -ahead <= (FieldFrames + 2) * Grain + Deadband

\* As long as nothing went wrong (a packet lost, late or without a time stamp, a field not
\* reported, a pause longer than a send), the head keeps to the host's clock although the
\* core's drifts, and sound that has begun has no gap but the holes a drifting device leaves:
\* all that was captured is heard, and with a delay that is enough there is always more
\* (AudioTimeline.h:32-57, 121-131, 154-200).
SoundUnbroken == ~disturbed => ~gap /\ (audioActive /\ pc = "out" => HeadOnTime)

Line == INSTANCE DelayLine WITH
  Length <- RingSize, head <- HeadIndex,
  line <- {slots[k] : k \in Ring} \ {Empty}

\* The ring plays what a line without end would play: what push put on a place,
\* render finds there, once, and nothing of an earlier round of the ring
\* (AudioTimeline.h:111-200, 224-247).
ImplementsDelayLine == Line!Spec
=============================================================================
