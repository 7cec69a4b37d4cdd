--------------------------- MODULE AudioTimelineProof ---------------------------
(***************************************************************************)
(* What the timeline and the receiver clock keep for every delay, ring,    *)
(* rate and drift: the slots are those of a window at the head, the ring   *)
(* plays what a line without end would, what is sent stays within a bound  *)
(* of what the receiver is thought to have played, and as long as nothing  *)
(* goes wrong but the clocks' own drift, sound that has begun has no gap.  *)
(***************************************************************************)
EXTENDS AudioTimeline, TLAPS

-----------------------------------------------------------------------------
(* Division.                                                               *)

LEMMA ProductIsNat ==
  ASSUME NEW a \in Nat, NEW b \in Nat
  PROVE  a * b \in Nat
OBVIOUS

LEMMA ProductIsPositive ==
  ASSUME NEW a \in Nat \ {0}, NEW b \in Nat \ {0}
  PROVE  a * b \in Nat \ {0}
<1>1. (a - 1) * (b - 1) \in Nat
  BY ProductIsNat
<1>2. a * b = (a - 1) * (b - 1) + a + b - 1
  OBVIOUS
<1> QED
  BY <1>1, <1>2

LEMMA ProductGrows ==
  ASSUME NEW a \in Nat, NEW b \in Nat, NEW c \in Nat, a <= b
  PROVE  a * c <= b * c
<1>1. (b - a) * c \in Nat
  BY ProductIsNat
<1>2. b * c = a * c + (b - a) * c
  OBVIOUS
<1>3. a * c \in Nat
  BY ProductIsNat
<1> QED
  BY <1>1, <1>2, <1>3

\* A multiple of n is less than another only for a smaller factor.
LEMMA SmallerFactor ==
  ASSUME NEW n \in Nat \ {0}, NEW a \in Int, NEW b \in Int, a * n < b * n
  PROVE  a < b
<1> SUFFICES ASSUME a >= b PROVE FALSE
  OBVIOUS
<1>1. (a - b) * n \in Nat
  BY ProductIsNat
<1>2. (a - b) * n = a * n - b * n /\ a * n \in Int /\ b * n \in Int
  OBVIOUS
<1> QED
  BY <1>1, <1>2

LEMMA DivisionIsNat ==
  ASSUME NEW a \in Nat, NEW n \in Nat \ {0}
  PROVE  /\ a = n * (a \div n) + (a % n)
         /\ a % n \in 0 .. n - 1
         /\ a \div n \in Nat
OBVIOUS

LEMMA DivisionGrows ==
  ASSUME NEW a \in Nat, NEW b \in Nat, a <= b, NEW n \in Nat \ {0}
  PROVE  a \div n <= b \div n
OBVIOUS

\* A multiple of n below n is none.
LEMMA SmallMultiple ==
  ASSUME NEW n \in Nat \ {0}, NEW k \in Int, n * k >= 0, n * k < n
  PROVE  k = 0
<1>1. CASE k >= 1
  <2>1. n * (k - 1) \in Nat
    BY <1>1, ProductIsNat
  <2>2. n * k = n * (k - 1) + n
    OBVIOUS
  <2> QED
    BY <2>1, <2>2
<1>2. CASE k <= -1
  <2> DEFINE j == -1 - k
  <2>1. j \in Nat /\ k = -1 - j
    BY <1>2
  <2>2. n * j \in Nat
    BY <2>1, ProductIsNat
  <2>3. n * k = -(n * j) - n
    <3> HIDE DEF j
    <3>1. n * (-1 - j) = -(n * j) - n
      BY <2>1
    <3> QED
      BY <2>1, <3>1
  <2> QED
    BY <2>2, <2>3
<1> QED
  BY <1>1, <1>2

\* Two places of one window share no slot.
LEMMA OneSlotOnePlace ==
  ASSUME NEW a \in Nat, NEW b \in Nat, NEW n \in Nat \ {0},
         a % n = b % n, a <= b, b < a + n
  PROVE  a = b
<1> DEFINE k == (b \div n) - (a \div n)
<1>1. a = n * (a \div n) + (a % n) /\ a \div n \in Nat /\ a % n \in 0 .. n - 1
  BY DivisionIsNat
<1>2. b = n * (b \div n) + (b % n) /\ b \div n \in Nat /\ b % n \in 0 .. n - 1
  BY DivisionIsNat
<1>3. a % n \in Int
  BY <1>1
<1>4. k \in Int /\ n * k = n * (b \div n) - n * (a \div n)
  BY <1>1, <1>2
<1>5. n * (b \div n) \in Int /\ n * (a \div n) \in Int
  BY <1>1, <1>2
<1>6. b - a = n * k
  <2> HIDE DEF k
  <2> QED
    BY <1>1, <1>2, <1>3, <1>4, <1>5
<1>7. k = 0
  <2> HIDE DEF k
  <2> QED
    BY <1>4, <1>6, SmallMultiple
<1>8. n * k = 0
  BY <1>7
<1> QED
  BY <1>6, <1>8

-----------------------------------------------------------------------------
(* The inductive invariant.                                                *)

\* What the count of fields said when it was last heard.
CountFloor == (lastFrame - baseFrame) * FieldFrames + offset

\* The estimate never falls below the last count, which itself never falls; so
\* what was once due stays within one correction of the estimate.
ClockInv ==
  /\ baseFrame <= lastFrame
  /\ 0 <= CountFloor /\ CountFloor <= played
  /\ output <= clockDue
  /\ clockDue <= Larger(played, CountFloor + ReanchorLimit) + Lead

IInv == TypeOK /\ ClockInv /\ SlotsInWindow

LEMMA InitIInv == Init => IInv
<1> SUFFICES ASSUME Init PROVE IInv
  OBVIOUS
<1> USE TimesAssumption, SizesAssumption
<1>1. slots \in [Ring -> Nat \cup {Empty}]
  BY DEF Init, Empty
<1>2. TypeOK
  <2>1. packets \in Seq(PacketType)
    BY DEF Init
  <2>2. sounded \in SUBSET Nat /\ silent \in SUBSET Nat
    BY DEF Init
  <2>3. /\ accepting \in BOOLEAN /\ pausing \in BOOLEAN /\ audioActive \in BOOLEAN
        /\ heard \in BOOLEAN /\ gap \in BOOLEAN /\ disturbed \in BOOLEAN
    BY DEF Init
  <2>4. /\ now \in Nat /\ coreFrame \in Nat /\ displayFrame \in Nat /\ session \in Nat
        /\ changes \in 0 .. MaxChanges /\ glitches \in 0 .. MaxGlitches
        /\ devicePosition \in Nat /\ audioSession \in Nat /\ lastDisplayFrame \in Nat
        /\ baseFrame \in Nat /\ lastFrame \in Nat /\ lastCall \in Nat
        /\ played \in Nat /\ offset \in Int /\ clockDue \in Nat
        /\ epoch \in Nat /\ phase \in Nat /\ output \in Nat
        /\ expected \in Nat \cup {NoPosition} /\ packetEnd \in Int /\ lastPacketEnd \in Int
        /\ packetStart \in Nat /\ holes \in SUBSET Int
    BY DEF Init, NoPosition
  <2>6. fieldPart \in 0 .. FieldFrames * Grain - 1
    <3>1. FieldFrames * Grain \in Nat \ {0}
      BY ProductIsPositive
    <3> QED
      BY <3>1 DEF Init
  <2>5. pc \in {"out", "drain", "clock", "send"}
    BY DEF Init
  <2> QED
    BY <1>1, <2>1, <2>2, <2>3, <2>4, <2>5, <2>6 DEF TypeOK
<1>3. ClockInv
  BY DEF Init, ClockInv, CountFloor, Larger
<1>4. SlotsInWindow
  BY DEF Init, SlotsInWindow, Ring, Empty
<1> QED
  BY <1>2, <1>3, <1>4 DEF IInv

\* What happens outside touches neither the clock nor the timeline.
LEMMA WorldKeeps ==
  ASSUME World
  PROVE  UNCHANGED <<pc, audioActive, audioSession, lastDisplayFrame, clockVars, timelineVars,
                     soundVars>>
BY DEF World, Elapse, ElapseBadPacket, ElapseMissedReport, CoreCountsAnew, Pause, LinkChanges,
       TimePasses, gateVars, clockVars, timelineVars, placeVars, soundVars

LEMMA DeliverType ==
  ASSUME TypeOK, NEW stamp \in Int, NEW valid \in BOOLEAN, NEW discontinuity \in BOOLEAN,
         Deliver(Packet(stamp, valid, discontinuity))
  PROVE  packets' \in Seq(PacketType) /\ devicePosition' \in Nat /\ packetStart' \in Nat
<1>1. Packet(stamp, valid, discontinuity) \in PacketType
  BY DEF TypeOK, Packet, PacketType
<1> QED
  BY <1>1, TimesAssumption DEF TypeOK, Deliver

\* The core's clock is slow, but it does not run backwards.
LEMMA DriftIsSmall == Drift \in Nat /\ Drift < Grain
<1>1. Drift * (FieldFrames + 1) = Drift * FieldFrames + Drift
  BY TimesAssumption
<1>2. Drift * FieldFrames \in Nat \ {0}
  BY ProductIsPositive, TimesAssumption
<1> QED
  BY <1>1, <1>2, TimesAssumption, PaceAssumption

LEMMA CoreType ==
  ASSUME TypeOK, CoreRuns
  PROVE  coreFrame' \in Nat /\ fieldPart' \in 0 .. FieldFrames * Grain - 1
<1> DEFINE field == FieldFrames * Grain
<1>1. PICK d \in -Drift .. Drift :
        /\ fieldPart' = (fieldPart + Grain + d) % field
        /\ coreFrame' = coreFrame + (fieldPart + Grain + d) \div field
  BY DEF CoreRuns
<1>2. field \in Nat \ {0}
  BY ProductIsPositive, TimesAssumption
<1>3. fieldPart + Grain + d \in Nat
  BY DriftIsSmall, TimesAssumption, <1>2 DEF TypeOK
<1> HIDE DEF field
<1>4. (fieldPart + Grain + d) % field \in 0 .. field - 1 /\ (fieldPart + Grain + d) \div field \in Nat
  BY <1>2, <1>3, DivisionIsNat
<1>5. coreFrame \in Nat
  BY DEF TypeOK
<1> QED
  BY <1>1, <1>4, <1>5 DEF field

LEMMA WorldType ==
  ASSUME TypeOK, World
  PROVE  TypeOK'
<1> USE TimesAssumption
<1>1. UNCHANGED <<pc, audioActive, audioSession, lastDisplayFrame, clockVars, timelineVars, soundVars>>
  BY WorldKeeps
<1>2. packets' \in Seq(PacketType) /\ devicePosition' \in Nat /\ packetStart' \in Nat
  <2>1. ASSUME GoodPacket
        PROVE  packets' \in Seq(PacketType) /\ devicePosition' \in Nat /\ packetStart' \in Nat
    <3>1. PICK e \in 0 .. Jitter : Deliver(Packet(packetStart + e, TRUE, FALSE))
      BY <2>1 DEF GoodPacket
    <3>2. packetStart + e \in Int
      BY DEF TypeOK
    <3> QED
      BY <3>1, <3>2, DeliverType
  <2>2. ASSUME BadPacket
        PROVE  packets' \in Seq(PacketType) /\ devicePosition' \in Nat /\ packetStart' \in Nat
    <3>1. packetStart \in Int /\ packetStart + LongestHole + 1 \in Int
      BY DEF TypeOK, LongestHole
    <3>2. CASE /\ devicePosition' = devicePosition + PacketFrames
               /\ packetStart' = now + 1
               /\ UNCHANGED packets
      BY <3>2 DEF TypeOK
    <3>3. CASE Deliver(Packet(0, FALSE, FALSE))
      <4>1. 0 \in Int /\ TRUE \in BOOLEAN /\ FALSE \in BOOLEAN
        OBVIOUS
      <4> QED
        BY ONLY <3>3, <4>1, DeliverType, TypeOK
    <3>4. CASE Deliver(Packet(packetStart + LongestHole + 1, TRUE, FALSE))
      BY <3>1, <3>4, DeliverType
    <3>5. CASE Deliver(Packet(packetStart, TRUE, TRUE))
      BY <3>1, <3>5, DeliverType
    <3> QED
      BY <2>2, <3>2, <3>3, <3>4, <3>5 DEF BadPacket
  <2>3. ASSUME UNCHANGED deviceVars
        PROVE  packets' \in Seq(PacketType) /\ devicePosition' \in Nat /\ packetStart' \in Nat
    BY <2>3 DEF TypeOK, deviceVars
  <2> QED
    BY <2>1, <2>2, <2>3 DEF World, Elapse, ElapseBadPacket, ElapseMissedReport,
                            CoreCountsAnew, Pause, LinkChanges, DeviceRuns
<1>3. /\ now' \in Nat /\ coreFrame' \in Nat /\ displayFrame' \in Nat
      /\ fieldPart' \in 0 .. FieldFrames * Grain - 1
      /\ accepting' \in BOOLEAN /\ session' \in Nat
      /\ changes' \in 0 .. MaxChanges /\ pausing' \in BOOLEAN /\ glitches' \in 0 .. MaxGlitches
      /\ disturbed' \in BOOLEAN
  <2>2. CASE Elapse \/ ElapseBadPacket \/ ElapseMissedReport
    <3>1. TimePasses
      BY <2>2 DEF Elapse, ElapseBadPacket, ElapseMissedReport
    <3>2. now' \in Nat /\ accepting' = accepting /\ session' = session /\ changes' = changes
          /\ pausing' = pausing
      BY <3>1 DEF TimePasses, TypeOK
    <3>3. coreFrame' \in Nat /\ fieldPart' \in 0 .. FieldFrames * Grain - 1
      BY <2>2, CoreType DEF Elapse, ElapseBadPacket, ElapseMissedReport
    <3>7. displayFrame' \in Nat
      BY <2>2, <3>3 DEF Elapse, ElapseBadPacket, ElapseMissedReport, Report, TypeOK
    <3>4. NoGlitch \/ Glitch
      BY <2>2 DEF Elapse, ElapseBadPacket, ElapseMissedReport
    <3>5. glitches' \in 0 .. MaxGlitches
      BY <3>4 DEF NoGlitch, Glitch, TypeOK
    <3>6. disturbed' \in BOOLEAN
      BY <3>4 DEF NoGlitch, Glitch, TypeOK
    <3> QED
      BY <3>2, <3>3, <3>5, <3>6, <3>7 DEF TypeOK
  <2>3. CASE CoreCountsAnew
    BY <2>3 DEF CoreCountsAnew, Glitch, TypeOK
  <2>4. CASE Pause
    BY <2>4 DEF Pause, Glitch, TypeOK, coreVars
  <2>5. CASE LinkChanges
    BY <2>5 DEF LinkChanges, TypeOK, coreVars
  <2> QED
    BY <2>2, <2>3, <2>4, <2>5 DEF World
<1> QED
  BY <1>1, <1>2, <1>3 DEF TypeOK, clockVars, timelineVars, placeVars, soundVars

-----------------------------------------------------------------------------
(* The ring.                                                               *)

OnLine == {slots[k] : k \in Ring} \ {Empty}

LEMMA HeadIsNat ==
  ASSUME TypeOK
  PROVE  HeadIndex \in Nat
BY DivisionIsNat, TimesAssumption DEF TypeOK, HeadIndex, Index

\* The head takes with it what it passes, and nothing else.
LEMMA AdvanceKeepsWindow ==
  ASSUME TypeOK, SlotsInWindow, NEW p \in Nat, phase <= p, AdvanceTo(p)
  PROVE  /\ phase' \in Nat
         /\ slots' \in [Ring -> Nat \cup {Empty}]
         /\ SlotsInWindow'
         /\ holes' \in SUBSET Int
         /\ HeadIndex <= HeadIndex'
         /\ OnLine' = {i \in OnLine : i >= HeadIndex'}
<1> DEFINE old == HeadIndex
           new == Index(p)
<1>1. phase' = p /\ HeadIndex' = new
  BY DEF AdvanceTo, HeadIndex, Index
<1>2. old \in Nat /\ new \in Nat /\ old <= new
  BY HeadIsNat, DivisionIsNat, DivisionGrows, TimesAssumption DEF TypeOK, HeadIndex, Index
<1>3. \A k \in Ring : slots[k] # Empty =>
        slots[k] \in old .. old + RingSize - 1 /\ Slot(slots[k]) = k
  BY DEF SlotsInWindow
<1>4. slots \in [Ring -> Nat \cup {Empty}]
  BY DEF TypeOK
<1>5. slots' = Passed(old, new)
  BY DEF AdvanceTo
<1> HIDE DEF old, new
<1>6. \A k \in Ring : slots'[k] = IF slots[k] # Empty /\ slots[k] >= new THEN slots[k] ELSE Empty
  <2>1. CASE new - old >= RingSize
    BY <1>2, <1>3, <1>4, <1>5, <2>1, SizesAssumption DEF Passed, Empty
  <2>2. CASE ~(new - old >= RingSize)
    BY <1>2, <1>3, <1>4, <1>5, <2>2 DEF Passed, Empty
  <2> QED
    BY <2>1, <2>2
<1>7. slots' \in [Ring -> Nat \cup {Empty}]
  BY <1>4, <1>5 DEF Passed
<1>8. SlotsInWindow'
  BY <1>1, <1>2, <1>3, <1>4, <1>6, SizesAssumption DEF SlotsInWindow, Empty, Slot
<1>9. OnLine' = {i \in OnLine : i >= HeadIndex'}
  <2>1. OnLine = {i \in Nat : \E k \in Ring : slots[k] = i}
    BY <1>4 DEF OnLine, Empty
  <2>2. OnLine' = {i \in Nat : \E k \in Ring : slots'[k] = i}
    BY <1>7 DEF OnLine, Empty
  <2> QED
    BY <1>1, <1>2, <1>4, <1>6, <2>1, <2>2 DEF Empty
<1>10. HeadIndex <= HeadIndex' /\ phase' \in Nat
  BY <1>1, <1>2 DEF old
<1>11. holes' \in SUBSET Int
  BY DEF AdvanceTo, TypeOK
<1> QED
  BY <1>7, <1>8, <1>9, <1>10, <1>11

\* A packet comes on the line beside what is there: a slot is written only with
\* the one place of the window that it is for.
LEMMA PlaceKeepsWindow ==
  ASSUME TypeOK, SlotsInWindow, PlacePacket
  PROVE  /\ slots' \in [Ring -> Nat \cup {Empty}]
         /\ SlotsInWindow'
         /\ OnLine \subseteq OnLine'
         /\ \A i \in OnLine' \ OnLine : HeadIndex <= i /\ i < HeadIndex + RingSize
<1> DEFINE packet == Head(packets)
           stamped == SampleAt(packet.timestamp) + Delay
           start == IF Follows(packet, stamped) THEN packetEnd ELSE stamped
           places == {i \in start .. start + PacketFrames - 1 : Fits(i)}
<1>1. packet \in PacketType
  BY DEF TypeOK, PlacePacket, Fetch
<1>2. start \in Int
  BY <1>1, TimesAssumption DEF TypeOK, PacketType, SampleAt
<1>3. slots' = [k \in Ring |-> IF \E i \in places : Slot(i) = k
                               THEN CHOOSE i \in places : Slot(i) = k
                               ELSE slots[k]]
  BY DEF PlacePacket
<1>4. HeadIndex \in Nat /\ HeadIndex' = HeadIndex
  BY HeadIsNat DEF PlacePacket, Fetch, HeadIndex
<1>5. \A i \in places : i \in Nat /\ HeadIndex <= i /\ i < HeadIndex + RingSize
  <2> HIDE DEF start
  <2> QED
    BY <1>2, <1>4, SizesAssumption, TimesAssumption DEF Fits
<1>6. slots \in [Ring -> Nat \cup {Empty}]
  BY DEF TypeOK
<1>7. \A k \in Ring : slots[k] # Empty =>
        slots[k] \in HeadIndex .. HeadIndex + RingSize - 1 /\ Slot(slots[k]) = k
  BY DEF SlotsInWindow
<1> HIDE DEF packet, stamped, start, places
<1>8. ASSUME NEW k \in Ring
      PROVE  \/ slots'[k] = slots[k]
             \/ slots'[k] \in places /\ Slot(slots'[k]) = k /\ slots[k] \in {Empty, slots'[k]}
  <2>1. CASE \E i \in places : Slot(i) = k
    <3>1. slots'[k] \in places /\ Slot(slots'[k]) = k
      BY <1>3, <2>1
    <3>2. CASE slots[k] # Empty
      <4>1. slots[k] \in Nat /\ slots[k] >= HeadIndex /\ slots[k] < HeadIndex + RingSize
            /\ slots[k] % RingSize = slots'[k] % RingSize
        BY <1>4, <1>6, <1>7, <3>1, <3>2, SizesAssumption DEF Slot
      <4>2. slots'[k] \in Nat /\ slots'[k] >= HeadIndex /\ slots'[k] < HeadIndex + RingSize
        BY <1>5, <3>1
      <4>3. slots[k] = slots'[k]
        <5>1. CASE slots[k] <= slots'[k]
          <6>1. slots'[k] < slots[k] + RingSize
            BY <1>4, <4>1, <4>2, SizesAssumption
          <6> QED
            BY <4>1, <4>2, <5>1, <6>1, OneSlotOnePlace, SizesAssumption
        <5>2. CASE slots'[k] <= slots[k]
          <6>1. slots[k] < slots'[k] + RingSize
            BY <1>4, <4>1, <4>2, SizesAssumption
          <6> QED
            BY <4>1, <4>2, <5>2, <6>1, OneSlotOnePlace, SizesAssumption
        <5> QED
          BY <4>1, <4>2, <5>1, <5>2
      <4> QED
        BY <3>1, <4>3
    <3> QED
      BY <3>1, <3>2
  <2>2. CASE ~ \E i \in places : Slot(i) = k
    BY <1>3, <2>2
  <2> QED
    BY <2>1, <2>2
<1>9. slots' \in [Ring -> Nat \cup {Empty}]
  <2>1. \A k \in Ring : slots'[k] \in Nat \cup {Empty}
    BY <1>5, <1>6, <1>8
  <2> QED
    BY <1>3, <2>1
<1>10. SlotsInWindow'
  <2>1. ASSUME NEW k \in Ring, slots'[k] # Empty
        PROVE  slots'[k] \in HeadIndex .. HeadIndex + RingSize - 1 /\ Slot(slots'[k]) = k
    BY <1>4, <1>5, <1>7, <1>8, <2>1, SizesAssumption
  <2> QED
    BY <1>4, <2>1 DEF SlotsInWindow, Slot
<1>11. OnLine \subseteq OnLine'
  BY <1>8 DEF OnLine
<1>12. \A i \in OnLine' \ OnLine : HeadIndex <= i /\ i < HeadIndex + RingSize
  BY <1>5, <1>8 DEF OnLine
<1> QED
  BY <1>9, <1>10, <1>11, <1>12

-----------------------------------------------------------------------------
(* The clock.                                                              *)

\* What the fields counted since say is the floor and the fields that are new.
LEMMA ObservedIsFloor ==
  ASSUME TypeOK, ClockInv
  PROVE  /\ Observed \in Int /\ CountFloor \in Int
         /\ displayFrame >= lastFrame => CountFloor <= Observed
<1> USE TimesAssumption
<1>1. (displayFrame - baseFrame) * FieldFrames \in Int /\ (lastFrame - baseFrame) * FieldFrames \in Int
  BY DEF TypeOK
<1>2. ASSUME displayFrame >= lastFrame
      PROVE  (lastFrame - baseFrame) * FieldFrames <= (displayFrame - baseFrame) * FieldFrames
  BY <1>2, ProductGrows DEF TypeOK, ClockInv
<1> QED
  BY <1>1, <1>2 DEF TypeOK, Observed, CountFloor

LEMMA ClockKept ==
  ASSUME TypeOK, ClockInv, CountsFields \/ ShiftsCount \/ Extrapolates
  PROVE  /\ played' \in Nat /\ offset' \in Int /\ clockDue' \in Nat
         /\ lastFrame' \in Nat /\ lastCall' \in Nat
         /\ ClockInv'
<1> USE TimesAssumption
<1> DEFINE floor == CountFloor
           seen == Observed
           counted == (displayFrame - baseFrame) * FieldFrames
<1>1. /\ seen \in Int /\ floor \in Int
      /\ displayFrame >= lastFrame => floor <= seen
  BY ObservedIsFloor
<1>2. /\ 0 <= floor /\ floor <= played /\ output <= clockDue
      /\ clockDue <= Larger(played, floor + ReanchorLimit) + Lead
      /\ baseFrame <= lastFrame
  BY DEF ClockInv
<1>3. /\ baseFrame' = baseFrame /\ output' = output /\ lastCall' = now
      /\ FieldFrames \in Nat
  BY DEF CountsFields, ShiftsCount, Extrapolates, ClockAsked, timelineVars
<1>4. seen = counted + offset /\ counted \in Int
  BY DEF Observed, TypeOK
<1>5. lastFrame' = displayFrame => CountFloor' = counted + offset'
  BY <1>3 DEF CountFloor
<1>6. lastFrame' = lastFrame /\ offset' = offset => CountFloor' = floor
  BY <1>3 DEF CountFloor
<1>7. played \in Nat /\ offset \in Int /\ clockDue \in Nat /\ output \in Nat /\ now \in Nat
      /\ displayFrame \in Nat /\ lastFrame \in Nat /\ lastCall \in Nat /\ baseFrame \in Nat
  BY DEF TypeOK
<1> HIDE DEF floor, seen, counted
<1>8. CASE CountsFields
  <2>1. /\ displayFrame > lastFrame /\ Distance(seen, played) <= ReanchorLimit
        /\ played' = seen /\ clockDue' = Larger(clockDue, seen + Lead)
        /\ lastFrame' = displayFrame /\ offset' = offset
    BY <1>1, <1>7, <1>8 DEF CountsFields, TooFar, DueFor, Distance, seen
  <2>2. CountFloor' = seen
    BY <1>4, <1>5, <2>1
  <2> QED
    BY <1>1, <1>2, <1>3, <1>7, <2>1, <2>2 DEF ClockInv, Larger, Distance
<1>9. CASE ShiftsCount
  <2>1. /\ displayFrame > lastFrame
        /\ played' = played /\ clockDue' = Larger(clockDue, played + Lead)
        /\ lastFrame' = displayFrame /\ offset' = offset + played - seen
    BY <1>9 DEF ShiftsCount, DueFor, seen
  <2>2. CountFloor' = played
    BY <1>4, <1>5, <1>7, <2>1
  <2> QED
    BY <1>1, <1>2, <1>3, <1>7, <2>1, <2>2 DEF ClockInv, Larger
<1>10. CASE Extrapolates
  <2>1. /\ played' = played + Larger(0, now - lastCall)
        /\ clockDue' = Larger(clockDue, played + Larger(0, now - lastCall) + Lead)
        /\ lastFrame' = lastFrame /\ offset' = offset
    BY <1>10 DEF Extrapolates, DueFor
  <2>2. CountFloor' = floor
    BY <1>6, <2>1
  <2> QED
    BY <1>1, <1>2, <1>3, <1>7, <2>1, <2>2 DEF ClockInv, Larger
<1> QED
  BY <1>8, <1>9, <1>10

-----------------------------------------------------------------------------
(* A send.                                                                 *)

\* A correction is less than a sample.
LEMMA CorrectionIsSmall ==
  ASSUME NEW error \in Int
  PROVE  Correction(error) \in -MaxCorrection .. MaxCorrection
<1> USE TimesAssumption
<1> DEFINE wanted == IF error >= 0 THEN error \div ServoTime ELSE -((-error) \div ServoTime)
<1>1. wanted \in Int
  <2>1. CASE error >= 0
    BY <2>1, DivisionIsNat
  <2>2. CASE error < 0
    <3>1. -error \in Nat
      BY <2>2
    <3>2. (-error) \div ServoTime \in Nat
      BY <3>1, DivisionIsNat
    <3> QED
      BY <2>2, <3>2
  <2> QED
    BY <2>1, <2>2
<1>2. Correction(error) = IF wanted > MaxCorrection THEN MaxCorrection
                          ELSE Larger(-MaxCorrection, wanted)
  BY DEF Correction
<1> HIDE DEF wanted
<1> QED
  BY <1>1, <1>2 DEF Larger

LEMMA StepIsNat ==
  ASSUME TypeOK, NEW due \in Nat
  PROVE  Step(due) \in Nat
<1> DEFINE error == (SampleAt(now) + Lead - (due - output)) * Grain - phase
           fresh == lastPacketEnd # 0 /\ now - lastPacketEnd < FreshLimit
<1>1. error \in Int
  BY TimesAssumption DEF SampleAt, TypeOK
<1>2. Step(due) = Grain + IF fresh THEN Correction(error) ELSE 0
  BY DEF Step
<1> HIDE DEF error, fresh
<1>3. Correction(error) \in -MaxCorrection .. MaxCorrection
  BY <1>1, CorrectionIsSmall
<1> QED
  BY <1>2, <1>3, TimesAssumption, SizesAssumption

\* The places a send plays lie between the head before it and the head after it.
LEMMA PlacesPlayed ==
  ASSUME TypeOK, Render
  PROVE  LET count == clockDue - output
             new == phase + count * Step(clockDue)
         IN  /\ count \in Nat /\ new \in Nat /\ phase <= new /\ AdvanceTo(new)
             /\ sounded' \cup silent' \subseteq HeadIndex .. Index(new)
             /\ sounded' \cup silent' \subseteq Nat
             /\ \A i \in sounded' : Holds(i)
             /\ \A i \in silent' : ~Holds(i)
<1> DEFINE count == clockDue - output
           step == Step(clockDue)
           new == phase + count * step
           places == {Index(phase + k * step) : k \in 0 .. count - 1}
<1>1. count \in Nat /\ step \in Nat /\ phase \in Nat
  BY StepIsNat DEF Render, TypeOK
<1>2. /\ AdvanceTo(new)
      /\ sounded' = {i \in places : Holds(i)}
      /\ silent' = {i \in places : ~Holds(i)}
  BY DEF Render
<1> HIDE DEF count, step
<1>3. count * step \in Nat /\ new \in Nat /\ phase <= new
  <2>1. count * step \in Nat
    BY <1>1, ProductIsNat
  <2> QED
    BY <1>1, <2>1
<1>4. \A i \in places : i \in Nat /\ i \in HeadIndex .. Index(new)
  <2> SUFFICES ASSUME NEW k \in 0 .. count - 1
               PROVE  LET i == Index(phase + k * step)
                      IN  i \in Nat /\ i \in HeadIndex .. Index(new)
    OBVIOUS
  <2>1. k \in Nat /\ k <= count
    BY <1>1
  <2>2. k * step \in Nat /\ k * step <= count * step
    BY <1>1, <2>1, ProductIsNat, ProductGrows
  <2>3. phase + k * step \in Nat /\ phase <= phase + k * step /\ phase + k * step <= new
    BY <1>1, <1>3, <2>2
  <2> DEFINE at == phase + k * step
  <2>4. at \in Nat /\ phase <= at /\ at <= new
    BY <2>3
  <2> HIDE DEF at, new
  <2>5. Index(at) \in Nat /\ Index(phase) \in Nat /\ Index(new) \in Nat
        /\ Index(phase) <= Index(at) /\ Index(at) <= Index(new)
    BY <1>1, <1>3, <2>4, DivisionIsNat, DivisionGrows, TimesAssumption DEF Index
  <2>6. Index(at) \in Nat /\ Index(at) \in HeadIndex .. Index(new)
    BY <2>5 DEF HeadIndex
  <2> QED
    BY <2>6 DEF at
<1> HIDE DEF places, new
<1>5. /\ count \in Nat /\ new \in Nat /\ phase <= new /\ AdvanceTo(new)
      /\ sounded' \cup silent' \subseteq HeadIndex .. Index(new)
      /\ sounded' \cup silent' \subseteq Nat
      /\ \A i \in sounded' : Holds(i)
      /\ \A i \in silent' : ~Holds(i)
  BY <1>1, <1>2, <1>3, <1>4
<1> QED
  BY <1>5 DEF count, step, new

-----------------------------------------------------------------------------
(* Every step keeps the invariant.                                         *)

LEMMA WorldKeepsIInv ==
  ASSUME IInv, World
  PROVE  IInv'
<1>1. TypeOK'
  BY WorldType DEF IInv
<1>2. UNCHANGED <<clockVars, timelineVars>>
  BY WorldKeeps
<1>3. ClockInv' /\ SlotsInWindow'
  BY <1>2 DEF IInv, ClockInv, CountFloor, SlotsInWindow, HeadIndex, clockVars, timelineVars
<1> QED
  BY <1>1, <1>3 DEF IInv

LEMMA TickBeginsKeepsIInv ==
  ASSUME IInv, TickBegins
  PROVE  IInv'
<1> USE TimesAssumption, SizesAssumption
<1>1. /\ pc' = "drain" /\ audioActive' = accepting /\ lastDisplayFrame' = displayFrame
      /\ sounded' = {} /\ silent' = {} /\ pausing' = FALSE
      /\ UNCHANGED <<now, coreFrame, fieldPart, displayFrame, accepting, session, changes, glitches,
                     devicePosition, packetStart, packets, disturbed>>
  BY DEF TickBegins, deviceVars, coreVars
<1>2. CASE StartTimeline /\ StartClock /\ audioSession' = session
  <2>1. slots' = [k \in Ring |-> Empty] /\ slots' \in [Ring -> Nat \cup {Empty}]
    BY <1>2 DEF StartTimeline
  <2>2. /\ accepting' \in BOOLEAN /\ pausing' \in BOOLEAN /\ audioActive' \in BOOLEAN
        /\ heard' \in BOOLEAN /\ gap' \in BOOLEAN /\ disturbed' \in BOOLEAN
    BY <1>1, <1>2 DEF IInv, TypeOK, StartTimeline
  <2>3. /\ now' \in Nat /\ coreFrame' \in Nat /\ displayFrame' \in Nat /\ session' \in Nat
        /\ fieldPart' \in 0 .. FieldFrames * Grain - 1 /\ packetStart' \in Nat
        /\ changes' \in 0 .. MaxChanges /\ glitches' \in 0 .. MaxGlitches
        /\ devicePosition' \in Nat /\ packets' \in Seq(PacketType)
        /\ pc' \in {"out", "drain", "clock", "send"}
        /\ audioSession' \in Nat /\ lastDisplayFrame' \in Nat
        /\ sounded' \in SUBSET Nat /\ silent' \in SUBSET Nat
    BY <1>1, <1>2 DEF IInv, TypeOK
  <2>4. /\ baseFrame' \in Nat /\ lastFrame' \in Nat /\ lastCall' \in Nat
        /\ played' \in Nat /\ offset' \in Int /\ clockDue' \in Nat
        /\ epoch' \in Nat /\ phase' \in Nat /\ output' \in Nat
        /\ expected' \in Nat \cup {NoPosition} /\ packetEnd' \in Int /\ lastPacketEnd' \in Int
        /\ holes' \in SUBSET Int
    BY <1>2 DEF IInv, TypeOK, StartTimeline, StartClock
  <2>5. TypeOK'
    BY <2>1, <2>2, <2>3, <2>4 DEF TypeOK
  <2>6. ClockInv'
    BY <1>2 DEF IInv, TypeOK, ClockInv, CountFloor, StartTimeline, StartClock, Larger
  <2>7. SlotsInWindow'
    BY <2>1 DEF SlotsInWindow
  <2> QED
    BY <2>5, <2>6, <2>7 DEF IInv
<1>3. CASE UNCHANGED <<timelineVars, heard, gap, clockVars, audioSession>>
  <2>1. TypeOK'
    BY <1>1, <1>3 DEF IInv, TypeOK, timelineVars, placeVars, clockVars
  <2>2. ClockInv' /\ SlotsInWindow'
    BY <1>3 DEF IInv, ClockInv, CountFloor, SlotsInWindow, HeadIndex, clockVars, timelineVars
  <2> QED
    BY <2>1, <2>2 DEF IInv
<1> QED
  BY <1>2, <1>3 DEF TickBegins

LEMMA FetchKeepsIInv ==
  ASSUME IInv, Fetch,
         expected' \in Nat \cup {NoPosition}, packetEnd' \in Int, lastPacketEnd' \in Int,
         holes' \in SUBSET Int, slots' \in [Ring -> Nat \cup {Empty}], SlotsInWindow'
  PROVE  IInv'
<1>1. packets' \in Seq(PacketType)
  BY DEF IInv, TypeOK, Fetch
<1>2. TypeOK'
  BY <1>1 DEF IInv, TypeOK, Fetch, worldVars, coreVars, gateVars, clockVars, soundVars
<1>3. ClockInv'
  BY DEF IInv, ClockInv, CountFloor, Fetch, clockVars
<1> QED
  BY <1>2, <1>3 DEF IInv

LEMMA PushKeepsIInv ==
  ASSUME IInv, DropPacket \/ RejectPacket \/ PlacePacket
  PROVE  IInv'
<1>1. Fetch
  BY DEF DropPacket, RejectPacket, PlacePacket
<1>2. CASE DropPacket \/ RejectPacket
  <2>1. slots' = slots /\ HeadIndex' = HeadIndex
    BY <1>1, <1>2 DEF DropPacket, RejectPacket, Fetch, HeadIndex
  <2>2. SlotsInWindow'
    BY <2>1 DEF IInv, SlotsInWindow
  <2>3. expected' \in Nat \cup {NoPosition} /\ packetEnd' \in Int /\ lastPacketEnd' \in Int
    BY <1>2 DEF DropPacket, RejectPacket, IInv, TypeOK, placeVars
  <2>4. slots' \in [Ring -> Nat \cup {Empty}] /\ holes' \in SUBSET Int
    BY <1>2, <2>1 DEF DropPacket, RejectPacket, IInv, TypeOK, placeVars
  <2> QED
    BY <1>1, <2>2, <2>3, <2>4, FetchKeepsIInv
<1>3. CASE PlacePacket
  <2>1. slots' \in [Ring -> Nat \cup {Empty}] /\ SlotsInWindow'
    BY <1>3, PlaceKeepsWindow DEF IInv
  <2>2. Head(packets) \in PacketType
    BY <1>1 DEF Fetch, IInv, TypeOK
  <2>3. expected' \in Nat /\ packetEnd' \in Int /\ lastPacketEnd' \in Int
    <3> DEFINE p == Head(packets)
    <3>1. p.position \in Nat /\ p.timestamp \in Int
      BY <2>2 DEF PacketType
    <3>2. epoch \in Nat /\ packetEnd \in Int
      BY DEF IInv, TypeOK
    <3>3. PacketFrames \in Nat /\ Delay \in Nat
      BY TimesAssumption
    <3>4. /\ expected' = p.position + PacketFrames
          /\ packetEnd' = (IF Follows(p, SampleAt(p.timestamp) + Delay) THEN packetEnd
                           ELSE SampleAt(p.timestamp) + Delay) + PacketFrames
          /\ lastPacketEnd' = p.timestamp + PacketFrames
      BY <1>3 DEF PlacePacket
    <3> HIDE DEF p
    <3> QED
      BY <3>1, <3>2, <3>3, <3>4 DEF SampleAt
  <2>4. holes' \in SUBSET Int
    <3> DEFINE stamped == SampleAt(Head(packets).timestamp) + Delay
               start == IF Follows(Head(packets), stamped) THEN packetEnd ELSE stamped
    <3>1. holes' = holes \cup LeftFree(start)
      BY <1>3 DEF PlacePacket
    <3>2. packetEnd \in Int /\ start \in Int /\ holes \in SUBSET Int
      BY <2>2, TimesAssumption DEF PacketType, SampleAt, IInv, TypeOK
    <3> HIDE DEF start
    <3> QED
      BY <3>1, <3>2 DEF LeftFree
  <2> QED
    BY <1>1, <2>1, <2>3, <2>4, FetchKeepsIInv
<1> QED
  BY <1>2, <1>3

LEMMA ClockKeepsIInv ==
  ASSUME IInv, CountsFields \/ ShiftsCount \/ Extrapolates
  PROVE  IInv'
<1>1. /\ played' \in Nat /\ offset' \in Int /\ clockDue' \in Nat
      /\ lastFrame' \in Nat /\ lastCall' \in Nat /\ ClockInv'
  BY ClockKept DEF IInv
<1>2. ClockAsked
  BY DEF CountsFields, ShiftsCount, Extrapolates
<1>3. TypeOK'
  BY <1>1, <1>2 DEF ClockAsked, IInv, TypeOK, worldVars, coreVars, deviceVars, gateVars,
                    timelineVars, placeVars, soundVars
<1>4. SlotsInWindow'
  BY <1>2 DEF ClockAsked, IInv, SlotsInWindow, HeadIndex, timelineVars
<1> QED
  BY <1>1, <1>3, <1>4 DEF IInv

LEMMA ReanchorAdvances ==
  ASSUME TypeOK, Reanchor
  PROVE  \E p \in Nat : phase <= p /\ AdvanceTo(p)
<1> DEFINE target == SampleAt(now) * Grain
<1>1. target \in Int /\ phase \in Nat
  BY TimesAssumption DEF TypeOK, SampleAt
<1>2. AdvanceTo(Larger(phase, target))
  BY DEF Reanchor
<1> HIDE DEF target
<1>3. Larger(phase, target) \in Nat /\ phase <= Larger(phase, target)
  BY <1>1 DEF Larger
<1> QED
  BY <1>2, <1>3

LEMMA ReanchorKeepsIInv ==
  ASSUME IInv, Reanchor
  PROVE  IInv'
<1> USE TimesAssumption
<1>1. phase' \in Nat /\ slots' \in [Ring -> Nat \cup {Empty}] /\ SlotsInWindow'
      /\ holes' \in SUBSET Int
  BY ReanchorAdvances, AdvanceKeepsWindow DEF IInv
<1>2. TypeOK'
  BY <1>1 DEF Reanchor, IInv, TypeOK, worldVars, coreVars, deviceVars, gateVars, placeVars, soundVars
<1>3. ClockInv'
  BY DEF Reanchor, IInv, TypeOK, ClockInv, CountFloor, Larger
<1> QED
  BY <1>1, <1>2, <1>3 DEF IInv

LEMMA RenderKeepsIInv ==
  ASSUME IInv, Render
  PROVE  IInv'
<1> DEFINE new == phase + (clockDue - output) * Step(clockDue)
<1>1. /\ new \in Nat /\ phase <= new /\ AdvanceTo(new)
      /\ sounded' \cup silent' \subseteq Nat
  BY PlacesPlayed DEF IInv
<1> HIDE DEF new
<1>2. phase' \in Nat /\ slots' \in [Ring -> Nat \cup {Empty}] /\ SlotsInWindow'
      /\ holes' \in SUBSET Int
  BY <1>1, AdvanceKeepsWindow DEF IInv
<1>3. /\ output' = clockDue /\ pc' = "out"
      /\ heard' = (heard \/ sounded' # {})
      /\ gap' = (gap \/ \E i \in silent' : Owed(i) /\ (heard \/ \E j \in sounded' : j < i))
      /\ UNCHANGED <<worldVars, deviceVars, gateVars, clockVars, epoch, placeVars, disturbed>>
  BY DEF Render
<1>4. heard' \in BOOLEAN /\ gap' \in BOOLEAN
  BY <1>3 DEF IInv, TypeOK
<1>5. TypeOK'
  BY <1>1, <1>2, <1>3, <1>4 DEF IInv, TypeOK, worldVars, coreVars, deviceVars, gateVars, clockVars,
                                 placeVars
<1>6. ClockInv'
  BY <1>3 DEF IInv, TypeOK, ClockInv, CountFloor, clockVars
<1> QED
  BY <1>2, <1>5, <1>6 DEF IInv

LEMMA NextKeepsIInv ==
  ASSUME IInv, [Next]_vars
  PROVE  IInv'
<1>1. CASE World
  BY <1>1, WorldKeepsIInv
<1>2. CASE TickBegins
  BY <1>2, TickBeginsKeepsIInv
<1>3. CASE DropPacket \/ RejectPacket \/ PlacePacket
  BY <1>3, PushKeepsIInv
<1>4. CASE CountsFields \/ ShiftsCount \/ Extrapolates
  BY <1>4, ClockKeepsIInv
<1>5. CASE Reanchor
  BY <1>5, ReanchorKeepsIInv
<1>6. CASE Render
  BY <1>6, RenderKeepsIInv
<1>7. CASE Drained \/ NothingDue \/ UNCHANGED vars
  <2>1. UNCHANGED <<worldVars, deviceVars, gateVars, clockVars, timelineVars, soundVars, disturbed>>
    BY <1>7 DEF Drained, NothingDue, vars
  <2>2. pc' \in {"out", "drain", "clock", "send"}
    BY <1>7 DEF Drained, NothingDue, vars, IInv, TypeOK
  <2>3. TypeOK'
    BY <2>1, <2>2 DEF IInv, TypeOK, worldVars, coreVars, deviceVars, gateVars, clockVars,
                      timelineVars, placeVars, soundVars
  <2>4. ClockInv' /\ SlotsInWindow'
    BY <2>1 DEF IInv, ClockInv, CountFloor, SlotsInWindow, HeadIndex, clockVars, timelineVars
  <2> QED
    BY <2>3, <2>4 DEF IInv
<1> QED
  BY <1>1, <1>2, <1>3, <1>4, <1>5, <1>6, <1>7 DEF Next, TickAudioCapture

LEMMA InvariantHolds == Spec => []IInv
<1>1. Init => IInv
  BY InitIInv
<1>2. IInv /\ [Next]_vars => IInv'
  BY NextKeepsIInv
<1> QED
  BY <1>1, <1>2, PTL DEF Spec

-----------------------------------------------------------------------------
(* The results.                                                            *)

\* The clock, the ring and the packets keep their types, at every pace of the three clocks.
THEOREM TimelineTypeCorrect == Spec => []TypeOK
<1>1. IInv => TypeOK
  BY DEF IInv
<1> QED
  BY <1>1, InvariantHolds, PTL

\* Every slot holds a place of the window at the head, in the slot it belongs to,
\* for every size of ring, packet and send (AudioTimeline.h:136-151, 224-247).
THEOREM RingIsAWindow == Spec => []SlotsInWindow
<1>1. IInv => SlotsInWindow
  BY DEF IInv
<1> QED
  BY <1>1, InvariantHolds, PTL

\* The receiver is never sent more than the lead and one correction beyond what it
\* is thought to have played, however its count stalls, jumps or starts again
\* (AudioTimeline.h:28-58, 64-73).
THEOREM SentWithinBound == Spec => []ReceiverBufferBounded
<1>1. IInv => ReceiverBufferBounded
  BY TimesAssumption DEF IInv, TypeOK, ClockInv, ReceiverBufferBounded, CountFloor, Larger
<1> QED
  BY <1>1, InvariantHolds, PTL

-----------------------------------------------------------------------------
(* The estimate rests on the count.                                        *)

\* Where a tick stands between taking the count and having asked the clock; the
\* world does not move meanwhile.
FollowInv ==
  /\ pc # "out" => displayFrame = lastDisplayFrame /\ (audioActive <=> accepting)
  /\ pc \in {"clock", "send"} => accepting
  /\ pc # "out" /\ accepting => lastFrame <= displayFrame
  /\ pc = "send" => lastFrame = lastDisplayFrame
  /\ ClockFollowsCount

LEMMA NextKeepsFollowInv ==
  ASSUME TypeOK, FollowInv, [Next]_vars
  PROVE  FollowInv'
<1>1. CASE World
  <2>1. pc = "out"
    BY <1>1 DEF World, Elapse, ElapseBadPacket, ElapseMissedReport, TimePasses, CoreCountsAnew,
                Pause, LinkChanges
  <2>2. UNCHANGED <<pc, audioActive, lastDisplayFrame, lastFrame>>
    BY <1>1, WorldKeeps DEF clockVars
  <2> QED
    BY <2>1, <2>2 DEF FollowInv, ClockFollowsCount
<1>2. CASE TickBegins
  <2>1. /\ pc = "out" /\ pc' = "drain" /\ audioActive' = accepting /\ accepting' = accepting
        /\ lastDisplayFrame' = displayFrame /\ displayFrame' = displayFrame
    BY <1>2 DEF TickBegins
  <2>2. accepting => lastFrame' <= displayFrame
    <3>1. CASE accepting /\ ClockIsStale
      BY <1>2, <3>1 DEF TickBegins, StartClock, TypeOK
    <3>2. CASE ~ClockIsStale
      <4>1. lastFrame' = lastFrame
        BY <1>2, <3>2 DEF TickBegins, clockVars
      <4>2. audioActive /\ ~(displayFrame < lastDisplayFrame)
        BY <3>2 DEF ClockIsStale
      <4>3. lastFrame = lastDisplayFrame
        BY <2>1, <4>2 DEF FollowInv, ClockFollowsCount
      <4> QED
        BY <4>1, <4>2, <4>3 DEF TypeOK
    <3> QED
      BY <3>1, <3>2
  <2> QED
    BY <2>1, <2>2 DEF FollowInv, ClockFollowsCount
<1>3. CASE DropPacket \/ RejectPacket \/ PlacePacket
  BY <1>3 DEF DropPacket, RejectPacket, PlacePacket, Fetch, worldVars, gateVars, clockVars,
              FollowInv, ClockFollowsCount
<1>4. CASE Drained
  BY <1>4 DEF Drained, worldVars, gateVars, clockVars, FollowInv, ClockFollowsCount
<1>5. CASE CountsFields \/ ShiftsCount \/ Extrapolates
  <2>1. /\ pc = "clock" /\ pc' = "send"
        /\ UNCHANGED <<accepting, displayFrame, audioActive, lastDisplayFrame>>
    BY <1>5 DEF CountsFields, ShiftsCount, Extrapolates, ClockAsked, worldVars, gateVars
  <2>2. lastFrame' = displayFrame
    BY <1>5, <2>1 DEF CountsFields, ShiftsCount, Extrapolates, FollowInv, TypeOK
  <2> QED
    BY <2>1, <2>2 DEF FollowInv, ClockFollowsCount, TypeOK
<1>6. CASE Reanchor
  BY <1>6 DEF Reanchor, worldVars, gateVars, FollowInv, ClockFollowsCount, TypeOK
<1>7. CASE NothingDue \/ Render
  BY <1>7 DEF NothingDue, Render, worldVars, gateVars, clockVars, FollowInv, ClockFollowsCount
<1>8. CASE UNCHANGED vars
  BY <1>8 DEF vars, worldVars, gateVars, clockVars, FollowInv, ClockFollowsCount
<1> QED
  BY <1>1, <1>2, <1>3, <1>4, <1>5, <1>6, <1>7, <1>8 DEF Next, TickAudioCapture

\* The count a tick was given stays with it.
LEMMA FollowHolds == Spec => []FollowInv
<1>1. Init => FollowInv
  BY DEF Init, FollowInv, ClockFollowsCount
<1>2. TypeOK /\ FollowInv /\ [Next]_vars => FollowInv'
  BY NextKeepsFollowInv
<1>3. IInv => TypeOK
  BY DEF IInv
<1> QED
  BY <1>1, <1>2, <1>3, InvariantHolds, PTL DEF Spec

\* A core that counts anew is followed at the next tick: after every tick that
\* sends sound the estimate rests on the count that tick was given
\* (AudioCapture.h:291-304, AudioTimeline.h:32).
THEOREM EstimateFollowsCount == Spec => []ClockFollowsCount
<1>1. FollowInv => ClockFollowsCount
  BY DEF FollowInv
<1> QED
  BY <1>1, FollowHolds, PTL

-----------------------------------------------------------------------------
(* The line without end.                                                   *)

LEMMA LineStart == Init => Line!Init
<1> SUFFICES ASSUME Init PROVE Line!Init
  OBVIOUS
<1>1. {slots[k] : k \in Ring} \ {Empty} = {}
  BY DEF Init
<1>2. HeadIndex = 0
  BY TimesAssumption DEF Init, HeadIndex, Index
<1> QED
  BY <1>1, <1>2 DEF Line!Init, Init

\* What a send plays is what the ring holds.
LEMMA PlayedIsHeld ==
  ASSUME IInv, Render
  PROVE  sounded' \subseteq OnLine /\ silent' \cap OnLine = {}
<1>1. /\ sounded' \cup silent' \subseteq Nat
      /\ \A i \in sounded' : Holds(i)
      /\ \A i \in silent' : ~Holds(i)
  BY PlacesPlayed DEF IInv
<1>2. ASSUME NEW i \in sounded'
      PROVE  i \in OnLine
  <2>1. i \in Nat /\ Slot(i) \in Ring /\ slots[Slot(i)] = i
    BY <1>1, SizesAssumption, DivisionIsNat DEF Slot, Ring, Holds
  <2> QED
    BY <2>1 DEF Empty, OnLine
<1>3. ASSUME NEW i \in silent', i \in OnLine
      PROVE  FALSE
  <2>1. PICK k \in Ring : slots[k] = i /\ i # Empty
    BY <1>3 DEF OnLine
  <2>2. Slot(i) = k
    BY <2>1 DEF IInv, SlotsInWindow
  <2> QED
    BY <1>1, <2>1, <2>2 DEF Holds
<1> QED
  BY <1>2, <1>3

LEMMA LineStep ==
  ASSUME IInv, [Next]_vars
  PROVE  [Line!Next]_Line!vars
<1> USE DEF OnLine
<1>1. ASSUME UNCHANGED <<timelineVars, soundVars>>
      PROVE  UNCHANGED Line!vars
  BY <1>1 DEF Line!vars, timelineVars, soundVars, HeadIndex
<1>2. CASE World
  BY <1>1, <1>2, WorldKeeps
<1>3. CASE TickBegins
  <2>1. sounded' = {} /\ silent' = {}
    BY <1>3 DEF TickBegins
  <2>2. CASE StartTimeline
    <3>1. OnLine' = {}
      BY <2>2 DEF StartTimeline
    <3>2. HeadIndex' = 0
      BY <2>2, TimesAssumption DEF StartTimeline, HeadIndex, Index
    <3> QED
      BY <2>1, <3>1, <3>2 DEF Line!Next, Line!Restart
  <2>3. CASE UNCHANGED timelineVars
    BY <2>1, <2>3 DEF Line!Next, Line!Quiet, timelineVars, HeadIndex
  <2> QED
    BY <1>3, <2>2, <2>3 DEF TickBegins
<1>4. CASE DropPacket \/ RejectPacket
  <2>1. UNCHANGED <<phase, slots, sounded, silent>>
    BY <1>4 DEF DropPacket, RejectPacket, Fetch, soundVars
  <2> QED
    BY <2>1 DEF Line!vars, HeadIndex
<1>5. CASE PlacePacket
  <2>1. /\ OnLine \subseteq OnLine'
        /\ \A i \in OnLine' \ OnLine : HeadIndex <= i /\ i < HeadIndex + RingSize
    BY <1>5, PlaceKeepsWindow DEF IInv
  <2>2. UNCHANGED <<HeadIndex, sounded, silent>>
    BY <1>5 DEF PlacePacket, Fetch, soundVars, HeadIndex
  <2> QED
    BY <2>1, <2>2 DEF Line!Next, Line!Put
<1>6. CASE CountsFields \/ ShiftsCount \/ Extrapolates \/ Drained \/ NothingDue \/ UNCHANGED vars
  BY <1>1, <1>6 DEF CountsFields, ShiftsCount, Extrapolates, ClockAsked, Drained, NothingDue, vars
<1>7. CASE Reanchor
  <2>1. HeadIndex <= HeadIndex' /\ OnLine' = {i \in OnLine : i >= HeadIndex'}
    BY <1>7, ReanchorAdvances, AdvanceKeepsWindow DEF IInv
  <2>2. UNCHANGED <<sounded, silent>>
    BY <1>7 DEF Reanchor, soundVars
  <2>3. HeadIndex \in Nat /\ HeadIndex' \in Nat
    BY <1>7, HeadIsNat, ReanchorKeepsIInv, TimesAssumption, DivisionIsNat
       DEF IInv, HeadIndex, Index, TypeOK
  <2> QED
    BY <2>1, <2>2, <2>3 DEF Line!Next, Line!Skip, Line!Move
<1>8. CASE Render
  <2> DEFINE new == phase + (clockDue - output) * Step(clockDue)
  <2>1. /\ new \in Nat /\ phase <= new /\ AdvanceTo(new)
        /\ sounded' \cup silent' \subseteq HeadIndex .. Index(new)
        /\ sounded' \cup silent' \subseteq Nat
        /\ \A i \in sounded' : Holds(i)
        /\ \A i \in silent' : ~Holds(i)
    BY <1>8, PlacesPlayed DEF IInv
  <2> HIDE DEF new
  <2>2. /\ HeadIndex <= HeadIndex' /\ OnLine' = {i \in OnLine : i >= HeadIndex'}
        /\ HeadIndex' = Index(new)
    BY <2>1, AdvanceKeepsWindow DEF IInv, AdvanceTo, HeadIndex
  <2>3. HeadIndex \in Nat /\ HeadIndex' \in Nat
    BY <2>1, <2>2, HeadIsNat, DivisionIsNat, TimesAssumption DEF IInv, Index
  <2>4. \A i \in sounded' \cup silent' : HeadIndex <= i /\ i <= HeadIndex'
    BY <2>1, <2>2, <2>3
  <2>5. sounded' \subseteq OnLine /\ silent' \cap OnLine = {}
    BY <1>8, PlayedIsHeld
  <2> QED
    BY <2>2, <2>3, <2>4, <2>5 DEF Line!Next, Line!Play, Line!Move
<1> QED
  BY <1>2, <1>3, <1>4, <1>5, <1>6, <1>7, <1>8 DEF Next, TickAudioCapture

\* What the ring plays is what a line without end would play: each place once and
\* in order, the sound that was put on it or silence, never that of an earlier
\* round (AudioTimeline.h:111-200, 224-247).
THEOREM RingPlaysTheLine == Spec => ImplementsDelayLine
<1>1. Init => Line!Init
  BY LineStart
<1>2. IInv /\ [Next]_vars => [Line!Next]_Line!vars
  BY LineStep
<1> QED
  BY <1>1, <1>2, InvariantHolds, PTL DEF Spec, ImplementsDelayLine, Line!Spec


-----------------------------------------------------------------------------
(* Sound without gaps.  As long as nothing goes wrong the three clocks stay  *)
(* near each other though none keeps the pace of another: the world keeps    *)
(* its times, the estimate the core's, the servo the head.                   *)

\* How far the core is since the estimate began, in grains; how far beyond the
\* estimate; how far beyond what was sent, but for the lead.
Progress == (coreFrame - baseFrame) * (FieldFrames * Grain) + fieldPart
Lag == Progress - played * Grain
Reserve == Progress - (output - Lead) * Grain

\* How far the head is ahead of the host's clock, in grains.
Ahead == phase - (SampleAt(now) + Lead) * Grain

\* The device began its packet near where another one ended.
StartedAt(end) == -(Slip + Jitter) <= packetStart - end /\ packetStart - end <= Slip

\* What the i-th packet that waits, or the next to come, goes on from.
Continues(i, position, end) ==
  IF i <= Len(packets)
  THEN packets[i].position = position /\ Distance(packets[i].timestamp, end) <= Slip + Jitter
  ELSE devicePosition = position /\ StartedAt(end)

GoodPackets ==
  \A i \in 1 .. Len(packets) :
    /\ packets[i].valid /\ ~packets[i].discontinuity
    /\ 0 <= packets[i].timestamp
    /\ packets[i].timestamp + PacketFrames <= now + Slip + Jitter
    /\ Continues(i + 1, packets[i].position + PacketFrames, packets[i].timestamp + PacketFrames)

\* The device fills a packet in time, and what the core counts is known.
WorldInTime ==
  /\ ~pausing /\ displayFrame = coreFrame
  /\ packetStart <= now /\ now < packetStart + PacketFrames + Slip
  /\ GoodPackets

Fresh == now = epoch /\ lastCall = epoch /\ phase = 0 /\ output = 0 /\ played = 0

\* The worker asks the clock in time, and what was due is sent.
CallInTime ==
  /\ epoch <= lastCall /\ lastCall <= now /\ now - lastCall <= Wait
  /\ pc = "out" => packetStart <= lastCall + Len(packets) * (PacketFrames + Slip)
  /\ pc \in {"clock", "send"} => packets = <<>>
  /\ pc = "send" => lastCall = now
  /\ output = clockDue \/ pc = "send" \/ (Fresh /\ pc # "out")

\* The core is where the estimate has it, but for a field and its drift since
\* the count was last heard.
EstimateInTime ==
  LET over == played - CountFloor
      since == now - lastCall
  IN  /\ offset = 0 /\ clockDue = played + Lead
      /\ lastFrame <= coreFrame /\ over <= FieldFrames
      /\ (Grain - Drift) * since - Drift * over <= Lag
      /\ Lag < (FieldFrames - over) * Grain + (Grain + Drift) * since

\* Two weighings of how far the head is ahead.  The drift moves the first only
\* down and the second only up; where the servo does not outrun it, it keeps
\* them in these bounds.
HeadInTime ==
  /\ Weight * (Ahead + Reserve) - Reserve <= Weight * (FieldFrames * Grain + Deadband)
  /\ -(FieldFrames * Grain + Weight * Deadband) <= Weight * (Ahead + Reserve) + Reserve
  /\ pc # "send" => HeadOnTime \/ (Fresh /\ pc # "out")

\* Before its first packet the head is not steered.
Unsteered ==
  /\ phase = output * Grain
  /\ -(Drift * SampleAt(now)) <= Progress - SampleAt(now) * Grain
  /\ Progress - SampleAt(now) * Grain < FieldFrames * Grain + Drift * SampleAt(now)
  /\ packets = <<>> => packetStart <= epoch
  /\ OnLine = {} /\ ~heard /\ lastPacketEnd = 0

\* What was placed follows without a gap, but for the holes, up to where the
\* last packet ended.
LineUnbroken ==
  /\ heard => (HeadIndex .. packetEnd - 1) \ holes \subseteq OnLine
  /\ \A j \in OnLine : (j .. packetEnd - 1) \ holes \subseteq OnLine

LineInTime ==
  /\ expected = NoPosition => Unsteered
  /\ expected # NoPosition =>
       /\ lastPacketEnd > 0
       /\ Continues(1, expected, lastPacketEnd)
       /\ Distance(packetEnd, SampleAt(lastPacketEnd) + Delay) <= Tolerance
  /\ LineUnbroken

StreamInTime == CallInTime /\ EstimateInTime /\ HeadInTime /\ LineInTime

InTime == ~disturbed => WorldInTime /\ ~gap /\ (audioActive => StreamInTime)

\* The weight of the two weighings, and the least correction that outruns the drift.
LEMMA PaceIsEnough ==
  /\ Weight \in Nat \ {0} /\ FieldFrames <= Weight
  /\ Drift * Weight + Drift <= Grain /\ Drift * FieldFrames + Drift <= Grain
  /\ Pull \in Nat /\ Grain <= Weight * Pull /\ Drift < Pull
  /\ Deadband \in Nat /\ Wait \in Nat /\ LongestHole \in Nat
<1> USE TimesAssumption
<1> DEFINE ratio == Grain \div Drift
           rest == Grain % Drift
<1>1. Grain = Drift * ratio + rest /\ rest \in 0 .. Drift - 1 /\ ratio \in Nat
  BY DivisionIsNat
<1>2. Weight = ratio - 1
  BY DEF Weight
<1>3. Drift * FieldFrames + Drift <= Grain
  BY PaceAssumption
<1> HIDE DEF ratio, rest
<1>4. FieldFrames + 1 <= ratio
  <2> SUFFICES ASSUME ratio <= FieldFrames PROVE FALSE
    BY <1>1
  <2>1. ratio * Drift <= FieldFrames * Drift
    BY <1>1, ProductGrows
  <2>2. Drift * ratio = ratio * Drift /\ Drift * FieldFrames = FieldFrames * Drift
    BY <1>1
  <2>3. /\ Drift * ratio \in Int /\ Drift * FieldFrames \in Int /\ rest \in Int /\ rest < Drift
    BY <1>1
  <2>4. Drift * ratio <= Drift * FieldFrames
    BY <2>1, <2>2
  <2> QED
    BY <1>1, <1>3, <2>3, <2>4
<1>5. Weight \in Nat \ {0} /\ FieldFrames <= Weight /\ Drift * Weight + Drift <= Grain
  <2>1. Drift * (ratio - 1) + Drift = Drift * ratio
    BY <1>1
  <2>2. Drift * ratio <= Grain
    BY <1>1
  <2>3. Drift * Weight + Drift <= Grain
    BY <1>2, <2>1, <2>2
  <2> QED
    BY <1>1, <1>2, <1>4, <2>3
<1>6. Pull \in Nat /\ Grain <= Weight * Pull
  <2> DEFINE sum == Grain + Weight - 1
  <2>1. sum \in Nat
    BY <1>5
  <2>2. sum = Weight * (sum \div Weight) + (sum % Weight) /\ sum % Weight \in 0 .. Weight - 1
        /\ sum \div Weight \in Nat
    BY <1>5, <2>1, DivisionIsNat
  <2>3. Pull = sum \div Weight
    BY DEF Pull
  <2>4. Weight * Pull \in Nat
    BY <1>5, <2>2, <2>3, ProductIsNat
  <2>5. sum = Weight * Pull + (sum % Weight) /\ sum % Weight <= Weight - 1 /\ sum % Weight \in Int
    BY <1>5, <2>2, <2>3
  <2>6. Grain + Weight - 1 = Weight * Pull + (sum % Weight)
    BY <2>5
  <2> HIDE DEF sum
  <2> QED
    BY <1>5, <2>2, <2>3, <2>4, <2>5, <2>6
<1>7. Drift < Pull
  <2> SUFFICES ASSUME Pull <= Drift PROVE FALSE
    BY <1>6
  <2>1. Pull * Weight <= Drift * Weight
    BY <1>5, <1>6, ProductGrows
  <2> QED
    BY <1>5, <1>6, <2>1
<1>8. Deadband \in Nat /\ Wait \in Nat /\ LongestHole \in Nat
  BY <1>6, ProductIsNat DEF Deadband, Wait, LongestHole
<1> QED
  BY <1>3, <1>5, <1>6, <1>7, <1>8

-----------------------------------------------------------------------------
(* The world keeps its times.                                              *)

\* A sample period moves the core on by a sample, but for its drift.
LEMMA ProgressRuns ==
  ASSUME TypeOK, CoreRuns, UNCHANGED baseFrame
  PROVE  /\ \E d \in -Drift .. Drift : Progress' = Progress + Grain + d
         /\ coreFrame <= coreFrame'
<1> DEFINE field == FieldFrames * Grain
<1>1. PICK d \in -Drift .. Drift :
        /\ fieldPart' = (fieldPart + Grain + d) % field
        /\ coreFrame' = coreFrame + (fieldPart + Grain + d) \div field
  BY DEF CoreRuns
<1>2. field \in Nat \ {0}
  BY ProductIsPositive, TimesAssumption
<1>3. fieldPart + Grain + d \in Nat /\ d \in Int /\ fieldPart \in Int
  BY DriftIsSmall, TimesAssumption, <1>2 DEF TypeOK
<1>4. Progress = (coreFrame - baseFrame) * field + fieldPart
  BY DEF Progress
<1>5. Progress' = (coreFrame' - baseFrame) * field + fieldPart'
  BY DEF Progress
<1> DEFINE sum == fieldPart + Grain + d
<1>6. sum \in Nat /\ sum = fieldPart + Grain + d
  BY <1>3
<1> HIDE DEF field, sum
<1> DEFINE whole == sum \div field
           part == sum % field
<1>7. sum = field * whole + part /\ part \in Int /\ whole \in Nat
  <2>1. sum = field * whole + part /\ part \in 0 .. field - 1 /\ whole \in Nat
    BY <1>2, <1>6, DivisionIsNat
  <2> HIDE DEF whole, part
  <2> QED
    BY <1>2, <2>1
<1>8. coreFrame \in Nat /\ baseFrame \in Nat
  BY DEF TypeOK
<1>9. coreFrame' = coreFrame + whole /\ fieldPart' = part
  BY <1>1 DEF sum
<1> HIDE DEF whole, part
<1>10. (coreFrame + whole - baseFrame) * field = (coreFrame - baseFrame) * field + field * whole
  BY <1>2, <1>7, <1>8
<1>11. Progress' = Progress + sum - fieldPart
  <2>1. Progress' = (coreFrame + whole - baseFrame) * field + part
    BY <1>2, <1>5, <1>7, <1>8, <1>9
  <2> DEFINE before == (coreFrame - baseFrame) * field
             more == field * whole
  <2>2. before \in Int /\ more \in Int
    BY <1>2, <1>7, <1>8
  <2>3. Progress' = before + more + part /\ Progress = before + fieldPart /\ sum = more + part
    BY <2>1, <1>4, <1>7, <1>10
  <2> HIDE DEF before, more
  <2> QED
    BY <1>3, <1>7, <2>2, <2>3
<1>12. Progress \in Int
  BY <1>2, <1>3, <1>4, <1>8
<1>13. Progress' = Progress + Grain + d
  BY <1>3, <1>6, <1>11, <1>12, TimesAssumption
<1>14. coreFrame <= coreFrame'
  BY <1>7, <1>8, <1>9
<1> QED
  BY <1>13, <1>14

\* A packet more does not change what went on from where.
LEMMA DeviceContinues ==
  ASSUME TypeOK, WorldInTime, DeviceRuns,
         NEW i \in 1 .. Len(packets) + 1, NEW position \in Int, NEW end \in Int,
         Continues(i, position, end)
  PROVE  Continues(i, position, end)'
<1> USE TimesAssumption
<1>1. CASE UNCHANGED deviceVars
  BY <1>1 DEF deviceVars, Continues, StartedAt
<1>2. CASE GoodPacket
  <2>1. PICK e \in 0 .. Jitter : Deliver(Packet(packetStart + e, TRUE, FALSE))
    BY <1>2 DEF GoodPacket
  <2>2. /\ Len(packets') = Len(packets) + 1 /\ Len(packets) \in Nat
        /\ \A k \in 1 .. Len(packets) : packets'[k] = packets[k]
        /\ packets'[Len(packets) + 1].position = devicePosition
        /\ packets'[Len(packets) + 1].timestamp = packetStart + e
    BY <2>1 DEF Deliver, Packet, TypeOK
  <2>3. CASE i <= Len(packets)
    BY <2>2, <2>3 DEF Continues
  <2>4. CASE i = Len(packets) + 1
    <3>1. devicePosition = position /\ StartedAt(end)
      BY <2>2, <2>4 DEF Continues
    <3>2. Distance(packetStart + e, end) <= Slip + Jitter
      BY <3>1 DEF StartedAt, Distance, TypeOK
    <3> QED
      BY <2>2, <2>4, <3>1, <3>2 DEF Continues
  <2> QED
    BY <2>2, <2>3, <2>4
<1> QED
  BY <1>1, <1>2 DEF DeviceRuns

LEMMA ElapseKeepsWorld ==
  ASSUME TypeOK, WorldInTime, Elapse
  PROVE  WorldInTime'
<1> USE TimesAssumption
<1>1. now' = now + 1 /\ pausing' = pausing
  BY DEF Elapse, TimePasses
<1>2. displayFrame' = coreFrame'
  <2>1. ~pausing /\ displayFrame = coreFrame
    BY DEF WorldInTime
  <2>2. CASE ~FieldDue /\ UNCHANGED displayFrame
    <3>1. CoreRuns /\ UNCHANGED baseFrame
      BY DEF Elapse, TimePasses, clockVars
    <3>2. coreFrame <= coreFrame' /\ coreFrame' \in Nat /\ coreFrame \in Nat
      BY <3>1, ProgressRuns, CoreType DEF TypeOK
    <3> QED
      BY <2>1, <2>2, <3>2 DEF FieldDue
  <2> QED
    BY <2>1, <2>2 DEF Elapse, Report
<1>3. packetStart' <= now' /\ now' < packetStart' + PacketFrames + Slip
  <2>1. CASE GoodPacket
    BY <1>1, <2>1 DEF GoodPacket, Deliver, TypeOK
  <2>2. CASE ~PacketMustCome /\ UNCHANGED deviceVars
    BY <1>1, <2>2 DEF PacketMustCome, deviceVars, WorldInTime, TypeOK
  <2> QED
    BY <2>1, <2>2 DEF Elapse, DeviceRuns
<1>4. DeviceRuns
  BY DEF Elapse
<1>5. ASSUME NEW i \in 1 .. Len(packets)
      PROVE  /\ packets[i].valid /\ ~packets[i].discontinuity
             /\ 0 <= packets[i].timestamp
             /\ packets[i].timestamp + PacketFrames <= now + 1 + Slip + Jitter
             /\ Continues(i + 1, packets[i].position + PacketFrames,
                          packets[i].timestamp + PacketFrames)
             /\ packets[i].position \in Int /\ packets[i].timestamp \in Int
  <2>1. packets[i] \in PacketType /\ now \in Nat
    BY DEF TypeOK
  <2>2. packets[i].position \in Int /\ packets[i].timestamp \in Int
    BY <2>1 DEF PacketType
  <2>3. /\ packets[i].valid /\ ~packets[i].discontinuity
        /\ 0 <= packets[i].timestamp
        /\ packets[i].timestamp + PacketFrames <= now + Slip + Jitter
        /\ Continues(i + 1, packets[i].position + PacketFrames,
                     packets[i].timestamp + PacketFrames)
    BY DEF WorldInTime, GoodPackets
  <2>4. packets[i].timestamp + PacketFrames <= now + 1 + Slip + Jitter
    BY <2>1, <2>2, <2>3
  <2> QED
    BY <2>2, <2>3, <2>4
<1>6. Len(packets) \in Nat
  BY DEF TypeOK
<1>7. ASSUME NEW i \in 1 .. Len(packets), NEW p \in Int, NEW e \in Int,
             p = packets[i].position + PacketFrames, e = packets[i].timestamp + PacketFrames
      PROVE  Continues(i + 1, p, e)'
  <2>1. Continues(i + 1, p, e)
    BY <1>5, <1>7
  <2>2. i + 1 \in 1 .. Len(packets) + 1
    BY <1>6
  <2> QED
    BY <1>4, <2>1, <2>2, DeviceContinues
<1>8. GoodPackets'
  <2>1. CASE UNCHANGED deviceVars
    <3> SUFFICES ASSUME NEW i \in 1 .. Len(packets)
                 PROVE  /\ packets'[i].valid /\ ~packets'[i].discontinuity
                        /\ 0 <= packets'[i].timestamp
                        /\ packets'[i].timestamp + PacketFrames <= now' + Slip + Jitter
                        /\ Continues(i + 1, packets[i].position + PacketFrames,
                                     packets[i].timestamp + PacketFrames)'
      BY <2>1 DEF GoodPackets, deviceVars
    <3> QED
      BY <1>1, <1>5, <1>6, <2>1 DEF deviceVars, Continues, StartedAt
  <2>2. CASE GoodPacket
    <3>1. PICK e \in 0 .. Jitter : Deliver(Packet(packetStart + e, TRUE, FALSE))
      BY <2>2 DEF GoodPacket
    <3>2. /\ Len(packets') = Len(packets) + 1
          /\ \A k \in 1 .. Len(packets) : packets'[k] = packets[k]
          /\ packets'[Len(packets) + 1] = Packet(packetStart + e, TRUE, FALSE)
          /\ devicePosition' = devicePosition + PacketFrames /\ packetStart' = now + 1
      BY <3>1, <1>6 DEF Deliver, Packet, TypeOK
    <3>3. packetStart \in Nat /\ now \in Nat /\ devicePosition \in Nat
      BY DEF TypeOK
    <3>4. PacketFrames - Slip <= now + 1 - packetStart /\ now < packetStart + PacketFrames + Slip
      <4>1. PacketMayCome \/ UNCHANGED deviceVars
        BY <1>4 DEF DeviceRuns
      <4>2. packetStart' # packetStart
        BY <3>2, <3>3 DEF WorldInTime
      <4> QED
        BY <4>1, <4>2 DEF PacketMayCome, WorldInTime, deviceVars
    <3>5. ASSUME NEW i \in 1 .. Len(packets')
          PROVE  /\ packets'[i].valid /\ ~packets'[i].discontinuity
                 /\ 0 <= packets'[i].timestamp
                 /\ packets'[i].timestamp + PacketFrames <= now' + Slip + Jitter
                 /\ \A p, q \in Int : /\ p = packets'[i].position + PacketFrames
                                      /\ q = packets'[i].timestamp + PacketFrames
                                      => Continues(i + 1, p, q)'
      <4>1. CASE i \in 1 .. Len(packets)
        BY <1>1, <1>5, <1>7, <3>2, <4>1
      <4>2. CASE i = Len(packets) + 1
        <5>1. /\ packets'[i].valid /\ ~packets'[i].discontinuity
              /\ packets'[i].timestamp = packetStart + e
              /\ packets'[i].position = devicePosition
          BY <3>2, <4>2 DEF Packet
        <5>2. ASSUME NEW p \in Int, NEW q \in Int,
                     p = devicePosition + PacketFrames, q = packetStart + e + PacketFrames
              PROVE  Continues(i + 1, p, q)'
          BY <1>6, <3>1, <3>2, <3>3, <3>4, <4>2, <5>2 DEF Continues, StartedAt
        <5> QED
          BY <1>1, <3>3, <3>4, <5>1, <5>2
      <4> QED
        BY <1>6, <3>2, <4>1, <4>2
    <3>6. ASSUME NEW i \in 1 .. Len(packets')
          PROVE  packets'[i].position \in Int /\ packets'[i].timestamp \in Int
      BY <1>5, <1>6, <3>1, <3>2, <3>3, SMTT(20) DEF Packet
    <3>7. ASSUME NEW i \in 1 .. Len(packets')
          PROVE  Continues(i + 1, packets[i].position + PacketFrames,
                           packets[i].timestamp + PacketFrames)'
      <4> DEFINE next == packets'[i].position + PacketFrames
                 ends == packets'[i].timestamp + PacketFrames
      <4>3. next \in Int /\ ends \in Int
        BY <3>6
      <4>1. PICK p \in Int, q \in Int : p = next /\ q = ends
        BY <4>3
      <4>2. Continues(i + 1, p, q)'
        BY <3>5, <4>1
      <4> QED
        BY <4>1, <4>2 DEF Continues, StartedAt
    <3> QED
      BY <3>5, <3>7 DEF GoodPackets
  <2> QED
    BY <1>4, <2>1, <2>2 DEF DeviceRuns
<1> QED
  BY <1>1, <1>2, <1>3, <1>8 DEF WorldInTime

-----------------------------------------------------------------------------
(* A sample period.                                                        *)

LEMMA GrainsAreInt ==
  ASSUME TypeOK
  PROVE  /\ Progress \in Int /\ Lag \in Int /\ Reserve \in Int /\ Ahead \in Int
         /\ CountFloor \in Int
BY TimesAssumption DEF TypeOK, Progress, Lag, Reserve, Ahead, SampleAt, CountFloor

LEMMA TimeKeeps ==
  ASSUME TimePasses
  PROVE  /\ pc = "out" /\ now' = now + 1
         /\ UNCHANGED <<pc, audioActive, clockVars, timelineVars, heard, gap>>
BY DEF TimePasses, gateVars, soundVars

LEMMA ElapseRuns ==
  ASSUME TypeOK, Elapse
  PROVE  \E d \in -Drift .. Drift :
           /\ Progress' = Progress + Grain + d /\ Lag' = Lag + Grain + d
           /\ Reserve' = Reserve + Grain + d /\ Ahead' = Ahead - Grain
<1> USE TimesAssumption
<1>1. CoreRuns /\ TimePasses
  BY DEF Elapse
<1>2. UNCHANGED <<baseFrame, played, output, phase, epoch>> /\ now' = now + 1
  BY <1>1, TimeKeeps DEF clockVars, timelineVars
<1>3. PICK d \in -Drift .. Drift : Progress' = Progress + Grain + d
  BY <1>1, <1>2, ProgressRuns
<1>4. Progress \in Int /\ d \in Int
  BY <1>3, GrainsAreInt
<1>5. played * Grain \in Int /\ (output - Lead) * Grain \in Int
  BY DEF TypeOK
<1>6. Lag' = Lag + Grain + d /\ Reserve' = Reserve + Grain + d
  <2>1. Lag' = Progress' - played * Grain /\ Reserve' = Progress' - (output - Lead) * Grain
    BY <1>2 DEF Lag, Reserve
  <2>2. Lag = Progress - played * Grain /\ Reserve = Progress - (output - Lead) * Grain
    BY DEF Lag, Reserve
  <2> QED
    BY <1>3, <1>4, <1>5, <2>1, <2>2
<1>7. Ahead' = Ahead - Grain
  <2>1. now \in Nat /\ epoch \in Nat /\ phase \in Nat
    BY DEF TypeOK
  <2>2. (now + 1 - epoch + Lead) * Grain = (now - epoch + Lead) * Grain + Grain
    BY <2>1
  <2>3. Ahead' = phase - (now + 1 - epoch + Lead) * Grain
    <3>1. Ahead' = phase' - (now' - epoch' + Lead) * Grain
      BY DEF Ahead, SampleAt
    <3>2. /\ now' \in Int /\ epoch' \in Int /\ phase' \in Int
          /\ now' = now + 1 /\ epoch' = epoch /\ phase' = phase
      BY <1>2, <2>1
    <3> QED
      BY ONLY <2>1, <3>1, <3>2, TimesAssumption
  <2>4. Ahead = phase - (now - epoch + Lead) * Grain
    BY DEF Ahead, SampleAt
  <2>5. (now - epoch + Lead) * Grain \in Int
    BY <2>1
  <2> QED
    BY <2>1, <2>2, <2>3, <2>4, <2>5
<1> QED
  BY <1>3, <1>6, <1>7

LEMMA ElapseKeepsCall ==
  ASSUME TypeOK, WorldInTime, CallInTime, Elapse
  PROVE  CallInTime'
<1> USE TimesAssumption
<1> DEFINE long == PacketFrames + Slip
           count == Len(packets)
<1>1. TimePasses /\ DeviceRuns /\ ~pausing
  BY DEF Elapse, WorldInTime
<1>2. pc = "out" /\ pc' = "out" /\ now' = now + 1
      /\ UNCHANGED <<lastCall, epoch, output, clockDue, played, phase>>
  BY <1>1, TimeKeeps DEF clockVars, timelineVars
<1>3. /\ now \in Nat /\ lastCall \in Nat /\ epoch \in Nat /\ packetStart \in Nat /\ count \in Nat
      /\ long \in Nat
  BY DEF TypeOK
<1>4. epoch <= lastCall /\ lastCall <= now /\ packetStart <= lastCall + count * long
      /\ output = clockDue
  BY <1>2 DEF CallInTime
<1>5. now < packetStart + long
  BY <1>3 DEF WorldInTime
<1>6. count < MaxPackets
  BY <1>1 DEF TimePasses
<1>7. count * long \in Nat /\ (count + 1) * long = count * long + long
      /\ (count + 1) * long <= MaxPackets * long
  <2>1. count * long \in Nat
    BY <1>3, ProductIsNat
  <2>2. (count + 1) * long <= MaxPackets * long
    BY <1>3, <1>6, ProductGrows
  <2> HIDE DEF long, count
  <2> QED
    BY <1>3, <2>1, <2>2
<1>8. packetStart' <= lastCall + Len(packets') * long
  <2>1. CASE GoodPacket
    <3>1. packetStart' = now + 1 /\ Len(packets') = count + 1
      BY <2>1 DEF GoodPacket, Deliver, TypeOK
    <3> HIDE DEF long, count
    <3> QED
      BY <1>3, <1>4, <1>5, <1>7, <3>1
  <2>2. CASE UNCHANGED deviceVars
    BY <1>4, <2>2 DEF deviceVars
  <2> QED
    BY <1>1, <2>1, <2>2 DEF DeviceRuns
<1>9. Wait = MaxPackets * long
  BY DEF Wait
<1>10. now + 1 - lastCall <= Wait
  <2>1. Wait \in Nat
    BY PaceIsEnough
  <2> HIDE DEF long, count
  <2> QED
    BY <1>3, <1>4, <1>5, <1>7, <1>9, <2>1
<1> HIDE DEF count
<1> QED
  BY <1>2, <1>3, <1>4, <1>8, <1>10 DEF CallInTime

LEMMA ElapseKeepsEstimate ==
  ASSUME TypeOK, EstimateInTime, lastCall <= now, Elapse
  PROVE  EstimateInTime'
<1> USE TimesAssumption
<1>1. PICK d \in -Drift .. Drift : Lag' = Lag + Grain + d
  BY ElapseRuns
<1>2. now' = now + 1 /\ UNCHANGED <<offset, clockDue, played, lastFrame, baseFrame, lastCall>>
  BY TimeKeeps DEF Elapse, clockVars
<1>3. CountFloor' = CountFloor
  BY <1>2 DEF CountFloor
<1>4. coreFrame <= coreFrame'
  BY <1>2, ProgressRuns DEF Elapse
<1>5. Lag \in Int /\ CountFloor \in Int /\ d \in Int
  BY <1>1, GrainsAreInt
<1> DEFINE over == played - CountFloor
           since == now - lastCall
<1>6. over \in Int /\ since \in Int /\ now \in Nat /\ lastCall \in Nat
  BY <1>5 DEF TypeOK
<1>7. over <= FieldFrames /\ (Grain - Drift) * since - Drift * over <= Lag
      /\ Lag < (FieldFrames - over) * Grain + (Grain + Drift) * since
  BY DEF EstimateInTime
<1>8. now' - lastCall' = since + 1 /\ played' - CountFloor' = over
  BY <1>2, <1>3, <1>6
<1> HIDE DEF over, since
<1>9. (Grain - Drift) * (since + 1) = (Grain - Drift) * since + Grain - Drift
      /\ (Grain + Drift) * (since + 1) = (Grain + Drift) * since + Grain + Drift
  BY <1>6
<1>10. /\ (Grain - Drift) * since \in Int /\ (Grain + Drift) * since \in Int
       /\ Drift * over \in Int /\ (FieldFrames - over) * Grain \in Int
  BY <1>6
<1>11. (Grain - Drift) * (since + 1) - Drift * over <= Lag'
       /\ Lag' < (FieldFrames - over) * Grain + (Grain + Drift) * (since + 1)
  BY <1>1, <1>5, <1>7, <1>9, <1>10
<1>12. offset' = 0 /\ clockDue' = played' + Lead /\ lastFrame' <= coreFrame'
  <2>1. coreFrame' \in Nat /\ coreFrame \in Nat /\ lastFrame \in Nat
    BY CoreType DEF Elapse, TypeOK
  <2> QED
    BY <1>2, <1>4, <2>1 DEF EstimateInTime
<1> QED
  BY <1>7, <1>8, <1>11, <1>12 DEF EstimateInTime

\* Drift moves the first weighing down and the second up.
LEMMA WeighingsDrift ==
  ASSUME NEW m \in Nat \ {0}, NEW g \in Int, NEW r \in Int, NEW sum \in Int, NEW d \in -r .. r,
         r * m + r <= g, r >= 0
  PROVE  /\ m * (sum + d) <= m * sum + g + d
         /\ m * sum - g - d <= m * (sum + d)
<1>1. m * (sum + d) = m * sum + m * d
  OBVIOUS
<1>2. (r - d) * m \in Nat /\ (r + d) * m \in Nat
  BY ProductIsNat
<1>3. (r - d) * m = r * m - m * d /\ (r + d) * m = r * m + m * d
  OBVIOUS
<1>4. m * sum \in Int /\ m * d \in Int /\ r * m \in Int
  OBVIOUS
<1> QED
  BY <1>1, <1>2, <1>3, <1>4

LEMMA ElapseKeepsHead ==
  ASSUME TypeOK, CallInTime, HeadInTime, Elapse
  PROVE  HeadInTime'
<1> USE TimesAssumption
<1>1. PICK d \in -Drift .. Drift : Reserve' = Reserve + Grain + d /\ Ahead' = Ahead - Grain
  BY ElapseRuns
<1>2. Reserve \in Int /\ Ahead \in Int /\ d \in Int
  BY <1>1, GrainsAreInt
<1>3. Ahead' + Reserve' = Ahead + Reserve + d
  BY <1>1, <1>2
<1> DEFINE sum == Ahead + Reserve
           high == Weight * (FieldFrames * Grain + Deadband)
           low == FieldFrames * Grain + Weight * Deadband
<1>4. Weight \in Nat \ {0} /\ Drift * Weight + Drift <= Grain /\ Deadband \in Nat
  BY PaceIsEnough
<1>5. sum \in Int /\ Ahead' + Reserve' = sum + d
  BY <1>2, <1>3
<1>6. Weight * sum - Reserve <= high /\ -low <= Weight * sum + Reserve
  BY DEF HeadInTime
<1>7. high \in Int /\ low \in Int
  BY <1>4
<1> HIDE DEF sum, high, low
<1>8. Weight * (sum + d) <= Weight * sum + Grain + d /\ Weight * sum - Grain - d <= Weight * (sum + d)
  BY <1>4, <1>5, WeighingsDrift
<1>9. Weight * (sum + d) \in Int /\ Weight * sum \in Int
  BY <1>2, <1>4, <1>5
<1>10. Weight * (Ahead' + Reserve') - Reserve' <= high
       /\ -low <= Weight * (Ahead' + Reserve') + Reserve'
  <2>1. Weight * (Ahead' + Reserve') = Weight * (sum + d)
    BY <1>5
  <2> QED
    BY <2>1, <1>1, <1>2, <1>5, <1>6, <1>7, <1>8, <1>9
<1>11. HeadOnTime'
  <2>1. pc = "out" /\ UNCHANGED <<phase, lastCall, epoch>>
    BY TimeKeeps DEF Elapse, clockVars, timelineVars
  <2>2. HeadOnTime
    BY <2>1 DEF HeadInTime
  <2> QED
    BY <2>1, <2>2 DEF HeadOnTime, SampleAt
<1> QED
  BY <1>10, <1>11 DEF HeadInTime, high, low

LEMMA ElapseKeepsLine ==
  ASSUME TypeOK, WorldInTime, CallInTime, LineInTime, Elapse
  PROVE  LineInTime'
<1> USE TimesAssumption
<1>1. pc = "out" /\ now' = now + 1 /\ UNCHANGED <<timelineVars, heard>>
  BY TimeKeeps DEF Elapse
<1>2. UNCHANGED <<epoch, phase, output, slots, holes, expected, packetEnd, lastPacketEnd, OnLine,
                  HeadIndex>>
  BY <1>1 DEF timelineVars, placeVars, OnLine, HeadIndex
<1>3. LineUnbroken'
  BY <1>1, <1>2 DEF LineInTime, LineUnbroken
<1>4. ASSUME expected = NoPosition
      PROVE  Unsteered'
  <2>1. PICK d \in -Drift .. Drift : Progress' = Progress + Grain + d
    BY ElapseRuns
  <2>2. Progress \in Int /\ d \in Int
    BY <2>1, GrainsAreInt
  <2> DEFINE time == SampleAt(now)
  <2>3. time \in Int /\ SampleAt(now)' = time + 1
    BY <1>1, <1>2 DEF TypeOK, SampleAt
  <2>4. Unsteered
    BY <1>4 DEF LineInTime
  <2>5. -(Drift * time) <= Progress - time * Grain
        /\ Progress - time * Grain < FieldFrames * Grain + Drift * time
    BY <2>4 DEF Unsteered
  <2> HIDE DEF time
  <2>6. Drift * (time + 1) = Drift * time + Drift /\ (time + 1) * Grain = time * Grain + Grain
    BY <2>3
  <2>7. Drift * time \in Int /\ time * Grain \in Int /\ FieldFrames * Grain \in Int
    BY <2>3
  <2>8. -(Drift * (time + 1)) <= Progress' - (time + 1) * Grain
        /\ Progress' - (time + 1) * Grain < FieldFrames * Grain + Drift * (time + 1)
    BY <2>1, <2>2, <2>5, <2>6, <2>7
  <2>9. packets' = <<>> => packetStart' <= epoch'
    <3>1. CASE GoodPacket
      BY <3>1 DEF GoodPacket, Deliver, TypeOK
    <3>2. CASE UNCHANGED deviceVars
      BY <1>2, <2>4, <3>2 DEF Unsteered, deviceVars
    <3> QED
      BY <3>1, <3>2 DEF Elapse, DeviceRuns
  <2> QED
    BY <1>1, <1>2, <2>3, <2>4, <2>8, <2>9 DEF Unsteered
<1>5. ASSUME expected # NoPosition
      PROVE  Continues(1, expected, lastPacketEnd)'
  <2>1. PICK p \in Int, q \in Int : p = expected /\ q = lastPacketEnd
    BY <1>5 DEF TypeOK
  <2>2. Continues(1, p, q) /\ 1 \in 1 .. Len(packets) + 1 /\ DeviceRuns
    BY <1>5, <2>1 DEF LineInTime, Elapse, TypeOK
  <2>3. Continues(1, p, q)'
    BY <2>2, DeviceContinues
  <2> QED
    BY <1>2, <2>1, <2>3 DEF Continues, StartedAt
<1>6. expected # NoPosition => /\ lastPacketEnd > 0
                               /\ Distance(packetEnd, SampleAt(lastPacketEnd) + Delay) <= Tolerance
  BY DEF LineInTime
<1> QED
  BY <1>2, <1>3, <1>4, <1>5, <1>6 DEF LineInTime, SampleAt

\* A sample period in which nothing goes wrong.
LEMMA ElapseKeepsInTime ==
  ASSUME TypeOK, InTime, Elapse
  PROVE  InTime'
<1>1. UNCHANGED <<gap, audioActive, disturbed>>
  BY TimeKeeps DEF Elapse, NoGlitch
<1> SUFFICES ASSUME ~disturbed
             PROVE  WorldInTime' /\ (audioActive => StreamInTime')
  BY <1>1 DEF InTime
<1>2. WorldInTime /\ (audioActive => StreamInTime)
  BY DEF InTime
<1>3. WorldInTime'
  BY <1>2, ElapseKeepsWorld
<1>4. ASSUME audioActive
      PROVE  StreamInTime'
  BY <1>2, <1>4, ElapseKeepsCall, ElapseKeepsEstimate, ElapseKeepsHead, ElapseKeepsLine
     DEF StreamInTime, CallInTime
<1> QED
  BY <1>3, <1>4

-----------------------------------------------------------------------------
(* A tick begins and drains.                                               *)

LEMMA TickBeginsKeepsWorld ==
  ASSUME WorldInTime, TickBegins
  PROVE  WorldInTime'
<1>1. pausing' = FALSE /\ UNCHANGED <<now, coreFrame, displayFrame, devicePosition, packetStart, packets>>
  BY DEF TickBegins, coreVars, deviceVars
<1> QED
  BY <1>1 DEF WorldInTime, GoodPackets, Continues, StartedAt

\* A stream that begins is in time.
LEMMA StartInTime ==
  ASSUME TypeOK, WorldInTime, TickBegins, StartTimeline, StartClock
  PROVE  StreamInTime'
<1> USE TimesAssumption
<1> DEFINE field == FieldFrames * Grain
<1>1. /\ pc' = "drain" /\ now' = now /\ coreFrame' = coreFrame /\ fieldPart' = fieldPart
      /\ packets' = packets /\ packetStart' = packetStart
  BY DEF TickBegins, coreVars, deviceVars
<1>2. /\ epoch' = now /\ lastCall' = now /\ phase' = 0 /\ output' = 0 /\ played' = 0 /\ offset' = 0
      /\ clockDue' = Lead /\ expected' = NoPosition /\ lastPacketEnd' = 0 /\ heard' = FALSE
      /\ baseFrame' = coreFrame /\ lastFrame' = coreFrame /\ slots' = [k \in Ring |-> Empty]
  BY DEF StartTimeline, StartClock, WorldInTime
<1>3. now \in Nat /\ coreFrame \in Nat /\ packetStart \in Nat /\ fieldPart \in 0 .. field - 1
      /\ packetStart <= now
  BY DEF TypeOK, WorldInTime
<1>4. field \in Nat \ {0}
  BY ProductIsPositive
<1> HIDE DEF field
<1>5. fieldPart \in Int /\ 0 <= fieldPart /\ fieldPart < field
  BY <1>3, <1>4
<1>6. Progress' = fieldPart
  <2>1. Progress' = (coreFrame - coreFrame) * field + fieldPart
    BY <1>1, <1>2 DEF Progress, field
  <2>2. (coreFrame - coreFrame) * field = 0
    BY <1>3, <1>4
  <2> QED
    BY <1>5, <2>1, <2>2
<1>7. CountFloor' = 0
  <2>1. CountFloor' = (coreFrame - coreFrame) * FieldFrames + 0
    BY <1>2 DEF CountFloor
  <2> QED
    BY <1>3, <2>1
<1>8. Lag' = fieldPart
  <2>1. Lag' = fieldPart - 0 * Grain
    BY <1>2, <1>6 DEF Lag
  <2> QED
    BY <1>5, <2>1
<1>9. CallInTime'
  <2>1. Wait \in Nat
    BY PaceIsEnough
  <2> QED
    BY <1>1, <1>2, <1>3, <2>1 DEF CallInTime, Fresh
<1>10. EstimateInTime'
  <2>1. played' - CountFloor' = 0 /\ now' - lastCall' = 0
    BY <1>1, <1>2, <1>3, <1>7
  <2>2. (Grain - Drift) * 0 - Drift * 0 = 0 /\ (FieldFrames - 0) * Grain + (Grain + Drift) * 0 = field
    BY DEF field
  <2>3. offset' = 0 /\ clockDue' = played' + Lead /\ lastFrame' <= coreFrame'
    BY <1>1, <1>2, <1>3
  <2> QED
    BY <1>5, <1>8, <2>1, <2>2, <2>3 DEF EstimateInTime
<1>11. HeadInTime'
  <2> DEFINE lead == Lead * Grain
  <2>1. lead \in Nat
    BY ProductIsNat
  <2>2. Ahead' = -lead
    <3>1. Ahead' = 0 - (now - now + Lead) * Grain
      BY <1>1, <1>2 DEF Ahead, SampleAt
    <3>2. now - now + Lead = Lead
      BY <1>3
    <3> QED
      BY <2>1, <3>1, <3>2
  <2>3. Reserve' = fieldPart + lead
    <3>1. Reserve' = fieldPart - (0 - Lead) * Grain
      BY <1>2, <1>6 DEF Reserve
    <3> QED
      BY <1>5, <2>1, <3>1
  <2>4. Ahead' + Reserve' = fieldPart
    BY <1>5, <2>1, <2>2, <2>3
  <2>5. Weight \in Nat \ {0} /\ Deadband \in Nat
    BY PaceIsEnough
  <2>6. Weight * fieldPart <= Weight * (field + Deadband) /\ Weight * fieldPart \in Nat
        /\ Weight * Deadband \in Nat
    <3>1. fieldPart \in Nat /\ field + Deadband \in Nat /\ fieldPart <= field + Deadband
      BY <1>4, <1>5, <2>5
    <3>2. fieldPart * Weight <= (field + Deadband) * Weight
      BY <2>5, <3>1, ProductGrows
    <3>3. Weight * fieldPart \in Nat /\ Weight * Deadband \in Nat
      BY <2>5, <3>1, ProductIsNat
    <3>4. Weight * fieldPart = fieldPart * Weight
          /\ Weight * (field + Deadband) = (field + Deadband) * Weight
      BY <2>5, <3>1
    <3> QED
      BY <3>2, <3>3, <3>4
  <2>7. Weight * (Ahead' + Reserve') = Weight * fieldPart
    BY <2>4
  <2> DEFINE high == Weight * (field + Deadband)
             low == Weight * Deadband
             mid == Weight * fieldPart
  <2>8. high \in Int /\ mid <= high /\ mid \in Nat /\ low \in Nat
    BY <1>4, <2>5, <2>6
  <2> HIDE DEF lead, high, low, mid
  <2>9. mid - (fieldPart + lead) <= high /\ -(field + low) <= mid + (fieldPart + lead)
    BY <1>4, <1>5, <2>1, <2>8
  <2>10. Fresh' /\ pc' # "out"
    BY <1>1, <1>2 DEF Fresh
  <2> QED
    BY <2>3, <2>7, <2>9, <2>10 DEF HeadInTime, high, low, mid, field
<1>12. LineInTime'
  <2>1. OnLine' = {}
    BY <1>2 DEF OnLine
  <2>2. SampleAt(now)' = 0
    BY <1>1, <1>2, <1>3 DEF SampleAt
  <2>3. 0 * Grain = 0 /\ Drift * 0 = 0
    OBVIOUS
  <2>4. phase' = output' * Grain
    BY <1>2, <2>3
  <2>5. -(Drift * SampleAt(now)') <= Progress' - SampleAt(now)' * Grain
        /\ Progress' - SampleAt(now)' * Grain < field + Drift * SampleAt(now)'
    BY <1>4, <1>5, <1>6, <2>2, <2>3
  <2>6. Unsteered'
    BY <1>1, <1>2, <1>3, <2>1, <2>4, <2>5 DEF Unsteered, field
  <2> QED
    BY <1>2, <2>1, <2>6 DEF LineInTime, LineUnbroken
<1> QED
  BY <1>9, <1>10, <1>11, <1>12 DEF StreamInTime

LEMMA TickBeginsInTime ==
  ASSUME TypeOK, InTime, TickBegins
  PROVE  InTime'
<1>1. disturbed' = disturbed /\ audioActive' = accepting
  BY DEF TickBegins
<1>2. CASE disturbed
  BY <1>1, <1>2 DEF InTime
<1>3. CASE ~disturbed
  <2>1. WorldInTime /\ ~gap /\ (audioActive => StreamInTime)
    BY <1>3 DEF InTime
  <2>2. WorldInTime'
    BY <2>1, TickBeginsKeepsWorld
  <2>3. CASE accepting /\ ClockIsStale
    <3>1. StartTimeline /\ StartClock
      BY <2>3 DEF TickBegins
    <3> QED
      BY <2>1, <2>2, <3>1, StartInTime DEF InTime, StartTimeline
  <2>4. CASE ~(accepting /\ ClockIsStale)
    <3>1. UNCHANGED <<timelineVars, heard, gap, clockVars>>
      BY <2>4 DEF TickBegins
    <3>2. CASE ~accepting
      BY <1>1, <2>1, <2>2, <3>1, <3>2 DEF InTime
    <3>3. CASE accepting
      <4>1. audioActive /\ StreamInTime
        BY <2>1, <2>4, <3>3 DEF ClockIsStale
      <4>2. /\ pc = "out" /\ pc' = "drain"
            /\ UNCHANGED <<now, coreFrame, fieldPart, displayFrame, devicePosition, packetStart,
                           packets>>
        BY DEF TickBegins, coreVars, deviceVars
      <4>3. UNCHANGED <<epoch, phase, output, slots, holes, expected, packetEnd, lastPacketEnd,
                        baseFrame, lastFrame, lastCall, played, offset, clockDue, heard>>
        BY <3>1 DEF timelineVars, placeVars, clockVars
      <4>4. UNCHANGED <<Progress, Lag, Reserve, Ahead, CountFloor, HeadOnTime>>
        BY <4>2, <4>3 DEF Progress, Lag, Reserve, Ahead, CountFloor, SampleAt, HeadOnTime
      <4>5. CallInTime' /\ EstimateInTime' /\ HeadInTime'
        BY <4>1, <4>2, <4>3, <4>4 DEF StreamInTime, CallInTime, EstimateInTime, HeadInTime, Fresh
      <4>6. LineInTime'
        BY <4>1, <4>2, <4>3, <4>4 DEF StreamInTime, LineInTime, LineUnbroken, Unsteered, Continues,
                                      StartedAt, OnLine, HeadIndex, SampleAt
      <4> QED
        BY <2>1, <2>2, <3>1, <4>5, <4>6 DEF InTime, StreamInTime
    <3> QED
      BY <3>2, <3>3
  <2> QED
    BY <2>3, <2>4
<1> QED
  BY <1>2, <1>3

\* A packet that is fetched leaves the next in its place.
LEMMA FetchContinues ==
  ASSUME TypeOK, Fetch, NEW i \in 1 .. Len(packets), NEW position \in Int, NEW end \in Int,
         Continues(i + 1, position, end)
  PROVE  Continues(i, position, end)'
<1>1. packets # <<>> /\ packets' = Tail(packets) /\ packets \in Seq(PacketType)
      /\ UNCHANGED <<devicePosition, packetStart>>
  BY DEF Fetch, TypeOK
<1>2. /\ Len(packets) \in Nat /\ Len(packets') = Len(packets) - 1
      /\ \A k \in 1 .. Len(packets) - 1 : packets'[k] = packets[k + 1]
  BY <1>1
<1>3. CASE i <= Len(packets')
  BY <1>2, <1>3 DEF Continues
<1>4. CASE ~(i <= Len(packets'))
  BY <1>1, <1>2, <1>4 DEF Continues, StartedAt
<1> QED
  BY <1>3, <1>4

LEMMA FetchKeepsWorld ==
  ASSUME TypeOK, WorldInTime, Fetch
  PROVE  WorldInTime'
<1> USE TimesAssumption
<1>1. packets # <<>> /\ packets' = Tail(packets) /\ packets \in Seq(PacketType)
      /\ UNCHANGED <<now, coreFrame, displayFrame, pausing, devicePosition, packetStart>>
  BY DEF Fetch, TypeOK, worldVars, coreVars
<1>2. /\ Len(packets) \in Nat /\ Len(packets') = Len(packets) - 1
      /\ \A k \in 1 .. Len(packets) - 1 : packets'[k] = packets[k + 1]
  BY <1>1
<1>3. ASSUME NEW i \in 1 .. Len(packets')
      PROVE  /\ packets'[i].valid /\ ~packets'[i].discontinuity
             /\ 0 <= packets'[i].timestamp
             /\ packets'[i].timestamp + PacketFrames <= now' + Slip + Jitter
             /\ Continues(i + 1, packets[i].position + PacketFrames,
                          packets[i].timestamp + PacketFrames)'
  <2>1. i + 1 \in 1 .. Len(packets) /\ packets'[i] = packets[i + 1] /\ i + 1 = (i + 1)
    BY <1>2
  <2> DEFINE next == packets[i + 1].position + PacketFrames
             ends == packets[i + 1].timestamp + PacketFrames
  <2>2. /\ packets[i + 1].valid /\ ~packets[i + 1].discontinuity
        /\ 0 <= packets[i + 1].timestamp
        /\ packets[i + 1].timestamp + PacketFrames <= now + Slip + Jitter
        /\ Continues((i + 1) + 1, next, ends)
    BY <2>1 DEF WorldInTime, GoodPackets
  <2>3. next \in Int /\ ends \in Int
    <3>1. packets[i + 1] \in PacketType
      BY <1>1, <2>1
    <3> QED
      BY <3>1 DEF PacketType
  <2>4. PICK p \in Int, q \in Int : p = next /\ q = ends
    BY <2>3
  <2>5. Continues(i + 1, p, q)'
    <3>1. Continues((i + 1) + 1, p, q)
      BY <2>2, <2>4
    <3> QED
      BY <2>1, <3>1, FetchContinues
  <2>6. p = packets'[i].position + PacketFrames /\ q = packets'[i].timestamp + PacketFrames
    BY <2>1, <2>4
  <2>7. Continues(i + 1, packets[i].position + PacketFrames, packets[i].timestamp + PacketFrames)'
    BY <2>5, <2>6 DEF Continues, StartedAt
  <2> QED
    BY <1>1, <2>1, <2>2, <2>7
<1> QED
  BY <1>1, <1>3 DEF WorldInTime, GoodPackets

\* Fetching moves neither the clock nor the head.
LEMMA FetchKeepsClock ==
  ASSUME CallInTime, EstimateInTime, HeadInTime, Fetch
  PROVE  CallInTime' /\ EstimateInTime' /\ HeadInTime'
<1>1. /\ pc = "drain" /\ pc' = "drain"
      /\ UNCHANGED <<now, coreFrame, fieldPart, displayFrame, packetStart, epoch, phase, output,
                     baseFrame, lastFrame, lastCall, played, offset, clockDue>>
  BY DEF Fetch, worldVars, coreVars, clockVars
<1>2. UNCHANGED <<Progress, Lag, Reserve, Ahead, CountFloor, HeadOnTime>>
  BY <1>1 DEF Progress, Lag, Reserve, Ahead, CountFloor, SampleAt, HeadOnTime
<1> QED
  BY <1>1, <1>2 DEF CallInTime, EstimateInTime, HeadInTime, Fresh

\* What a packet puts on the line: its places ahead of the head that the ring has room for.
LEMMA PlacesAreHeld ==
  ASSUME TypeOK, SlotsInWindow, PlacePacket, NEW start \in Int,
         start = IF Follows(Head(packets), SampleAt(Head(packets).timestamp) + Delay)
                 THEN packetEnd ELSE SampleAt(Head(packets).timestamp) + Delay
  PROVE  OnLine' = OnLine \cup {i \in start .. start + PacketFrames - 1 : Fits(i)}
<1> DEFINE places == {i \in start .. start + PacketFrames - 1 : Fits(i)}
<1>1. slots' = [k \in Ring |-> IF \E i \in places : Slot(i) = k
                               THEN CHOOSE i \in places : Slot(i) = k
                               ELSE slots[k]]
  BY DEF PlacePacket
<1>2. HeadIndex \in Nat
  BY HeadIsNat
<1>3. \A i \in places : i \in Nat /\ HeadIndex <= i /\ i < HeadIndex + RingSize
  BY <1>2, SizesAssumption, TimesAssumption DEF Fits
<1>4. OnLine \subseteq OnLine'
  BY PlaceKeepsWindow
<1> HIDE DEF places
<1>5. ASSUME NEW i \in places
      PROVE  Slot(i) \in Ring /\ slots'[Slot(i)] = i /\ i # Empty
  <2> DEFINE k == Slot(i)
             j == CHOOSE j \in places : Slot(j) = k
  <2>1. i \in Nat /\ k \in Ring
    BY <1>3, SizesAssumption, DivisionIsNat DEF Slot, Ring
  <2>2. j \in places /\ Slot(j) = k /\ slots'[k] = j
    BY <1>1, <2>1
  <2> HIDE DEF j, k
  <2>3. j \in Nat /\ HeadIndex <= j /\ j < HeadIndex + RingSize
    BY <1>3, <2>2
  <2>4. i \in Nat /\ HeadIndex <= i /\ i < HeadIndex + RingSize
    BY <1>3
  <2>5. i % RingSize = j % RingSize
    BY <2>2 DEF Slot, k
  <2>6. i = j
    <3>1. CASE i <= j
      <4>1. j < i + RingSize
        BY <1>2, <2>3, <2>4, SizesAssumption
      <4> QED
        BY <2>3, <2>4, <2>5, <3>1, <4>1, OneSlotOnePlace, SizesAssumption
    <3>2. CASE j <= i
      <4>1. i < j + RingSize
        BY <1>2, <2>3, <2>4, SizesAssumption
      <4> QED
        BY <2>3, <2>4, <2>5, <3>2, <4>1, OneSlotOnePlace, SizesAssumption
    <3> QED
      BY <2>3, <2>4, <3>1, <3>2
  <2> QED
    BY <2>1, <2>2, <2>6 DEF k, Empty
<1>6. places \subseteq OnLine'
  BY <1>5 DEF OnLine
<1>7. OnLine' \subseteq OnLine \cup places
  <2> SUFFICES ASSUME NEW k \in Ring, slots'[k] # Empty
               PROVE  slots'[k] \in OnLine \cup places
    BY DEF OnLine
  <2>1. CASE \E i \in places : Slot(i) = k
    BY <1>1, <2>1
  <2>2. CASE ~ \E i \in places : Slot(i) = k
    <3>1. slots'[k] = slots[k]
      BY <1>1, <2>2
    <3> QED
      BY <3>1 DEF OnLine
  <2> QED
    BY <2>1, <2>2
<1> QED
  BY <1>4, <1>6, <1>7 DEF places

\* A head that is on time is far enough for what comes to fit the ring.
LEMMA RingIsLongEnough ==
  ASSUME TypeOK, CallInTime, HeadInTime, pc = "drain"
  PROVE  now - epoch + Delay + LongestHole <= HeadIndex + RingSize
<1> USE TimesAssumption, SizesAssumption
<1> DEFINE spare == Deadband \div Grain
           rest == Deadband % Grain
<1>1. Deadband = Grain * spare + rest /\ rest \in 0 .. Grain - 1 /\ spare \in Nat
  BY PaceIsEnough, DivisionIsNat
<1>2. phase = Grain * HeadIndex + (phase % Grain) /\ phase % Grain \in 0 .. Grain - 1
      /\ HeadIndex \in Nat
  BY DivisionIsNat DEF HeadIndex, Index, TypeOK
<1>3. now \in Nat /\ epoch \in Nat /\ lastCall \in Nat /\ phase \in Nat
      /\ Deadband \in Nat /\ Wait \in Nat /\ LongestHole \in Nat
  BY PaceIsEnough DEF TypeOK
<1>4. /\ Delay + LongestHole <= RingSize
      /\ Wait + Delay + LongestHole + FieldFrames + 3 + spare - Lead <= RingSize
  BY PaceAssumption
<1> HIDE DEF spare, rest
<1>5. CASE Fresh
  BY <1>2, <1>3, <1>4, <1>5 DEF Fresh
<1>6. CASE HeadOnTime
  <2> DEFINE due == lastCall - epoch + Lead
             back == FieldFrames + 2
  <2>1. -(phase - due * Grain) <= back * Grain + Deadband
    BY <1>6 DEF HeadOnTime, SampleAt
  <2>2. due \in Int /\ back \in Nat /\ due * Grain \in Int /\ back * Grain \in Int
        /\ Grain * spare \in Int /\ Grain * HeadIndex \in Int /\ phase % Grain \in Int /\ rest \in Int
    BY <1>1, <1>2, <1>3
  <2> DEFINE short == due - back - spare - HeadIndex - 1
  <2>3. short \in Int
    BY <1>1, <1>2, <2>2
  <2> HIDE DEF due, back
  <2>4. Grain * short = due * Grain - back * Grain - Grain * spare - Grain * HeadIndex - Grain
    BY <1>1, <1>2, <2>2
  <2>5. Grain * short < Grain
    <3>1. phase < Grain * HeadIndex + Grain /\ Deadband < Grain * spare + Grain
      BY <1>1, <1>2, <1>3, <2>2
    <3> HIDE DEF short
    <3> QED
      BY <1>3, <2>1, <2>2, <2>4, <3>1
  <2>6. short <= 0
    <3> HIDE DEF short
    <3> SUFFICES ASSUME short >= 1 PROVE FALSE
      BY <2>3
    <3>1. (short - 1) * Grain \in Nat
      BY <2>3, ProductIsNat
    <3>2. (short - 1) * Grain = Grain * short - Grain
      BY <2>3
    <3> QED
      BY <2>3, <2>5, <3>1, <3>2
  <2>7. lastCall - epoch + Lead - FieldFrames - 2 - spare - 1 <= HeadIndex
    BY <1>1, <1>2, <1>3, <2>6 DEF due, back
  <2>8. now - lastCall <= Wait
    BY DEF CallInTime
  <2> QED
    BY <1>1, <1>2, <1>3, <1>4, <2>7, <2>8
<1> QED
  BY <1>5, <1>6 DEF HeadInTime

\* A good packet goes on the line where the one before it ended, but for a hole that its
\* time stamp leaves, and all of it is placed.
LEMMA PlaceInTime ==
  ASSUME IInv, WorldInTime, StreamInTime, PlacePacket
  PROVE  LineInTime'
<1> USE TimesAssumption, SizesAssumption
<1> DEFINE packet == Head(packets)
           stamped == SampleAt(packet.timestamp) + Delay
           start == IF Follows(packet, stamped) THEN packetEnd ELSE stamped
<1>1. /\ Fetch /\ expected' = packet.position + PacketFrames
      /\ packetEnd' = start + PacketFrames /\ lastPacketEnd' = packet.timestamp + PacketFrames
      /\ holes' = holes \cup LeftFree(start)
  BY DEF PlacePacket
<1>2. /\ pc = "drain" /\ packets # <<>> /\ packets' = Tail(packets)
      /\ UNCHANGED <<now, epoch, phase, heard, devicePosition, packetStart>>
  BY <1>1 DEF Fetch, soundVars, worldVars
<1>3. /\ packet \in PacketType /\ packet = packets[1] /\ Len(packets) \in Nat \ {0}
      /\ now \in Nat /\ epoch \in Nat /\ packetEnd \in Int /\ lastPacketEnd \in Int
      /\ HeadIndex \in Nat /\ HeadIndex' = HeadIndex /\ 1 \in 1 .. Len(packets)
  BY <1>2, HeadIsNat DEF IInv, TypeOK, HeadIndex
<1>4. /\ packet.position \in Nat /\ packet.timestamp \in Int /\ NoPosition \notin Nat
      /\ LongestHole = Tolerance + Slip + Jitter /\ LongestHole \in Nat
  BY <1>3 DEF PacketType, NoPosition, LongestHole
<1>5. /\ ~packet.discontinuity /\ 0 <= packet.timestamp
      /\ packet.timestamp + PacketFrames <= now + Slip + Jitter
      /\ Continues(1 + 1, packet.position + PacketFrames, packet.timestamp + PacketFrames)
  BY <1>3 DEF WorldInTime, GoodPackets
<1>6. stamped \in Int /\ stamped = packet.timestamp - epoch + Delay
  BY <1>3, <1>4 DEF SampleAt
<1>7. ASSUME expected # NoPosition
      PROVE  /\ packet.position = expected
             /\ Distance(stamped, packetEnd) <= LongestHole
  <2>1. /\ packet.position = expected
        /\ Distance(packet.timestamp, lastPacketEnd) <= Slip + Jitter
        /\ Distance(packetEnd, lastPacketEnd - epoch + Delay) <= Tolerance
    BY <1>3, <1>7 DEF StreamInTime, LineInTime, Continues, SampleAt
  <2> DEFINE time == packet.timestamp
  <2>2. time \in Int /\ stamped = time - epoch + Delay
    BY <1>4, <1>6
  <2>3. Distance(time, lastPacketEnd) <= Slip + Jitter
    BY <2>1
  <2> HIDE DEF time, stamped, packet
  <2>4. Distance(stamped, packetEnd) <= LongestHole
    BY <1>3, <1>4, <2>1, <2>2, <2>3 DEF Distance
  <2> QED
    BY <2>1, <2>4
<1>8. /\ start \in Int /\ Distance(start, stamped) <= Tolerance
      /\ expected = NoPosition => start = stamped
      /\ expected # NoPosition /\ start > packetEnd => packetEnd .. start - 1 \subseteq holes'
  <2>1. CASE Follows(packet, stamped)
    <3>1. packet.position = expected /\ Distance(stamped, packetEnd) <= Tolerance
      BY <2>1 DEF Follows
    <3> QED
      BY <1>3, <1>4, <1>6, <2>1, <3>1, SMTT(20) DEF Distance
  <2>2. CASE ~Follows(packet, stamped)
    <3>1. start = stamped /\ Distance(start, stamped) <= Tolerance
      BY <1>6, <2>2 DEF Distance
    <3>2. ASSUME expected # NoPosition, start > packetEnd
          PROVE  packetEnd .. start - 1 \subseteq holes'
      <4>1. Distance(stamped, packetEnd) > Tolerance
        BY <1>3, <1>5, <1>6, <1>7, <2>2, <3>2 DEF Follows, Distance
      <4>2. start - packetEnd \in Tolerance + 1 .. LongestHole
        BY <1>3, <1>4, <1>6, <1>7, <3>1, <3>2, <4>1 DEF Distance
      <4> QED
        BY <1>1, <3>2, <4>2 DEF LeftFree
    <3> QED
      BY <1>6, <3>1, <3>2
  <2> QED
    BY <2>1, <2>2
<1>9. OnLine' = OnLine \cup {i \in start .. start + PacketFrames - 1 : Fits(i)}
  <2>1. TypeOK /\ SlotsInWindow
    BY DEF IInv
  <2> QED
    BY <1>8, <2>1, PlacesAreHeld
<1>10. start + PacketFrames <= HeadIndex + RingSize
  <2>1. now - epoch + Delay + LongestHole <= HeadIndex + RingSize
    BY <1>2, RingIsLongEnough DEF IInv, StreamInTime
  <2> HIDE DEF start, stamped, packet
  <2>2. start <= stamped + Tolerance
    BY <1>6, <1>8 DEF Distance
  <2> QED
    BY <1>3, <1>4, <1>5, <1>6, <1>8, <2>1, <2>2, SMTT(20)
<1>11. \A i \in OnLine : i \in Nat /\ HeadIndex <= i
  BY <1>3 DEF OnLine, IInv, SlotsInWindow, TypeOK, Empty
<1>12. Continues(1, expected, lastPacketEnd)'
  <2>1. PICK p \in Int, q \in Int : /\ p = packet.position + PacketFrames
                                    /\ q = packet.timestamp + PacketFrames
    <3> DEFINE next == packet.position + PacketFrames
               ends == packet.timestamp + PacketFrames
    <3>1. next \in Int /\ ends \in Int
      BY <1>4
    <3> QED
      BY <3>1
  <2>2. Continues(1, p, q)'
    <3>1. Continues(1 + 1, p, q) /\ TypeOK
      BY <1>5, <2>1 DEF IInv
    <3> QED
      BY <1>1, <1>3, <3>1, FetchContinues
  <2> QED
    BY <1>1, <2>1, <2>2 DEF Continues, StartedAt
<1> HIDE DEF packet, stamped, start
<1>13. /\ expected' # NoPosition /\ lastPacketEnd' > 0
       /\ Distance(packetEnd', SampleAt(lastPacketEnd)' + Delay) <= Tolerance
  <2>1. expected' # NoPosition /\ lastPacketEnd' > 0
    BY <1>1, <1>4, <1>5
  <2> DEFINE time == packet.timestamp
  <2>2. time \in Int /\ stamped = time - epoch + Delay /\ lastPacketEnd' = time + PacketFrames
    BY <1>1, <1>4, <1>6
  <2> HIDE DEF time
  <2>3. SampleAt(lastPacketEnd)' = time + PacketFrames - epoch
    BY <1>2, <1>3, <2>2 DEF SampleAt
  <2>4. Distance(packetEnd', SampleAt(lastPacketEnd)' + Delay) <= Tolerance
    BY <1>1, <1>3, <1>6, <1>8, <2>2, <2>3 DEF Distance
  <2> QED
    BY <2>1, <2>4
<1>14. OnLine' = OnLine \cup {i \in start .. start + PacketFrames - 1 : HeadIndex <= i}
  BY <1>3, <1>8, <1>9, <1>10 DEF Fits
<1>15. expected = NoPosition => OnLine = {} /\ ~heard
  BY DEF StreamInTime, LineInTime, Unsteered
<1>16. holes \subseteq holes'
  BY <1>1
<1>17. ASSUME heard', NEW j \in (HeadIndex' .. packetEnd' - 1) \ holes'
       PROVE  j \in OnLine'
  <2>1. j \in Int /\ HeadIndex <= j /\ j < start + PacketFrames /\ expected # NoPosition
        /\ j \notin holes /\ j \notin holes'
    BY <1>1, <1>2, <1>3, <1>8, <1>15, <1>16, <1>17
  <2>2. (HeadIndex .. packetEnd - 1) \ holes \subseteq OnLine
    BY <1>2, <1>17 DEF StreamInTime, LineInTime, LineUnbroken
  <2>3. CASE j < packetEnd
    BY <1>3, <1>14, <2>1, <2>2, <2>3
  <2>4. CASE packetEnd <= j /\ j < start
    BY <1>3, <1>8, <2>1, <2>4
  <2>5. CASE start <= j
    BY <1>8, <1>14, <2>1, <2>5
  <2> QED
    BY <1>3, <1>8, <2>1, <2>3, <2>4, <2>5
<1>18. ASSUME NEW i \in OnLine', NEW j \in (i .. packetEnd' - 1) \ holes'
       PROVE  j \in OnLine'
  <2>1. i \in Int /\ HeadIndex <= i
    BY <1>3, <1>8, <1>11, <1>14
  <2>2. j \in Int /\ i <= j /\ j < start + PacketFrames /\ j \notin holes /\ j \notin holes'
    BY <1>1, <1>8, <1>16, <1>18, <2>1
  <2>3. CASE i \in OnLine
    <3>1. (i .. packetEnd - 1) \ holes \subseteq OnLine /\ expected # NoPosition
      BY <1>15, <2>3 DEF StreamInTime, LineInTime, LineUnbroken
    <3>2. CASE j < packetEnd
      BY <1>3, <1>14, <2>1, <2>2, <3>1, <3>2
    <3>3. CASE packetEnd <= j /\ j < start
      BY <1>3, <1>8, <2>2, <3>1, <3>3
    <3>4. CASE start <= j
      BY <1>3, <1>8, <1>14, <2>1, <2>2, <3>4
    <3> QED
      BY <1>3, <1>8, <2>2, <3>2, <3>3, <3>4
  <2>4. CASE i \notin OnLine
    BY <1>3, <1>8, <1>14, <2>1, <2>2, <2>4
  <2> QED
    BY <2>3, <2>4
<1> QED
  BY <1>12, <1>13, <1>17, <1>18 DEF LineInTime, LineUnbroken

LEMMA DrainInTime ==
  ASSUME IInv, FollowInv, InTime, DropPacket \/ RejectPacket \/ PlacePacket
  PROVE  InTime'
<1>1. Fetch
  BY DEF DropPacket, RejectPacket, PlacePacket
<1>2. pc = "drain" /\ UNCHANGED <<disturbed, gap, audioActive, accepting>>
  BY <1>1 DEF Fetch, gateVars, soundVars, worldVars
<1>3. audioActive <=> accepting
  BY <1>2 DEF FollowInv
<1> SUFFICES ASSUME ~disturbed
             PROVE  WorldInTime' /\ (audioActive => StreamInTime')
  BY <1>2 DEF InTime
<1>4. WorldInTime /\ (audioActive => StreamInTime)
  BY DEF InTime
<1>5. WorldInTime'
  BY <1>1, <1>4, FetchKeepsWorld DEF IInv
<1>6. ASSUME audioActive
      PROVE  StreamInTime'
  <2>1. StreamInTime
    BY <1>4, <1>6
  <2>2. ~DropPacket
    BY <1>3, <1>6 DEF DropPacket
  <2>3. Head(packets).valid
    <3>1. packets # <<>> /\ packets \in Seq(PacketType)
      BY <1>1 DEF Fetch, IInv, TypeOK
    <3>2. 1 \in 1 .. Len(packets) /\ Head(packets) = packets[1]
      BY <3>1
    <3> QED
      BY <1>4, <3>2 DEF WorldInTime, GoodPackets
  <2>4. PlacePacket
    BY <2>2, <2>3 DEF RejectPacket
  <2>5. CallInTime' /\ EstimateInTime' /\ HeadInTime'
    BY <1>1, <2>1, FetchKeepsClock DEF StreamInTime
  <2> QED
    BY <1>4, <2>1, <2>4, <2>5, PlaceInTime DEF StreamInTime
<1> QED
  BY <1>5, <1>6

LEMMA DrainedInTime ==
  ASSUME FollowInv, InTime, Drained
  PROVE  InTime'
<1>1. /\ pc = "drain" /\ packets = <<>> /\ pc' = IF accepting THEN "clock" ELSE "out"
      /\ UNCHANGED <<worldVars, deviceVars, gateVars, clockVars, timelineVars, soundVars, disturbed>>
  BY DEF Drained
<1>2. audioActive <=> accepting
  BY <1>1 DEF FollowInv
<1>3. UNCHANGED <<now, coreFrame, fieldPart, displayFrame, pausing, devicePosition, packetStart,
                  packets, epoch, phase, output, slots, holes, expected, packetEnd, lastPacketEnd,
                  baseFrame, lastFrame, lastCall, played, offset, clockDue, heard, gap,
                  audioActive, disturbed>>
  BY <1>1 DEF worldVars, coreVars, deviceVars, gateVars, clockVars, timelineVars, placeVars, soundVars
<1>4. UNCHANGED <<Progress, Lag, Reserve, Ahead, CountFloor, HeadOnTime>>
  BY <1>3 DEF Progress, Lag, Reserve, Ahead, CountFloor, SampleAt, HeadOnTime
<1> SUFFICES ASSUME ~disturbed
             PROVE  WorldInTime' /\ (audioActive => StreamInTime')
  BY <1>3 DEF InTime
<1>5. WorldInTime'
  BY <1>3 DEF InTime, WorldInTime, GoodPackets, Continues, StartedAt
<1>6. ASSUME audioActive
      PROVE  StreamInTime'
  <2>1. StreamInTime /\ pc' = "clock"
    BY <1>1, <1>2, <1>6 DEF InTime
  <2>2. CallInTime' /\ EstimateInTime' /\ HeadInTime'
    BY <1>1, <1>3, <1>4, <2>1 DEF StreamInTime, CallInTime, EstimateInTime, HeadInTime, Fresh
  <2>3. LineInTime'
    BY <1>3, <1>4, <2>1 DEF StreamInTime, LineInTime, LineUnbroken, Unsteered, Continues,
                            StartedAt, OnLine, HeadIndex, SampleAt
  <2> QED
    BY <2>2, <2>3 DEF StreamInTime
<1> QED
  BY <1>5, <1>6

-----------------------------------------------------------------------------
(* The clock is asked.                                                     *)

\* What the fields say that were counted since the estimate began, and where the core is.
LEMMA CountedIsShown ==
  ASSUME TypeOK, WorldInTime, EstimateInTime
  PROVE  /\ Observed \in Int /\ fieldPart \in Int
         /\ 0 <= fieldPart /\ fieldPart < FieldFrames * Grain
         /\ Observed * Grain \in Int /\ Progress = Observed * Grain + fieldPart
         /\ displayFrame = lastFrame => Observed = CountFloor
         /\ displayFrame > lastFrame => Observed >= CountFloor + FieldFrames
<1> USE TimesAssumption
<1> DEFINE fields == coreFrame - baseFrame
           known == lastFrame - baseFrame
<1>1. offset = 0 /\ displayFrame = coreFrame /\ fields \in Int /\ known \in Int
  BY DEF WorldInTime, EstimateInTime, TypeOK
<1>2. displayFrame - baseFrame = fields
  BY <1>1
<1>3. Observed = fields * FieldFrames + 0 /\ CountFloor = known * FieldFrames + 0
  BY <1>1, <1>2 DEF Observed, CountFloor
<1>4. Progress = fields * (FieldFrames * Grain) + fieldPart
  BY DEF Progress
<1>5. FieldFrames * Grain \in Nat \ {0} /\ fieldPart \in 0 .. FieldFrames * Grain - 1
  BY ProductIsPositive DEF TypeOK
<1>6. (displayFrame = lastFrame => fields = known) /\ (displayFrame > lastFrame => fields > known)
  BY <1>1 DEF TypeOK
<1> HIDE DEF fields, known
<1>7. fields * FieldFrames \in Int /\ known * FieldFrames \in Int
      /\ (fields * FieldFrames) * Grain = fields * (FieldFrames * Grain)
      /\ (fields * FieldFrames) * Grain \in Int
  BY <1>1
<1>8. Observed = fields * FieldFrames /\ CountFloor = known * FieldFrames
  BY <1>3, <1>7
<1>9. Progress = Observed * Grain + fieldPart /\ Observed * Grain \in Int
  BY <1>4, <1>7, <1>8
<1>10. ASSUME fields > known
       PROVE  Observed >= CountFloor + FieldFrames
  <2>1. (fields - known - 1) * FieldFrames \in Nat
    BY <1>1, <1>10, ProductIsNat
  <2>2. (fields - known - 1) * FieldFrames = fields * FieldFrames - known * FieldFrames - FieldFrames
    BY <1>1
  <2> QED
    BY <1>7, <1>8, <2>1, <2>2
<1> DEFINE field == FieldFrames * Grain
<1>11. field \in Nat /\ fieldPart \in 0 .. field - 1
  BY <1>5
<1> HIDE DEF field
<1>12. fieldPart \in Int /\ 0 <= fieldPart /\ fieldPart < field
  BY <1>11
<1> QED
  BY <1>6, <1>7, <1>8, <1>9, <1>10, <1>12 DEF field

\* In time the estimate is never corrected, and it never falls.
LEMMA NeverTooFar ==
  ASSUME TypeOK, ClockInv, WorldInTime, CallInTime, EstimateInTime, displayFrame > lastFrame
  PROVE  ~TooFar(Observed) /\ Observed >= played
<1> USE TimesAssumption
<1> DEFINE over == played - CountFloor
           since == now - lastCall
           ahead == Observed - played
<1>1. /\ Observed \in Int /\ fieldPart \in Int /\ 0 <= fieldPart
      /\ Progress = Observed * Grain + fieldPart /\ Observed >= CountFloor + FieldFrames
  BY CountedIsShown
<1>2. CountFloor \in Int /\ Lag \in Int /\ played \in Nat /\ now \in Nat /\ lastCall \in Nat
  BY GrainsAreInt DEF TypeOK
<1>3. /\ over \in Nat /\ over <= FieldFrames /\ since \in Nat /\ since <= Wait
      /\ Lag < (FieldFrames - over) * Grain + (Grain + Drift) * since
  BY <1>2 DEF EstimateInTime, ClockInv, CallInTime
<1>4. ahead \in Nat
  BY <1>1, <1>2, <1>3
<1>5. Lag = ahead * Grain + fieldPart
  <2>1. Lag = (Observed * Grain + fieldPart) - played * Grain
    BY <1>1 DEF Lag
  <2>2. ahead * Grain = Observed * Grain - played * Grain
    BY <1>1, <1>2
  <2>3. Observed * Grain \in Int /\ played * Grain \in Int
    BY <1>1, <1>2
  <2> HIDE DEF ahead
  <2> QED
    BY <1>1, <2>1, <2>2, <2>3
<1> HIDE DEF over, since, ahead
<1>6. (FieldFrames - over) * Grain <= FieldFrames * Grain
  BY <1>3, ProductGrows
<1>7. (Grain + Drift) * since <= Wait * (Grain + Drift)
  <2>1. since * (Grain + Drift) <= Wait * (Grain + Drift)
    BY <1>3, PaceIsEnough, ProductGrows
  <2> QED
    BY <1>3, <2>1
<1>8. FieldFrames * Grain + Wait * (Grain + Drift) <= ReanchorLimit * Grain
  BY PaceAssumption
<1>9. /\ (FieldFrames - over) * Grain \in Int /\ FieldFrames * Grain \in Int
      /\ (Grain + Drift) * since \in Int /\ Wait * (Grain + Drift) \in Int
      /\ ReanchorLimit * Grain \in Int /\ ahead * Grain \in Int
  BY <1>3, <1>4, PaceIsEnough
<1>10. ahead * Grain < ReanchorLimit * Grain
  BY <1>1, <1>2, <1>3, <1>5, <1>6, <1>7, <1>8, <1>9
<1>11. ahead < ReanchorLimit
  BY <1>4, <1>10, SmallerFactor
<1> QED
  BY <1>1, <1>2, <1>4, <1>11 DEF TooFar, Distance, ahead

\* Asked in time, the clock counts the fields that were shown, or goes on by itself for no
\* longer than a field.
LEMMA AskKeepsEstimate ==
  ASSUME TypeOK, ClockInv, WorldInTime, CallInTime, EstimateInTime,
         CountsFields \/ ShiftsCount \/ Extrapolates
  PROVE  EstimateInTime' /\ lastFrame' = coreFrame'
<1> USE TimesAssumption
<1> DEFINE field == FieldFrames * Grain
<1>1. ClockAsked /\ lastCall' = now /\ now' = now /\ coreFrame' = coreFrame
      /\ UNCHANGED <<baseFrame, fieldPart, displayFrame>>
  BY DEF CountsFields, ShiftsCount, Extrapolates, ClockAsked, worldVars, coreVars
<1>2. /\ Observed \in Int /\ fieldPart \in Int /\ 0 <= fieldPart /\ fieldPart < field
      /\ Progress = Observed * Grain + fieldPart /\ Observed * Grain \in Int
      /\ displayFrame = lastFrame => Observed = CountFloor
  BY CountedIsShown
<1>3. /\ CountFloor \in Int /\ Lag \in Int /\ played \in Nat /\ now \in Nat /\ lastCall \in Nat
      /\ displayFrame \in Nat /\ lastFrame \in Nat
  BY GrainsAreInt DEF TypeOK
<1>4. displayFrame = coreFrame /\ lastFrame <= coreFrame /\ offset = 0 /\ clockDue = played + Lead
  BY DEF WorldInTime, EstimateInTime
<1>5. Progress' = Progress /\ now' - lastCall' = 0
  BY <1>1, <1>3 DEF Progress
<1>6. field \in Nat
  BY ProductIsNat
<1>7. CASE displayFrame > lastFrame
  <2>1. ~TooFar(Observed) /\ Observed >= played
    BY <1>7, NeverTooFar
  <2>2. CountsFields
    BY <1>3, <1>7, <2>1 DEF ShiftsCount, Extrapolates
  <2>3. /\ played' = Observed /\ lastFrame' = coreFrame /\ offset' = 0
        /\ clockDue' = Larger(clockDue, Observed + Lead)
    BY <1>4, <2>2 DEF CountsFields, DueFor
  <2>4. clockDue' = played' + Lead
    BY <1>2, <1>3, <1>4, <2>1, <2>3 DEF Larger
  <2>5. CountFloor' = Observed
    BY <1>1, <1>4, <2>3 DEF CountFloor, Observed
  <2>6. Lag' = fieldPart
    <3>1. Lag' = Observed * Grain + fieldPart - Observed * Grain
      BY <1>2, <1>5, <2>3 DEF Lag
    <3> QED
      BY <1>2, <3>1
  <2>7. played' - CountFloor' = 0
    BY <1>2, <2>3, <2>5
  <2>8. (Grain - Drift) * 0 - Drift * 0 = 0 /\ (FieldFrames - 0) * Grain + (Grain + Drift) * 0 = field
    OBVIOUS
  <2>9. lastFrame' <= coreFrame' /\ lastFrame' = coreFrame'
    BY <1>1, <1>3, <1>4, <2>3
  <2> HIDE DEF field
  <2> QED
    BY <1>2, <1>5, <2>3, <2>4, <2>6, <2>7, <2>8, <2>9 DEF EstimateInTime
<1>8. CASE displayFrame = lastFrame
  <2> DEFINE over == played - CountFloor
             since == now - lastCall
             new == over + since
  <2>1. Extrapolates
    BY <1>3, <1>8 DEF CountsFields, ShiftsCount
  <2>2. over \in Nat /\ since \in Nat /\ (Grain - Drift) * since - Drift * over <= Lag
    BY <1>3 DEF EstimateInTime, ClockInv, CallInTime
  <2>3. played' = played + since /\ lastFrame' = lastFrame /\ offset' = 0
        /\ clockDue' = Larger(clockDue, played + since + Lead)
    BY <1>3, <1>4, <2>1, <2>2 DEF Extrapolates, Larger, DueFor
  <2>4. clockDue' = played' + Lead
    BY <1>3, <1>4, <2>2, <2>3 DEF Larger
  <2>5. CountFloor' = CountFloor
    BY <1>1, <1>4, <2>3 DEF CountFloor
  <2>6. new \in Nat /\ played' - CountFloor' = new
    BY <1>3, <2>2, <2>3, <2>5
  <2>7. Lag = fieldPart - over * Grain
    <3>1. Lag = (CountFloor * Grain + fieldPart) - played * Grain
      BY <1>2, <1>8 DEF Lag
    <3>2. over * Grain = played * Grain - CountFloor * Grain
      BY <1>3
    <3>3. played * Grain \in Int /\ CountFloor * Grain \in Int /\ over * Grain \in Int
      BY <1>3, <2>2
    <3> HIDE DEF over
    <3> QED
      BY <1>2, <3>1, <3>2, <3>3
  <2>8. Lag' = Lag - since * Grain
    <3>1. Lag' = Progress - (played + since) * Grain /\ Lag = Progress - played * Grain
      BY <1>5, <2>3 DEF Lag
    <3>2. (played + since) * Grain = played * Grain + since * Grain /\ Progress \in Int
      BY <1>3, <2>2, GrainsAreInt
    <3>3. played * Grain \in Int /\ since * Grain \in Int
      BY <1>3, <2>2
    <3> HIDE DEF since
    <3> QED
      BY <3>1, <3>2, <3>3
  <2> HIDE DEF over, since, field
  <2>9. /\ over * Grain \in Int /\ since * Grain \in Int /\ Drift * over \in Int
        /\ Drift * since \in Int /\ Drift * new \in Int /\ new * Grain \in Int
        /\ (Grain - Drift) * since = since * Grain - Drift * since
        /\ Drift * new = Drift * over + Drift * since
        /\ new * Grain = over * Grain + since * Grain
    BY <2>2
  <2>10. -(Drift * new) <= Lag' /\ Lag' = fieldPart - new * Grain
    BY <1>2, <1>3, <2>2, <2>7, <2>8, <2>9
  <2>11. Lag' < field - new * Grain
    BY <1>2, <1>6, <2>9, <2>10
  <2>12. (FieldFrames - new) * Grain + (Grain + Drift) * 0 = field - new * Grain
         /\ (Grain - Drift) * 0 - Drift * new = -(Drift * new)
    BY <2>6 DEF field
  <2>13. new <= FieldFrames
    <3>1. new * (Grain - Drift) < (FieldFrames + 1) * (Grain - Drift)
      <4>1. new * (Grain - Drift) = new * Grain - Drift * new
        BY <2>6
      <4>2. (FieldFrames + 1) * (Grain - Drift) = field + Grain - Drift * FieldFrames - Drift
        BY DEF field
      <4>3. Drift * FieldFrames \in Int /\ Drift * FieldFrames + Drift <= Grain
        BY PaceIsEnough
      <4> QED
        BY <1>6, <2>9, <2>10, <2>11, <4>1, <4>2, <4>3
    <3>2. Grain - Drift \in Nat \ {0}
      BY DriftIsSmall
    <3>3. new < FieldFrames + 1
      BY <2>6, <3>1, <3>2, SmallerFactor
    <3> QED
      BY <2>6, <3>3
  <2>14. lastFrame' <= coreFrame' /\ lastFrame' = coreFrame'
    BY <1>1, <1>3, <1>4, <1>8, <2>3
  <2> HIDE DEF new
  <2> QED
    BY <1>5, <2>3, <2>4, <2>6, <2>10, <2>11, <2>12, <2>13, <2>14 DEF EstimateInTime
<1> QED
  BY <1>3, <1>4, <1>7, <1>8

LEMMA AskInTime ==
  ASSUME IInv, FollowInv, InTime, CountsFields \/ ShiftsCount \/ Extrapolates
  PROVE  InTime'
<1>1. ClockAsked
  BY DEF CountsFields, ShiftsCount, Extrapolates
<1>2. /\ pc = "clock" /\ pc' = "send" /\ lastCall' = now
      /\ UNCHANGED <<worldVars, deviceVars, gateVars, baseFrame, timelineVars, soundVars, disturbed>>
  BY <1>1 DEF ClockAsked
<1>3. UNCHANGED <<now, coreFrame, fieldPart, displayFrame, pausing, devicePosition, packetStart,
                  packets, epoch, phase, output, slots, holes, expected, packetEnd, lastPacketEnd,
                  baseFrame, heard, gap, audioActive, disturbed>>
  BY <1>2 DEF worldVars, coreVars, deviceVars, gateVars, timelineVars, placeVars, soundVars
<1>4. UNCHANGED <<Progress, Reserve, Ahead>>
  BY <1>3 DEF Progress, Reserve, Ahead, SampleAt
<1> SUFFICES ASSUME ~disturbed
             PROVE  WorldInTime' /\ (audioActive => StreamInTime')
  BY <1>3 DEF InTime
<1>5. WorldInTime /\ WorldInTime'
  BY <1>3 DEF InTime, WorldInTime, GoodPackets, Continues, StartedAt
<1>6. ASSUME audioActive
      PROVE  StreamInTime'
  <2>1. StreamInTime
    BY <1>6 DEF InTime
  <2>2. CallInTime'
    <3>1. now \in Nat /\ Wait \in Nat /\ lastCall \in Nat /\ epoch \in Nat
      BY PaceIsEnough DEF IInv, TypeOK
    <3> QED
      BY <1>2, <1>3, <2>1, <3>1 DEF StreamInTime, CallInTime
  <2>3. EstimateInTime'
    BY <1>5, <2>1, AskKeepsEstimate DEF StreamInTime, IInv
  <2>4. HeadInTime'
    BY <1>2, <1>4, <2>1 DEF StreamInTime, HeadInTime
  <2>5. LineInTime'
    BY <1>3, <1>4, <2>1 DEF StreamInTime, LineInTime, LineUnbroken, Unsteered, Continues,
                            StartedAt, OnLine, HeadIndex, SampleAt
  <2> QED
    BY <2>2, <2>3, <2>4, <2>5 DEF StreamInTime
<1> QED
  BY <1>5, <1>6

-----------------------------------------------------------------------------
(* What is due is sent.                                                    *)

\* The servo never overshoots, and beyond the deadband it outruns the drift.
LEMMA CorrectionPulls ==
  ASSUME NEW error \in Int
  PROVE  /\ Correction(error) \in Int
         /\ error >= 0 => Correction(error) >= 0 /\ ServoTime * Correction(error) <= error
         /\ error <= 0 => Correction(error) <= 0 /\ error <= ServoTime * Correction(error)
         /\ error >= Deadband => Correction(error) >= Pull
         /\ error <= -Deadband => Correction(error) <= -Pull
<1> USE TimesAssumption
<1> DEFINE c == Correction(error)
<1>1. Pull \in Nat /\ Pull <= MaxCorrection /\ Deadband = Pull * ServoTime /\ 0 < Pull
  <2>1. Pull \in Nat /\ 0 < Pull
    BY PaceIsEnough
  <2> QED
    BY <2>1, PaceAssumption DEF Deadband
  \* How far a correction goes for an error of this size.
<1>2. ASSUME NEW size \in Nat, NEW rate \in Nat, rate = size \div ServoTime
      PROVE  /\ ServoTime * rate <= size
             /\ size >= Deadband => rate >= Pull
             /\ \A k \in Nat : k <= rate => ServoTime * k <= size
  <2>1. size = ServoTime * rate + (size % ServoTime) /\ size % ServoTime \in 0 .. ServoTime - 1
    BY <1>2, DivisionIsNat
  <2>2. ServoTime * rate \in Nat /\ size % ServoTime \in Int
    BY <2>1, ProductIsNat
  <2>3. ASSUME size >= Deadband
        PROVE  rate >= Pull
    <3>1. (rate + 1) * ServoTime = ServoTime * rate + ServoTime
      OBVIOUS
    <3>2. Pull * ServoTime < (rate + 1) * ServoTime
      BY <1>1, <2>1, <2>2, <2>3, <3>1
    <3>3. Pull < rate + 1
      BY <1>1, <3>2, SmallerFactor
    <3> QED
      BY <1>1, <3>3
  <2>4. ASSUME NEW k \in Nat, k <= rate
        PROVE  ServoTime * k <= size
    <3>1. k * ServoTime <= rate * ServoTime
      BY <2>4, ProductGrows
    <3>2. ServoTime * k = k * ServoTime /\ rate * ServoTime = ServoTime * rate
      OBVIOUS
    <3> QED
      BY <2>1, <2>2, <3>1, <3>2
  <2> QED
    BY <2>1, <2>2, <2>3, <2>4
<1>3. CASE error >= 0
  <2> DEFINE rate == error \div ServoTime
  <2>1. error \in Nat /\ rate \in Nat
    BY <1>3, DivisionIsNat
  <2>2. c = IF rate > MaxCorrection THEN MaxCorrection ELSE Larger(-MaxCorrection, rate)
    BY <1>3 DEF Correction
  <2>3. /\ error >= Deadband => rate >= Pull
        /\ \A k \in Nat : k <= rate => ServoTime * k <= error
    BY <1>2, <2>1
  <2> HIDE DEF rate, c
  <2>4. c \in Nat /\ c <= rate /\ (rate >= Pull => c >= Pull)
    BY <1>1, <2>1, <2>2 DEF Larger
  <2>5. ServoTime * c <= error
    BY <2>3, <2>4
  <2>6. ASSUME error = 0
        PROVE  c = 0
    <3>1. c * ServoTime < 1 * ServoTime
      BY <2>4, <2>5, <2>6
    <3> QED
      BY <2>4, <3>1, SmallerFactor
  <2>7. error <= 0 => c <= 0 /\ error <= ServoTime * c
    BY <1>3, <2>6
  <2>8. Deadband \in Nat /\ (error <= -Deadband => Deadband = 0)
    BY <1>3, PaceIsEnough
  <2>9. Deadband # 0
    BY <1>1, ProductIsPositive
  <2> QED
    BY <1>3, <2>3, <2>4, <2>5, <2>7, <2>8, <2>9 DEF c
<1>4. CASE error < 0
  <2> DEFINE size == -error
             rate == size \div ServoTime
  <2>1. size \in Nat /\ rate \in Nat /\ error = -size
    BY <1>4, DivisionIsNat
  <2>2. c = IF -rate > MaxCorrection THEN MaxCorrection ELSE Larger(-MaxCorrection, -rate)
    BY <1>4 DEF Correction
  <2>3. /\ size >= Deadband => rate >= Pull
        /\ \A k \in Nat : k <= rate => ServoTime * k <= size
    BY <1>2, <2>1
  <2> HIDE DEF rate, size, c
  <2>4. -c \in Nat /\ -c <= rate /\ (rate >= Pull => -c >= Pull) /\ c \in Int
    BY <1>1, <2>1, <2>2 DEF Larger
  <2>5. ServoTime * (-c) <= size /\ ServoTime * (-c) = -(ServoTime * c)
    BY <2>3, <2>4
  <2>6. error <= ServoTime * c
    BY <2>1, <2>4, <2>5
  <2>7. Deadband \in Nat
    BY PaceIsEnough
  <2> QED
    BY <1>1, <1>4, <2>1, <2>3, <2>4, <2>6, <2>7 DEF c
<1> QED
  BY <1>3, <1>4

\* After a send the first weighing is in its bound, if it was before.
LEMMA SteeredDown ==
  ASSUME NEW m \in Nat \ {0}, NEW g \in Nat, NEW field \in Nat, NEW dead \in Nat,
         NEW pull \in Nat, NEW servo \in Nat, NEW n \in Nat, n <= servo,
         NEW sum \in Int, NEW lag \in Int, NEW c \in Int,
         g <= m * pull, lag <= field,
         lag - sum >= 0 => c >= 0 /\ servo * c <= lag - sum,
         lag - sum <= 0 => c <= 0,
         lag - sum <= -dead => c <= -pull,
         m * sum - (lag + n * g) <= m * (field + dead)
  PROVE  m * (sum + n * c) - lag <= m * (field + dead)
<1> DEFINE bound == m * (field + dead)
<1>1. m * (sum + n * c) = m * sum + n * (m * c) /\ m * sum \in Int /\ n * (m * c) \in Int /\ n * g \in Int
  OBVIOUS
<1>2. bound \in Int
  OBVIOUS
<1>3. CASE lag - sum <= -dead
  <2>1. (-c - pull) * m \in Nat
    BY <1>3, ProductIsNat
  <2>2. (-c - pull) * m = -(m * c) - m * pull /\ m * c \in Int /\ m * pull \in Int
    OBVIOUS
  <2>3. m * c <= -g
    BY <2>1, <2>2
  <2>4. (-(m * c) - g) * n \in Nat
    BY <2>2, <2>3, ProductIsNat
  <2>5. (-(m * c) - g) * n = -(n * (m * c)) - n * g
    OBVIOUS
  <2> HIDE DEF bound
  <2>6. m * sum - (lag + n * g) <= bound
    BY DEF bound
  <2>7. m * (sum + n * c) - lag <= bound
    BY <1>1, <1>2, <2>4, <2>5, <2>6
  <2> QED
    BY <2>7 DEF bound
<1>4. CASE ~(lag - sum <= -dead)
  <2>1. sum + n * c <= lag + dead
    <3>1. CASE lag - sum >= 0
      <4>1. n * c <= servo * c
        BY <3>1, ProductGrows
      <4> QED
        BY <3>1, <4>1
    <3>2. CASE lag - sum <= 0
      <4>1. n * (-c) \in Nat /\ n * (-c) = -(n * c)
        BY <3>2, ProductIsNat
      <4> QED
        BY <1>4, <4>1
    <3> QED
      BY <3>1, <3>2
  <2> DEFINE at == sum + n * c
  <2>2. at \in Int /\ at <= lag + dead
    BY <2>1
  <2> HIDE DEF at
  <2>3. (lag + dead - at) * m \in Nat /\ (lag + dead - at) * m = m * lag + m * dead - m * at
    <3>1. lag + dead - at \in Nat
      BY <2>2
    <3>2. (lag + dead - at) * m = m * lag + m * dead - m * at
      BY <2>2
    <3> QED
      BY <3>1, <3>2, ProductIsNat
  <2>4. (field - lag) * (m - 1) \in Nat
    BY ProductIsNat
  <2>5. (field - lag) * (m - 1) = m * field - field - m * lag + lag
    OBVIOUS
  <2>6. m * field \in Int /\ m * lag \in Int /\ m * dead \in Int /\ m * at \in Int
        /\ m * (field + dead) = m * field + m * dead
    BY <2>2
  <2>7. m * at - lag <= m * (field + dead)
    BY <2>3, <2>4, <2>5, <2>6
  <2> QED
    BY <2>7 DEF at
<1> QED
  BY <1>3, <1>4

\* And so is the second.
LEMMA SteeredUp ==
  ASSUME NEW m \in Nat \ {0}, NEW g \in Nat, NEW field \in Nat, NEW dead \in Nat, NEW slack \in Nat,
         NEW pull \in Nat, NEW servo \in Nat, NEW n \in Nat, n <= servo,
         NEW sum \in Int, NEW lag \in Int, NEW c \in Int,
         g <= m * pull, -slack <= lag, m * slack + slack <= field,
         lag - sum >= 0 => c >= 0,
         lag - sum <= 0 => c <= 0 /\ lag - sum <= servo * c,
         lag - sum >= dead => c >= pull,
         -(field + m * dead) <= m * sum + (lag + n * g)
  PROVE  -(field + m * dead) <= m * (sum + n * c) + lag
<1> DEFINE bound == -(field + m * dead)
<1>1. m * (sum + n * c) = m * sum + n * (m * c) /\ m * sum \in Int /\ n * (m * c) \in Int /\ n * g \in Int
  OBVIOUS
<1>2. bound \in Int /\ m * dead \in Int
  OBVIOUS
<1>3. CASE lag - sum >= dead
  <2>1. (c - pull) * m \in Nat
    BY <1>3, ProductIsNat
  <2>2. (c - pull) * m = m * c - m * pull /\ m * c \in Int /\ m * pull \in Int
    OBVIOUS
  <2>3. g <= m * c
    BY <2>1, <2>2
  <2>4. (m * c - g) * n \in Nat
    BY <2>2, <2>3, ProductIsNat
  <2>5. (m * c - g) * n = n * (m * c) - n * g
    OBVIOUS
  <2>6. bound <= m * sum + (lag + n * g)
    OBVIOUS
  <2> HIDE DEF bound
  <2>7. bound <= m * (sum + n * c) + lag
    BY <1>1, <1>2, <2>4, <2>5, <2>6
  <2> QED
    BY <2>7 DEF bound
<1>4. CASE ~(lag - sum >= dead)
  <2>1. lag - dead <= sum + n * c
    <3>1. CASE lag - sum <= 0
      <4>1. (servo - n) * (-c) \in Nat
        BY <3>1, ProductIsNat
      <4>2. (servo - n) * (-c) = n * c - servo * c /\ n * c \in Int /\ servo * c \in Int
        OBVIOUS
      <4> QED
        BY <3>1, <4>1, <4>2
    <3>2. CASE lag - sum >= 0
      <4>1. n * c \in Nat
        BY <3>2, ProductIsNat
      <4> QED
        BY <1>4, <4>1
    <3> QED
      BY <3>1, <3>2
  <2> DEFINE at == sum + n * c
  <2>2. at \in Int /\ lag - dead <= at
    BY <2>1
  <2> HIDE DEF at
  <2>3. (at - lag + dead) * m \in Nat /\ (at - lag + dead) * m = m * at - m * lag + m * dead
    <3>1. at - lag + dead \in Nat
      BY <2>2
    <3>2. (at - lag + dead) * m = m * at - m * lag + m * dead
      BY <2>2
    <3> QED
      BY <3>1, <3>2, ProductIsNat
  <2>4. (lag + slack) * (m + 1) \in Nat
    BY ProductIsNat
  <2>5. (lag + slack) * (m + 1) = m * lag + lag + m * slack + slack
    OBVIOUS
  <2>6. m * lag \in Int /\ m * at \in Int /\ m * slack \in Int
    BY <2>2
  <2>7. -(field + m * dead) <= m * at + lag
    BY <1>2, <2>3, <2>4, <2>5, <2>6
  <2> QED
    BY <2>7 DEF at
<1> QED
  BY <1>3, <1>4

\* Where the core is within a field of what was sent, the weighings say where the head is.
LEMMA WeighedHead ==
  ASSUME NEW m \in Nat \ {0}, NEW f \in Nat, f <= m, NEW g \in Nat, NEW field \in Nat, field = f * g,
         NEW dead \in Nat, NEW slack \in Nat,
         NEW ahead \in Int, NEW lag \in Int, -slack <= lag, lag <= field,
         m * (ahead + lag) - lag <= m * (field + dead),
         -(field + m * dead) <= m * (ahead + lag) + lag
  PROVE  /\ ahead <= field + dead + slack
         /\ -ahead <= field + 2 * g + dead
<1>1. m * (ahead + lag) = m * ahead + m * lag /\ m * (field + dead) = m * field + m * dead
      /\ m * ahead \in Int /\ m * lag \in Int /\ m * field \in Int /\ m * dead \in Int
      /\ m * slack \in Int /\ m * g \in Int
  OBVIOUS
<1>2. ahead <= field + dead + slack
  <2>1. (lag + slack) * (m - 1) \in Nat
    BY ProductIsNat
  <2>2. (lag + slack) * (m - 1) = m * lag - lag + m * slack - slack
    OBVIOUS
  <2>3. m * ahead < m * field + m * dead + m * slack + m
    BY <1>1, <2>1, <2>2
  <2>4. (field + dead + slack + 1) * m = m * field + m * dead + m * slack + m /\ ahead * m = m * ahead
    OBVIOUS
  <2>5. ahead < field + dead + slack + 1
    <3>1. ahead * m < (field + dead + slack + 1) * m
      BY <2>3, <2>4
    <3>2. field + dead + slack + 1 \in Int
      OBVIOUS
    <3> QED
      BY <3>1, <3>2, SmallerFactor
  <2> QED
    BY <2>5
<1>3. -ahead <= field + 2 * g + dead
  <2>1. (field - lag) * (m + 1) \in Nat
    BY ProductIsNat
  <2>2. (field - lag) * (m + 1) = m * field + field - m * lag - lag
    OBVIOUS
  <2>3. field <= m * g
    <3>1. f * g <= m * g
      BY ProductGrows
    <3> QED
      BY <3>1
  <2>4. -(m * ahead) < m * field + 2 * (m * g) + m * dead + m
    BY <1>1, <2>1, <2>2, <2>3
  <2>5. (field + 2 * g + dead + 1) * m = m * field + 2 * (m * g) + m * dead + m
        /\ (-ahead) * m = -(m * ahead)
    OBVIOUS
  <2>6. -ahead < field + 2 * g + dead + 1
    <3>1. (-ahead) * m < (field + 2 * g + dead + 1) * m
      BY <2>4, <2>5
    <3>2. field + 2 * g + dead + 1 \in Int /\ -ahead \in Int
      OBVIOUS
    <3> QED
      BY <3>1, <3>2, SmallerFactor
  <2> QED
    BY <2>6
<1> QED
  BY <1>2, <1>3

\* When the clock has been asked, the core is where the estimate has it, but for a field.
LEMMA AtSend ==
  ASSUME TypeOK, ClockInv, CallInTime, EstimateInTime, pc = "send"
  PROVE  /\ lastCall = now /\ packets = <<>> /\ clockDue = played + Lead
         /\ Reserve = Lag + (clockDue - output) * Grain
         /\ -(Drift * FieldFrames) <= Lag /\ Lag <= FieldFrames * Grain
<1> USE TimesAssumption
<1> DEFINE over == played - CountFloor
           since == now - lastCall
<1>1. lastCall = now /\ packets = <<>> /\ clockDue = played + Lead
  BY DEF CallInTime, EstimateInTime
<1>2. /\ played \in Nat /\ CountFloor \in Int /\ now \in Nat /\ output \in Nat /\ clockDue \in Nat
      /\ Lag \in Int /\ Reserve \in Int /\ Progress \in Int
  BY GrainsAreInt DEF TypeOK
<1>3. over \in Nat /\ over <= FieldFrames /\ since = 0
      /\ (Grain - Drift) * since - Drift * over <= Lag
      /\ Lag < (FieldFrames - over) * Grain + (Grain + Drift) * since
  BY <1>1, <1>2 DEF EstimateInTime, ClockInv
<1> HIDE DEF over, since
<1>4. (Grain - Drift) * since = 0 /\ (Grain + Drift) * since = 0
  BY <1>3
<1>5. Drift * over <= Drift * FieldFrames /\ (FieldFrames - over) * Grain <= FieldFrames * Grain
  <2>1. over * Drift <= FieldFrames * Drift
    BY <1>3, ProductGrows
  <2>2. (FieldFrames - over) \in Nat /\ FieldFrames - over <= FieldFrames
    BY <1>3
  <2>3. (FieldFrames - over) * Grain <= FieldFrames * Grain
    BY <2>2, ProductGrows
  <2>4. Drift * over = over * Drift /\ Drift * FieldFrames = FieldFrames * Drift
    BY <1>3
  <2> QED
    BY <2>1, <2>3, <2>4
<1>6. /\ Drift * over \in Int /\ Drift * FieldFrames \in Int /\ (FieldFrames - over) * Grain \in Int
      /\ FieldFrames * Grain \in Int
  BY <1>3
<1>7. -(Drift * FieldFrames) <= Lag /\ Lag <= FieldFrames * Grain
  BY <1>2, <1>3, <1>4, <1>5, <1>6
<1>8. Reserve = Lag + (clockDue - output) * Grain
  <2>1. Lag = Progress - played * Grain /\ Reserve = Progress - (output - Lead) * Grain
    BY DEF Lag, Reserve
  <2>2. (clockDue - output) * Grain = played * Grain - (output - Lead) * Grain
    BY <1>1, <1>2
  <2>3. played * Grain \in Int /\ (output - Lead) * Grain \in Int
    BY <1>2
  <2> QED
    BY <1>2, <2>1, <2>2, <2>3
<1> QED
  BY <1>1, <1>7, <1>8

LEMMA HeadWithin ==
  ASSUME NEW ahead \in Int, NEW lag \in Int,
         -(Drift * FieldFrames) <= lag, lag <= FieldFrames * Grain,
         Weight * (ahead + lag) - lag <= Weight * (FieldFrames * Grain + Deadband),
         -(FieldFrames * Grain + Weight * Deadband) <= Weight * (ahead + lag) + lag
  PROVE  /\ ahead <= (FieldFrames + 1) * Grain + Deadband
         /\ -ahead <= (FieldFrames + 2) * Grain + Deadband
<1> USE TimesAssumption
<1> DEFINE field == FieldFrames * Grain
           slack == Drift * FieldFrames
<1>1. /\ Weight \in Nat \ {0} /\ FieldFrames <= Weight /\ Deadband \in Nat
      /\ Drift * FieldFrames + Drift <= Grain
  BY PaceIsEnough
<1>2. field \in Nat /\ slack \in Nat /\ field = FieldFrames * Grain /\ slack <= Grain
  BY <1>1, ProductIsNat
<1>3. /\ -slack <= lag /\ lag <= field
      /\ Weight * (ahead + lag) - lag <= Weight * (field + Deadband)
      /\ -(field + Weight * Deadband) <= Weight * (ahead + lag) + lag
  OBVIOUS
<1>4. (FieldFrames + 1) * Grain = field + Grain /\ (FieldFrames + 2) * Grain = field + 2 * Grain
  OBVIOUS
<1> HIDE DEF field, slack
<1>5. ahead <= field + Deadband + slack /\ -ahead <= field + 2 * Grain + Deadband
  BY <1>1, <1>2, <1>3, WeighedHead
<1> QED
  BY <1>1, <1>2, <1>4, <1>5

LEMMA NothingDueInTime ==
  ASSUME IInv, FollowInv, InTime, NothingDue
  PROVE  InTime'
<1> USE TimesAssumption
<1>1. /\ pc = "send" /\ pc' = "out" /\ clockDue <= output
      /\ UNCHANGED <<worldVars, deviceVars, gateVars, clockVars, timelineVars, soundVars, disturbed>>
  BY DEF NothingDue
<1>2. UNCHANGED <<now, coreFrame, fieldPart, displayFrame, pausing, devicePosition, packetStart,
                  packets, epoch, phase, output, slots, holes, expected, packetEnd, lastPacketEnd,
                  baseFrame, lastFrame, lastCall, played, offset, clockDue, heard, gap, audioActive,
                  disturbed>>
  BY <1>1 DEF worldVars, coreVars, deviceVars, gateVars, clockVars, timelineVars, placeVars, soundVars
<1>3. UNCHANGED <<Progress, Lag, Reserve, Ahead, CountFloor, HeadOnTime>>
  BY <1>2 DEF Progress, Lag, Reserve, Ahead, CountFloor, SampleAt, HeadOnTime
<1> SUFFICES ASSUME ~disturbed
             PROVE  WorldInTime' /\ (audioActive => StreamInTime')
  BY <1>2 DEF InTime
<1>4. WorldInTime /\ WorldInTime'
  BY <1>2 DEF InTime, WorldInTime, GoodPackets, Continues, StartedAt
<1>5. ASSUME audioActive
      PROVE  StreamInTime'
  <2>1. StreamInTime
    BY <1>5 DEF InTime
  <2>2. clockDue \in Nat /\ output \in Nat /\ now \in Nat /\ packetStart \in Nat /\ clockDue = output
    BY <1>1 DEF IInv, TypeOK, ClockInv
  <2>3. /\ lastCall = now /\ packets = <<>> /\ Reserve = Lag + (clockDue - output) * Grain
        /\ -(Drift * FieldFrames) <= Lag /\ Lag <= FieldFrames * Grain
    BY <1>1, <2>1, AtSend DEF IInv, StreamInTime
  <2>4. Ahead \in Int /\ Lag \in Int /\ Reserve = Lag
    <3>1. Ahead \in Int /\ Lag \in Int
      BY GrainsAreInt DEF IInv
    <3>2. (clockDue - output) * Grain = 0
      BY <2>2
    <3> QED
      BY <2>3, <3>1, <3>2
  <2>5. HeadOnTime
    <3>1. /\ Ahead <= (FieldFrames + 1) * Grain + Deadband
          /\ -Ahead <= (FieldFrames + 2) * Grain + Deadband
      BY <2>1, <2>3, <2>4, HeadWithin DEF StreamInTime, HeadInTime
    <3> QED
      BY <2>3, <3>1 DEF HeadOnTime, Ahead
  <2>6. CallInTime'
    <3>1. Len(packets) * (PacketFrames + Slip) = 0
      BY <2>3
    <3>2. packetStart <= lastCall + Len(packets) * (PacketFrames + Slip)
      BY <1>4, <2>2, <2>3, <3>1 DEF WorldInTime
    <3> QED
      BY <1>1, <1>2, <2>1, <2>2, <2>3, <3>2 DEF StreamInTime, CallInTime
  <2>7. EstimateInTime'
    BY <1>2, <1>3, <2>1 DEF StreamInTime, EstimateInTime
  <2>8. HeadInTime'
    BY <1>1, <1>3, <2>1, <2>5 DEF StreamInTime, HeadInTime
  <2>9. LineInTime'
    BY <1>2, <1>3, <2>1 DEF StreamInTime, LineInTime, LineUnbroken, Unsteered, Continues,
                            StartedAt, OnLine, HeadIndex, SampleAt
  <2> QED
    BY <2>6, <2>7, <2>8, <2>9 DEF StreamInTime
<1> QED
  BY <1>4, <1>5

\* A send moves the head by what was due, and by the correction of the error.
LEMMA RenderMoves ==
  ASSUME TypeOK, ClockInv, CallInTime, EstimateInTime, Render
  PROVE  \E n \in Nat \ {0} : \E c \in Int :
           /\ n = clockDue - output /\ n <= ServoTime
           /\ Reserve' = Lag /\ Reserve = Lag + n * Grain
           /\ Ahead' = Ahead + n * Grain + n * c
           /\ phase' = phase + n * Grain + n * c
           /\ c = IF lastPacketEnd # 0 /\ now - lastPacketEnd < FreshLimit
                  THEN Correction(Lag - (Ahead + Reserve)) ELSE 0
<1> USE TimesAssumption
<1> DEFINE n == clockDue - output
           error == (SampleAt(now) + Lead - (clockDue - output)) * Grain - phase
           c == IF lastPacketEnd # 0 /\ now - lastPacketEnd < FreshLimit
                THEN Correction(error) ELSE 0
<1>1. /\ pc = "send" /\ 0 < n /\ n <= SendLimit /\ output' = clockDue
      /\ phase' = phase + n * Step(clockDue)
      /\ UNCHANGED <<worldVars, clockVars, epoch>>
  BY DEF Render, AdvanceTo
<1>2. /\ clockDue \in Nat /\ output \in Nat /\ now \in Nat /\ epoch \in Nat /\ phase \in Nat
      /\ Lag \in Int /\ Reserve \in Int /\ Ahead \in Int /\ played \in Nat /\ Progress \in Int
  BY GrainsAreInt DEF TypeOK
<1>3. n \in Nat \ {0} /\ n <= ServoTime
  BY <1>1, <1>2, PaceAssumption, SizesAssumption
<1>4. clockDue = played + Lead /\ Reserve = Lag + n * Grain
  BY <1>1, AtSend
<1>5. UNCHANGED <<now, epoch, Progress, played>>
  BY <1>1 DEF worldVars, coreVars, clockVars, Progress
<1>6. Reserve' = Lag
  <2>1. Reserve' = Progress - (clockDue - Lead) * Grain
    BY <1>1, <1>5 DEF Reserve
  <2>2. clockDue - Lead = played
    BY <1>2, <1>4
  <2> QED
    BY <2>1, <2>2 DEF Lag
<1>7. error = Lag - (Ahead + Reserve)
  <2> DEFINE at == (SampleAt(now) + Lead) * Grain
  <2>1. at \in Int /\ Ahead = phase - at
    BY <1>2 DEF SampleAt, Ahead
  <2>2. (SampleAt(now) + Lead - n) * Grain = at - n * Grain /\ n * Grain \in Int
    BY <1>2, <1>3 DEF SampleAt
  <2>3. error = at - n * Grain - phase
    BY <2>2
  <2> HIDE DEF at, error, n
  <2> QED
    BY <1>2, <1>4, <2>1, <2>2, <2>3
<1>8. Step(clockDue) = Grain + c
  BY DEF Step
<1>9. c \in Int
  <2>1. error \in Int
    BY <1>2, <1>7
  <2> HIDE DEF error
  <2>2. Correction(error) \in Int
    BY <2>1, CorrectionPulls
  <2> QED
    BY <2>2
<1> HIDE DEF c, error
<1>10. n * (Grain + c) = n * Grain + n * c /\ n * Grain \in Int /\ n * c \in Int
  BY <1>3, <1>9
<1> HIDE DEF n
<1>11. phase' = phase + n * Grain + n * c
  BY <1>1, <1>2, <1>8, <1>10
<1>12. Ahead' = Ahead + n * Grain + n * c
  <2> DEFINE at == (SampleAt(now) + Lead) * Grain
  <2>1. at \in Int /\ Ahead = phase - at /\ Ahead' = phase' - at
    BY <1>2, <1>5 DEF SampleAt, Ahead
  <2> HIDE DEF at
  <2> QED
    BY <1>2, <1>10, <1>11, <2>1
<1>13. c = IF lastPacketEnd # 0 /\ now - lastPacketEnd < FreshLimit
           THEN Correction(Lag - (Ahead + Reserve)) ELSE 0
  BY <1>7 DEF c
<1> QED
  BY <1>3, <1>4, <1>6, <1>9, <1>11, <1>12, <1>13 DEF n

\* Before the first packet the head keeps the estimate's pace: not for long enough to leave
\* the deadband.
LEMMA UnsteeredHead ==
  ASSUME TypeOK, WorldInTime, Unsteered, packets = <<>>, epoch <= now, NEW lag \in Int,
         -(Drift * FieldFrames) <= lag, lag <= FieldFrames * Grain
  PROVE  /\ Weight * (Ahead + Reserve) - lag <= Weight * (FieldFrames * Grain + Deadband)
         /\ -(FieldFrames * Grain + Weight * Deadband) <= Weight * (Ahead + Reserve) + lag
<1> USE TimesAssumption
<1> DEFINE age == SampleAt(now)
           field == FieldFrames * Grain
           sum == Ahead + Reserve
           slack == Drift * FieldFrames
<1>1. /\ now \in Nat /\ epoch \in Nat /\ packetStart \in Nat /\ output \in Nat
      /\ Progress \in Int /\ Ahead \in Int /\ Reserve \in Int
  BY GrainsAreInt DEF TypeOK
<1>2. age \in Nat /\ age + 1 <= PacketFrames + Slip
  BY <1>1 DEF SampleAt, WorldInTime, Unsteered
<1>3. /\ Weight \in Nat \ {0} /\ FieldFrames <= Weight /\ Deadband \in Nat /\ Drift < Pull
      /\ Pull \in Nat
  BY PaceIsEnough
<1>4. sum = Progress - age * Grain
  <2>1. Ahead = output * Grain - (age + Lead) * Grain /\ Reserve = Progress - (output - Lead) * Grain
    BY DEF Unsteered, Ahead, Reserve
  <2>2. (age + Lead) * Grain = age * Grain + Lead * Grain
        /\ (output - Lead) * Grain = output * Grain - Lead * Grain
    BY <1>1, <1>2
  <2>3. age * Grain \in Int /\ Lead * Grain \in Int /\ output * Grain \in Int
    BY <1>1, <1>2
  <2> HIDE DEF age
  <2> QED
    BY <1>1, <2>1, <2>2, <2>3
<1>5. -(Drift * age) <= sum /\ sum < field + Drift * age
  BY <1>4 DEF Unsteered
<1>6. sum \in Int /\ field \in Nat /\ slack \in Nat
  BY <1>1, ProductIsNat
<1>7. -slack <= lag
  OBVIOUS
<1> HIDE DEF age, sum, field, slack
<1>8. Drift * age + Drift <= Deadband /\ Drift * age \in Nat
  <2>1. (age + 1) * Drift <= ServoTime * Drift
    BY <1>2, PaceAssumption, ProductGrows
  <2>2. Drift * ServoTime <= Pull * ServoTime
    BY <1>3, ProductGrows
  <2>3. (age + 1) * Drift = Drift * age + Drift /\ ServoTime * Drift = Drift * ServoTime
    BY <1>2
  <2>4. Drift * age \in Nat /\ Drift * ServoTime \in Nat /\ Pull * ServoTime \in Nat
    BY <1>2, <1>3, ProductIsNat
  <2>5. Drift * age + Drift <= Drift * ServoTime
    BY <2>1, <2>3
  <2>6. Deadband = Pull * ServoTime
    BY <1>3 DEF Deadband
  <2>7. Drift * age + Drift <= Deadband
    BY <2>2, <2>4, <2>5, <2>6
  <2> QED
    BY <2>4, <2>7
<1>9. slack <= Weight * Drift
  <2>1. FieldFrames * Drift <= Weight * Drift
    BY <1>3, ProductGrows
  <2> QED
    BY <2>1 DEF slack
<1> DEFINE run == Drift * age
<1>10. run \in Nat /\ Deadband - Drift - run \in Nat /\ field + run - sum \in Nat /\ sum + run \in Nat
  BY <1>3, <1>5, <1>6, <1>8
<1> HIDE DEF run
<1>11. /\ (Deadband - Drift - run) * Weight \in Nat
       /\ (field + run - sum) * Weight \in Nat
       /\ (sum + run) * Weight \in Nat
  BY <1>3, <1>10, ProductIsNat
<1>12. /\ (Deadband - Drift - run) * Weight = Weight * Deadband - Weight * Drift - Weight * run
       /\ (field + run - sum) * Weight = Weight * field + Weight * run - Weight * sum
       /\ (sum + run) * Weight = Weight * sum + Weight * run
       /\ Weight * (field + Deadband) = Weight * field + Weight * Deadband
  BY <1>3, <1>6, <1>10
<1>13. /\ Weight * Deadband \in Int /\ Weight * Drift \in Int /\ Weight * run \in Int
       /\ Weight * field \in Int /\ Weight * sum \in Int
  BY <1>3, <1>6, <1>10
<1> DEFINE wd == Weight * Deadband
           wp == Weight * Drift
           wr == Weight * run
           wf == Weight * field
           ws == Weight * sum
<1>14. wd - wp - wr >= 0 /\ wf + wr - ws >= 0 /\ ws + wr >= 0
  BY <1>11, <1>12
<1>15. wd \in Int /\ wp \in Int /\ wr \in Int /\ wf \in Int /\ ws \in Int
  BY <1>13
<1>16. slack <= wp
  BY <1>9
<1>17. wf + wd = Weight * (field + Deadband)
  BY <1>12
<1> HIDE TimesAssumption
<1> HIDE DEF wd, wp, wr, wf, ws
<1>18. ws - lag <= wf + wd /\ -(field + wd) <= ws + lag
  BY <1>6, <1>7, <1>14, <1>15, <1>16
<1> QED
  BY <1>17, <1>18 DEF ws, wd, sum, field

\* With nothing left to fetch, the last packet is fresh and its end is near.
LEMMA PacketIsNear ==
  ASSUME TypeOK, WorldInTime, LineInTime, packets = <<>>, expected # NoPosition
  PROVE  /\ lastPacketEnd > 0 /\ now - lastPacketEnd < FreshLimit
         /\ packetEnd > SampleAt(now) + Delay - Tolerance - PacketFrames - 2 * Slip
<1> USE TimesAssumption
<1>1. /\ lastPacketEnd > 0 /\ StartedAt(lastPacketEnd)
      /\ Distance(packetEnd, SampleAt(lastPacketEnd) + Delay) <= Tolerance
  BY DEF LineInTime, Continues
<1>2. /\ now \in Nat /\ epoch \in Nat /\ packetStart \in Nat /\ lastPacketEnd \in Int
      /\ packetEnd \in Int /\ now < packetStart + PacketFrames + Slip
  BY DEF TypeOK, WorldInTime
<1>3. packetStart <= lastPacketEnd + Slip
  BY <1>1, <1>2 DEF StartedAt
<1>4. now - lastPacketEnd < PacketFrames + 2 * Slip
  BY <1>2, <1>3
<1>5. SampleAt(lastPacketEnd) + Delay - Tolerance <= packetEnd
  BY <1>1, <1>2 DEF SampleAt, Distance
<1>6. SampleAt(now) - SampleAt(lastPacketEnd) = now - lastPacketEnd
      /\ SampleAt(now) \in Int /\ SampleAt(lastPacketEnd) \in Int
  BY <1>2 DEF SampleAt
<1>7. packetEnd > SampleAt(now) + Delay - Tolerance - PacketFrames - 2 * Slip
  BY <1>2, <1>4, <1>5, <1>6
<1> QED
  BY <1>1, <1>2, <1>4, <1>7, PaceAssumption

\* A send keeps the weighings, and afterwards the head is on time.
LEMMA RenderKeepsHead ==
  ASSUME IInv, WorldInTime, StreamInTime, Render
  PROVE  HeadInTime' /\ HeadOnTime'
<1> USE TimesAssumption
<1>1. /\ pc = "send" /\ pc' = "out" /\ UNCHANGED <<worldVars, clockVars, epoch>>
  BY DEF Render
<1>2. PICK n \in Nat \ {0}, c \in Int :
        /\ n <= ServoTime
        /\ Reserve' = Lag /\ Reserve = Lag + n * Grain
        /\ Ahead' = Ahead + n * Grain + n * c
        /\ c = IF lastPacketEnd # 0 /\ now - lastPacketEnd < FreshLimit
               THEN Correction(Lag - (Ahead + Reserve)) ELSE 0
  BY RenderMoves DEF IInv, StreamInTime
<1>3. /\ lastCall = now /\ packets = <<>>
      /\ -(Drift * FieldFrames) <= Lag /\ Lag <= FieldFrames * Grain
  BY <1>1, AtSend DEF IInv, StreamInTime
<1> DEFINE sum == Ahead + Reserve
           field == FieldFrames * Grain
           slack == Drift * FieldFrames
<1>4. /\ Lag \in Int /\ Ahead \in Int /\ Reserve \in Int /\ sum \in Int /\ field \in Nat
      /\ slack \in Nat
  BY GrainsAreInt, ProductIsNat DEF IInv
<1>5. Ahead' + Reserve' = sum + n * c
  <2>1. n * Grain \in Int /\ n * c \in Int
    OBVIOUS
  <2> QED
    BY <1>2, <1>4, <2>1
<1>6. /\ Weight \in Nat \ {0} /\ Deadband \in Nat /\ Pull \in Nat /\ Grain <= Weight * Pull
      /\ Drift * Weight + Drift <= Grain
  BY PaceIsEnough
<1>7. /\ Weight * sum - Reserve <= Weight * (field + Deadband)
      /\ -(field + Weight * Deadband) <= Weight * sum + Reserve
  BY DEF StreamInTime, HeadInTime
<1>8. /\ Weight * (sum + n * c) - Lag <= Weight * (field + Deadband)
      /\ -(field + Weight * Deadband) <= Weight * (sum + n * c) + Lag
  <2>1. CASE expected = NoPosition
    <3>1. Unsteered /\ epoch <= now
      BY <1>3, <2>1 DEF StreamInTime, LineInTime, CallInTime
    <3>2. c = 0
      BY <1>2, <3>1 DEF Unsteered
    <3>3. sum + n * c = sum
      BY <1>4, <3>2
    <3>4. /\ Weight * (Ahead + Reserve) - Lag <= Weight * (FieldFrames * Grain + Deadband)
          /\ -(FieldFrames * Grain + Weight * Deadband) <= Weight * (Ahead + Reserve) + Lag
      BY <1>3, <1>4, <3>1, UnsteeredHead DEF IInv
    <3> QED
      BY <3>3, <3>4
  <2>2. CASE expected # NoPosition
    <3>1. lastPacketEnd > 0 /\ now - lastPacketEnd < FreshLimit /\ lastPacketEnd \in Int
      BY <1>3, <2>2, PacketIsNear DEF IInv, StreamInTime, TypeOK
    <3>2. c = Correction(Lag - sum)
      BY <1>2, <3>1
    <3> DEFINE error == Lag - sum
    <3>3. error \in Int /\ error = Lag - sum
      BY <1>4
    <3>4. /\ error >= 0 => c >= 0 /\ ServoTime * c <= error
          /\ error <= 0 => c <= 0 /\ error <= ServoTime * c
          /\ error >= Deadband => c >= Pull
          /\ error <= -Deadband => c <= -Pull
      BY <3>2, <3>3, CorrectionPulls
    <3>5. -slack <= Lag /\ Lag <= field
      BY <1>3
    <3>6. Weight * slack + slack <= field
      <4>1. (Drift * Weight + Drift) * FieldFrames <= Grain * FieldFrames
        <5>1. Drift * Weight + Drift \in Nat
          BY <1>6, ProductIsNat
        <5> QED
          BY <1>6, <5>1, ProductGrows
      <4>2. (Drift * Weight + Drift) * FieldFrames = Weight * (Drift * FieldFrames) + Drift * FieldFrames
        BY <1>6
      <4>3. Grain * FieldFrames = FieldFrames * Grain
        OBVIOUS
      <4> QED
        BY <4>1, <4>2, <4>3
    <3>7. Weight * sum - (Lag + n * Grain) <= Weight * (field + Deadband)
          /\ -(field + Weight * Deadband) <= Weight * sum + (Lag + n * Grain)
      BY <1>2, <1>7
    <3> HIDE DEF sum, field, slack, error
    <3>8. Weight * (sum + n * c) - Lag <= Weight * (field + Deadband)
      BY <1>2, <1>4, <1>6, <3>3, <3>4, <3>5, <3>7, SteeredDown
    <3>9. -(field + Weight * Deadband) <= Weight * (sum + n * c) + Lag
      BY <1>2, <1>4, <1>6, <3>3, <3>4, <3>5, <3>6, <3>7, SteeredUp
    <3> QED
      BY <3>8, <3>9
  <2> QED
    BY <2>1, <2>2
<1>9. HeadOnTime'
  <2>1. Ahead' \in Int /\ Ahead' + Lag = sum + n * c
    <3>1. n * Grain \in Int /\ n * c \in Int
      OBVIOUS
    <3> QED
      BY <1>2, <1>4, <1>5, <3>1
  <2>2. /\ Weight * (Ahead' + Lag) - Lag <= Weight * (FieldFrames * Grain + Deadband)
        /\ -(FieldFrames * Grain + Weight * Deadband) <= Weight * (Ahead' + Lag) + Lag
    BY <1>8, <2>1
  <2>3. /\ Ahead' <= (FieldFrames + 1) * Grain + Deadband
        /\ -Ahead' <= (FieldFrames + 2) * Grain + Deadband
    <3> DEFINE ahead == Ahead'
    <3>1. ahead \in Int /\ Weight * (ahead + Lag) - Lag <= Weight * (FieldFrames * Grain + Deadband)
          /\ -(FieldFrames * Grain + Weight * Deadband) <= Weight * (ahead + Lag) + Lag
      BY <2>1, <2>2
    <3> HIDE DEF ahead
    <3>2. /\ ahead <= (FieldFrames + 1) * Grain + Deadband
          /\ -ahead <= (FieldFrames + 2) * Grain + Deadband
      BY <1>3, <1>4, <3>1, HeadWithin
    <3> QED
      BY <3>2 DEF ahead
  <2>4. Ahead' = phase' - (SampleAt(lastCall)' + Lead) * Grain
    BY <1>1, <1>3 DEF Ahead, SampleAt, worldVars, clockVars
  <2> QED
    BY <2>3, <2>4 DEF HeadOnTime
<1>10. HeadInTime'
  BY <1>2, <1>5, <1>8, <1>9 DEF HeadInTime
<1> QED
  BY <1>9, <1>10

LEMMA RenderKeepsLine ==
  ASSUME IInv, LineInTime, CallInTime, EstimateInTime, Render
  PROVE  LineInTime'
<1> USE TimesAssumption
<1>1. /\ pc = "send" /\ output' = clockDue /\ heard' = (heard \/ sounded' # {})
      /\ UNCHANGED <<worldVars, deviceVars, clockVars, epoch, placeVars>>
  BY DEF Render
<1>2. UNCHANGED <<now, coreFrame, fieldPart, baseFrame, devicePosition, packetStart, packets,
                  epoch, expected, packetEnd, lastPacketEnd, Progress>>
  BY <1>1 DEF worldVars, coreVars, deviceVars, clockVars, placeVars, Progress
<1> DEFINE new == phase + (clockDue - output) * Step(clockDue)
<1>3. /\ new \in Nat /\ phase <= new /\ AdvanceTo(new)
      /\ sounded' \cup silent' \subseteq HeadIndex .. Index(new)
  BY PlacesPlayed DEF IInv
<1> HIDE DEF new
<1>4. /\ HeadIndex <= HeadIndex' /\ OnLine' = {i \in OnLine : i >= HeadIndex'}
      /\ HeadIndex' = Index(new) /\ holes' = {i \in holes : i >= HeadIndex'}
  BY <1>3, AdvanceKeepsWindow DEF IInv, AdvanceTo, HeadIndex
<1>5. HeadIndex \in Nat /\ HeadIndex' \in Nat /\ packetEnd \in Int
  BY <1>3, <1>4, HeadIsNat, DivisionIsNat DEF IInv, Index, TypeOK
<1>6. sounded' \subseteq OnLine
  BY PlayedIsHeld
<1>7. OnLine \subseteq Int
  BY DEF OnLine, IInv, TypeOK, Empty
<1>8. ASSUME expected = NoPosition
      PROVE  Unsteered'
  <2>1. Unsteered
    BY <1>8 DEF LineInTime
  <2>2. lastPacketEnd = 0 /\ OnLine = {} /\ ~heard /\ phase = output * Grain
    BY <2>1 DEF Unsteered
  <2>3. OnLine' = {} /\ ~heard'
    BY <1>1, <1>4, <1>6, <2>2
  <2>4. phase' = output' * Grain
    <3>1. PICK n \in Nat \ {0}, c \in Int :
            n = clockDue - output /\ phase' = phase + n * Grain + n * c /\ c = 0
      BY <2>2, RenderMoves DEF IInv
    <3>2. n * c = 0 /\ n * Grain \in Int /\ output \in Nat /\ clockDue \in Nat
      BY <3>1 DEF IInv, TypeOK
    <3>3. output' = output + n
      BY <1>1, <3>1, <3>2
    <3>4. (output + n) * Grain = output * Grain + n * Grain /\ output * Grain \in Int
      BY <3>2
    <3> QED
      BY <2>2, <3>1, <3>2, <3>3, <3>4
  <2> QED
    BY <1>2, <2>1, <2>3, <2>4 DEF Unsteered, SampleAt
<1>9. ASSUME expected # NoPosition
      PROVE  /\ lastPacketEnd' > 0
             /\ Continues(1, expected, lastPacketEnd)'
             /\ Distance(packetEnd, SampleAt(lastPacketEnd) + Delay)' <= Tolerance
  BY <1>2, <1>9 DEF LineInTime, Continues, StartedAt, SampleAt
<1>10. LineUnbroken'
  <2>1. ASSUME heard', NEW i \in (HeadIndex' .. packetEnd - 1) \ holes'
        PROVE  i \in OnLine'
    <3>1. i \in Int /\ i >= HeadIndex' /\ i <= packetEnd - 1 /\ i \notin holes
      BY <1>4, <1>5, <2>1
    <3>2. CASE heard
      <4>1. i \in (HeadIndex .. packetEnd - 1) \ holes
        BY <1>4, <1>5, <3>1
      <4> QED
        BY <1>4, <3>1, <3>2, <4>1 DEF LineInTime, LineUnbroken
    <3>3. CASE ~heard
      <4>1. PICK j \in sounded' : TRUE
        BY <1>1, <2>1, <3>3
      <4>2. j \in OnLine /\ j <= HeadIndex' /\ j \in Int
        BY <1>3, <1>4, <1>5, <1>6, <1>7, <4>1
      <4>3. i \in (j .. packetEnd - 1) \ holes
        BY <1>5, <3>1, <4>2
      <4> QED
        BY <1>4, <3>1, <4>2, <4>3 DEF LineInTime, LineUnbroken
    <3> QED
      BY <3>2, <3>3
  <2>2. ASSUME NEW j \in OnLine', NEW i \in (j .. packetEnd - 1) \ holes'
        PROVE  i \in OnLine'
    <3>1. j \in OnLine /\ j \in Int /\ HeadIndex' <= j
      BY <1>4, <1>7
    <3>2. i \in Int /\ j <= i /\ i >= HeadIndex' /\ i \in (j .. packetEnd - 1) \ holes
      BY <1>4, <1>5, <2>2, <3>1
    <3> QED
      BY <1>4, <3>1, <3>2 DEF LineInTime, LineUnbroken
  <2> QED
    BY <1>2, <2>1, <2>2 DEF LineUnbroken
<1> QED
  BY <1>2, <1>8, <1>9, <1>10 DEF LineInTime

\* A head on time is not further than a delay that is enough allows.
LEMMA HeadIsNear ==
  ASSUME NEW p \in Nat, NEW at \in Int, p - (at + Lead) * Grain <= (FieldFrames + 1) * Grain + Deadband
  PROVE  Index(p) <= at + Lead + FieldFrames + 1 + Deadband \div Grain
<1> USE TimesAssumption
<1> DEFINE spare == Deadband \div Grain
           rest == Deadband % Grain
           index == p \div Grain
           part == p % Grain
           limit == at + Lead + FieldFrames + 1 + spare
<1>1. Deadband = Grain * spare + rest /\ rest \in 0 .. Grain - 1 /\ spare \in Nat
  BY PaceIsEnough, DivisionIsNat
<1>2. p = Grain * index + part /\ part \in 0 .. Grain - 1 /\ index \in Nat
  BY DivisionIsNat
<1> HIDE DEF spare, rest, index, part
<1>3. (at + Lead) * Grain + ((FieldFrames + 1) * Grain + Grain * spare) = limit * Grain
  BY <1>1
<1>4. Grain * index = index * Grain /\ index * Grain \in Int /\ limit * Grain \in Int
      /\ (at + Lead) * Grain \in Int /\ (FieldFrames + 1) * Grain \in Int /\ Grain * spare \in Int
  BY <1>1, <1>2
<1>5. limit \in Int /\ rest < Grain /\ rest \in Int /\ part >= 0 /\ part \in Int
  BY <1>1, <1>2
<1> HIDE DEF limit
<1>6. index * Grain < limit * Grain + Grain
  BY <1>1, <1>2, <1>3, <1>4, <1>5
<1>7. index * Grain < (limit + 1) * Grain
  BY <1>4, <1>5, <1>6
<1>8. index < limit + 1
  BY <1>2, <1>5, <1>7, SmallerFactor
<1>9. index <= limit
  BY <1>2, <1>5, <1>8
<1> QED
  BY <1>9 DEF index, limit, spare, Index

\* A send that goes on where sound was heard finds all that it is owed.
LEMMA RenderKeepsSound ==
  ASSUME IInv, WorldInTime, StreamInTime, Render
  PROVE  gap' = gap
<1> USE TimesAssumption
<1>1. /\ pc = "send" /\ gap' = (gap \/ \E i \in silent' :
                                       Owed(i) /\ (heard \/ \E j \in sounded' : j < i))
      /\ UNCHANGED <<now, epoch, lastCall>>
  BY DEF Render, worldVars, clockVars
<1> SUFFICES ASSUME NEW i \in silent', Owed(i), heard \/ \E j \in sounded' : j < i
             PROVE  FALSE
  BY <1>1 DEF IInv, TypeOK
<1> DEFINE new == phase + (clockDue - output) * Step(clockDue)
<1>2. /\ new \in Nat /\ AdvanceTo(new)
      /\ sounded' \cup silent' \subseteq HeadIndex .. Index(new)
      /\ sounded' \cup silent' \subseteq Nat
  BY PlacesPlayed DEF IInv
<1> HIDE DEF new
<1>3. i \in Nat /\ HeadIndex <= i /\ i <= Index(new) /\ i \notin holes /\ phase' = new
  <2>1. Index(new) \in Nat /\ HeadIndex \in Nat
    BY <1>2, HeadIsNat, DivisionIsNat DEF IInv, Index
  <2> QED
    BY <1>2, <2>1 DEF Owed, AdvanceTo
<1>4. sounded' \subseteq OnLine /\ i \notin OnLine
  BY PlayedIsHeld
<1>5. /\ lastCall = now /\ packets = <<>> /\ packetEnd \in Int /\ now \in Nat /\ epoch \in Nat
  BY <1>1, AtSend DEF IInv, StreamInTime, TypeOK
<1>6. LineInTime
  BY DEF StreamInTime
<1>7. expected # NoPosition
  <2> SUFFICES ASSUME expected = NoPosition PROVE FALSE
    OBVIOUS
  <2>1. OnLine = {} /\ ~heard
    BY <1>6 DEF LineInTime, Unsteered
  <2> QED
    BY <1>4, <2>1
<1>8. i < packetEnd
  <2> SUFFICES ASSUME DelayIsEnough PROVE i < packetEnd
    BY DEF Owed
  <2> DEFINE spare == Deadband \div Grain
  <2>1. spare \in Nat
    BY PaceIsEnough, DivisionIsNat
  <2>2. Delay - Lead >= FieldFrames + PacketFrames + Tolerance + 2 * Slip + spare + 1
    BY DEF DelayIsEnough
  <2>3. packetEnd > SampleAt(now) + Delay - Tolerance - PacketFrames - 2 * Slip
    BY <1>5, <1>6, <1>7, PacketIsNear DEF IInv
  <2>4. SampleAt(now) \in Int
    BY <1>5 DEF SampleAt
  <2>5. new - (SampleAt(now) + Lead) * Grain <= (FieldFrames + 1) * Grain + Deadband
    BY <1>1, <1>3, <1>5, RenderKeepsHead DEF HeadOnTime, SampleAt
  <2>6. Index(new) <= SampleAt(now) + Lead + FieldFrames + 1 + spare
    BY <1>2, <2>4, <2>5, HeadIsNear
  <2>7. Index(new) \in Nat
    BY <1>2, DivisionIsNat DEF Index
  <2> HIDE DEF spare
  <2> QED
    BY <1>3, <1>5, <2>1, <2>2, <2>3, <2>4, <2>6, <2>7
<1>9. CASE heard
  <2>1. i \in (HeadIndex .. packetEnd - 1) \ holes
    <3>1. HeadIndex \in Nat
      BY HeadIsNat DEF IInv
    <3> QED
      BY <1>3, <1>5, <1>8, <3>1
  <2> QED
    BY <1>4, <1>6, <1>9, <2>1 DEF LineInTime, LineUnbroken
<1>10. CASE \E j \in sounded' : j < i
  <2>1. PICK j \in sounded' : j < i
    BY <1>10
  <2>2. j \in OnLine /\ j \in Nat
    BY <1>2, <1>4, <2>1
  <2>3. i \in (j .. packetEnd - 1) \ holes
    BY <1>3, <1>5, <1>8, <2>1, <2>2
  <2> QED
    BY <1>4, <1>6, <2>2, <2>3 DEF LineInTime, LineUnbroken
<1> QED
  BY <1>9, <1>10

LEMMA RenderInTime ==
  ASSUME IInv, FollowInv, InTime, Render
  PROVE  InTime'
<1> USE TimesAssumption
<1>1. /\ pc = "send" /\ pc' = "out" /\ output' = clockDue
      /\ UNCHANGED <<worldVars, deviceVars, gateVars, clockVars, epoch, placeVars, disturbed>>
  BY DEF Render
<1>2. UNCHANGED <<now, coreFrame, fieldPart, displayFrame, pausing, devicePosition, packetStart,
                  packets, epoch, baseFrame, lastFrame, lastCall, played, offset, clockDue,
                  audioActive, disturbed>>
  BY <1>1 DEF worldVars, coreVars, deviceVars, gateVars, clockVars
<1> SUFFICES ASSUME ~disturbed
             PROVE  WorldInTime' /\ ~gap' /\ (audioActive => StreamInTime')
  BY <1>2 DEF InTime
<1>3. WorldInTime /\ WorldInTime' /\ ~gap
  BY <1>2 DEF InTime, WorldInTime, GoodPackets, Continues, StartedAt
<1>4. audioActive /\ StreamInTime
  BY <1>1 DEF FollowInv, InTime
<1>5. ~gap'
  BY <1>3, <1>4, RenderKeepsSound
<1>6. lastCall = now /\ packets = <<>>
  BY <1>1, <1>4, AtSend DEF IInv, StreamInTime
<1>7. CallInTime'
  <2>1. now \in Nat /\ packetStart \in Nat /\ Len(packets) * (PacketFrames + Slip) = 0
    BY <1>6 DEF IInv, TypeOK
  <2>2. packetStart <= lastCall + Len(packets) * (PacketFrames + Slip)
    BY <1>3, <1>6, <2>1 DEF WorldInTime
  <2> QED
    BY <1>1, <1>2, <1>4, <2>2 DEF StreamInTime, CallInTime
<1>8. EstimateInTime'
  <2>1. UNCHANGED <<Lag, CountFloor>>
    BY <1>2 DEF Lag, Progress, CountFloor
  <2> QED
    BY <1>2, <1>4, <2>1 DEF StreamInTime, EstimateInTime
<1>9. HeadInTime' /\ LineInTime'
  BY <1>3, <1>4, RenderKeepsHead, RenderKeepsLine DEF StreamInTime
<1> QED
  BY <1>3, <1>5, <1>7, <1>8, <1>9 DEF StreamInTime

-----------------------------------------------------------------------------
(* Every step is in time.                                                  *)

LEMMA LinkKeepsInTime ==
  ASSUME InTime, LinkChanges
  PROVE  InTime'
<1>1. /\ pc = "out" /\ UNCHANGED <<now, coreVars, displayFrame, pausing, deviceVars, pc, gateVars,
                                   clockVars, timelineVars, soundVars, disturbed>>
  BY DEF LinkChanges
<1>2. UNCHANGED <<coreFrame, fieldPart, devicePosition, packetStart,
                  packets, epoch, phase, output, slots, holes, expected, packetEnd, lastPacketEnd,
                  baseFrame, lastFrame, lastCall, played, offset, clockDue, heard, gap, audioActive>>
  BY <1>1 DEF coreVars, deviceVars, gateVars, clockVars, timelineVars, placeVars, soundVars
<1>3. UNCHANGED <<Progress, Lag, Reserve, Ahead, CountFloor, HeadOnTime>>
  BY <1>1, <1>2 DEF Progress, Lag, Reserve, Ahead, CountFloor, SampleAt, HeadOnTime
<1>4. WorldInTime => WorldInTime'
  BY <1>1, <1>2 DEF WorldInTime, GoodPackets, Continues, StartedAt
<1>5. CallInTime /\ EstimateInTime /\ HeadInTime => CallInTime' /\ EstimateInTime' /\ HeadInTime'
  BY <1>1, <1>2, <1>3 DEF CallInTime, EstimateInTime, HeadInTime, Fresh
<1>6. LineInTime => LineInTime'
  BY <1>1, <1>2, <1>3 DEF LineInTime, LineUnbroken, Unsteered, Continues, StartedAt, OnLine,
                          HeadIndex, SampleAt
<1> QED
  BY <1>1, <1>2, <1>4, <1>5, <1>6 DEF InTime, StreamInTime

LEMMA InitInTime == Init => InTime
<1> SUFFICES ASSUME Init PROVE InTime
  OBVIOUS
<1> USE TimesAssumption
<1>1. /\ now = 0 /\ packetStart = 0 /\ packets = <<>> /\ ~pausing /\ displayFrame = coreFrame
      /\ ~gap /\ ~audioActive
  BY DEF Init
<1>2. WorldInTime
  BY <1>1 DEF WorldInTime, GoodPackets
<1> QED
  BY <1>1, <1>2 DEF InTime

LEMMA NextKeepsInTime ==
  ASSUME IInv, FollowInv, InTime, [Next]_vars
  PROVE  InTime'
<1>1. CASE Elapse
  BY <1>1, ElapseKeepsInTime DEF IInv
<1>2. CASE ElapseBadPacket \/ ElapseMissedReport \/ CoreCountsAnew \/ Pause \/ Reanchor
  BY <1>2 DEF ElapseBadPacket, ElapseMissedReport, CoreCountsAnew, Pause, Glitch, Reanchor, InTime
<1>3. CASE LinkChanges
  BY <1>3, LinkKeepsInTime
<1>4. CASE TickBegins
  BY <1>4, TickBeginsInTime DEF IInv
<1>5. CASE DropPacket \/ RejectPacket \/ PlacePacket
  BY <1>5, DrainInTime
<1>6. CASE Drained
  BY <1>6, DrainedInTime
<1>7. CASE CountsFields \/ ShiftsCount \/ Extrapolates
  BY <1>7, AskInTime
<1>8. CASE NothingDue
  BY <1>8, NothingDueInTime
<1>9. CASE Render
  BY <1>9, RenderInTime
<1>10. CASE UNCHANGED vars
  <2>1. UNCHANGED <<now, coreFrame, fieldPart, displayFrame, pausing, devicePosition, packetStart,
                    packets, epoch, phase, output, slots, holes, expected, packetEnd, lastPacketEnd,
                    baseFrame, lastFrame, lastCall, played, offset, clockDue, heard, gap, audioActive,
                    disturbed, pc>>
    BY <1>10 DEF vars, worldVars, coreVars, deviceVars, gateVars, clockVars, timelineVars, placeVars,
                 soundVars
  <2>2. UNCHANGED <<Progress, Lag, Reserve, Ahead, CountFloor, HeadOnTime>>
    BY <2>1 DEF Progress, Lag, Reserve, Ahead, CountFloor, SampleAt, HeadOnTime
  <2>3. WorldInTime => WorldInTime'
    BY <2>1 DEF WorldInTime, GoodPackets, Continues, StartedAt
  <2>4. CallInTime /\ EstimateInTime /\ HeadInTime => CallInTime' /\ EstimateInTime' /\ HeadInTime'
    BY <2>1, <2>2 DEF CallInTime, EstimateInTime, HeadInTime, Fresh
  <2>5. LineInTime => LineInTime'
    BY <2>1, <2>2 DEF LineInTime, LineUnbroken, Unsteered, Continues, StartedAt, OnLine,
                      HeadIndex, SampleAt
  <2> QED
    BY <2>1, <2>3, <2>4, <2>5 DEF InTime, StreamInTime
<1> QED
  BY <1>1, <1>2, <1>3, <1>4, <1>5, <1>6, <1>7, <1>8, <1>9, <1>10 DEF Next, World, TickAudioCapture

\* For every pace of the three clocks that PaceAssumption allows, however it varies: as long as
\* nothing went wrong the head keeps to the host's clock, and sound that has begun has no gap
\* but the holes a drifting device leaves (AudioTimeline.h:32-57, 121-131, 154-200).
THEOREM SoundHasNoGap == Spec => []SoundUnbroken
<1>1. Init => IInv /\ FollowInv /\ InTime
  <2>1. Init => FollowInv
    BY DEF Init, FollowInv, ClockFollowsCount
  <2> QED
    BY <2>1, InitIInv, InitInTime
<1>2. (IInv /\ FollowInv /\ InTime) /\ [Next]_vars => InTime'
  BY NextKeepsInTime
<1>3. InTime => SoundUnbroken
  BY DEF InTime, StreamInTime, HeadInTime, SoundUnbroken
<1> QED
  BY <1>1, <1>2, <1>3, InvariantHolds, FollowHolds, PTL DEF Spec
===============================================================================
