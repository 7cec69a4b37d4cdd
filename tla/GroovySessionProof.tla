-------------------------- MODULE GroovySessionProof --------------------------
(***************************************************************************)
(* The session of the streaming worker with the core, for any modelines,   *)
(* frames, miss limit and faults: one invariant, SessionInv, says where    *)
(* the worker is, what its counters and its modelines are then, and what   *)
(* is on its way to the core.  Each of its parts has a lemma of its own    *)
(* that every step keeps it.                                               *)
(***************************************************************************)
EXTENDS GroovySession, TLAPS

\* The commands that begin and end a session.
Control == {"init", "close"}

\* The places of the worker between the first blit of a session and the next.
Streaming == {"blit", "reinit", "replay", "sync"}

\* Where the worker is, and what the session is then.
PlacesInv ==
  /\ pc \in {"top", "init", "closed"} \/ initialized
  /\ pc = "init" => ~initialized
  /\ pc = "closed" => ~connected
  /\ connected => initialized
  /\ pc \in {"init", "reinit"} => ~connected /\ ~torndown
  /\ pc \notin {"init", "reinit"} => (torndown <=> ~connected)
  /\ pc \in {"switch", "replay"} => connected
  /\ pc \in Streaming => ~firstBlit

\* A client without a session has heard nothing, and its watchdog is at the limit.
WatchdogInv ==
  /\ pc # "reinit" => misses <= MissLimit
  /\ ~connected /\ pc # "closed" => frameEcho = 0
  /\ RetryStaysArmed

\* The renderer's number is never behind the client's, and ahead of it when a blit is made;
\* a number that starts anew finds the client at zero.
NumbersInv ==
  /\ clientFrame <= frame
  /\ pc = "blit" => clientFrame < frame
  /\ firstBlit => clientFrame = 0
  /\ pc \in {"init", "reinit", "replay"} => clientFrame = 0
  /\ pc \in {"blit", "reinit", "replay"} => epoch = lastEpoch
  /\ epoch # lastEpoch => clientFrame = 0

\* The byte count, the modeline kept for a replay and the one in force are the same, but for
\* a switch that was asked for and not acknowledged; that one is always asked again.
ModesInv ==
  /\ modeRevision <= revision
  /\ modeRevision # 0 => current \in Modes
  /\ modeRevision # 0 /\ pc # "closed" => stash = current
  /\ modeRevision # 0 /\ modeRevision = revision => sizeMode = current
  /\ pc \in {"draw"} \cup Streaming => modeRevision # 0 /\ sizeMode = current
  /\ pc = "switch" => /\ want.mode \in Modes /\ sizeMode = want.mode
                      /\ modeRevision < want.revision /\ want.revision <= revision
  /\ ~initialized => sizeMode = NoMode

\* Nothing follows a CMD_INIT or a CMD_CLOSE but another.
Ordered(queue) ==
  \A i, j \in 1 .. Len(queue) :
    i < j /\ queue[i].kind \in Control => queue[j].kind \in Control

\* No CMD_INIT and no CMD_CLOSE among them.
NoControl(queue) == \A i \in 1 .. Len(queue) : queue[i].kind \notin Control

\* Nothing but those.
AllControl(queue) == \A i \in 1 .. Len(queue) : queue[i].kind \in Control

\* All of them are of the session the host is in.
AllCurrent(queue) == \A i \in 1 .. Len(queue) : queue[i].cur

\* A CMD_INIT of this session is the newest of all.
InitIsLast(queue) ==
  \A i \in 1 .. Len(queue) : queue[i].kind = "init" /\ queue[i].cur => i = Len(queue)

\* Every blit carries the byte count of the picture it was packed for.
PackedInSize(queue) ==
  \A i \in 1 .. Len(queue) : queue[i].kind = "blit" => queue[i].size = queue[i].packed

\* No blit of this session has a number above n.
NotAhead(queue, n) ==
  \A i \in 1 .. Len(queue) : queue[i].kind = "blit" /\ queue[i].cur => queue[i].frame <= n

\* The core holds, at every blit, what the picture was packed for, or nothing.
Fits(queue, held) ==
  \A i \in 1 .. Len(queue) : queue[i].kind = "blit" => HoldsAt(queue, held, i, queue[i].packed)

\* What is on its way to the core: after a CMD_INIT or a CMD_CLOSE nothing but another of
\* them is sent, until the core has answered; once it serves this session it has read all
\* that was sent before.
QueueInv ==
  /\ Ordered(toCore) /\ InitIsLast(toCore) /\ PackedInSize(toCore)
  /\ NotAhead(toCore, clientFrame)
  /\ connected \/ toHost # <<>> => NoControl(toCore)
  /\ coreClient = "cur" => AllCurrent(toCore) /\ (pc # "closed" => NoControl(toCore))
  /\ ~initialized => AllControl(toCore)

\* What is on its way from the core, and what the host has taken of it, is of this session
\* and of frames that were sent.
AnswersInv ==
  /\ \A i \in 1 .. Len(toHost) : toHost[i] <= clientFrame
  /\ torndown => toHost = <<>>
  /\ coreClient = "cur" => coreEcho <= clientFrame
  /\ EchoNeverAhead

\* A core that is down serves no client, and one without a client holds no modeline.
CoreInv ==
  /\ ~coreUp => coreClient = "none"
  /\ coreClient = "none" => coreMode = NoMode
  /\ ~initialized => coreMode = NoMode

\* Unless a CMD_SWITCHRES was lost, every blit that is under way and the next one that a
\* connected client sends find the core with their modeline.
FitInv ==
  ~switchresLost =>
    /\ Fits(toCore, coreMode)
    /\ connected => HoldsAt(toCore, coreMode, Len(toCore) + 1, sizeMode)

\* TypeOK in parts: flags, modelines, counts, frame numbers, and the network with the core.
FlagTypes ==
  /\ pc \in {"top", "init", "mode", "switch", "draw", "blit", "reinit", "replay",
             "sync", "closed"}
  /\ initialized \in BOOLEAN /\ firstBlit \in BOOLEAN
  /\ connected \in BOOLEAN /\ torndown \in BOOLEAN /\ cooling \in BOOLEAN
  /\ switchresLost \in BOOLEAN /\ deadSend \in BOOLEAN

ModeTypes ==
  /\ selected \in Modes /\ revision \in 1 .. MaxRevision
  /\ current \in Modes \cup {NoMode} /\ modeRevision \in 0 .. MaxRevision
  /\ want \in [mode : Modes \cup {NoMode}, revision : 0 .. MaxRevision]
  /\ stash \in Modes \cup {NoMode} /\ sizeMode \in Modes \cup {NoMode}

CountTypes ==
  /\ lastEpoch \in 0 .. 1 /\ epoch \in 0 .. 1
  /\ misses \in 0 .. MissLimit + 1
  /\ attempt \in 0 .. SwitchresAttempts
  /\ faults \in 0 .. MaxFaults

FrameTypes ==
  /\ frame \in FrameNumber /\ clientFrame \in FrameNumber
  /\ frameEcho \in FrameNumber /\ lastSeen \in FrameNumber

WireTypes ==
  /\ toCore \in Seq(Command) /\ toHost \in Seq(FrameNumber)
  /\ coreUp \in BOOLEAN /\ coreClient \in {"none", "old", "cur"}
  /\ coreMode \in Modes \cup {NoMode} /\ coreEcho \in FrameNumber

\* The inductive invariant.
SessionInv ==
  /\ TypeOK /\ PlacesInv /\ WatchdogInv /\ NumbersInv /\ ModesInv
  /\ QueueInv /\ AnswersInv /\ CoreInv /\ FitInv

-----------------------------------------------------------------------------
(* Queues of datagrams.                                                    *)

\* One of them is gone, the k-th.
Drops(queue, rest, k) ==
  /\ k \in 1 .. Len(queue)
  /\ Len(rest) = Len(queue) - 1
  /\ \A j \in 1 .. Len(rest) : rest[j] = queue[IF j < k THEN j ELSE j + 1]

\* They say the same, but for their frame numbers and their session.
Relabels(queue, other) ==
  /\ Len(other) = Len(queue)
  /\ \A i \in 1 .. Len(queue) :
       /\ other[i].kind = queue[i].kind
       /\ queue[i].kind = "switchres" => other[i].mode = queue[i].mode
       /\ queue[i].kind = "blit" =>
            other[i].packed = queue[i].packed /\ other[i].size = queue[i].size

\* Reading takes the first.
LEMMA TailDrops ==
  ASSUME NEW S, NEW queue \in Seq(S), queue # <<>>
  PROVE  Tail(queue) \in Seq(S) /\ Drops(queue, Tail(queue), 1) /\ Head(queue) = queue[1]
  <1>1. Len(queue) \in Nat /\ Len(queue) >= 1
    OBVIOUS
  <1>2. Tail(queue) \in Seq(S) /\ Len(Tail(queue)) = Len(queue) - 1
    BY <1>1
  <1>3. \A j \in 1 .. Len(Tail(queue)) : Tail(queue)[j] = queue[j + 1]
    BY <1>1, <1>2
  <1>4. Head(queue) = queue[1]
    OBVIOUS
  <1> QED
    BY <1>1, <1>2, <1>3, <1>4 DEF Drops

\* Losing takes any of them.
LEMMA RemoveDrops ==
  ASSUME NEW S, NEW queue \in Seq(S), NEW k \in DOMAIN queue
  PROVE  RemoveAt(queue, k) \in Seq(S) /\ Drops(queue, RemoveAt(queue, k), k)
  <1> DEFINE before == SubSeq(queue, 1, k - 1)
             after == SubSeq(queue, k + 1, Len(queue))
  <1>1. Len(queue) \in Nat /\ k \in 1 .. Len(queue)
    OBVIOUS
  <1>2. before \in Seq(S) /\ Len(before) = k - 1 /\ \A j \in 1 .. k - 1 : before[j] = queue[j]
    BY <1>1
  <1>3. /\ after \in Seq(S) /\ Len(after) = Len(queue) - k
        /\ \A j \in 1 .. Len(queue) - k : after[j] = queue[k + j]
    BY <1>1
  <1>4. RemoveAt(queue, k) = before \o after
    BY DEF RemoveAt
  <1> HIDE DEF before, after
  <1>5. before \o after \in Seq(S) /\ Len(before \o after) = Len(queue) - 1
    BY <1>1, <1>2, <1>3
  <1>6. ASSUME NEW j \in 1 .. Len(queue) - 1
        PROVE  (before \o after)[j] = queue[IF j < k THEN j ELSE j + 1]
    <2>1. CASE j < k
      <3>1. (before \o after)[j] = before[j]
        BY <1>1, <1>2, <1>3, <2>1
      <3> QED
        BY <1>1, <1>2, <2>1, <3>1
    <2>2. CASE j >= k
      <3>1. (before \o after)[j] = after[j - Len(before)]
        BY <1>1, <1>2, <1>3, <2>2
      <3>2. j - Len(before) \in 1 .. Len(queue) - k /\ k + (j - Len(before)) = j + 1
        BY <1>1, <1>2, <2>2
      <3> QED
        BY <1>1, <1>3, <2>2, <3>1, <3>2
    <2>3. j < k \/ j >= k
      BY <1>1
    <2> QED
      BY <2>1, <2>2, <2>3
  <1> QED
    BY <1>1, <1>4, <1>5, <1>6 DEF Drops

\* Sending adds one at the end.
LEMMA AppendQueue ==
  ASSUME NEW S, NEW queue \in Seq(S), NEW msg \in S
  PROVE  /\ Append(queue, msg) \in Seq(S)
         /\ Len(queue) \in Nat /\ Len(Append(queue, msg)) = Len(queue) + 1
         /\ \A i \in 1 .. Len(queue) : Append(queue, msg)[i] = queue[i]
         /\ Append(queue, msg)[Len(queue) + 1] = msg
  OBVIOUS

\* What a datagram says of itself, whichever it is.
LEMMA CommandFields ==
  ASSUME NEW msg \in Command
  PROVE  /\ msg.kind \in {"init", "close", "switchres", "blit"} /\ msg.cur \in BOOLEAN
         /\ msg.kind = "switchres" => msg.mode \in Modes
         /\ msg.kind = "blit" =>
              msg.frame \in FrameNumber /\ msg.packed \in Modes /\ msg.size \in Modes
  BY DEF Command

\* A command that is sent is of the session the host is in.
LEMMA Sent ==
  /\ InitMsg \in Command /\ CloseMsg \in Command
  /\ \A m \in Modes : SwitchresMsg(m) \in Command
  /\ \A f \in FrameNumber, m, n \in Modes : BlitMsg(f, m, n) \in Command
  BY DEF InitMsg, CloseMsg, SwitchresMsg, BlitMsg, Command

\* Another socket: no datagram is of the session that begins.
LEMMA RetagQueue ==
  ASSUME NEW queue \in Seq(Command)
  PROVE  /\ Retag(queue) \in Seq(Command) /\ Relabels(queue, Retag(queue))
         /\ \A i \in 1 .. Len(queue) : ~Retag(queue)[i].cur
  <1>1. DOMAIN queue = 1 .. Len(queue) /\ Len(queue) \in Nat
    OBVIOUS
  <1>2. ASSUME NEW msg \in Command
        PROVE  /\ [msg EXCEPT !.cur = FALSE] \in Command
               /\ [msg EXCEPT !.cur = FALSE].cur = FALSE
               /\ [msg EXCEPT !.cur = FALSE].kind = msg.kind
               /\ msg.kind = "switchres" => [msg EXCEPT !.cur = FALSE].mode = msg.mode
               /\ msg.kind = "blit" => /\ [msg EXCEPT !.cur = FALSE].packed = msg.packed
                                       /\ [msg EXCEPT !.cur = FALSE].size = msg.size
    BY DEF Command
  <1>3. \A i \in 1 .. Len(queue) : queue[i] \in Command
    OBVIOUS
  <1>4. Retag(queue) = [i \in 1 .. Len(queue) |-> [queue[i] EXCEPT !.cur = FALSE]]
    BY <1>1 DEF Retag
  <1>5. \A i \in 1 .. Len(queue) : Retag(queue)[i] = [queue[i] EXCEPT !.cur = FALSE]
    BY <1>4
  <1>6. Retag(queue) \in Seq(Command) /\ Len(Retag(queue)) = Len(queue)
    BY <1>1, <1>2, <1>3, <1>4
  <1> QED
    BY <1>2, <1>3, <1>5, <1>6 DEF Relabels

\* A number that is aged stays in order with the others.
LEMMA OlderNumber ==
  ASSUME NEW f \in FrameNumber
  PROVE  /\ Older(f) \in FrameNumber /\ Older(f) <= f
         /\ f <= MaxFrame => Older(f) < MaxFrame
         /\ f = 0 => Older(f) = 0
         /\ \A g \in FrameNumber : f <= g => Older(f) <= Older(g)
  BY LimitsAssumption DEF Older, FrameNumber

\* Aged, the numbers of a queue stay in order and below the new one.
LEMMA OlderQueue ==
  ASSUME NEW queue \in Seq(Command)
  PROVE  LET aged == [i \in DOMAIN queue |-> OlderMsg(queue[i])]
         IN  /\ aged \in Seq(Command) /\ Relabels(queue, aged)
             /\ \A i \in 1 .. Len(queue) :
                  /\ aged[i].cur = queue[i].cur
                  /\ queue[i].kind = "blit" => aged[i].frame = Older(queue[i].frame)
  <1> DEFINE aged == [i \in DOMAIN queue |-> OlderMsg(queue[i])]
  <1>1. DOMAIN queue = 1 .. Len(queue) /\ Len(queue) \in Nat
    OBVIOUS
  <1>2. ASSUME NEW msg \in Command
        PROVE  /\ OlderMsg(msg) \in Command
               /\ OlderMsg(msg).kind = msg.kind /\ OlderMsg(msg).cur = msg.cur
               /\ msg.kind = "switchres" => OlderMsg(msg).mode = msg.mode
               /\ msg.kind = "blit" => /\ OlderMsg(msg).packed = msg.packed
                                       /\ OlderMsg(msg).size = msg.size
                                       /\ OlderMsg(msg).frame = Older(msg.frame)
    <2>1. CASE msg.kind # "blit"
      BY <2>1 DEF OlderMsg
    <2>2. CASE msg.kind = "blit"
      <3>1. msg \in [kind : {"blit"}, cur : BOOLEAN, frame : FrameNumber,
                     packed : Modes, size : Modes]
        BY <2>2 DEF Command
      <3>2. Older(msg.frame) \in FrameNumber
        BY <3>1, OlderNumber
      <3> DEFINE f == Older(msg.frame)
      <3>3. OlderMsg(msg) = [msg EXCEPT !.frame = f]
        BY <2>2 DEF OlderMsg
      <3> HIDE DEF f
      <3>4. /\ [msg EXCEPT !.frame = f] \in [kind : {"blit"}, cur : BOOLEAN,
                     frame : FrameNumber, packed : Modes, size : Modes]
            /\ [msg EXCEPT !.frame = f].frame = f
        BY <3>1, <3>2 DEF f
      <3> QED
        BY <2>2, <3>1, <3>3, <3>4 DEF Command, f
    <2> QED
      BY <2>1, <2>2
  <1>3. \A i \in 1 .. Len(queue) : queue[i] \in Command
    OBVIOUS
  <1>4. \A i \in 1 .. Len(queue) : aged[i] = OlderMsg(queue[i])
    BY <1>1
  <1>5. aged \in Seq(Command) /\ Len(aged) = Len(queue)
    BY <1>1, <1>2, <1>3
  <1> HIDE DEF aged
  <1>6. /\ aged \in Seq(Command) /\ Relabels(queue, aged)
        /\ \A i \in 1 .. Len(queue) :
             /\ aged[i].cur = queue[i].cur
             /\ queue[i].kind = "blit" => aged[i].frame = Older(queue[i].frame)
    BY <1>2, <1>3, <1>4, <1>5 DEF Relabels
  <1> QED
    BY <1>6 DEF aged

\* A queue that loses a datagram keeps its shape.
LEMMA DropKeeps ==
  ASSUME NEW queue \in Seq(Command), NEW rest \in Seq(Command), NEW k, Drops(queue, rest, k)
  PROVE  /\ Ordered(queue) => Ordered(rest)
         /\ InitIsLast(queue) => InitIsLast(rest)
         /\ PackedInSize(queue) => PackedInSize(rest)
         /\ \A n : NotAhead(queue, n) => NotAhead(rest, n)
         /\ NoControl(queue) => NoControl(rest)
         /\ AllControl(queue) => AllControl(rest)
         /\ AllCurrent(queue) => AllCurrent(rest)
  <1> DEFINE at(j) == IF j < k THEN j ELSE j + 1
  <1>1. /\ Len(queue) \in Nat /\ Len(rest) \in Nat /\ k \in 1 .. Len(queue)
        /\ Len(rest) = Len(queue) - 1
    BY DEF Drops
  <1>2. \A j \in 1 .. Len(rest) : at(j) \in 1 .. Len(queue) /\ rest[j] = queue[at(j)]
    BY <1>1 DEF Drops
  <1>3. \A i, j \in 1 .. Len(rest) : i < j => at(i) < at(j)
    BY <1>1
  <1>4. \A j \in 1 .. Len(rest) : at(j) = Len(queue) => j = Len(rest)
    BY <1>1
  <1> HIDE DEF at
  <1>5. Ordered(queue) => Ordered(rest)
    BY <1>2, <1>3 DEF Ordered
  <1>6. InitIsLast(queue) => InitIsLast(rest)
    BY <1>2, <1>4 DEF InitIsLast
  <1>7. PackedInSize(queue) => PackedInSize(rest)
    BY <1>2 DEF PackedInSize
  <1>8. \A n : NotAhead(queue, n) => NotAhead(rest, n)
    BY <1>2 DEF NotAhead
  <1>9. /\ NoControl(queue) => NoControl(rest)
        /\ AllControl(queue) => AllControl(rest)
        /\ AllCurrent(queue) => AllCurrent(rest)
    BY <1>2 DEF NoControl, AllControl, AllCurrent
  <1> QED
    BY <1>5, <1>6, <1>7, <1>8, <1>9

\* A queue that says the same keeps its shape.
LEMMA RelabelKeeps ==
  ASSUME NEW queue \in Seq(Command), NEW other \in Seq(Command), Relabels(queue, other)
  PROVE  /\ Ordered(queue) => Ordered(other)
         /\ PackedInSize(queue) => PackedInSize(other)
         /\ NoControl(queue) => NoControl(other)
         /\ AllControl(queue) => AllControl(other)
         /\ \A held : Fits(queue, held) => Fits(other, held)
         /\ \A held, m, i : i \in 1 .. Len(queue) + 1 /\ HoldsAt(queue, held, i, m) =>
              HoldsAt(other, held, i, m)
  <1>1. Len(other) = Len(queue) /\ Len(queue) \in Nat
    BY DEF Relabels
  <1>2. \A i \in 1 .. Len(queue) :
          /\ other[i].kind = queue[i].kind
          /\ queue[i].kind = "switchres" => other[i].mode = queue[i].mode
          /\ queue[i].kind = "blit" =>
               other[i].packed = queue[i].packed /\ other[i].size = queue[i].size
    BY DEF Relabels
  <1>3. Ordered(queue) => Ordered(other)
    BY <1>1, <1>2 DEF Ordered
  <1>4. PackedInSize(queue) => PackedInSize(other)
    BY <1>1, <1>2 DEF PackedInSize
  <1>5. /\ NoControl(queue) => NoControl(other)
        /\ AllControl(queue) => AllControl(other)
    BY <1>1, <1>2 DEF NoControl, AllControl
  <1>6. ASSUME NEW held, NEW m, NEW i \in 1 .. Len(queue) + 1, HoldsAt(queue, held, i, m)
        PROVE  HoldsAt(other, held, i, m)
    <2>1. \A j \in 1 .. i - 1 : j \in 1 .. Len(queue)
      BY <1>1
    <2>2. \A j \in 1 .. i - 1 : \A k \in j + 1 .. i - 1 : k \in 1 .. Len(queue)
      BY <1>1
    <2> QED
      BY <1>2, <1>6, <2>1, <2>2 DEF HoldsAt
  <1>7. \A held : Fits(queue, held) => Fits(other, held)
    BY <1>1, <1>2, <1>6 DEF Fits
  <1> QED
    BY <1>3, <1>4, <1>5, <1>6, <1>7

\* A blit that goes, or is lost, changes nothing for what comes after it.
LEMMA DropBlitHolds ==
  ASSUME NEW queue \in Seq(Command), NEW rest \in Seq(Command), NEW k, Drops(queue, rest, k),
         queue[k].kind = "blit", NEW i \in 1 .. Len(rest) + 1, NEW held, NEW m,
         HoldsAt(queue, held, IF i < k THEN i ELSE i + 1, m)
  PROVE  HoldsAt(rest, held, i, m)
  <1> DEFINE at(j) == IF j < k THEN j ELSE j + 1
  <1>1. /\ Len(queue) \in Nat /\ Len(rest) \in Nat /\ k \in 1 .. Len(queue)
        /\ Len(rest) = Len(queue) - 1
    BY DEF Drops
  <1>2. \A j \in 1 .. Len(rest) : at(j) \in 1 .. Len(queue) /\ rest[j] = queue[at(j)]
    BY <1>1 DEF Drops
  <1>3. ASSUME NEW j \in 1 .. i - 1, rest[j].kind = "switchres",
               \A l \in j + 1 .. i - 1 : rest[l].kind = "blit"
        PROVE  rest[j].mode = m
    <2>1. at(j) \in 1 .. at(i) - 1 /\ queue[at(j)] = rest[j]
      BY <1>1, <1>2
    <2>2. ASSUME NEW l \in at(j) + 1 .. at(i) - 1 PROVE queue[l].kind = "blit"
      <3>1. CASE l = k
        BY <3>1
      <3>2. CASE l < k
        <4>1. l \in j + 1 .. i - 1 /\ at(l) = l /\ l \in 1 .. Len(rest)
          BY <1>1, <3>2
        <4> QED
          BY <1>2, <1>3, <4>1
      <3>3. CASE l > k
        <4>1. l - 1 \in j + 1 .. i - 1 /\ at(l - 1) = l /\ l - 1 \in 1 .. Len(rest)
          BY <1>1, <3>3
        <4> QED
          BY <1>2, <1>3, <4>1
      <3> QED
        BY <1>1, <3>1, <3>2, <3>3
    <2> QED
      BY <1>3, <2>1, <2>2 DEF HoldsAt
  <1>4. ASSUME \A l \in 1 .. i - 1 : rest[l].kind = "blit"
        PROVE  held \in {NoMode, m}
    <2>1. ASSUME NEW l \in 1 .. at(i) - 1 PROVE queue[l].kind = "blit"
      <3>1. CASE l = k
        BY <3>1
      <3>2. CASE l < k
        <4>1. l \in 1 .. i - 1 /\ at(l) = l /\ l \in 1 .. Len(rest)
          BY <1>1, <3>2
        <4> QED
          BY <1>2, <1>4, <4>1
      <3>3. CASE l > k
        <4>1. l - 1 \in 1 .. i - 1 /\ at(l - 1) = l /\ l - 1 \in 1 .. Len(rest)
          BY <1>1, <3>3
        <4> QED
          BY <1>2, <1>4, <4>1
      <3> QED
        BY <1>1, <3>1, <3>2, <3>3
    <2> QED
      BY <2>1 DEF HoldsAt
  <1> QED
    BY <1>3, <1>4 DEF HoldsAt

\* The core has read the first datagram: it holds what that says, or nothing.
LEMMA HeadHolds ==
  ASSUME NEW queue \in Seq(Command), NEW rest \in Seq(Command), Drops(queue, rest, 1),
         NEW i \in 1 .. Len(rest) + 1, NEW held, NEW now, NEW m,
         HoldsAt(queue, held, i + 1, m),
         \/ now = NoMode
         \/ queue[1].kind = "switchres" /\ now = queue[1].mode
  PROVE  HoldsAt(rest, now, i, m)
  <1>1. Len(queue) \in Nat /\ Len(rest) \in Nat /\ Len(rest) = Len(queue) - 1
    BY DEF Drops
  <1>2. \A j \in 1 .. Len(rest) : rest[j] = queue[j + 1]
    BY <1>1 DEF Drops
  <1>3. ASSUME NEW j \in 1 .. i - 1, rest[j].kind = "switchres",
               \A l \in j + 1 .. i - 1 : rest[l].kind = "blit"
        PROVE  rest[j].mode = m
    <2>1. j + 1 \in 1 .. (i + 1) - 1 /\ queue[j + 1] = rest[j]
      BY <1>1, <1>2
    <2>2. ASSUME NEW l \in (j + 1) + 1 .. (i + 1) - 1 PROVE queue[l].kind = "blit"
      <3>1. l - 1 \in j + 1 .. i - 1 /\ l - 1 \in 1 .. Len(rest) /\ (l - 1) + 1 = l
        BY <1>1
      <3> QED
        BY <1>2, <1>3, <3>1
    <2> QED
      BY <1>3, <2>1, <2>2 DEF HoldsAt
  <1>4. ASSUME \A l \in 1 .. i - 1 : rest[l].kind = "blit", queue[1].kind = "switchres"
        PROVE  queue[1].mode = m
    <2>1. 1 \in 1 .. (i + 1) - 1
      BY <1>1
    <2>2. ASSUME NEW l \in 1 + 1 .. (i + 1) - 1 PROVE queue[l].kind = "blit"
      <3>1. l - 1 \in 1 .. i - 1 /\ l - 1 \in 1 .. Len(rest) /\ (l - 1) + 1 = l
        BY <1>1
      <3> QED
        BY <1>2, <1>4, <3>1
    <2> QED
      BY <1>4, <2>1, <2>2 DEF HoldsAt
  <1> QED
    BY <1>3, <1>4 DEF HoldsAt

\* What is appended comes after what was there.
LEMMA AppendHolds ==
  ASSUME NEW queue \in Seq(Command), NEW msg \in Command, NEW held, NEW m,
         NEW i \in 1 .. Len(queue) + 1
  PROVE  HoldsAt(queue, held, i, m) <=> HoldsAt(Append(queue, msg), held, i, m)
  <1> DEFINE more == Append(queue, msg)
  <1>1. Len(queue) \in Nat /\ \A j \in 1 .. Len(queue) : more[j] = queue[j]
    BY AppendQueue
  <1> HIDE DEF more
  <1>2. \A j \in 1 .. i - 1 : more[j] = queue[j]
    BY <1>1
  <1>3. \A j \in 1 .. i - 1 : \A k \in j + 1 .. i - 1 : more[k] = queue[k]
    BY <1>1
  <1>4. HoldsAt(queue, held, i, m) <=> HoldsAt(more, held, i, m)
    BY <1>2, <1>3 DEF HoldsAt
  <1> QED
    BY <1>4 DEF more

\* A core that reads to the end of a queue holds what its last CMD_SWITCHRES says, and a
\* blit at the end changes nothing.
LEMMA AppendSwitchres ==
  ASSUME NEW queue \in Seq(Command), NEW m \in Modes, NEW held
  PROVE  HoldsAt(Append(queue, SwitchresMsg(m)), held, Len(queue) + 2, m)
  <1> DEFINE more == Append(queue, SwitchresMsg(m))
  <1>1. Len(queue) \in Nat /\ more[Len(queue) + 1] = SwitchresMsg(m)
    BY Sent, AppendQueue
  <1>2. SwitchresMsg(m).kind = "switchres" /\ SwitchresMsg(m).mode = m
    BY DEF SwitchresMsg
  <1> HIDE DEF more
  <1> DEFINE last == Len(queue) + 1
  <1>3. more[last].kind # "blit" /\ more[last].mode = m
    BY <1>1, <1>2
  <1>4. ASSUME NEW j \in 1 .. last, \A k \in j + 1 .. last : more[k].kind = "blit"
        PROVE  more[j].mode = m
    <2>1. CASE j = last
      BY <1>3, <2>1
    <2>2. CASE j < last
      <3>1. last \in j + 1 .. last
        BY <1>1, <2>2
      <3> QED
        BY <1>3, <1>4, <3>1
    <2>3. j = last \/ j < last
      BY <1>1
    <2> QED
      BY <2>1, <2>2, <2>3
  <1>5. ~ \A j \in 1 .. last : more[j].kind = "blit"
    <2>1. last \in 1 .. last
      BY <1>1
    <2> QED
      BY <1>3, <2>1
  <1>6. (Len(queue) + 2) - 1 = last
    BY <1>1
  <1> HIDE DEF last
  <1>7. HoldsAt(more, held, Len(queue) + 2, m)
    BY <1>4, <1>5, <1>6 DEF HoldsAt
  <1> QED
    BY <1>7 DEF more

\* The same for a blit.
LEMMA AppendBlit ==
  ASSUME NEW queue \in Seq(Command), NEW msg \in Command, msg.kind = "blit", NEW held, NEW m,
         HoldsAt(queue, held, Len(queue) + 1, m)
  PROVE  HoldsAt(Append(queue, msg), held, Len(queue) + 2, m)
  <1> DEFINE more == Append(queue, msg)
             last == Len(queue) + 1
  <1>1. /\ Len(queue) \in Nat /\ more[last] = msg
        /\ \A j \in 1 .. Len(queue) : more[j] = queue[j]
    BY AppendQueue
  <1>2. (Len(queue) + 2) - 1 = last /\ last - 1 = Len(queue) /\ last \in Nat
    BY <1>1
  <1> HIDE DEF more
  <1>3. ASSUME NEW j \in 1 .. last, more[j].kind = "switchres",
               \A k \in j + 1 .. last : more[k].kind = "blit"
        PROVE  more[j].mode = m
    <2>1. j # last
      BY <1>1, <1>3
    <2>2. j \in 1 .. last - 1 /\ more[j] = queue[j]
      BY <1>1, <2>1
    <2>3. \A k \in j + 1 .. last - 1 : queue[k].kind = "blit"
      BY <1>1, <1>3
    <2> QED
      BY <1>3, <2>2, <2>3 DEF HoldsAt
  <1>4. ASSUME \A j \in 1 .. last : more[j].kind = "blit"
        PROVE  held \in {NoMode, m}
    <2>1. \A j \in 1 .. last - 1 : queue[j].kind = "blit"
      BY <1>1, <1>4
    <2> QED
      BY <2>1 DEF HoldsAt
  <1> HIDE DEF last
  <1>5. HoldsAt(more, held, Len(queue) + 2, m)
    BY <1>2, <1>3, <1>4 DEF HoldsAt
  <1> QED
    BY <1>5 DEF more

\* A CMD_INIT or a CMD_CLOSE at the end.
LEMMA AppendControl ==
  ASSUME NEW queue \in Seq(Command), NEW msg \in {InitMsg, CloseMsg}
  PROVE  LET more == Append(queue, msg)
         IN  /\ more \in Seq(Command)
             /\ Ordered(queue) => Ordered(more)
             /\ PackedInSize(queue) => PackedInSize(more)
             /\ \A n : NotAhead(queue, n) => NotAhead(more, n)
             /\ AllControl(queue) => AllControl(more)
             /\ AllCurrent(queue) => AllCurrent(more)
             /\ \A held : Fits(queue, held) => Fits(more, held)
             /\ \/ \A i \in 1 .. Len(queue) : ~queue[i].cur
                \/ NoControl(queue)
                => InitIsLast(more)
  <1> DEFINE more == Append(queue, msg)
             last == Len(queue) + 1
  <1>1. msg \in Command /\ msg.kind \in Control /\ msg.cur
    <2>1. msg \in Command
      BY Sent
    <2>2. msg.kind \in Control /\ msg.cur
      BY DEF InitMsg, CloseMsg, Control
    <2> QED
      BY <2>1, <2>2
  <1>2. /\ more \in Seq(Command) /\ Len(queue) \in Nat /\ Len(more) = last
        /\ \A i \in 1 .. Len(queue) : more[i] = queue[i]
        /\ more[last] = msg
    BY <1>1, AppendQueue
  <1>3. \A held, m : \A i \in 1 .. Len(queue) + 1 :
          HoldsAt(queue, held, i, m) => HoldsAt(more, held, i, m)
    BY <1>1, AppendHolds
  <1>4. \A i \in 1 .. last : i \in 1 .. Len(queue) \/ i = last
    BY <1>2
  <1>5. last \notin 1 .. Len(queue) /\ 1 .. last = 1 .. Len(more)
    BY <1>2
  <1>6. \A i, j \in 1 .. last : i < j => i \in 1 .. Len(queue)
    BY <1>2
  <1>7. \A i \in 1 .. Len(queue) : i \in 1 .. Len(queue) + 1
    BY <1>2
  <1> HIDE DEF more, last
  <1>8. Ordered(queue) => Ordered(more)
    BY <1>1, <1>2, <1>4, <1>5, <1>6 DEF Ordered
  <1>9. PackedInSize(queue) => PackedInSize(more)
    BY <1>1, <1>2, <1>4, <1>5 DEF PackedInSize, Control
  <1>10. \A n : NotAhead(queue, n) => NotAhead(more, n)
    BY <1>1, <1>2, <1>4, <1>5 DEF NotAhead, Control
  <1>11. /\ AllControl(queue) => AllControl(more)
         /\ AllCurrent(queue) => AllCurrent(more)
    BY <1>1, <1>2, <1>4, <1>5 DEF AllControl, AllCurrent
  <1>12. \A held : Fits(queue, held) => Fits(more, held)
    BY <1>1, <1>2, <1>3, <1>4, <1>5, <1>7 DEF Fits, Control
  <1>13. /\ \/ \A i \in 1 .. Len(queue) : ~queue[i].cur
            \/ NoControl(queue)
         => InitIsLast(more)
    BY <1>2, <1>4, <1>5 DEF InitIsLast, NoControl, Control
  <1> QED
    BY <1>2, <1>8, <1>9, <1>10, <1>11, <1>12, <1>13 DEF more

\* A CMD_SWITCHRES or a blit at the end: only of a session that lives.
LEMMA AppendSession ==
  ASSUME NEW queue \in Seq(Command), NEW msg \in Command, msg.kind \notin Control, msg.cur,
         NoControl(queue)
  PROVE  LET more == Append(queue, msg)
         IN  /\ more \in Seq(Command)
             /\ NoControl(more) /\ Ordered(more) /\ InitIsLast(more)
             /\ PackedInSize(queue) /\ (msg.kind = "blit" => msg.size = msg.packed) =>
                  PackedInSize(more)
             /\ \A n : NotAhead(queue, n) /\ (msg.kind = "blit" => msg.frame <= n) =>
                  NotAhead(more, n)
             /\ AllCurrent(queue) => AllCurrent(more)
             /\ \A held : /\ Fits(queue, held)
                          /\ msg.kind = "blit" =>
                               HoldsAt(queue, held, Len(queue) + 1, msg.packed)
                          => Fits(more, held)
  <1> DEFINE more == Append(queue, msg)
             last == Len(queue) + 1
  <1>2. /\ more \in Seq(Command) /\ Len(queue) \in Nat /\ Len(more) = last
        /\ \A i \in 1 .. Len(queue) : more[i] = queue[i]
        /\ more[last] = msg
    BY AppendQueue
  <1>3. \A held, m : \A i \in 1 .. Len(queue) + 1 :
          HoldsAt(queue, held, i, m) => HoldsAt(more, held, i, m)
    BY AppendHolds
  <1>4. \A i \in 1 .. last : i \in 1 .. Len(queue) \/ i = last
    BY <1>2
  <1>5. 1 .. last = 1 .. Len(more)
    BY <1>2
  <1>6. \A i \in 1 .. Len(queue) : i \in 1 .. Len(queue) + 1
    BY <1>2
  <1>7. last \in 1 .. Len(queue) + 1 /\ last = Len(queue) + 1
    BY <1>2
  <1> HIDE DEF more, last
  <1>8. NoControl(more)
    BY <1>2, <1>4, <1>5 DEF NoControl
  <1>9. Ordered(more) /\ InitIsLast(more)
    BY <1>8 DEF NoControl, Ordered, InitIsLast, Control
  <1>10. PackedInSize(queue) /\ (msg.kind = "blit" => msg.size = msg.packed) =>
           PackedInSize(more)
    BY <1>2, <1>4, <1>5 DEF PackedInSize
  <1>11. \A n : NotAhead(queue, n) /\ (msg.kind = "blit" => msg.frame <= n) =>
           NotAhead(more, n)
    BY <1>2, <1>4, <1>5 DEF NotAhead
  <1>12. AllCurrent(queue) => AllCurrent(more)
    BY <1>2, <1>4, <1>5 DEF AllCurrent
  <1>13. ASSUME NEW held, Fits(queue, held),
                msg.kind = "blit" => HoldsAt(queue, held, Len(queue) + 1, msg.packed)
         PROVE  Fits(more, held)
    BY <1>2, <1>3, <1>4, <1>5, <1>6, <1>7, <1>13 DEF Fits
  <1> QED
    BY <1>2, <1>8, <1>9, <1>10, <1>11, <1>12, <1>13 DEF more

-----------------------------------------------------------------------------
(* What the handlers have in common.                                       *)

\* An answer that is taken is for a frame of this session.
LEMMA AnswerTaken ==
  ASSUME SessionInv, TakeACK, UNCHANGED clientFrame
  PROVE  /\ toHost # <<>> /\ toHost' \in Seq(FrameNumber)
         /\ frameEcho' \in FrameNumber /\ frameEcho' <= clientFrame
         /\ clientFrame = 0 => frameEcho' = 0
         /\ \A i \in 1 .. Len(toHost') : toHost'[i] <= clientFrame
         /\ NoControl(toCore) /\ ~torndown
  <1>1. PICK last \in 1 .. Len(toHost) :
          /\ toHost' = SubSeq(toHost, last + 1, Len(toHost))
          /\ frameEcho' \in {frameEcho} \cup {toHost[i] : i \in 1 .. last}
    BY DEF TakeACK
  <1>2. /\ toHost \in Seq(FrameNumber) /\ Len(toHost) \in Nat
        /\ frameEcho \in FrameNumber /\ clientFrame \in FrameNumber
    BY DEF SessionInv, TypeOK
  <1>3. toHost # <<>> /\ last \in Nat /\ last >= 1 /\ last <= Len(toHost)
    BY <1>1, <1>2
  <1>4. /\ toHost' \in Seq(FrameNumber) /\ Len(toHost') = Len(toHost) - last
        /\ \A i \in 1 .. Len(toHost') : toHost'[i] = toHost[i + last]
    BY <1>1, <1>2, <1>3
  <1>5. \A i \in 1 .. Len(toHost) : toHost[i] \in FrameNumber /\ toHost[i] <= clientFrame
    BY <1>2 DEF SessionInv, AnswersInv
  <1>6. \A i \in 1 .. Len(toHost') : toHost'[i] <= clientFrame
    BY <1>2, <1>3, <1>4, <1>5
  <1>7. NoControl(toCore) /\ ~torndown
    BY <1>3 DEF SessionInv, QueueInv, AnswersInv
  <1>8. frameEcho <= clientFrame
    BY DEF SessionInv, AnswersInv, EchoNeverAhead
  <1>9. \A f \in FrameNumber : f \in Nat
    BY LimitsAssumption DEF FrameNumber
  <1>10. frameEcho' \in FrameNumber /\ frameEcho' <= clientFrame
    <2>1. CASE frameEcho' = frameEcho
      BY <2>1, <1>2, <1>8
    <2>2. CASE frameEcho' # frameEcho
      <3>1. PICK i \in 1 .. last : frameEcho' = toHost[i]
        BY <2>2, <1>1
      <3>2. i \in 1 .. Len(toHost)
        BY <1>2, <1>3
      <3> QED
        BY <3>1, <3>2, <1>5
    <2> QED
      BY <2>1, <2>2
  <1>11. clientFrame = 0 => frameEcho' = 0
    BY <1>9, <1>10
  <1> QED
    BY <1>3, <1>4, <1>6, <1>7, <1>10, <1>11

\* A number for the next picture is ahead of every number of the session, also when all
\* numbers are aged for it.
LEMMA NumberTaken ==
  ASSUME SessionInv, NextFrame
  PROVE  /\ {frame', clientFrame', frameEcho', lastSeen', coreEcho'} \subseteq FrameNumber
         /\ toCore' \in Seq(Command) /\ toHost' \in Seq(FrameNumber)
         /\ clientFrame' < frame'
         /\ clientFrame = 0 => clientFrame' = 0
         /\ frameEcho = 0 => frameEcho' = 0
         /\ frameEcho' <= clientFrame'
         /\ coreEcho <= clientFrame => coreEcho' <= clientFrame'
         /\ \A i \in 1 .. Len(toHost') : toHost'[i] <= clientFrame'
         /\ toHost' = <<>> <=> toHost = <<>>
         /\ Relabels(toCore, toCore')
         /\ \A i \in 1 .. Len(toCore) : toCore'[i].cur = toCore[i].cur
         /\ NotAhead(toCore', clientFrame')
  <1> DEFINE base == IF epoch # lastEpoch THEN 0 ELSE frame
  <1>1. /\ {frame, clientFrame, frameEcho, lastSeen, coreEcho} \subseteq FrameNumber
        /\ toCore \in Seq(Command) /\ toHost \in Seq(FrameNumber)
    BY DEF SessionInv, TypeOK
  <1>2. \A f \in FrameNumber : f \in Nat /\ f <= MaxFrame
    BY LimitsAssumption DEF FrameNumber
  <1>3. /\ base \in FrameNumber /\ clientFrame <= base /\ frameEcho <= clientFrame
    <2>1. epoch # lastEpoch => clientFrame = 0
      BY DEF SessionInv, NumbersInv
    <2>2. clientFrame <= frame /\ frameEcho <= clientFrame
      BY DEF SessionInv, NumbersInv, AnswersInv, EchoNeverAhead
    <2>3. 0 \in FrameNumber
      BY LimitsAssumption DEF FrameNumber
    <2> QED
      BY <1>1, <1>2, <2>1, <2>2, <2>3
  <1>4. /\ \A i \in 1 .. Len(toHost) : toHost[i] <= clientFrame
        /\ NotAhead(toCore, clientFrame)
    BY DEF SessionInv, AnswersInv, QueueInv
  <1>5. CASE base < MaxFrame
    <2>1. frame' = base + 1 /\ UNCHANGED <<clientFrame, frameEcho, lastSeen, coreEcho, netVars>>
      BY <1>5 DEF NextFrame
    <2> HIDE DEF base
    <2>2. frame' \in FrameNumber /\ clientFrame < frame'
      BY <1>1, <1>2, <1>3, <1>5, <2>1, LimitsAssumption DEF FrameNumber
    <2>3. Relabels(toCore, toCore)
      BY DEF Relabels
    <2> QED
      BY <1>1, <1>3, <1>4, <2>1, <2>2, <2>3 DEF netVars
  <1>6. CASE ~(base < MaxFrame)
    <2>1. frame' = base /\ AgeFrames
      BY <1>6 DEF NextFrame
    <2> HIDE DEF base
    <2>2. base = MaxFrame
      BY <1>2, <1>3, <1>6, LimitsAssumption
    <2>3. /\ clientFrame' = Older(clientFrame) /\ frameEcho' = Older(frameEcho)
          /\ lastSeen' = Older(lastSeen) /\ coreEcho' = Older(coreEcho)
          /\ toCore' = [i \in DOMAIN toCore |-> OlderMsg(toCore[i])]
          /\ toHost' = [i \in DOMAIN toHost |-> Older(toHost[i])]
      BY <2>1 DEF AgeFrames
    <2>4. /\ {clientFrame', frameEcho', lastSeen', coreEcho'} \subseteq FrameNumber
          /\ clientFrame' < MaxFrame
          /\ clientFrame = 0 => clientFrame' = 0
          /\ frameEcho = 0 => frameEcho' = 0
          /\ frameEcho' <= clientFrame'
          /\ coreEcho <= clientFrame => coreEcho' <= clientFrame'
      BY <1>1, <1>2, <1>3, <2>3, OlderNumber
    <2>5. /\ toHost' \in Seq(FrameNumber) /\ Len(toHost') = Len(toHost)
          /\ \A i \in 1 .. Len(toHost) : toHost'[i] = Older(toHost[i])
      <3>1. \A i \in 1 .. Len(toHost) : Older(toHost[i]) \in FrameNumber
        BY <1>1, OlderNumber
      <3>2. toHost' = [i \in 1 .. Len(toHost) |-> Older(toHost[i])] /\ Len(toHost) \in Nat
        BY <1>1, <2>3
      <3>3. [i \in 1 .. Len(toHost) |-> Older(toHost[i])] \in Seq(FrameNumber)
        BY <3>1, <3>2
      <3> QED
        BY <3>2, <3>3
    <2>6. \A i \in 1 .. Len(toHost') : toHost'[i] <= clientFrame'
      <3>1. \A i \in 1 .. Len(toHost) : toHost[i] \in FrameNumber
        BY <1>1
      <3> QED
        BY <1>1, <1>4, <2>3, <2>5, <3>1, OlderNumber
    <2>7. toHost' = <<>> <=> toHost = <<>>
      BY <1>1, <2>5
    <2>8. /\ toCore' \in Seq(Command) /\ Relabels(toCore, toCore')
          /\ \A i \in 1 .. Len(toCore) :
               /\ toCore'[i].cur = toCore[i].cur
               /\ toCore[i].kind = "blit" => toCore'[i].frame = Older(toCore[i].frame)
      BY <1>1, <2>3, OlderQueue
    <2>9. NotAhead(toCore', clientFrame')
      <3>1. \A i \in 1 .. Len(toCore) : toCore[i].kind = "blit" =>
                toCore[i].frame \in FrameNumber
        BY <1>1, CommandFields
      <3>2. /\ Len(toCore') = Len(toCore)
            /\ \A i \in 1 .. Len(toCore) : toCore'[i].kind = toCore[i].kind
        BY <2>8 DEF Relabels
      <3>3. ASSUME NEW i \in 1 .. Len(toCore), toCore[i].kind = "blit", toCore[i].cur
            PROVE  toCore'[i].frame <= clientFrame'
        <4>1. toCore[i].frame \in FrameNumber /\ toCore[i].frame <= clientFrame
          BY <1>4, <3>1, <3>3 DEF NotAhead
        <4> QED
          BY <1>1, <2>3, <2>8, <3>3, <4>1, OlderNumber
      <3> QED
        BY <2>8, <3>2, <3>3 DEF NotAhead
    <2> QED
      BY <1>3, <2>1, <2>2, <2>4, <2>5, <2>6, <2>7, <2>8, <2>9
  <1> QED
    BY <1>5, <1>6

\* Another socket: nothing that is on its way is of the session that begins.
LEMMA SocketOpened ==
  ASSUME NEW sent \in Seq(Command), Ordered(sent), PackedInSize(sent),
         coreClient \in {"none", "old", "cur"},
         CmdInit(sent) \/ CmdInitSocketError(sent)
  PROVE  /\ toCore' \in Seq(Command) /\ toHost' = <<>>
         /\ ~connected' /\ clientFrame' = 0 /\ frameEcho' = 0
         /\ coreClient' \in {"none", "old"}
         /\ coreClient = "none" => coreClient' = "none"
         /\ Ordered(toCore') /\ InitIsLast(toCore') /\ PackedInSize(toCore')
         /\ NotAhead(toCore', 0)
         /\ AllControl(sent) => AllControl(toCore')
         /\ \A held : Fits(sent, held) => Fits(toCore', held)
  <1>1. /\ toCore' = Retag(sent) \/ toCore' = Append(Retag(sent), InitMsg)
        /\ ~connected' /\ clientFrame' = 0 /\ frameEcho' = 0 /\ toHost' = <<>>
        /\ coreClient' = IF coreClient = "cur" THEN "old" ELSE coreClient
    BY DEF CmdInit, CmdInitSocketError
  <1> DEFINE tagged == Retag(sent)
  <1>2. /\ tagged \in Seq(Command) /\ Relabels(sent, tagged)
        /\ \A i \in 1 .. Len(tagged) : ~tagged[i].cur
    BY RetagQueue DEF Relabels
  <1>3. /\ Ordered(tagged) /\ PackedInSize(tagged)
        /\ AllControl(sent) => AllControl(tagged)
        /\ \A held : Fits(sent, held) => Fits(tagged, held)
    BY <1>2, RelabelKeeps
  <1> HIDE DEF tagged
  <1>4. InitIsLast(tagged) /\ NotAhead(tagged, 0)
    BY <1>2 DEF InitIsLast, NotAhead
  <1>5. CASE toCore' = tagged
    BY <1>1, <1>2, <1>3, <1>4, <1>5
  <1>6. CASE toCore' = Append(tagged, InitMsg)
    BY <1>1, <1>2, <1>3, <1>4, <1>6, AppendControl
  <1> QED
    BY <1>1, <1>5, <1>6 DEF tagged

\* What the core has read is gone; it answers the socket it was opened from last, and the
\* frame it echoes was sent on that.
LEMMA CoreReads ==
  ASSUME SessionInv, CoreReceives
  PROVE  /\ UNCHANGED <<uiVars, pc, rendererVars, clientVars, coreUp, faults, historyVars>>
         /\ coreUp /\ toCore' \in Seq(Command) /\ Drops(toCore, toCore', 1)
         /\ coreClient' \in {"none", "old", "cur"} /\ coreMode' \in Modes \cup {NoMode}
         /\ coreEcho' \in FrameNumber
         /\ coreClient' = "cur" =>
              /\ coreEcho' <= clientFrame /\ AllCurrent(toCore')
              /\ pc # "closed" => NoControl(toCore')
         /\ \/ toHost' = toHost
            \/ /\ toHost' = Append(toHost, coreEcho')
               /\ coreClient' = "cur" /\ ~torndown
         /\ coreClient' = "none" => coreMode' = NoMode
         /\ \/ coreMode' = NoMode
            \/ toCore[1].kind = "switchres" /\ coreMode' = toCore[1].mode
            \/ toCore[1].kind = "blit" /\ coreMode' = coreMode
         /\ ~initialized => coreMode' = NoMode
  <1>1. /\ toCore # <<>> /\ toCore' = Tail(toCore) /\ coreUp
        /\ UNCHANGED <<uiVars, pc, rendererVars, clientVars, coreUp, faults, historyVars>>
    BY DEF CoreReceives
  <1>2. /\ toCore \in Seq(Command) /\ clientFrame \in FrameNumber /\ coreEcho \in FrameNumber
        /\ coreClient \in {"none", "old", "cur"} /\ coreMode \in Modes \cup {NoMode}
    BY DEF SessionInv, TypeOK
  <1>3. /\ toCore' \in Seq(Command) /\ Drops(toCore, toCore', 1) /\ Head(toCore) = toCore[1]
    BY <1>1, <1>2, TailDrops
  <1> DEFINE msg == toCore[1]
  <1>4. Len(toCore) \in Nat /\ 1 \in 1 .. Len(toCore) /\ Len(toCore') = Len(toCore) - 1
    BY <1>2, <1>3 DEF Drops
  <1>5. msg \in Command
    BY <1>2, <1>4
  <1>6. \/ CoreInit(msg) \/ CoreClose(msg)
        \/ CoreSwitchres(msg) \/ CoreBlit(msg) \/ CoreIgnores(msg)
    BY <1>3 DEF CoreReceives
  <1>7. /\ coreClient = "cur" => AllCurrent(toCore) /\ (pc # "closed" => NoControl(toCore))
        /\ coreClient = "cur" => coreEcho <= clientFrame
        /\ coreClient = "none" => coreMode = NoMode
        /\ ~initialized => AllControl(toCore) /\ coreMode = NoMode
        /\ InitIsLast(toCore) /\ NotAhead(toCore, clientFrame)
    BY DEF SessionInv, QueueInv, AnswersInv, CoreInv
  <1>8. coreClient = "cur" => AllCurrent(toCore') /\ (pc # "closed" => NoControl(toCore'))
    BY <1>2, <1>3, <1>7, DropKeeps
  <1>9. 0 \in FrameNumber /\ 0 <= clientFrame
    BY <1>2, LimitsAssumption DEF FrameNumber
  <1>10. ~initialized => msg.kind \in Control
    BY <1>4, <1>7 DEF AllControl
  <1>11. /\ msg.kind \in {"init", "close", "switchres", "blit"} /\ msg.cur \in BOOLEAN
         /\ msg.kind = "switchres" => msg.mode \in Modes
         /\ msg.kind = "blit" => msg.frame \in FrameNumber
    BY <1>5, CommandFields
  <1>12. msg.kind = "init" /\ msg.cur => AllCurrent(toCore') /\ NoControl(toCore')
    <2> SUFFICES ASSUME msg.kind = "init", msg.cur
                 PROVE  AllCurrent(toCore') /\ NoControl(toCore')
      OBVIOUS
    <2>1. Len(toCore') = 0
      BY <1>4, <1>7 DEF InitIsLast
    <2> QED
      BY <2>1 DEF AllCurrent, NoControl
  <1>13. coreClient = "cur" /\ msg.kind = "blit" => msg.frame <= clientFrame
    BY <1>4, <1>7 DEF AllCurrent, NotAhead
  <1> DEFINE Read ==
        /\ coreClient' \in {"none", "old", "cur"} /\ coreMode' \in Modes \cup {NoMode}
        /\ coreEcho' \in FrameNumber
        /\ coreClient' = "cur" =>
             /\ coreEcho' <= clientFrame /\ AllCurrent(toCore')
             /\ pc # "closed" => NoControl(toCore')
        /\ \/ toHost' = toHost
           \/ /\ toHost' = Append(toHost, coreEcho')
              /\ coreClient' = "cur" /\ ~torndown
        /\ coreClient' = "none" => coreMode' = NoMode
        /\ \/ coreMode' = NoMode
           \/ msg.kind = "switchres" /\ coreMode' = msg.mode
           \/ msg.kind = "blit" /\ coreMode' = coreMode
        /\ ~initialized => coreMode' = NoMode
  <1> HIDE DEF msg
  <1>14. ASSUME CoreInit(msg) PROVE Read
    BY <1>9, <1>11, <1>12, <1>14 DEF CoreInit, Reply
  <1>15. ASSUME CoreClose(msg) PROVE Read
    BY <1>9, <1>15 DEF CoreClose
  <1>16. ASSUME CoreSwitchres(msg) PROVE Read
    BY <1>2, <1>7, <1>8, <1>10, <1>11, <1>16 DEF CoreSwitchres, Reply, Control
  <1>17. ASSUME CoreBlit(msg) PROVE Read
    BY <1>2, <1>7, <1>8, <1>10, <1>11, <1>13, <1>17 DEF CoreBlit, Reply, Control
  <1>18. ASSUME CoreIgnores(msg) PROVE Read
    BY <1>2, <1>7, <1>8, <1>10, <1>11, <1>18 DEF CoreIgnores, Control
  <1>19. Read
    BY <1>6, <1>14, <1>15, <1>16, <1>17, <1>18
  <1> QED
    BY <1>1, <1>3, <1>19 DEF msg

\* A session that begins, the first or the next.
LEMMA SessionBegins ==
  ASSUME SessionInv, StartInit \/ Reconnect
  PROVE  /\ toCore' \in Seq(Command) /\ toHost' = <<>>
         /\ ~connected' /\ clientFrame' = 0 /\ frameEcho' = 0
         /\ coreClient' \in {"none", "old"}
         /\ coreClient = "none" => coreClient' = "none"
         /\ Ordered(toCore') /\ InitIsLast(toCore') /\ PackedInSize(toCore')
         /\ NotAhead(toCore', 0)
         /\ ~initialized => StartInit /\ AllControl(toCore')
         /\ \A held : Fits(toCore, held) => Fits(toCore', held)
  <1>1. /\ toCore \in Seq(Command) /\ coreClient \in {"none", "old", "cur"}
        /\ Ordered(toCore) /\ PackedInSize(toCore)
        /\ ~initialized => AllControl(toCore)
    BY DEF SessionInv, TypeOK, QueueInv
  <1>2. CASE StartInit
    <2>1. CmdInit(toCore) \/ CmdInitSocketError(toCore)
      BY <1>2 DEF StartInit
    <2> QED
      BY <1>1, <1>2, <2>1, SocketOpened
  <1>3. CASE Reconnect
    <2> DEFINE sent == IF connected THEN Append(toCore, CloseMsg) ELSE toCore
    <2>1. /\ sent \in Seq(Command) /\ Ordered(sent) /\ PackedInSize(sent)
          /\ \A held : Fits(toCore, held) => Fits(sent, held)
      BY <1>1, AppendControl
    <2>2. CmdInit(sent) \/ CmdInitSocketError(sent)
      BY <1>3 DEF Reconnect
    <2>3. initialized
      BY <1>3 DEF Reconnect, SessionInv, PlacesInv
    <2> HIDE DEF sent
    <2> QED
      BY <1>1, <2>1, <2>2, <2>3, SocketOpened
  <1> QED
    BY <1>2, <1>3

\* The types the steps below need.
LEMMA FlagsAre ==
  ASSUME SessionInv
  PROVE  /\ initialized \in BOOLEAN /\ firstBlit \in BOOLEAN /\ connected \in BOOLEAN
         /\ torndown \in BOOLEAN /\ cooling \in BOOLEAN
  BY DEF SessionInv, TypeOK

\* The sorts of the frame numbers and counts.
LEMMA NumbersAre ==
  ASSUME SessionInv
  PROVE  /\ frame \in Nat /\ clientFrame \in Nat /\ frameEcho \in Nat /\ lastSeen \in Nat
         /\ misses \in Nat /\ MissLimit \in Nat \ {0}
         /\ epoch \in 0 .. 1 /\ lastEpoch \in 0 .. 1
         /\ revision \in Nat \ {0} /\ modeRevision \in Nat /\ MaxRevision \in Nat
         /\ want.revision \in Nat /\ want.mode \in Modes \cup {NoMode} /\ selected \in Modes
  BY LimitsAssumption DEF SessionInv, TypeOK, FrameNumber

\* The renderer is never behind, and ahead when it makes a blit.
LEMMA NumbersAhead ==
  ASSUME SessionInv, NextFrame
  PROVE  /\ frame' \in Nat /\ clientFrame' \in Nat /\ clientFrame' < frame'
         /\ frameEcho' \in Nat /\ lastSeen' \in Nat
         /\ clientFrame = 0 => clientFrame' = 0
         /\ frameEcho = 0 => frameEcho' = 0
  <1>1. \A f \in FrameNumber : f \in Nat
    BY LimitsAssumption DEF FrameNumber
  <1> QED
    BY <1>1, NumberTaken


\* The sorts of the queues and of what the core holds.
LEMMA WireIsTyped ==
  ASSUME SessionInv
  PROVE  /\ toCore \in Seq(Command) /\ toHost \in Seq(FrameNumber)
         /\ coreUp \in BOOLEAN /\ coreClient \in {"none", "old", "cur"}
         /\ coreMode \in Modes \cup {NoMode} /\ coreEcho \in FrameNumber
         /\ coreEcho \in Nat /\ \A i \in 1 .. Len(toHost) : toHost[i] \in Nat
  <1>1. /\ toCore \in Seq(Command) /\ toHost \in Seq(FrameNumber)
        /\ coreUp \in BOOLEAN /\ coreClient \in {"none", "old", "cur"}
        /\ coreMode \in Modes \cup {NoMode} /\ coreEcho \in FrameNumber
    BY DEF SessionInv, TypeOK
  <1>2. \A f \in FrameNumber : f \in Nat
    BY LimitsAssumption DEF FrameNumber
  <1>3. \A i \in 1 .. Len(toHost) : toHost[i] \in FrameNumber
    BY <1>1
  <1> QED
    BY <1>1, <1>2, <1>3

\* A CMD_SWITCHRES goes out in a session that has been answered; the core that reads it
\* holds its modeline.
LEMMA SwitchresSent ==
  ASSUME SessionInv, NEW m \in Modes, toCore' = Append(toCore, SwitchresMsg(m)),
         connected \/ toHost # <<>>
  PROVE  /\ toCore' \in Seq(Command)
         /\ NoControl(toCore') /\ Ordered(toCore') /\ InitIsLast(toCore')
         /\ PackedInSize(toCore') /\ NotAhead(toCore', clientFrame)
         /\ AllCurrent(toCore) => AllCurrent(toCore')
         /\ \A held : Fits(toCore, held) => Fits(toCore', held)
         /\ \A held : HoldsAt(toCore', held, Len(toCore') + 1, m)
  <1>1. toCore \in Seq(Command) /\ SwitchresMsg(m) \in Command
    BY WireIsTyped, Sent
  <1>2. /\ SwitchresMsg(m).kind \notin Control /\ SwitchresMsg(m).cur
        /\ SwitchresMsg(m).kind # "blit"
    BY DEF SwitchresMsg, Control
  <1>3. NoControl(toCore) /\ PackedInSize(toCore) /\ NotAhead(toCore, clientFrame)
    BY DEF SessionInv, QueueInv
  <1>4. Len(toCore) \in Nat /\ Len(toCore') = Len(toCore) + 1
    BY <1>1, AppendQueue
  <1>5. Len(toCore') + 1 = Len(toCore) + 2
    BY <1>4
  <1>6. \A held : HoldsAt(toCore', held, Len(toCore') + 1, m)
    BY <1>1, <1>5, AppendSwitchres
  <1> QED
    BY <1>1, <1>2, <1>3, <1>6, AppendSession

\* A blit goes out in a session that is up, behind whatever sets its modeline.
LEMMA BlitSent ==
  ASSUME SessionInv, SendBlit, pc = "blit", UNCHANGED <<coreMode, sizeMode>>
  PROVE  /\ toCore' \in Seq(Command)
         /\ Ordered(toCore') /\ InitIsLast(toCore') /\ PackedInSize(toCore')
         /\ NotAhead(toCore', clientFrame')
         /\ connected => NoControl(toCore')
         /\ ~connected => toCore' = toCore
         /\ AllCurrent(toCore) => AllCurrent(toCore')
         /\ FitInv /\ ~switchresLost => Fits(toCore', coreMode)
         /\ FitInv /\ connected /\ ~switchresLost =>
              HoldsAt(toCore', coreMode, Len(toCore') + 1, sizeMode)
  <1>1. /\ toCore \in Seq(Command) /\ frame \in FrameNumber /\ clientFrame' = frame
        /\ clientFrame \in Nat /\ frame \in Nat /\ clientFrame < frame
        /\ torndown <=> ~connected
    BY NumbersAre, FlagsAre DEF SessionInv, TypeOK, NumbersInv, PlacesInv, SendBlit
  <1>2. sizeMode = current /\ current \in Modes
    BY ModesAssumption DEF SessionInv, ModesInv, Streaming
  <1>3. /\ Ordered(toCore) /\ InitIsLast(toCore) /\ PackedInSize(toCore)
        /\ NotAhead(toCore, clientFrame) /\ (connected => NoControl(toCore))
    BY DEF SessionInv, QueueInv
  <1>4. \A i \in 1 .. Len(toCore) : toCore[i] \in Command
    BY <1>1
  <1>5. \A i \in 1 .. Len(toCore) : toCore[i].kind = "blit" =>
                toCore[i].frame \in FrameNumber
    BY <1>4, CommandFields
  <1>6. \A i \in 1 .. Len(toCore) : toCore[i].kind = "blit" => toCore[i].frame \in Nat
    BY <1>5, LimitsAssumption DEF FrameNumber
  <1>7. NotAhead(toCore, frame)
    BY <1>1, <1>3, <1>6 DEF NotAhead
  <1>8. CASE ~connected
    <2>1. toCore' = toCore
      BY <1>1, <1>8 DEF SendBlit
    <2> QED
      BY <1>1, <1>3, <1>7, <1>8, <2>1 DEF FitInv
  <1>9. CASE connected
    <2> DEFINE msg == BlitMsg(frame, current, sizeMode)
    <2>1. toCore' = Append(toCore, msg)
      BY <1>1, <1>9 DEF SendBlit
    <2>2. msg \in Command
      BY <1>1, <1>2, Sent
    <2>3. /\ msg.kind = "blit" /\ msg.kind \notin Control /\ msg.cur
          /\ msg.size = msg.packed /\ msg.packed = sizeMode /\ msg.frame = frame
      BY <1>2 DEF BlitMsg, Control
    <2> HIDE DEF msg
    <2>4. Len(toCore) \in Nat /\ Len(toCore') = Len(toCore) + 1
      BY <1>1, <2>1, <2>2, AppendQueue
    <2>5. msg.frame <= frame
      BY <1>1, <2>3
    <2>6. /\ toCore' \in Seq(Command)
          /\ NoControl(toCore') /\ Ordered(toCore') /\ InitIsLast(toCore')
          /\ PackedInSize(toCore')
          /\ NotAhead(toCore', frame)
          /\ AllCurrent(toCore) => AllCurrent(toCore')
          /\ \A held : /\ Fits(toCore, held)
                       /\ msg.kind = "blit" =>
                            HoldsAt(toCore, held, Len(toCore) + 1, msg.packed)
                       => Fits(toCore', held)
      BY <1>1, <1>3, <1>7, <1>9, <2>1, <2>2, <2>3, <2>5, AppendSession
    <2>7. Len(toCore') + 1 = Len(toCore) + 2
      BY <2>4
    <2>8. ASSUME FitInv, ~switchresLost
          PROVE  /\ Fits(toCore', coreMode)
                 /\ HoldsAt(toCore', coreMode, Len(toCore') + 1, sizeMode)
      <3>1. Fits(toCore, coreMode) /\ HoldsAt(toCore, coreMode, Len(toCore) + 1, sizeMode)
        BY <1>9, <2>8 DEF FitInv
      <3>2. HoldsAt(toCore', coreMode, Len(toCore') + 1, sizeMode)
        BY <1>1, <2>1, <2>2, <2>3, <2>7, <3>1, AppendBlit
      <3> QED
        BY <2>3, <2>6, <3>1, <3>2
    <2> QED
      BY <1>1, <1>9, <2>6, <2>8
  <1> QED
    BY <1>1, <1>8, <1>9

\* A datagram that is gone leaves the rest as it was.
LEMMA CommandGone ==
  ASSUME SessionInv, CommandVanishes \/ LoseCommand \/ CoreReceives
  PROVE  /\ toCore' \in Seq(Command)
         /\ Ordered(toCore') /\ InitIsLast(toCore') /\ PackedInSize(toCore')
         /\ NotAhead(toCore', clientFrame)
         /\ NoControl(toCore) => NoControl(toCore')
         /\ AllControl(toCore) => AllControl(toCore')
         /\ AllCurrent(toCore) => AllCurrent(toCore')
  <1>1. /\ toCore \in Seq(Command) /\ Ordered(toCore) /\ InitIsLast(toCore)
        /\ PackedInSize(toCore) /\ NotAhead(toCore, clientFrame)
    BY WireIsTyped DEF SessionInv, QueueInv
  <1>2. \E k : toCore' \in Seq(Command) /\ Drops(toCore, toCore', k)
    <2>1. CASE CommandVanishes \/ CoreReceives
      <3>1. toCore # <<>> /\ toCore' = Tail(toCore)
        BY <2>1 DEF CommandVanishes, CoreReceives
      <3> QED
        BY <1>1, <3>1, TailDrops
    <2>2. CASE LoseCommand
      <3>1. PICK k \in DOMAIN toCore : toCore' = RemoveAt(toCore, k)
        BY <2>2 DEF LoseCommand
      <3> QED
        BY <1>1, <3>1, RemoveDrops
    <2> QED
      BY <2>1, <2>2
  <1> QED
    BY <1>1, <1>2, DropKeeps

\* Aged, a queue says the same.
LEMMA QueueAged ==
  ASSUME SessionInv, NextFrame
  PROVE  /\ toCore' \in Seq(Command)
         /\ Ordered(toCore') /\ InitIsLast(toCore') /\ PackedInSize(toCore')
         /\ NotAhead(toCore', clientFrame')
         /\ NoControl(toCore) => NoControl(toCore')
         /\ AllControl(toCore) => AllControl(toCore')
         /\ AllCurrent(toCore) => AllCurrent(toCore')
         /\ toHost' = <<>> <=> toHost = <<>>
         /\ \A held : Fits(toCore, held) => Fits(toCore', held)
         /\ \A held, m : HoldsAt(toCore, held, Len(toCore) + 1, m) =>
              HoldsAt(toCore', held, Len(toCore') + 1, m)
  <1>1. /\ toCore \in Seq(Command) /\ Ordered(toCore) /\ InitIsLast(toCore)
        /\ PackedInSize(toCore)
    BY WireIsTyped DEF SessionInv, QueueInv
  <1>2. /\ toCore' \in Seq(Command) /\ Relabels(toCore, toCore')
        /\ \A i \in 1 .. Len(toCore) : toCore'[i].cur = toCore[i].cur
        /\ NotAhead(toCore', clientFrame') /\ (toHost' = <<>> <=> toHost = <<>>)
    BY NumberTaken
  <1>3. /\ Len(toCore') = Len(toCore) /\ Len(toCore) \in Nat
        /\ \A i \in 1 .. Len(toCore) : toCore'[i].kind = toCore[i].kind
    BY <1>1, <1>2 DEF Relabels
  <1>4. InitIsLast(toCore') /\ (AllCurrent(toCore) => AllCurrent(toCore'))
    BY <1>1, <1>2, <1>3 DEF InitIsLast, AllCurrent
  <1>5. \A held, m : HoldsAt(toCore, held, Len(toCore) + 1, m) =>
          HoldsAt(toCore', held, Len(toCore') + 1, m)
    <2>1. Len(toCore) + 1 \in 1 .. Len(toCore) + 1
      BY <1>3
    <2> QED
      BY <1>1, <1>2, <1>3, <2>1, RelabelKeeps
  <1>6. /\ Ordered(toCore') /\ PackedInSize(toCore')
        /\ NoControl(toCore) => NoControl(toCore')
        /\ AllControl(toCore) => AllControl(toCore')
        /\ \A held : Fits(toCore, held) => Fits(toCore', held)
    BY <1>1, <1>2, RelabelKeeps
  <1> QED
    BY <1>2, <1>4, <1>5, <1>6

\* A core that forgets its modeline is given no wrong picture.
LEMMA BlankFits ==
  ASSUME NEW queue, NEW held
  PROVE  /\ \A i, m : HoldsAt(queue, held, i, m) => HoldsAt(queue, NoMode, i, m)
         /\ Fits(queue, held) => Fits(queue, NoMode)
  <1>1. \A i, m : HoldsAt(queue, held, i, m) => HoldsAt(queue, NoMode, i, m)
    BY DEF HoldsAt
  <1> QED
    BY <1>1 DEF Fits

\* What is lost behind a blit changes nothing for it.
LEMMA DropAfterHolds ==
  ASSUME NEW queue \in Seq(Command), NEW rest \in Seq(Command), NEW k, Drops(queue, rest, k),
         NEW i \in 1 .. k, NEW held, NEW m, HoldsAt(queue, held, i, m)
  PROVE  HoldsAt(rest, held, i, m)
  <1>1. Len(queue) \in Nat /\ k \in 1 .. Len(queue) /\ Len(rest) = Len(queue) - 1
    BY DEF Drops
  <1>2. \A j \in 1 .. i - 1 : rest[j] = queue[j]
    BY <1>1 DEF Drops
  <1>3. \A j \in 1 .. i - 1 : \A l \in j + 1 .. i - 1 : l \in 1 .. i - 1
    BY <1>1
  <1> QED
    BY <1>2, <1>3 DEF HoldsAt

\* What the core holds next, when it has read or missed the first datagram.
LEMMA HeadGone ==
  ASSUME NEW queue \in Seq(Command), NEW rest \in Seq(Command), Drops(queue, rest, 1),
         NEW held, NEW now,
         \/ now = NoMode
         \/ queue[1].kind = "switchres" /\ now = queue[1].mode
         \/ queue[1].kind = "blit" /\ now = held
  PROVE  /\ \A m : HoldsAt(queue, held, Len(queue) + 1, m) =>
               HoldsAt(rest, now, Len(rest) + 1, m)
         /\ Fits(queue, held) => Fits(rest, now)
  <1>1. /\ Len(queue) \in Nat /\ Len(rest) \in Nat /\ Len(rest) = Len(queue) - 1
        /\ \A j \in 1 .. Len(rest) : rest[j] = queue[j + 1]
    BY DEF Drops
  <1>2. ASSUME NEW i \in 1 .. Len(rest) + 1, NEW m, HoldsAt(queue, held, i + 1, m)
        PROVE  HoldsAt(rest, now, i, m)
    <2>1. CASE now = NoMode \/ (queue[1].kind = "switchres" /\ now = queue[1].mode)
      BY <1>2, <2>1, HeadHolds
    <2>2. CASE queue[1].kind = "blit" /\ now = held
      <3>1. (IF i < 1 THEN i ELSE i + 1) = i + 1
        BY <1>1
      <3> QED
        BY <1>2, <2>2, <3>1, DropBlitHolds
    <2> QED
      BY <2>1, <2>2
  <1>3. ASSUME NEW m, HoldsAt(queue, held, Len(queue) + 1, m)
        PROVE  HoldsAt(rest, now, Len(rest) + 1, m)
    <2>1. Len(rest) + 1 \in 1 .. Len(rest) + 1 /\ (Len(rest) + 1) + 1 = Len(queue) + 1
      BY <1>1
    <2> QED
      BY <1>2, <1>3, <2>1
  <1>4. ASSUME Fits(queue, held) PROVE Fits(rest, now)
    <2>1. ASSUME NEW i \in 1 .. Len(rest), rest[i].kind = "blit"
          PROVE  HoldsAt(rest, now, i, rest[i].packed)
      <3>1. i \in 1 .. Len(rest) + 1 /\ i + 1 \in 1 .. Len(queue) /\ rest[i] = queue[i + 1]
        BY <1>1
      <3>2. HoldsAt(queue, held, i + 1, rest[i].packed)
        BY <1>4, <2>1, <3>1 DEF Fits
      <3> QED
        BY <1>2, <3>1, <3>2
    <2> QED
      BY <2>1 DEF Fits
  <1> QED
    BY <1>3, <1>4

\* A datagram that is lost anywhere, no CMD_SWITCHRES, lets no wrong picture through.
LEMMA LossFits ==
  ASSUME NEW queue \in Seq(Command), NEW rest \in Seq(Command), NEW k, Drops(queue, rest, k),
         queue[k].kind # "switchres", Ordered(queue), NEW held
  PROVE  /\ NoControl(queue) => \A m : HoldsAt(queue, held, Len(queue) + 1, m) =>
              HoldsAt(rest, held, Len(rest) + 1, m)
         /\ Fits(queue, held) => Fits(rest, held)
  <1>1. /\ Len(queue) \in Nat /\ Len(rest) \in Nat /\ Len(rest) = Len(queue) - 1
        /\ k \in 1 .. Len(queue)
        /\ \A j \in 1 .. Len(rest) : rest[j] = queue[IF j < k THEN j ELSE j + 1]
    BY DEF Drops
  <1>2. queue[k].kind \in Control \/ queue[k].kind = "blit"
    <2>1. queue[k] \in Command
      BY <1>1
    <2> QED
      BY <2>1, CommandFields DEF Control
  <1>3. ASSUME NoControl(queue), NEW m, HoldsAt(queue, held, Len(queue) + 1, m)
        PROVE  HoldsAt(rest, held, Len(rest) + 1, m)
    <2>1. queue[k].kind = "blit"
      BY <1>1, <1>2, <1>3 DEF NoControl
    <2>2. /\ Len(rest) + 1 \in 1 .. Len(rest) + 1
          /\ (IF Len(rest) + 1 < k THEN Len(rest) + 1 ELSE (Len(rest) + 1) + 1) = Len(queue) + 1
      BY <1>1
    <2> QED
      BY <1>3, <2>1, <2>2, DropBlitHolds
  <1>4. ASSUME Fits(queue, held), NEW i \in 1 .. Len(rest), rest[i].kind = "blit"
        PROVE  HoldsAt(rest, held, i, rest[i].packed)
    <2> DEFINE at == IF i < k THEN i ELSE i + 1
    <2>1. at \in 1 .. Len(queue) /\ rest[i] = queue[at] /\ i \in 1 .. Len(rest) + 1
      BY <1>1
    <2>2. HoldsAt(queue, held, at, rest[i].packed)
      BY <1>4, <2>1 DEF Fits
    <2>3. CASE queue[k].kind = "blit"
      BY <2>1, <2>2, <2>3, DropBlitHolds
    <2>4. CASE queue[k].kind \in Control
      <3>1. ~(k < at)
        BY <1>1, <1>4, <2>1, <2>4 DEF Ordered, Control
      <3>2. at = i /\ i \in 1 .. k
        BY <1>1, <2>1, <3>1
      <3> QED
        BY <2>2, <3>2, DropAfterHolds
    <2> QED
      BY <1>2, <2>3, <2>4
  <1> QED
    BY <1>3, <1>4 DEF Fits


\* Zero is a frame number.
LEMMA ZeroFrame == 0 \in FrameNumber
  BY LimitsAssumption DEF FrameNumber

\* The watchdog is at most one miss past its limit, and only while it reconnects.
LEMMA WatchdogBound ==
  ASSUME SessionInv
  PROVE  misses \in Nat /\ (pc # "reinit" => misses <= MissLimit)
  BY NumbersAre DEF SessionInv, WatchdogInv

\* The modeline a switch or a replay asks for is one.
LEMMA ModesKept ==
  ASSUME SessionInv
  PROVE  /\ pc = "switch" => want.mode \in Modes /\ connected
         /\ pc = "replay" => stash \in Modes /\ connected
         /\ pc = "reinit" => stash \in Modes
  BY DEF SessionInv, ModesInv, PlacesInv, Streaming

-----------------------------------------------------------------------------
(* Every step keeps each part of the invariant.                            *)

\* The flags stay flags.
LEMMA FlagTypesStep ==
  ASSUME SessionInv, [Next]_vars PROVE FlagTypes'
  <1>1. CASE
         \/ SyncPoll \/ CoreReceives \/ CoreStarts \/ LoseACK \/ CoreStops
         \/ \E m \in Modes : SetModeline(m)
         \/ UNCHANGED vars
    <2>1. UNCHANGED <<pc, initialized, firstBlit, connected, torndown, cooling,
                    switchresLost, deadSend>>
      BY <1>1
         DEF SetModeline, SyncPoll, CoreReceives, CoreStarts, LoseACK, CoreStops, uiVars,
             modeVars, rendererVars, watchdogVars, clientVars, netVars, coreVars,
             historyVars, vars
    <2> QED
      BY <2>1 DEF SessionInv, TypeOK, FlagTypes
  <1>2. CASE StopStream
    BY <1>2
       DEF StopStream, historyVars, coreVars, rendererVars, modeVars, uiVars, SessionInv,
           TypeOK, FlagTypes
  <1>3. CASE StartInit
    BY <1>3
       DEF StartInit, historyVars, watchdogVars, rendererVars, modeVars, uiVars,
           CmdInitSocketError, CmdInit, SessionInv, TypeOK, FlagTypes
  <1>4. CASE InitAcked
    BY <1>4
       DEF InitAcked, historyVars, coreVars, modeVars, uiVars, SessionInv, TypeOK,
           FlagTypes
  <1>5. CASE InitFailed
    BY <1>5
       DEF InitFailed, historyVars, coreVars, watchdogVars, rendererVars, modeVars,
           uiVars, SessionInv, TypeOK, FlagTypes
  <1>6. CASE NextDraw
    BY <1>6
       DEF NextDraw, historyVars, coreVars, netVars, clientVars, watchdogVars,
           rendererVars, modeVars, uiVars, SessionInv, TypeOK, FlagTypes
  <1>7. CASE ModeInForce
    BY <1>7
       DEF ModeInForce, historyVars, coreVars, netVars, clientVars, watchdogVars,
           rendererVars, modeVars, uiVars, SessionInv, TypeOK, FlagTypes
  <1>8. CASE SwitchRejected
    BY <1>8
       DEF SwitchRejected, historyVars, coreVars, netVars, clientVars, watchdogVars,
           rendererVars, modeVars, uiVars, SessionInv, TypeOK, FlagTypes
  <1>9. CASE StartSwitch
    BY <1>9
       DEF StartSwitch, historyVars, coreVars, watchdogVars, uiVars, SessionInv, TypeOK,
           FlagTypes
  <1>10. CASE SwitchAcked
    BY <1>10
       DEF SwitchAcked, historyVars, coreVars, watchdogVars, uiVars, SessionInv, TypeOK,
           FlagTypes
  <1>11. CASE SwitchTimeout
    BY <1>11
       DEF SwitchTimeout, historyVars, coreVars, watchdogVars, rendererVars, modeVars,
           uiVars, SessionInv, TypeOK, FlagTypes
  <1>12. CASE PackFails
    BY <1>12 DEF PackFails, historyVars, modeVars, uiVars, SessionInv, TypeOK, FlagTypes
  <1>13. CASE SkipFirstBlit
    BY <1>13
       DEF SkipFirstBlit, historyVars, coreVars, netVars, clientVars, watchdogVars,
           modeVars, uiVars, SessionInv, TypeOK, FlagTypes
  <1>14. CASE PackFrame
    BY <1>14 DEF PackFrame, historyVars, modeVars, uiVars, SessionInv, TypeOK, FlagTypes
  <1>15. CASE BlitNoMiss
    BY <1>15
       DEF BlitNoMiss, coreVars, rendererVars, modeVars, uiVars, SendBlit, EchoAdvanced,
           EchoMissed, Armed, SessionInv, TypeOK, FlagTypes
  <1>16. CASE BlitMissed
    BY <1>16
       DEF BlitMissed, coreVars, rendererVars, modeVars, uiVars, SendBlit, EchoMissed,
           Armed, SessionInv, TypeOK, FlagTypes
  <1>17. CASE BlitBackOff
    BY <1>17
       DEF BlitBackOff, historyVars, coreVars, netVars, rendererVars, modeVars, uiVars,
           EchoMissed, Armed, SessionInv, TypeOK, FlagTypes
  <1>18. CASE Reconnect
    BY <1>18
       DEF Reconnect, historyVars, rendererVars, modeVars, uiVars, CmdInitSocketError,
           CmdInit, EchoMissed, Armed, SessionInv, TypeOK, FlagTypes
  <1>19. CASE ReconnectAcked
    BY <1>19
       DEF ReconnectAcked, historyVars, coreVars, rendererVars, modeVars, uiVars,
           SessionInv, TypeOK, FlagTypes
  <1>20. CASE ReconnectFailed
    BY <1>20
       DEF ReconnectFailed, historyVars, coreVars, rendererVars, modeVars, uiVars,
           SessionInv, TypeOK, FlagTypes
  <1>21. CASE ReplayAcked
    BY <1>21
       DEF ReplayAcked, historyVars, coreVars, rendererVars, modeVars, uiVars, SessionInv,
           TypeOK, FlagTypes
  <1>22. CASE ReplayTimeout
    BY <1>22
       DEF ReplayTimeout, historyVars, coreVars, rendererVars, modeVars, uiVars,
           SessionInv, TypeOK, FlagTypes
  <1>23. CASE SyncDone
    BY <1>23
       DEF SyncDone, historyVars, coreVars, netVars, clientVars, watchdogVars,
           rendererVars, modeVars, uiVars, SessionInv, TypeOK, FlagTypes
  <1>24. CASE CoolDown
    BY <1>24
       DEF CoolDown, historyVars, coreVars, netVars, rendererVars, modeVars, uiVars,
           SessionInv, TypeOK, FlagTypes
  <1>25. CASE CommandVanishes
    BY <1>25
       DEF CommandVanishes, coreVars, clientVars, watchdogVars, rendererVars, modeVars,
           uiVars, NoteLost, SessionInv, TypeOK, FlagTypes
  <1>26. CASE LoseCommand
    BY <1>26
       DEF LoseCommand, coreVars, clientVars, watchdogVars, rendererVars, modeVars,
           uiVars, NoteLost, SessionInv, TypeOK, FlagTypes
  <1> QED
    BY <1>1, <1>2, <1>3, <1>4, <1>5, <1>6, <1>7, <1>8, <1>9, <1>10, <1>11, <1>12, <1>13,
       <1>14, <1>15, <1>16, <1>17, <1>18, <1>19, <1>20, <1>21, <1>22, <1>23, <1>24, <1>25,
       <1>26
       DEF Next, Worker

\* The modelines stay modelines, and the revisions in their bounds.
LEMMA ModeTypesStep ==
  ASSUME SessionInv, [Next]_vars PROVE ModeTypes'
  <1>1. CASE
         \/ StartInit \/ InitAcked \/ InitFailed \/ NextDraw \/ ModeInForce
         \/ SwitchRejected \/ SwitchTimeout \/ PackFails \/ SkipFirstBlit \/ PackFrame
         \/ BlitNoMiss \/ BlitMissed \/ BlitBackOff \/ Reconnect \/ ReconnectFailed
         \/ ReplayAcked \/ ReplayTimeout \/ SyncPoll \/ SyncDone \/ CoolDown
         \/ CoreReceives \/ CommandVanishes \/ CoreStarts \/ LoseCommand \/ LoseACK
         \/ CoreStops
         \/ UNCHANGED vars
    <2>1. UNCHANGED <<selected, revision, current, modeRevision, want, stash, sizeMode>>
      BY <1>1
         DEF StartInit, InitAcked, InitFailed, NextDraw, ModeInForce, SwitchRejected,
             SwitchTimeout, PackFails, SkipFirstBlit, PackFrame, BlitNoMiss, BlitMissed,
             BlitBackOff, Reconnect, ReconnectFailed, ReplayAcked, ReplayTimeout,
             SyncPoll, SyncDone, CoolDown, CoreReceives, CommandVanishes, CoreStarts,
             LoseCommand, LoseACK, CoreStops, uiVars, modeVars, rendererVars,
             watchdogVars, clientVars, netVars, coreVars, historyVars, vars
    <2> QED
      BY <2>1 DEF SessionInv, TypeOK, ModeTypes
  <1>2. CASE \E m \in Modes : SetModeline(m)
    BY <1>2, LimitsAssumption
       DEF SetModeline, historyVars, coreVars, netVars, clientVars, watchdogVars,
           rendererVars, modeVars, SessionInv, TypeOK, ModeTypes
  <1>3. CASE StopStream
    BY <1>3, LimitsAssumption
       DEF StopStream, historyVars, coreVars, rendererVars, modeVars, uiVars, SessionInv,
           TypeOK, ModeTypes
  <1>4. CASE StartSwitch
    BY <1>4, LimitsAssumption
       DEF StartSwitch, historyVars, coreVars, watchdogVars, uiVars, SessionInv, TypeOK,
           ModeTypes
  <1>5. CASE SwitchAcked
    BY <1>5, LimitsAssumption
       DEF SwitchAcked, historyVars, coreVars, watchdogVars, uiVars, SessionInv, TypeOK,
           ModeTypes
  <1>6. CASE ReconnectAcked
    BY <1>6, LimitsAssumption
       DEF ReconnectAcked, historyVars, coreVars, rendererVars, modeVars, uiVars,
           SessionInv, TypeOK, ModeTypes
  <1> QED
    BY <1>1, <1>2, <1>3, <1>4, <1>5, <1>6 DEF Next, Worker

\* The counts stay in their bounds.
LEMMA CountTypesStep ==
  ASSUME SessionInv, [Next]_vars PROVE CountTypes'
  <1>1. CASE
         \/ NextDraw \/ ModeInForce \/ SwitchRejected \/ SwitchAcked \/ SyncPoll
         \/ CoolDown \/ CoreReceives \/ CommandVanishes \/ CoreStarts
         \/ \E m \in Modes : SetModeline(m)
         \/ UNCHANGED vars
    <2>1. UNCHANGED <<lastEpoch, misses, epoch, attempt, faults>>
      BY <1>1
         DEF SetModeline, NextDraw, ModeInForce, SwitchRejected, SwitchAcked, SyncPoll,
             CoolDown, CoreReceives, CommandVanishes, CoreStarts, uiVars, modeVars,
             rendererVars, watchdogVars, clientVars, netVars, coreVars, historyVars, vars
    <2> QED
      BY <2>1 DEF SessionInv, TypeOK, CountTypes
  <1>2. CASE StopStream
    BY <1>2, WatchdogBound, LimitsAssumption
       DEF StopStream, historyVars, coreVars, rendererVars, modeVars, uiVars, SessionInv,
           TypeOK, CountTypes
  <1>3. CASE StartInit
    BY <1>3, WatchdogBound, LimitsAssumption
       DEF StartInit, historyVars, watchdogVars, rendererVars, modeVars, uiVars,
           CmdInitSocketError, Disturb, CmdInit, SessionInv, TypeOK, CountTypes
  <1>4. CASE InitAcked
    BY <1>4, WatchdogBound, LimitsAssumption
       DEF InitAcked, historyVars, coreVars, modeVars, uiVars, SessionInv, TypeOK,
           CountTypes
  <1>5. CASE InitFailed
    BY <1>5, WatchdogBound, LimitsAssumption
       DEF InitFailed, historyVars, coreVars, watchdogVars, rendererVars, modeVars,
           uiVars, TimesOut, Disturb, SessionInv, TypeOK, CountTypes
  <1>6. CASE StartSwitch
    BY <1>6, WatchdogBound, LimitsAssumption
       DEF StartSwitch, historyVars, coreVars, watchdogVars, uiVars, SessionInv, TypeOK,
           CountTypes
  <1>7. CASE SwitchTimeout
    BY <1>7, WatchdogBound, LimitsAssumption
       DEF SwitchTimeout, historyVars, coreVars, watchdogVars, rendererVars, modeVars,
           uiVars, TimesOut, Disturb, SessionInv, TypeOK, CountTypes
  <1>8. CASE PackFails
    BY <1>8, WatchdogBound, LimitsAssumption
       DEF PackFails, historyVars, modeVars, uiVars, SessionInv, TypeOK, CountTypes
  <1>9. CASE SkipFirstBlit
    BY <1>9, WatchdogBound, LimitsAssumption
       DEF SkipFirstBlit, historyVars, coreVars, netVars, clientVars, watchdogVars,
           modeVars, uiVars, SessionInv, TypeOK, CountTypes
  <1>10. CASE PackFrame
    BY <1>10, WatchdogBound, LimitsAssumption
       DEF PackFrame, historyVars, modeVars, uiVars, SessionInv, TypeOK, CountTypes
  <1>11. CASE BlitNoMiss
    BY <1>11, WatchdogBound, LimitsAssumption
       DEF BlitNoMiss, coreVars, rendererVars, modeVars, uiVars, EchoAdvanced, EchoMissed,
           Armed, SessionInv, TypeOK, CountTypes
  <1>12. CASE BlitMissed
    BY <1>12, WatchdogBound, LimitsAssumption
       DEF BlitMissed, coreVars, rendererVars, modeVars, uiVars, EchoMissed, Armed,
           SessionInv, TypeOK, CountTypes
  <1>13. CASE BlitBackOff
    BY <1>13, WatchdogBound, LimitsAssumption
       DEF BlitBackOff, historyVars, coreVars, netVars, rendererVars, modeVars, uiVars,
           EchoMissed, Armed, SessionInv, TypeOK, CountTypes
  <1>14. CASE Reconnect
    BY <1>14, WatchdogBound, LimitsAssumption
       DEF Reconnect, historyVars, rendererVars, modeVars, uiVars, CmdInitSocketError,
           Disturb, CmdInit, EchoMissed, Armed, SessionInv, TypeOK, CountTypes
  <1>15. CASE ReconnectAcked
    BY <1>15, WatchdogBound, LimitsAssumption
       DEF ReconnectAcked, historyVars, coreVars, rendererVars, modeVars, uiVars,
           SessionInv, TypeOK, CountTypes
  <1>16. CASE ReconnectFailed
    BY <1>16, WatchdogBound, LimitsAssumption
       DEF ReconnectFailed, historyVars, coreVars, rendererVars, modeVars, uiVars,
           TimesOut, Disturb, SessionInv, TypeOK, CountTypes
  <1>17. CASE ReplayAcked
    BY <1>17, WatchdogBound, LimitsAssumption
       DEF ReplayAcked, historyVars, coreVars, rendererVars, modeVars, uiVars, SessionInv,
           TypeOK, CountTypes
  <1>18. CASE ReplayTimeout
    BY <1>18, WatchdogBound, LimitsAssumption
       DEF ReplayTimeout, historyVars, coreVars, rendererVars, modeVars, uiVars, TimesOut,
           Disturb, SessionInv, TypeOK, CountTypes
  <1>19. CASE SyncDone
    BY <1>19, WatchdogBound, LimitsAssumption
       DEF SyncDone, historyVars, coreVars, netVars, clientVars, watchdogVars,
           rendererVars, modeVars, uiVars, Disturb, SessionInv, TypeOK, CountTypes
  <1>20. CASE LoseCommand
    BY <1>20, WatchdogBound, LimitsAssumption
       DEF LoseCommand, coreVars, clientVars, watchdogVars, rendererVars, modeVars,
           uiVars, NoteLost, Disturb, SessionInv, TypeOK, CountTypes
  <1>21. CASE LoseACK
    BY <1>21, WatchdogBound, LimitsAssumption
       DEF LoseACK, historyVars, coreVars, clientVars, watchdogVars, rendererVars,
           modeVars, uiVars, Disturb, SessionInv, TypeOK, CountTypes
  <1>22. CASE CoreStops
    BY <1>22, WatchdogBound, LimitsAssumption
       DEF CoreStops, historyVars, netVars, clientVars, watchdogVars, rendererVars,
           modeVars, uiVars, Disturb, SessionInv, TypeOK, CountTypes
  <1> QED
    BY <1>1, <1>2, <1>3, <1>4, <1>5, <1>6, <1>7, <1>8, <1>9, <1>10, <1>11, <1>12, <1>13,
       <1>14, <1>15, <1>16, <1>17, <1>18, <1>19, <1>20, <1>21, <1>22
       DEF Next, Worker

\* The frame numbers stay frame numbers.
LEMMA FrameTypesStep ==
  ASSUME SessionInv, [Next]_vars PROVE FrameTypes'
  <1>1. CASE
         \/ StopStream \/ InitFailed \/ NextDraw \/ ModeInForce \/ SwitchRejected
         \/ StartSwitch \/ SwitchTimeout \/ BlitBackOff \/ ReconnectFailed
         \/ ReplayTimeout \/ SyncDone \/ CoolDown \/ CoreReceives \/ CommandVanishes
         \/ CoreStarts \/ LoseCommand \/ LoseACK \/ CoreStops
         \/ \E m \in Modes : SetModeline(m)
         \/ UNCHANGED vars
    <2>1. UNCHANGED <<frame, clientFrame, frameEcho, lastSeen>>
      BY <1>1
         DEF SetModeline, StopStream, InitFailed, NextDraw, ModeInForce, SwitchRejected,
             StartSwitch, SwitchTimeout, BlitBackOff, ReconnectFailed, ReplayTimeout,
             SyncDone, CoolDown, CoreReceives, CommandVanishes, CoreStarts, LoseCommand,
             LoseACK, CoreStops, uiVars, modeVars, rendererVars, watchdogVars, clientVars,
             netVars, coreVars, historyVars, vars
    <2> QED
      BY <2>1 DEF SessionInv, TypeOK, FrameTypes
  <1>2. CASE StartInit
    BY <1>2, SessionBegins, ZeroFrame
       DEF StartInit, historyVars, watchdogVars, rendererVars, modeVars, uiVars,
           SessionInv, TypeOK, FrameTypes
  <1>3. CASE InitAcked
    BY <1>3, AnswerTaken, ZeroFrame
       DEF InitAcked, historyVars, coreVars, modeVars, uiVars, SessionInv, TypeOK,
           FrameTypes
  <1>4. CASE SwitchAcked
    BY <1>4, AnswerTaken, ZeroFrame
       DEF SwitchAcked, historyVars, coreVars, watchdogVars, uiVars, SessionInv, TypeOK,
           FrameTypes
  <1>5. CASE PackFails
    BY <1>5, NumberTaken, ZeroFrame
       DEF PackFails, historyVars, modeVars, uiVars, SessionInv, TypeOK, FrameTypes
  <1>6. CASE SkipFirstBlit
    BY <1>6, ZeroFrame
       DEF SkipFirstBlit, historyVars, coreVars, netVars, clientVars, watchdogVars,
           modeVars, uiVars, SessionInv, TypeOK, FrameTypes
  <1>7. CASE PackFrame
    BY <1>7, NumberTaken, ZeroFrame
       DEF PackFrame, historyVars, modeVars, uiVars, SessionInv, TypeOK, FrameTypes
  <1>8. CASE BlitNoMiss
    BY <1>8, ZeroFrame
       DEF BlitNoMiss, coreVars, rendererVars, modeVars, uiVars, SendBlit, EchoAdvanced,
           EchoMissed, Armed, SessionInv, TypeOK, FrameTypes
  <1>9. CASE BlitMissed
    BY <1>9, ZeroFrame
       DEF BlitMissed, coreVars, rendererVars, modeVars, uiVars, SendBlit, EchoMissed,
           Armed, SessionInv, TypeOK, FrameTypes
  <1>10. CASE Reconnect
    BY <1>10, SessionBegins, ZeroFrame
       DEF Reconnect, historyVars, rendererVars, modeVars, uiVars, EchoMissed, Armed,
           SessionInv, TypeOK, FrameTypes
  <1>11. CASE ReconnectAcked
    BY <1>11, AnswerTaken, ZeroFrame
       DEF ReconnectAcked, historyVars, coreVars, rendererVars, modeVars, uiVars,
           SessionInv, TypeOK, FrameTypes
  <1>12. CASE ReplayAcked
    BY <1>12, AnswerTaken, ZeroFrame
       DEF ReplayAcked, historyVars, coreVars, rendererVars, modeVars, uiVars, SessionInv,
           TypeOK, FrameTypes
  <1>13. CASE SyncPoll
    BY <1>13, AnswerTaken, ZeroFrame
       DEF SyncPoll, historyVars, coreVars, watchdogVars, rendererVars, modeVars, uiVars,
           SessionInv, TypeOK, FrameTypes
  <1> QED
    BY <1>1, <1>2, <1>3, <1>4, <1>5, <1>6, <1>7, <1>8, <1>9, <1>10, <1>11, <1>12, <1>13
       DEF Next, Worker

\* What is under way and what the core holds stay well formed.
LEMMA WireTypesStep ==
  ASSUME SessionInv, [Next]_vars PROVE WireTypes'
  <1>1. CASE
         \/ NextDraw \/ ModeInForce \/ SwitchRejected \/ SkipFirstBlit \/ BlitBackOff
         \/ SyncDone \/ CoolDown
         \/ \E m \in Modes : SetModeline(m)
         \/ UNCHANGED vars
    <2>1. UNCHANGED <<toCore, toHost, coreUp, coreClient, coreMode, coreEcho>>
      BY <1>1
         DEF SetModeline, NextDraw, ModeInForce, SwitchRejected, SkipFirstBlit,
             BlitBackOff, SyncDone, CoolDown, uiVars, modeVars, rendererVars,
             watchdogVars, clientVars, netVars, coreVars, historyVars, vars
    <2> QED
      BY <2>1 DEF SessionInv, TypeOK, WireTypes
  <1>2. CASE StopStream
    BY <1>2, AppendControl, WireIsTyped, ZeroFrame
       DEF StopStream, historyVars, coreVars, rendererVars, modeVars, uiVars, SessionInv,
           TypeOK, WireTypes
  <1>3. CASE StartInit
    <2>1. toCore' \in Seq(Command) /\ toHost' = <<>> /\ coreClient' \in {"none", "old"}
      BY <1>3, SessionBegins
    <2>2. UNCHANGED <<coreUp, coreMode, coreEcho>>
      BY <1>3 DEF StartInit
    <2>3. <<>> \in Seq(FrameNumber)
      OBVIOUS
    <2> QED
      BY <2>1, <2>2, <2>3, WireIsTyped DEF WireTypes
  <1>4. CASE InitAcked
    BY <1>4, AnswerTaken, WireIsTyped, ZeroFrame
       DEF InitAcked, historyVars, coreVars, modeVars, uiVars, SessionInv, TypeOK,
           WireTypes
  <1>5. CASE InitFailed
    BY <1>5, WireIsTyped, ZeroFrame
       DEF InitFailed, historyVars, coreVars, watchdogVars, rendererVars, modeVars,
           uiVars, SessionInv, TypeOK, WireTypes
  <1>6. CASE StartSwitch
    BY <1>6, SwitchresSent, NumbersAre, WireIsTyped, ZeroFrame
       DEF StartSwitch, historyVars, coreVars, watchdogVars, uiVars, SessionInv, TypeOK,
           WireTypes
  <1>7. CASE SwitchAcked
    BY <1>7, AnswerTaken, WireIsTyped, ZeroFrame
       DEF SwitchAcked, historyVars, coreVars, watchdogVars, uiVars, SessionInv, TypeOK,
           WireTypes
  <1>8. CASE SwitchTimeout
    BY <1>8, SwitchresSent, ModesKept, WireIsTyped, ZeroFrame
       DEF SwitchTimeout, historyVars, coreVars, watchdogVars, rendererVars, modeVars,
           uiVars, SessionInv, TypeOK, WireTypes
  <1>9. CASE PackFails
    BY <1>9, NumberTaken, WireIsTyped, ZeroFrame
       DEF PackFails, historyVars, modeVars, uiVars, SessionInv, TypeOK, WireTypes
  <1>10. CASE PackFrame
    BY <1>10, NumberTaken, WireIsTyped, ZeroFrame
       DEF PackFrame, historyVars, modeVars, uiVars, SessionInv, TypeOK, WireTypes
  <1>11. CASE BlitNoMiss
    BY <1>11, BlitSent, WireIsTyped, ZeroFrame
       DEF BlitNoMiss, coreVars, rendererVars, modeVars, uiVars, EchoAdvanced, EchoMissed,
           Armed, SessionInv, TypeOK, WireTypes
  <1>12. CASE BlitMissed
    BY <1>12, BlitSent, WireIsTyped, ZeroFrame
       DEF BlitMissed, coreVars, rendererVars, modeVars, uiVars, EchoMissed, Armed,
           SessionInv, TypeOK, WireTypes
  <1>13. CASE Reconnect
    <2>1. toCore' \in Seq(Command) /\ toHost' = <<>> /\ coreClient' \in {"none", "old"}
      BY <1>13, SessionBegins
    <2>2. UNCHANGED <<coreUp, coreMode, coreEcho>>
      BY <1>13 DEF Reconnect
    <2>3. <<>> \in Seq(FrameNumber)
      OBVIOUS
    <2> QED
      BY <2>1, <2>2, <2>3, WireIsTyped DEF WireTypes
  <1>14. CASE ReconnectAcked
    BY <1>14, AnswerTaken, SwitchresSent, ModesKept, WireIsTyped, ZeroFrame
       DEF ReconnectAcked, historyVars, coreVars, rendererVars, modeVars, uiVars,
           SessionInv, TypeOK, WireTypes
  <1>15. CASE ReconnectFailed
    BY <1>15, WireIsTyped, ZeroFrame
       DEF ReconnectFailed, historyVars, coreVars, rendererVars, modeVars, uiVars,
           SessionInv, TypeOK, WireTypes
  <1>16. CASE ReplayAcked
    BY <1>16, AnswerTaken, WireIsTyped, ZeroFrame
       DEF ReplayAcked, historyVars, coreVars, rendererVars, modeVars, uiVars, SessionInv,
           TypeOK, WireTypes
  <1>17. CASE ReplayTimeout
    BY <1>17, SwitchresSent, ModesKept, WireIsTyped, ZeroFrame
       DEF ReplayTimeout, historyVars, coreVars, rendererVars, modeVars, uiVars,
           SessionInv, TypeOK, WireTypes
  <1>18. CASE SyncPoll
    BY <1>18, AnswerTaken, WireIsTyped, ZeroFrame
       DEF SyncPoll, historyVars, coreVars, watchdogVars, rendererVars, modeVars, uiVars,
           SessionInv, TypeOK, WireTypes
  <1>19. CASE CoreReceives
    <2>1. /\ toCore' \in Seq(Command)
          /\ coreClient' \in {"none", "old", "cur"} /\ coreMode' \in Modes \cup {NoMode}
          /\ coreEcho' \in FrameNumber
      BY <1>19, CoreReads
    <2>2. coreUp' = coreUp
      BY <1>19 DEF CoreReceives
    <2>3. toHost' \in Seq(FrameNumber)
      <3>1. toHost' = toHost \/ toHost' = Append(toHost, coreEcho')
        BY <1>19, CoreReads
      <3> QED
        BY <2>1, <3>1, WireIsTyped
    <2> QED
      BY <2>1, <2>2, <2>3, WireIsTyped DEF WireTypes
  <1>20. CASE CommandVanishes
    BY <1>20, CommandGone, WireIsTyped, ZeroFrame
       DEF CommandVanishes, coreVars, clientVars, watchdogVars, rendererVars, modeVars,
           uiVars, SessionInv, TypeOK, WireTypes
  <1>21. CASE CoreStarts
    BY <1>21, WireIsTyped, ZeroFrame
       DEF CoreStarts, historyVars, netVars, clientVars, watchdogVars, rendererVars,
           modeVars, uiVars, SessionInv, TypeOK, WireTypes
  <1>22. CASE LoseCommand
    BY <1>22, CommandGone, WireIsTyped, ZeroFrame
       DEF LoseCommand, coreVars, clientVars, watchdogVars, rendererVars, modeVars,
           uiVars, SessionInv, TypeOK, WireTypes
  <1>23. CASE LoseACK
    BY <1>23, RemoveDrops, WireIsTyped, ZeroFrame
       DEF LoseACK, historyVars, coreVars, clientVars, watchdogVars, rendererVars,
           modeVars, uiVars, SessionInv, TypeOK, WireTypes
  <1>24. CASE CoreStops
    BY <1>24, WireIsTyped, ZeroFrame
       DEF CoreStops, historyVars, netVars, clientVars, watchdogVars, rendererVars,
           modeVars, uiVars, SessionInv, TypeOK, WireTypes
  <1> QED
    BY <1>1, <1>2, <1>3, <1>4, <1>5, <1>6, <1>7, <1>8, <1>9, <1>10, <1>11, <1>12, <1>13,
       <1>14, <1>15, <1>16, <1>17, <1>18, <1>19, <1>20, <1>21, <1>22, <1>23, <1>24
       DEF Next, Worker

\* Where the worker is decides what the session is, in every step.
LEMMA PlacesInvStep ==
  ASSUME SessionInv, [Next]_vars PROVE PlacesInv'
  <1>1. CASE
         \/ SyncPoll \/ CoolDown \/ CoreReceives \/ CommandVanishes \/ CoreStarts
         \/ LoseCommand \/ LoseACK \/ CoreStops
         \/ \E m \in Modes : SetModeline(m)
         \/ UNCHANGED vars
    <2>1. UNCHANGED <<pc, initialized, connected, torndown, firstBlit>>
      BY <1>1
         DEF SetModeline, SyncPoll, CoolDown, CoreReceives, CommandVanishes, CoreStarts,
             LoseCommand, LoseACK, CoreStops, uiVars, modeVars, rendererVars,
             watchdogVars, clientVars, netVars, coreVars, historyVars, vars
    <2> QED
      BY <2>1 DEF SessionInv, PlacesInv, Streaming
  <1>2. CASE StopStream
    BY <1>2, FlagsAre
       DEF StopStream, historyVars, coreVars, rendererVars, modeVars, uiVars, SessionInv,
           PlacesInv, Streaming
  <1>3. CASE StartInit
    BY <1>3, FlagsAre
       DEF StartInit, historyVars, watchdogVars, rendererVars, modeVars, uiVars,
           CmdInitSocketError, CmdInit, SessionInv, PlacesInv, Streaming
  <1>4. CASE InitAcked
    BY <1>4, FlagsAre
       DEF InitAcked, historyVars, coreVars, modeVars, uiVars, SessionInv, PlacesInv,
           Streaming
  <1>5. CASE InitFailed
    BY <1>5, FlagsAre
       DEF InitFailed, historyVars, coreVars, watchdogVars, rendererVars, modeVars,
           uiVars, SessionInv, PlacesInv, Streaming
  <1>6. CASE NextDraw
    BY <1>6, FlagsAre
       DEF NextDraw, historyVars, coreVars, netVars, clientVars, watchdogVars,
           rendererVars, modeVars, uiVars, SessionInv, PlacesInv, Streaming
  <1>7. CASE ModeInForce
    BY <1>7, FlagsAre
       DEF ModeInForce, historyVars, coreVars, netVars, clientVars, watchdogVars,
           rendererVars, modeVars, uiVars, SessionInv, PlacesInv, Streaming
  <1>8. CASE SwitchRejected
    BY <1>8, FlagsAre
       DEF SwitchRejected, historyVars, coreVars, netVars, clientVars, watchdogVars,
           rendererVars, modeVars, uiVars, SessionInv, PlacesInv, Streaming
  <1>9. CASE StartSwitch
    BY <1>9, FlagsAre
       DEF StartSwitch, historyVars, coreVars, watchdogVars, uiVars, SessionInv,
           PlacesInv, Streaming
  <1>10. CASE SwitchAcked
    BY <1>10, FlagsAre
       DEF SwitchAcked, historyVars, coreVars, watchdogVars, uiVars, SessionInv,
           PlacesInv, Streaming
  <1>11. CASE SwitchTimeout
    BY <1>11, FlagsAre
       DEF SwitchTimeout, historyVars, coreVars, watchdogVars, rendererVars, modeVars,
           uiVars, SessionInv, PlacesInv, Streaming
  <1>12. CASE PackFails
    BY <1>12, FlagsAre
       DEF PackFails, historyVars, modeVars, uiVars, SessionInv, PlacesInv, Streaming
  <1>13. CASE SkipFirstBlit
    BY <1>13, FlagsAre
       DEF SkipFirstBlit, historyVars, coreVars, netVars, clientVars, watchdogVars,
           modeVars, uiVars, SessionInv, PlacesInv, Streaming
  <1>14. CASE PackFrame
    BY <1>14, FlagsAre
       DEF PackFrame, historyVars, modeVars, uiVars, SessionInv, PlacesInv, Streaming
  <1>15. CASE BlitNoMiss
    BY <1>15, FlagsAre
       DEF BlitNoMiss, coreVars, rendererVars, modeVars, uiVars, SendBlit, EchoAdvanced,
           EchoMissed, Armed, SessionInv, PlacesInv, Streaming
  <1>16. CASE BlitMissed
    BY <1>16, FlagsAre
       DEF BlitMissed, coreVars, rendererVars, modeVars, uiVars, SendBlit, EchoMissed,
           Armed, SessionInv, PlacesInv, Streaming
  <1>17. CASE BlitBackOff
    BY <1>17, FlagsAre
       DEF BlitBackOff, historyVars, coreVars, netVars, rendererVars, modeVars, uiVars,
           EchoMissed, Armed, SessionInv, PlacesInv, Streaming
  <1>18. CASE Reconnect
    BY <1>18, FlagsAre
       DEF Reconnect, historyVars, rendererVars, modeVars, uiVars, CmdInitSocketError,
           CmdInit, EchoMissed, Armed, SessionInv, PlacesInv, Streaming
  <1>19. CASE ReconnectAcked
    BY <1>19, FlagsAre
       DEF ReconnectAcked, historyVars, coreVars, rendererVars, modeVars, uiVars,
           SessionInv, PlacesInv, Streaming
  <1>20. CASE ReconnectFailed
    BY <1>20, FlagsAre
       DEF ReconnectFailed, historyVars, coreVars, rendererVars, modeVars, uiVars,
           SessionInv, PlacesInv, Streaming
  <1>21. CASE ReplayAcked
    BY <1>21, FlagsAre
       DEF ReplayAcked, historyVars, coreVars, rendererVars, modeVars, uiVars, SessionInv,
           PlacesInv, Streaming
  <1>22. CASE ReplayTimeout
    BY <1>22, FlagsAre
       DEF ReplayTimeout, historyVars, coreVars, rendererVars, modeVars, uiVars,
           SessionInv, PlacesInv, Streaming
  <1>23. CASE SyncDone
    BY <1>23, FlagsAre
       DEF SyncDone, historyVars, coreVars, netVars, clientVars, watchdogVars,
           rendererVars, modeVars, uiVars, SessionInv, PlacesInv, Streaming
  <1> QED
    BY <1>1, <1>2, <1>3, <1>4, <1>5, <1>6, <1>7, <1>8, <1>9, <1>10, <1>11, <1>12, <1>13,
       <1>14, <1>15, <1>16, <1>17, <1>18, <1>19, <1>20, <1>21, <1>22, <1>23
       DEF Next, Worker

\* Every way out of a session leaves the watchdog at its limit.
LEMMA WatchdogInvStep ==
  ASSUME SessionInv, [Next]_vars PROVE WatchdogInv'
  <1>1. CASE
         \/ CoolDown \/ CoreReceives \/ CommandVanishes \/ CoreStarts \/ LoseCommand
         \/ LoseACK \/ CoreStops
         \/ \E m \in Modes : SetModeline(m)
         \/ UNCHANGED vars
    <2>1. UNCHANGED <<pc, initialized, connected, misses, frameEcho>>
      BY <1>1
         DEF SetModeline, CoolDown, CoreReceives, CommandVanishes, CoreStarts,
             LoseCommand, LoseACK, CoreStops, uiVars, modeVars, rendererVars,
             watchdogVars, clientVars, netVars, coreVars, historyVars, vars
    <2> QED
      BY <2>1
         DEF SessionInv, WatchdogInv, RetryStaysArmed, Armed, PlacesInv, AnswersInv,
             EchoNeverAhead
  <1>2. CASE StopStream
    BY <1>2, FlagsAre, NumbersAre
       DEF StopStream, historyVars, coreVars, rendererVars, modeVars, uiVars, SessionInv,
           WatchdogInv, RetryStaysArmed, Armed, PlacesInv, AnswersInv, EchoNeverAhead
  <1>3. CASE StartInit
    BY <1>3, SessionBegins, FlagsAre, NumbersAre
       DEF StartInit, historyVars, watchdogVars, rendererVars, modeVars, uiVars,
           SessionInv, WatchdogInv, RetryStaysArmed, Armed, PlacesInv, AnswersInv,
           EchoNeverAhead
  <1>4. CASE InitAcked
    BY <1>4, AnswerTaken, FlagsAre, NumbersAre
       DEF InitAcked, historyVars, coreVars, modeVars, uiVars, SessionInv, WatchdogInv,
           RetryStaysArmed, Armed, PlacesInv, AnswersInv, EchoNeverAhead
  <1>5. CASE InitFailed
    BY <1>5, FlagsAre, NumbersAre
       DEF InitFailed, historyVars, coreVars, watchdogVars, rendererVars, modeVars,
           uiVars, TimesOut, Disturb, SessionInv, WatchdogInv, RetryStaysArmed, Armed,
           PlacesInv, AnswersInv, EchoNeverAhead
  <1>6. CASE NextDraw
    BY <1>6, FlagsAre, NumbersAre
       DEF NextDraw, historyVars, coreVars, netVars, clientVars, watchdogVars,
           rendererVars, modeVars, uiVars, SessionInv, WatchdogInv, RetryStaysArmed,
           Armed, PlacesInv, AnswersInv, EchoNeverAhead
  <1>7. CASE ModeInForce
    BY <1>7, FlagsAre, NumbersAre
       DEF ModeInForce, historyVars, coreVars, netVars, clientVars, watchdogVars,
           rendererVars, modeVars, uiVars, SessionInv, WatchdogInv, RetryStaysArmed,
           Armed, PlacesInv, AnswersInv, EchoNeverAhead
  <1>8. CASE SwitchRejected
    BY <1>8, FlagsAre, NumbersAre
       DEF SwitchRejected, historyVars, coreVars, netVars, clientVars, watchdogVars,
           rendererVars, modeVars, uiVars, SessionInv, WatchdogInv, RetryStaysArmed,
           Armed, PlacesInv, AnswersInv, EchoNeverAhead
  <1>9. CASE StartSwitch
    BY <1>9, FlagsAre, NumbersAre
       DEF StartSwitch, historyVars, coreVars, watchdogVars, uiVars, SessionInv,
           WatchdogInv, RetryStaysArmed, Armed, PlacesInv, AnswersInv, EchoNeverAhead
  <1>10. CASE SwitchAcked
    BY <1>10, AnswerTaken, FlagsAre, NumbersAre
       DEF SwitchAcked, historyVars, coreVars, watchdogVars, uiVars, SessionInv,
           WatchdogInv, RetryStaysArmed, Armed, PlacesInv, AnswersInv, EchoNeverAhead
  <1>11. CASE SwitchTimeout
    BY <1>11, FlagsAre, NumbersAre
       DEF SwitchTimeout, historyVars, coreVars, watchdogVars, rendererVars, modeVars,
           uiVars, TimesOut, Disturb, SessionInv, WatchdogInv, RetryStaysArmed, Armed,
           PlacesInv, AnswersInv, EchoNeverAhead
  <1>12. CASE PackFails
    BY <1>12, NumberTaken, FlagsAre, NumbersAre
       DEF PackFails, historyVars, modeVars, uiVars, SessionInv, WatchdogInv,
           RetryStaysArmed, Armed, PlacesInv, AnswersInv, EchoNeverAhead
  <1>13. CASE SkipFirstBlit
    BY <1>13, FlagsAre, NumbersAre
       DEF SkipFirstBlit, historyVars, coreVars, netVars, clientVars, watchdogVars,
           modeVars, uiVars, SessionInv, WatchdogInv, RetryStaysArmed, Armed, PlacesInv,
           AnswersInv, EchoNeverAhead
  <1>14. CASE PackFrame
    BY <1>14, NumberTaken, FlagsAre, NumbersAre
       DEF PackFrame, historyVars, modeVars, uiVars, SessionInv, WatchdogInv,
           RetryStaysArmed, Armed, PlacesInv, AnswersInv, EchoNeverAhead
  <1>15. CASE BlitNoMiss
    BY <1>15, FlagsAre, NumbersAre
       DEF BlitNoMiss, coreVars, rendererVars, modeVars, uiVars, SendBlit, EchoAdvanced,
           EchoMissed, Armed, SessionInv, WatchdogInv, RetryStaysArmed, PlacesInv,
           AnswersInv, EchoNeverAhead
  <1>16. CASE BlitMissed
    BY <1>16, FlagsAre, NumbersAre
       DEF BlitMissed, coreVars, rendererVars, modeVars, uiVars, SendBlit, EchoMissed,
           Armed, SessionInv, WatchdogInv, RetryStaysArmed, PlacesInv, AnswersInv,
           EchoNeverAhead
  <1>17. CASE BlitBackOff
    BY <1>17, FlagsAre, NumbersAre
       DEF BlitBackOff, historyVars, coreVars, netVars, rendererVars, modeVars, uiVars,
           EchoMissed, Armed, SessionInv, WatchdogInv, RetryStaysArmed, PlacesInv,
           AnswersInv, EchoNeverAhead
  <1>18. CASE Reconnect
    BY <1>18, SessionBegins, FlagsAre, NumbersAre
       DEF Reconnect, historyVars, rendererVars, modeVars, uiVars, EchoMissed, Armed,
           SessionInv, WatchdogInv, RetryStaysArmed, PlacesInv, AnswersInv, EchoNeverAhead
  <1>19. CASE ReconnectAcked
    BY <1>19, AnswerTaken, FlagsAre, NumbersAre
       DEF ReconnectAcked, historyVars, coreVars, rendererVars, modeVars, uiVars,
           SessionInv, WatchdogInv, RetryStaysArmed, Armed, PlacesInv, AnswersInv,
           EchoNeverAhead
  <1>20. CASE ReconnectFailed
    BY <1>20, FlagsAre, NumbersAre
       DEF ReconnectFailed, historyVars, coreVars, rendererVars, modeVars, uiVars,
           TimesOut, Disturb, SessionInv, WatchdogInv, RetryStaysArmed, Armed, PlacesInv,
           AnswersInv, EchoNeverAhead
  <1>21. CASE ReplayAcked
    BY <1>21, AnswerTaken, FlagsAre, NumbersAre
       DEF ReplayAcked, historyVars, coreVars, rendererVars, modeVars, uiVars, SessionInv,
           WatchdogInv, RetryStaysArmed, Armed, PlacesInv, AnswersInv, EchoNeverAhead
  <1>22. CASE ReplayTimeout
    BY <1>22, FlagsAre, NumbersAre
       DEF ReplayTimeout, historyVars, coreVars, rendererVars, modeVars, uiVars, TimesOut,
           Disturb, SessionInv, WatchdogInv, RetryStaysArmed, Armed, PlacesInv,
           AnswersInv, EchoNeverAhead
  <1>23. CASE SyncPoll
    BY <1>23, AnswerTaken, FlagsAre, NumbersAre
       DEF SyncPoll, historyVars, coreVars, watchdogVars, rendererVars, modeVars, uiVars,
           SessionInv, WatchdogInv, RetryStaysArmed, Armed, PlacesInv, AnswersInv,
           EchoNeverAhead
  <1>24. CASE SyncDone
    BY <1>24, FlagsAre, NumbersAre
       DEF SyncDone, historyVars, coreVars, netVars, clientVars, watchdogVars,
           rendererVars, modeVars, uiVars, Disturb, SessionInv, WatchdogInv,
           RetryStaysArmed, Armed, PlacesInv, AnswersInv, EchoNeverAhead
  <1> QED
    BY <1>1, <1>2, <1>3, <1>4, <1>5, <1>6, <1>7, <1>8, <1>9, <1>10, <1>11, <1>12, <1>13,
       <1>14, <1>15, <1>16, <1>17, <1>18, <1>19, <1>20, <1>21, <1>22, <1>23, <1>24
       DEF Next, Worker

\* The two frame numbers stay in step.
LEMMA NumbersInvStep ==
  ASSUME SessionInv, [Next]_vars PROVE NumbersInv'
  <1>1. CASE
         \/ SyncPoll \/ CoolDown \/ CoreReceives \/ CommandVanishes \/ CoreStarts
         \/ LoseCommand \/ LoseACK \/ CoreStops
         \/ \E m \in Modes : SetModeline(m)
         \/ UNCHANGED vars
    <2>1. UNCHANGED <<pc, frame, clientFrame, firstBlit, epoch, lastEpoch>>
      BY <1>1
         DEF SetModeline, SyncPoll, CoolDown, CoreReceives, CommandVanishes, CoreStarts,
             LoseCommand, LoseACK, CoreStops, uiVars, modeVars, rendererVars,
             watchdogVars, clientVars, netVars, coreVars, historyVars, vars
    <2> QED
      BY <2>1 DEF SessionInv, NumbersInv, PlacesInv, Streaming
  <1>2. CASE StopStream
    BY <1>2, FlagsAre, NumbersAre
       DEF StopStream, historyVars, coreVars, rendererVars, modeVars, uiVars, SessionInv,
           NumbersInv, PlacesInv, Streaming
  <1>3. CASE StartInit
    BY <1>3, SessionBegins, FlagsAre, NumbersAre
       DEF StartInit, historyVars, watchdogVars, rendererVars, modeVars, uiVars,
           SessionInv, NumbersInv, PlacesInv, Streaming
  <1>4. CASE InitAcked
    BY <1>4, FlagsAre, NumbersAre
       DEF InitAcked, historyVars, coreVars, modeVars, uiVars, SessionInv, NumbersInv,
           PlacesInv, Streaming
  <1>5. CASE InitFailed
    BY <1>5, FlagsAre, NumbersAre
       DEF InitFailed, historyVars, coreVars, watchdogVars, rendererVars, modeVars,
           uiVars, TimesOut, Disturb, SessionInv, NumbersInv, PlacesInv, Streaming
  <1>6. CASE NextDraw
    BY <1>6, FlagsAre, NumbersAre
       DEF NextDraw, historyVars, coreVars, netVars, clientVars, watchdogVars,
           rendererVars, modeVars, uiVars, SessionInv, NumbersInv, PlacesInv, Streaming
  <1>7. CASE ModeInForce
    BY <1>7, FlagsAre, NumbersAre
       DEF ModeInForce, historyVars, coreVars, netVars, clientVars, watchdogVars,
           rendererVars, modeVars, uiVars, SessionInv, NumbersInv, PlacesInv, Streaming
  <1>8. CASE SwitchRejected
    BY <1>8, FlagsAre, NumbersAre
       DEF SwitchRejected, historyVars, coreVars, netVars, clientVars, watchdogVars,
           rendererVars, modeVars, uiVars, SessionInv, NumbersInv, PlacesInv, Streaming
  <1>9. CASE StartSwitch
    BY <1>9, FlagsAre, NumbersAre
       DEF StartSwitch, historyVars, coreVars, watchdogVars, uiVars, SessionInv,
           NumbersInv, PlacesInv, Streaming
  <1>10. CASE SwitchAcked
    BY <1>10, FlagsAre, NumbersAre
       DEF SwitchAcked, historyVars, coreVars, watchdogVars, uiVars, SessionInv,
           NumbersInv, PlacesInv, Streaming
  <1>11. CASE SwitchTimeout
    BY <1>11, FlagsAre, NumbersAre
       DEF SwitchTimeout, historyVars, coreVars, watchdogVars, rendererVars, modeVars,
           uiVars, TimesOut, Disturb, SessionInv, NumbersInv, PlacesInv, Streaming
  <1>12. CASE PackFails
    BY <1>12, NumbersAhead, FlagsAre, NumbersAre
       DEF PackFails, historyVars, modeVars, uiVars, SessionInv, NumbersInv, PlacesInv,
           Streaming
  <1>13. CASE SkipFirstBlit
    BY <1>13, FlagsAre, NumbersAre
       DEF SkipFirstBlit, historyVars, coreVars, netVars, clientVars, watchdogVars,
           modeVars, uiVars, SessionInv, NumbersInv, PlacesInv, Streaming
  <1>14. CASE PackFrame
    BY <1>14, NumbersAhead, FlagsAre, NumbersAre
       DEF PackFrame, historyVars, modeVars, uiVars, SessionInv, NumbersInv, PlacesInv,
           Streaming
  <1>15. CASE BlitNoMiss
    BY <1>15, FlagsAre, NumbersAre
       DEF BlitNoMiss, coreVars, rendererVars, modeVars, uiVars, SendBlit, EchoAdvanced,
           EchoMissed, Armed, SessionInv, NumbersInv, PlacesInv, Streaming
  <1>16. CASE BlitMissed
    BY <1>16, FlagsAre, NumbersAre
       DEF BlitMissed, coreVars, rendererVars, modeVars, uiVars, SendBlit, EchoMissed,
           Armed, SessionInv, NumbersInv, PlacesInv, Streaming
  <1>17. CASE BlitBackOff
    BY <1>17, FlagsAre, NumbersAre
       DEF BlitBackOff, historyVars, coreVars, netVars, rendererVars, modeVars, uiVars,
           EchoMissed, Armed, SessionInv, NumbersInv, PlacesInv, Streaming
  <1>18. CASE Reconnect
    BY <1>18, SessionBegins, FlagsAre, NumbersAre
       DEF Reconnect, historyVars, rendererVars, modeVars, uiVars, EchoMissed, Armed,
           SessionInv, NumbersInv, PlacesInv, Streaming
  <1>19. CASE ReconnectAcked
    BY <1>19, FlagsAre, NumbersAre
       DEF ReconnectAcked, historyVars, coreVars, rendererVars, modeVars, uiVars,
           SessionInv, NumbersInv, PlacesInv, Streaming
  <1>20. CASE ReconnectFailed
    BY <1>20, FlagsAre, NumbersAre
       DEF ReconnectFailed, historyVars, coreVars, rendererVars, modeVars, uiVars,
           TimesOut, Disturb, SessionInv, NumbersInv, PlacesInv, Streaming
  <1>21. CASE ReplayAcked
    BY <1>21, FlagsAre, NumbersAre
       DEF ReplayAcked, historyVars, coreVars, rendererVars, modeVars, uiVars, SessionInv,
           NumbersInv, PlacesInv, Streaming
  <1>22. CASE ReplayTimeout
    BY <1>22, FlagsAre, NumbersAre
       DEF ReplayTimeout, historyVars, coreVars, rendererVars, modeVars, uiVars, TimesOut,
           Disturb, SessionInv, NumbersInv, PlacesInv, Streaming
  <1>23. CASE SyncDone
    BY <1>23, FlagsAre, NumbersAre
       DEF SyncDone, historyVars, coreVars, netVars, clientVars, watchdogVars,
           rendererVars, modeVars, uiVars, Disturb, SessionInv, NumbersInv, PlacesInv,
           Streaming
  <1> QED
    BY <1>1, <1>2, <1>3, <1>4, <1>5, <1>6, <1>7, <1>8, <1>9, <1>10, <1>11, <1>12, <1>13,
       <1>14, <1>15, <1>16, <1>17, <1>18, <1>19, <1>20, <1>21, <1>22, <1>23
       DEF Next, Worker

\* The byte count and the modelines agree again after every switch.
LEMMA ModesInvStep ==
  ASSUME SessionInv, [Next]_vars PROVE ModesInv'
  <1>1. CASE
         \/ SyncPoll \/ CoolDown \/ CoreReceives \/ CommandVanishes \/ CoreStarts
         \/ LoseCommand \/ LoseACK \/ CoreStops
         \/ UNCHANGED vars
    <2>1. UNCHANGED <<pc, initialized, revision, modeRevision, current, stash, sizeMode, want>>
      BY <1>1
         DEF SyncPoll, CoolDown, CoreReceives, CommandVanishes, CoreStarts, LoseCommand,
             LoseACK, CoreStops, uiVars, modeVars, rendererVars, watchdogVars, clientVars,
             netVars, coreVars, historyVars, vars
    <2> QED
      BY <2>1 DEF SessionInv, ModesInv, PlacesInv, Streaming
  <1>2. CASE \E m \in Modes : SetModeline(m)
    BY <1>2, FlagsAre, NumbersAre, ModesAssumption
       DEF SetModeline, historyVars, coreVars, netVars, clientVars, watchdogVars,
           rendererVars, modeVars, SessionInv, ModesInv, PlacesInv, Streaming
  <1>3. CASE StopStream
    BY <1>3, FlagsAre, NumbersAre, ModesAssumption
       DEF StopStream, historyVars, coreVars, rendererVars, modeVars, uiVars, SessionInv,
           ModesInv, PlacesInv, Streaming
  <1>4. CASE StartInit
    BY <1>4, FlagsAre, NumbersAre, ModesAssumption
       DEF StartInit, historyVars, watchdogVars, rendererVars, modeVars, uiVars,
           SessionInv, ModesInv, PlacesInv, Streaming
  <1>5. CASE InitAcked
    BY <1>5, FlagsAre, NumbersAre, ModesAssumption
       DEF InitAcked, historyVars, coreVars, modeVars, uiVars, SessionInv, ModesInv,
           PlacesInv, Streaming
  <1>6. CASE InitFailed
    BY <1>6, FlagsAre, NumbersAre, ModesAssumption
       DEF InitFailed, historyVars, coreVars, watchdogVars, rendererVars, modeVars,
           uiVars, TimesOut, Disturb, SessionInv, ModesInv, PlacesInv, Streaming
  <1>7. CASE NextDraw
    BY <1>7, FlagsAre, NumbersAre, ModesAssumption
       DEF NextDraw, historyVars, coreVars, netVars, clientVars, watchdogVars,
           rendererVars, modeVars, uiVars, SessionInv, ModesInv, PlacesInv, Streaming
  <1>8. CASE ModeInForce
    BY <1>8, FlagsAre, NumbersAre, ModesAssumption
       DEF ModeInForce, historyVars, coreVars, netVars, clientVars, watchdogVars,
           rendererVars, modeVars, uiVars, SessionInv, ModesInv, PlacesInv, Streaming
  <1>9. CASE SwitchRejected
    BY <1>9, FlagsAre, NumbersAre, ModesAssumption
       DEF SwitchRejected, historyVars, coreVars, netVars, clientVars, watchdogVars,
           rendererVars, modeVars, uiVars, SessionInv, ModesInv, PlacesInv, Streaming
  <1>10. CASE StartSwitch
    BY <1>10, FlagsAre, NumbersAre, ModesAssumption
       DEF StartSwitch, historyVars, coreVars, watchdogVars, uiVars, SessionInv, ModesInv,
           PlacesInv, Streaming
  <1>11. CASE SwitchAcked
    BY <1>11, FlagsAre, NumbersAre, ModesAssumption
       DEF SwitchAcked, historyVars, coreVars, watchdogVars, uiVars, SessionInv, ModesInv,
           PlacesInv, Streaming
  <1>12. CASE SwitchTimeout
    BY <1>12, FlagsAre, NumbersAre, ModesAssumption
       DEF SwitchTimeout, historyVars, coreVars, watchdogVars, rendererVars, modeVars,
           uiVars, TimesOut, Disturb, SessionInv, ModesInv, PlacesInv, Streaming
  <1>13. CASE PackFails
    BY <1>13, FlagsAre, NumbersAre, ModesAssumption
       DEF PackFails, historyVars, modeVars, uiVars, SessionInv, ModesInv, PlacesInv,
           Streaming
  <1>14. CASE SkipFirstBlit
    BY <1>14, FlagsAre, NumbersAre, ModesAssumption
       DEF SkipFirstBlit, historyVars, coreVars, netVars, clientVars, watchdogVars,
           modeVars, uiVars, SessionInv, ModesInv, PlacesInv, Streaming
  <1>15. CASE PackFrame
    BY <1>15, FlagsAre, NumbersAre, ModesAssumption
       DEF PackFrame, historyVars, modeVars, uiVars, SessionInv, ModesInv, PlacesInv,
           Streaming
  <1>16. CASE BlitNoMiss
    BY <1>16, FlagsAre, NumbersAre, ModesAssumption
       DEF BlitNoMiss, coreVars, rendererVars, modeVars, uiVars, SendBlit, EchoAdvanced,
           EchoMissed, Armed, SessionInv, ModesInv, PlacesInv, Streaming
  <1>17. CASE BlitMissed
    BY <1>17, FlagsAre, NumbersAre, ModesAssumption
       DEF BlitMissed, coreVars, rendererVars, modeVars, uiVars, SendBlit, EchoMissed,
           Armed, SessionInv, ModesInv, PlacesInv, Streaming
  <1>18. CASE BlitBackOff
    BY <1>18, FlagsAre, NumbersAre, ModesAssumption
       DEF BlitBackOff, historyVars, coreVars, netVars, rendererVars, modeVars, uiVars,
           EchoMissed, Armed, SessionInv, ModesInv, PlacesInv, Streaming
  <1>19. CASE Reconnect
    BY <1>19, FlagsAre, NumbersAre, ModesAssumption
       DEF Reconnect, historyVars, rendererVars, modeVars, uiVars, EchoMissed, Armed,
           SessionInv, ModesInv, PlacesInv, Streaming
  <1>20. CASE ReconnectAcked
    BY <1>20, FlagsAre, NumbersAre, ModesAssumption
       DEF ReconnectAcked, historyVars, coreVars, rendererVars, modeVars, uiVars,
           SessionInv, ModesInv, PlacesInv, Streaming
  <1>21. CASE ReconnectFailed
    BY <1>21, FlagsAre, NumbersAre, ModesAssumption
       DEF ReconnectFailed, historyVars, coreVars, rendererVars, modeVars, uiVars,
           TimesOut, Disturb, SessionInv, ModesInv, PlacesInv, Streaming
  <1>22. CASE ReplayAcked
    BY <1>22, FlagsAre, NumbersAre, ModesAssumption
       DEF ReplayAcked, historyVars, coreVars, rendererVars, modeVars, uiVars, SessionInv,
           ModesInv, PlacesInv, Streaming
  <1>23. CASE ReplayTimeout
    BY <1>23, FlagsAre, NumbersAre, ModesAssumption
       DEF ReplayTimeout, historyVars, coreVars, rendererVars, modeVars, uiVars, TimesOut,
           Disturb, SessionInv, ModesInv, PlacesInv, Streaming
  <1>24. CASE SyncDone
    BY <1>24, FlagsAre, NumbersAre, ModesAssumption
       DEF SyncDone, historyVars, coreVars, netVars, clientVars, watchdogVars,
           rendererVars, modeVars, uiVars, Disturb, SessionInv, ModesInv, PlacesInv,
           Streaming
  <1> QED
    BY <1>1, <1>2, <1>3, <1>4, <1>5, <1>6, <1>7, <1>8, <1>9, <1>10, <1>11, <1>12, <1>13,
       <1>14, <1>15, <1>16, <1>17, <1>18, <1>19, <1>20, <1>21, <1>22, <1>23, <1>24
       DEF Next, Worker

\* The core forgets its modeline with its client.
LEMMA CoreInvStep ==
  ASSUME SessionInv, [Next]_vars PROVE CoreInv'
  <1>1. CASE
         \/ StopStream \/ InitFailed \/ NextDraw \/ ModeInForce \/ SwitchRejected
         \/ StartSwitch \/ SwitchAcked \/ SwitchTimeout \/ PackFails \/ SkipFirstBlit
         \/ PackFrame \/ BlitNoMiss \/ BlitMissed \/ BlitBackOff \/ ReconnectAcked
         \/ ReconnectFailed \/ ReplayAcked \/ ReplayTimeout \/ SyncPoll \/ SyncDone
         \/ CoolDown \/ CommandVanishes \/ LoseCommand \/ LoseACK
         \/ \E m \in Modes : SetModeline(m)
         \/ UNCHANGED vars
    <2>1. UNCHANGED <<initialized, coreUp, coreClient, coreMode>>
      BY <1>1
         DEF SetModeline, StopStream, InitFailed, NextDraw, ModeInForce, SwitchRejected,
             StartSwitch, SwitchAcked, SwitchTimeout, PackFails, SkipFirstBlit, PackFrame,
             BlitNoMiss, BlitMissed, BlitBackOff, ReconnectAcked, ReconnectFailed,
             ReplayAcked, ReplayTimeout, SyncPoll, SyncDone, CoolDown, CommandVanishes,
             LoseCommand, LoseACK, uiVars, modeVars, rendererVars, watchdogVars,
             clientVars, netVars, coreVars, historyVars, vars
    <2> QED
      BY <2>1 DEF SessionInv, CoreInv, PlacesInv
  <1>2. CASE StartInit
    BY <1>2, FlagsAre
       DEF StartInit, historyVars, watchdogVars, rendererVars, modeVars, uiVars,
           CmdInitSocketError, CmdInit, SessionInv, CoreInv, PlacesInv
  <1>3. CASE InitAcked
    BY <1>3, FlagsAre
       DEF InitAcked, historyVars, coreVars, modeVars, uiVars, SessionInv, CoreInv,
           PlacesInv
  <1>4. CASE Reconnect
    BY <1>4, FlagsAre
       DEF Reconnect, historyVars, rendererVars, modeVars, uiVars, CmdInitSocketError,
           CmdInit, EchoMissed, Armed, SessionInv, CoreInv, PlacesInv
  <1>5. CASE CoreReceives
    BY <1>5, CoreReads, FlagsAre
       DEF CoreReceives, historyVars, clientVars, watchdogVars, rendererVars, modeVars,
           uiVars, SessionInv, CoreInv, PlacesInv
  <1>6. CASE CoreStarts
    BY <1>6, FlagsAre
       DEF CoreStarts, historyVars, netVars, clientVars, watchdogVars, rendererVars,
           modeVars, uiVars, SessionInv, CoreInv, PlacesInv
  <1>7. CASE CoreStops
    BY <1>7, FlagsAre
       DEF CoreStops, historyVars, netVars, clientVars, watchdogVars, rendererVars,
           modeVars, uiVars, SessionInv, CoreInv, PlacesInv
  <1> QED
    BY <1>1, <1>2, <1>3, <1>4, <1>5, <1>6, <1>7 DEF Next, Worker

\* What is under way to the core keeps its shape.
LEMMA QueueInvStep ==
  ASSUME SessionInv, [Next]_vars PROVE QueueInv'
  <1>1. CASE
         \/ CoolDown \/ CoreStarts
         \/ \E m \in Modes : SetModeline(m)
         \/ UNCHANGED vars
    <2>1. UNCHANGED <<pc, initialized, connected, clientFrame, toCore, toHost, coreClient>>
      BY <1>1
         DEF SetModeline, CoolDown, CoreStarts, uiVars, modeVars, rendererVars,
             watchdogVars, clientVars, netVars, coreVars, historyVars, vars
    <2> QED
      BY <2>1 DEF SessionInv, QueueInv, PlacesInv, ModesInv, Streaming
  <1>2. CASE StopStream
    BY <1>2, AppendControl, WireIsTyped, FlagsAre, ModesAssumption
       DEF StopStream, historyVars, coreVars, rendererVars, modeVars, uiVars, SessionInv,
           QueueInv, PlacesInv, ModesInv, Streaming
  <1>3. CASE StartInit
    BY <1>3, SessionBegins, FlagsAre, ModesAssumption
       DEF StartInit, historyVars, watchdogVars, rendererVars, modeVars, uiVars,
           SessionInv, QueueInv, PlacesInv, ModesInv, Streaming
  <1>4. CASE InitAcked
    BY <1>4, AnswerTaken, FlagsAre, ModesAssumption
       DEF InitAcked, historyVars, coreVars, modeVars, uiVars, SessionInv, QueueInv,
           PlacesInv, ModesInv, Streaming
  <1>5. CASE InitFailed
    BY <1>5, FlagsAre, ModesAssumption
       DEF InitFailed, historyVars, coreVars, watchdogVars, rendererVars, modeVars,
           uiVars, SessionInv, QueueInv, PlacesInv, ModesInv, Streaming
  <1>6. CASE NextDraw
    BY <1>6, FlagsAre, ModesAssumption
       DEF NextDraw, historyVars, coreVars, netVars, clientVars, watchdogVars,
           rendererVars, modeVars, uiVars, SessionInv, QueueInv, PlacesInv, ModesInv,
           Streaming
  <1>7. CASE ModeInForce
    BY <1>7, FlagsAre, ModesAssumption
       DEF ModeInForce, historyVars, coreVars, netVars, clientVars, watchdogVars,
           rendererVars, modeVars, uiVars, SessionInv, QueueInv, PlacesInv, ModesInv,
           Streaming
  <1>8. CASE SwitchRejected
    BY <1>8, FlagsAre, ModesAssumption
       DEF SwitchRejected, historyVars, coreVars, netVars, clientVars, watchdogVars,
           rendererVars, modeVars, uiVars, SessionInv, QueueInv, PlacesInv, ModesInv,
           Streaming
  <1>9. CASE StartSwitch
    BY <1>9, SwitchresSent, NumbersAre, FlagsAre, ModesAssumption
       DEF StartSwitch, historyVars, coreVars, watchdogVars, uiVars, SessionInv, QueueInv,
           PlacesInv, ModesInv, Streaming
  <1>10. CASE SwitchAcked
    BY <1>10, AnswerTaken, FlagsAre, ModesAssumption
       DEF SwitchAcked, historyVars, coreVars, watchdogVars, uiVars, SessionInv, QueueInv,
           PlacesInv, ModesInv, Streaming
  <1>11. CASE SwitchTimeout
    BY <1>11, SwitchresSent, FlagsAre, ModesAssumption
       DEF SwitchTimeout, historyVars, coreVars, watchdogVars, rendererVars, modeVars,
           uiVars, SessionInv, QueueInv, PlacesInv, ModesInv, Streaming
  <1>12. CASE PackFails
    BY <1>12, QueueAged, FlagsAre, ModesAssumption
       DEF PackFails, historyVars, modeVars, uiVars, SessionInv, QueueInv, PlacesInv,
           ModesInv, Streaming
  <1>13. CASE SkipFirstBlit
    BY <1>13, FlagsAre, ModesAssumption
       DEF SkipFirstBlit, historyVars, coreVars, netVars, clientVars, watchdogVars,
           modeVars, uiVars, SessionInv, QueueInv, PlacesInv, ModesInv, Streaming
  <1>14. CASE PackFrame
    BY <1>14, QueueAged, FlagsAre, ModesAssumption
       DEF PackFrame, historyVars, modeVars, uiVars, SessionInv, QueueInv, PlacesInv,
           ModesInv, Streaming
  <1>15. CASE BlitNoMiss
    BY <1>15, BlitSent, FlagsAre, ModesAssumption
       DEF BlitNoMiss, coreVars, rendererVars, modeVars, uiVars, EchoAdvanced, EchoMissed,
           Armed, SessionInv, QueueInv, PlacesInv, ModesInv, Streaming
  <1>16. CASE BlitMissed
    BY <1>16, BlitSent, FlagsAre, ModesAssumption
       DEF BlitMissed, coreVars, rendererVars, modeVars, uiVars, EchoMissed, Armed,
           SessionInv, QueueInv, PlacesInv, ModesInv, Streaming
  <1>17. CASE BlitBackOff
    BY <1>17, FlagsAre, ModesAssumption
       DEF BlitBackOff, historyVars, coreVars, netVars, rendererVars, modeVars, uiVars,
           EchoMissed, Armed, SessionInv, QueueInv, PlacesInv, ModesInv, Streaming
  <1>18. CASE Reconnect
    BY <1>18, SessionBegins, FlagsAre, ModesAssumption
       DEF Reconnect, historyVars, rendererVars, modeVars, uiVars, EchoMissed, Armed,
           SessionInv, QueueInv, PlacesInv, ModesInv, Streaming
  <1>19. CASE ReconnectAcked
    BY <1>19, AnswerTaken, SwitchresSent, FlagsAre, ModesAssumption
       DEF ReconnectAcked, historyVars, coreVars, rendererVars, modeVars, uiVars,
           SessionInv, QueueInv, PlacesInv, ModesInv, Streaming
  <1>20. CASE ReconnectFailed
    BY <1>20, FlagsAre, ModesAssumption
       DEF ReconnectFailed, historyVars, coreVars, rendererVars, modeVars, uiVars,
           SessionInv, QueueInv, PlacesInv, ModesInv, Streaming
  <1>21. CASE ReplayAcked
    BY <1>21, AnswerTaken, FlagsAre, ModesAssumption
       DEF ReplayAcked, historyVars, coreVars, rendererVars, modeVars, uiVars, SessionInv,
           QueueInv, PlacesInv, ModesInv, Streaming
  <1>22. CASE ReplayTimeout
    BY <1>22, SwitchresSent, FlagsAre, ModesAssumption
       DEF ReplayTimeout, historyVars, coreVars, rendererVars, modeVars, uiVars,
           SessionInv, QueueInv, PlacesInv, ModesInv, Streaming
  <1>23. CASE SyncPoll
    BY <1>23, AnswerTaken, FlagsAre, ModesAssumption
       DEF SyncPoll, historyVars, coreVars, watchdogVars, rendererVars, modeVars, uiVars,
           SessionInv, QueueInv, PlacesInv, ModesInv, Streaming
  <1>24. CASE SyncDone
    BY <1>24, FlagsAre, ModesAssumption
       DEF SyncDone, historyVars, coreVars, netVars, clientVars, watchdogVars,
           rendererVars, modeVars, uiVars, SessionInv, QueueInv, PlacesInv, ModesInv,
           Streaming
  <1>25. CASE CoreReceives
    BY <1>25, CommandGone, CoreReads, FlagsAre, ModesAssumption
       DEF CoreReceives, historyVars, clientVars, watchdogVars, rendererVars, modeVars,
           uiVars, SessionInv, QueueInv, PlacesInv, ModesInv, Streaming
  <1>26. CASE CommandVanishes
    BY <1>26, CommandGone, FlagsAre, ModesAssumption
       DEF CommandVanishes, coreVars, clientVars, watchdogVars, rendererVars, modeVars,
           uiVars, SessionInv, QueueInv, PlacesInv, ModesInv, Streaming
  <1>27. CASE LoseCommand
    BY <1>27, CommandGone, FlagsAre, ModesAssumption
       DEF LoseCommand, coreVars, clientVars, watchdogVars, rendererVars, modeVars,
           uiVars, SessionInv, QueueInv, PlacesInv, ModesInv, Streaming
  <1>28. CASE LoseACK
    BY <1>28, FlagsAre, ModesAssumption
       DEF LoseACK, historyVars, coreVars, clientVars, watchdogVars, rendererVars,
           modeVars, uiVars, SessionInv, QueueInv, PlacesInv, ModesInv, Streaming
  <1>29. CASE CoreStops
    BY <1>29, FlagsAre, ModesAssumption
       DEF CoreStops, historyVars, netVars, clientVars, watchdogVars, rendererVars,
           modeVars, uiVars, SessionInv, QueueInv, PlacesInv, ModesInv, Streaming
  <1> QED
    BY <1>1, <1>2, <1>3, <1>4, <1>5, <1>6, <1>7, <1>8, <1>9, <1>10, <1>11, <1>12, <1>13,
       <1>14, <1>15, <1>16, <1>17, <1>18, <1>19, <1>20, <1>21, <1>22, <1>23, <1>24, <1>25,
       <1>26, <1>27, <1>28, <1>29
       DEF Next, Worker

\* No answer runs ahead of what was sent.
LEMMA AnswersInvStep ==
  ASSUME SessionInv, [Next]_vars PROVE AnswersInv'
  <1>1. CASE
         \/ NextDraw \/ ModeInForce \/ SwitchRejected \/ StartSwitch \/ SwitchTimeout
         \/ SkipFirstBlit \/ BlitBackOff \/ ReplayTimeout \/ SyncDone \/ CoolDown
         \/ CommandVanishes \/ CoreStarts \/ LoseCommand
         \/ \E m \in Modes : SetModeline(m)
         \/ UNCHANGED vars
    <2>1. UNCHANGED <<torndown, clientFrame, frameEcho, toHost, coreClient, coreEcho>>
      BY <1>1
         DEF SetModeline, NextDraw, ModeInForce, SwitchRejected, StartSwitch,
             SwitchTimeout, SkipFirstBlit, BlitBackOff, ReplayTimeout, SyncDone, CoolDown,
             CommandVanishes, CoreStarts, LoseCommand, uiVars, modeVars, rendererVars,
             watchdogVars, clientVars, netVars, coreVars, historyVars, vars
    <2> QED
      BY <2>1 DEF SessionInv, AnswersInv, EchoNeverAhead, NumbersInv
  <1>2. CASE StopStream
    BY <1>2, FlagsAre, NumbersAre, WireIsTyped
       DEF StopStream, historyVars, coreVars, rendererVars, modeVars, uiVars, SessionInv,
           AnswersInv, EchoNeverAhead, NumbersInv
  <1>3. CASE StartInit
    BY <1>3, SessionBegins, FlagsAre, NumbersAre, WireIsTyped
       DEF StartInit, historyVars, watchdogVars, rendererVars, modeVars, uiVars,
           SessionInv, AnswersInv, EchoNeverAhead, NumbersInv
  <1>4. CASE InitAcked
    BY <1>4, AnswerTaken, FlagsAre, NumbersAre, WireIsTyped
       DEF InitAcked, historyVars, coreVars, modeVars, uiVars, SessionInv, AnswersInv,
           EchoNeverAhead, NumbersInv
  <1>5. CASE InitFailed
    BY <1>5, FlagsAre, NumbersAre, WireIsTyped
       DEF InitFailed, historyVars, coreVars, watchdogVars, rendererVars, modeVars,
           uiVars, SessionInv, AnswersInv, EchoNeverAhead, NumbersInv
  <1>6. CASE SwitchAcked
    BY <1>6, AnswerTaken, FlagsAre, NumbersAre, WireIsTyped
       DEF SwitchAcked, historyVars, coreVars, watchdogVars, uiVars, SessionInv,
           AnswersInv, EchoNeverAhead, NumbersInv
  <1>7. CASE PackFails
    BY <1>7, NumberTaken, FlagsAre, NumbersAre, WireIsTyped
       DEF PackFails, historyVars, modeVars, uiVars, SessionInv, AnswersInv,
           EchoNeverAhead, NumbersInv
  <1>8. CASE PackFrame
    BY <1>8, NumberTaken, FlagsAre, NumbersAre, WireIsTyped
       DEF PackFrame, historyVars, modeVars, uiVars, SessionInv, AnswersInv,
           EchoNeverAhead, NumbersInv
  <1>9. CASE BlitNoMiss
    BY <1>9, FlagsAre, NumbersAre, WireIsTyped, SMTT(30)
       DEF BlitNoMiss, coreVars, rendererVars, modeVars, uiVars, SendBlit, EchoAdvanced,
           EchoMissed, Armed, SessionInv, AnswersInv, EchoNeverAhead, NumbersInv
  <1>10. CASE BlitMissed
    BY <1>10, FlagsAre, NumbersAre, WireIsTyped, SMTT(30)
       DEF BlitMissed, coreVars, rendererVars, modeVars, uiVars, SendBlit, EchoMissed,
           Armed, SessionInv, AnswersInv, EchoNeverAhead, NumbersInv
  <1>11. CASE Reconnect
    BY <1>11, SessionBegins, FlagsAre, NumbersAre, WireIsTyped
       DEF Reconnect, historyVars, rendererVars, modeVars, uiVars, EchoMissed, Armed,
           SessionInv, AnswersInv, EchoNeverAhead, NumbersInv
  <1>12. CASE ReconnectAcked
    BY <1>12, AnswerTaken, FlagsAre, NumbersAre, WireIsTyped
       DEF ReconnectAcked, historyVars, coreVars, rendererVars, modeVars, uiVars,
           SessionInv, AnswersInv, EchoNeverAhead, NumbersInv
  <1>13. CASE ReconnectFailed
    BY <1>13, FlagsAre, NumbersAre, WireIsTyped
       DEF ReconnectFailed, historyVars, coreVars, rendererVars, modeVars, uiVars,
           SessionInv, AnswersInv, EchoNeverAhead, NumbersInv
  <1>14. CASE ReplayAcked
    BY <1>14, AnswerTaken, FlagsAre, NumbersAre, WireIsTyped
       DEF ReplayAcked, historyVars, coreVars, rendererVars, modeVars, uiVars, SessionInv,
           AnswersInv, EchoNeverAhead, NumbersInv
  <1>15. CASE SyncPoll
    BY <1>15, AnswerTaken, FlagsAre, NumbersAre, WireIsTyped
       DEF SyncPoll, historyVars, coreVars, watchdogVars, rendererVars, modeVars, uiVars,
           SessionInv, AnswersInv, EchoNeverAhead, NumbersInv
  <1>16. CASE CoreReceives
    <2>1. /\ clientFrame \in Nat /\ toHost \in Seq(FrameNumber)
          /\ \A i \in 1 .. Len(toHost) : toHost[i] <= clientFrame
          /\ torndown => toHost = <<>>
          /\ frameEcho <= clientFrame
      BY NumbersAre, WireIsTyped DEF SessionInv, AnswersInv, EchoNeverAhead
    <2>2. UNCHANGED <<clientFrame, torndown, frameEcho>>
      BY <1>16, CoreReads DEF clientVars
    <2>3. coreClient' = "cur" => coreEcho' <= clientFrame
      BY <1>16, CoreReads
    <2>4. CASE toHost' = toHost
      BY <2>1, <2>2, <2>3, <2>4 DEF AnswersInv, EchoNeverAhead
    <2>5. CASE toHost' = Append(toHost, coreEcho') /\ coreClient' = "cur" /\ ~torndown
      <3>1. coreEcho' \in FrameNumber
        BY <1>16, CoreReads
      <3>2. /\ Len(toHost) \in Nat /\ Len(toHost') = Len(toHost) + 1
            /\ \A i \in 1 .. Len(toHost) : toHost'[i] = toHost[i]
            /\ toHost'[Len(toHost) + 1] = coreEcho'
        BY <2>1, <2>5, <3>1, AppendQueue
      <3>3. \A i \in 1 .. Len(toHost') : toHost'[i] <= clientFrame
        BY <2>1, <2>3, <2>5, <3>2
      <3> QED
        BY <2>1, <2>2, <2>3, <2>5, <3>3 DEF AnswersInv, EchoNeverAhead
    <2> QED
      BY <1>16, <2>4, <2>5, CoreReads
  <1>17. CASE LoseACK
    <2>1. PICK k \in DOMAIN toHost : toHost' = RemoveAt(toHost, k)
      BY <1>17 DEF LoseACK
    <2>2. toHost \in Seq(FrameNumber) /\ Drops(toHost, toHost', k)
      BY <2>1, WireIsTyped, RemoveDrops
    <2>3. toHost # <<>>
      BY <2>1
    <2>4. \A i \in 1 .. Len(toHost') : toHost'[i] <= clientFrame
      <3>1. \A i \in 1 .. Len(toHost) : toHost[i] <= clientFrame
        BY DEF SessionInv, AnswersInv
      <3>2. \A i \in 1 .. Len(toHost') : (IF i < k THEN i ELSE i + 1) \in 1 .. Len(toHost)
        BY <2>1, <2>2 DEF Drops
      <3> QED
        BY <2>2, <3>1, <3>2 DEF Drops
    <2>5. UNCHANGED <<clientFrame, torndown, frameEcho, coreClient, coreEcho>>
      BY <1>17 DEF LoseACK, clientVars, coreVars
    <2> QED
      BY <2>3, <2>4, <2>5, FlagsAre DEF SessionInv, AnswersInv, EchoNeverAhead
  <1>18. CASE CoreStops
    BY <1>18, FlagsAre, NumbersAre, WireIsTyped
       DEF CoreStops, historyVars, netVars, clientVars, watchdogVars, rendererVars,
           modeVars, uiVars, SessionInv, AnswersInv, EchoNeverAhead, NumbersInv
  <1> QED
    BY <1>1, <1>2, <1>3, <1>4, <1>5, <1>6, <1>7, <1>8, <1>9, <1>10, <1>11, <1>12, <1>13,
       <1>14, <1>15, <1>16, <1>17, <1>18
       DEF Next, Worker

\* No step but the loss of a CMD_SWITCHRES puts a wrong picture before the core.
LEMMA FitInvStep ==
  ASSUME SessionInv, [Next]_vars PROVE FitInv'
  <1>1. CASE
         \/ InitFailed \/ NextDraw \/ ModeInForce \/ SwitchRejected \/ SwitchAcked
         \/ SkipFirstBlit \/ BlitBackOff \/ ReconnectFailed \/ ReplayAcked \/ SyncPoll
         \/ SyncDone \/ CoolDown \/ CoreStarts \/ LoseACK
         \/ \E m \in Modes : SetModeline(m)
         \/ UNCHANGED vars
    <2>1. UNCHANGED <<connected, sizeMode, toCore, coreMode, switchresLost>>
      BY <1>1
         DEF SetModeline, InitFailed, NextDraw, ModeInForce, SwitchRejected, SwitchAcked,
             SkipFirstBlit, BlitBackOff, ReconnectFailed, ReplayAcked, SyncPoll, SyncDone,
             CoolDown, CoreStarts, LoseACK, uiVars, modeVars, rendererVars, watchdogVars,
             clientVars, netVars, coreVars, historyVars, vars
    <2> QED
      BY <2>1 DEF SessionInv, FitInv, ModesInv, PlacesInv, Streaming, QueueInv, CoreInv
  <1>2. CASE StopStream
    BY <1>2, AppendControl, FlagsAre, WireIsTyped, ModesAssumption
       DEF StopStream, historyVars, coreVars, rendererVars, modeVars, uiVars, SessionInv,
           FitInv, ModesInv, PlacesInv, Streaming, QueueInv, CoreInv
  <1>3. CASE StartInit
    BY <1>3, SessionBegins, FlagsAre, WireIsTyped, ModesAssumption
       DEF StartInit, historyVars, watchdogVars, rendererVars, modeVars, uiVars,
           SessionInv, FitInv, ModesInv, PlacesInv, Streaming, QueueInv, CoreInv
  <1>4. CASE InitAcked
    <2>1. ~initialized /\ NoControl(toCore) /\ toCore \in Seq(Command)
      BY <1>4, AnswerTaken, WireIsTyped DEF InitAcked, SessionInv, PlacesInv
    <2>2. AllControl(toCore) /\ sizeMode = NoMode /\ coreMode = NoMode
      BY <2>1 DEF SessionInv, QueueInv, ModesInv, CoreInv
    <2>3. Len(toCore) \in Nat /\ ~(Len(toCore) >= 1)
      BY <2>1, <2>2 DEF NoControl, AllControl
    <2>4. Fits(toCore, coreMode) /\ HoldsAt(toCore, coreMode, Len(toCore) + 1, sizeMode)
      BY <2>2, <2>3 DEF Fits, HoldsAt
    <2>5. UNCHANGED <<toCore, coreMode, sizeMode>>
      BY <1>4 DEF InitAcked, coreVars
    <2> QED
      BY <2>4, <2>5 DEF FitInv
  <1>5. CASE StartSwitch
    BY <1>5, SwitchresSent, NumbersAre, FlagsAre, WireIsTyped, ModesAssumption
       DEF StartSwitch, historyVars, coreVars, watchdogVars, uiVars, SessionInv, FitInv,
           ModesInv, PlacesInv, Streaming, QueueInv, CoreInv
  <1>6. CASE SwitchTimeout
    BY <1>6, SwitchresSent, FlagsAre, WireIsTyped, ModesAssumption
       DEF SwitchTimeout, historyVars, coreVars, watchdogVars, rendererVars, modeVars,
           uiVars, SessionInv, FitInv, ModesInv, PlacesInv, Streaming, QueueInv, CoreInv
  <1>7. CASE PackFails
    BY <1>7, QueueAged, FlagsAre, WireIsTyped, ModesAssumption
       DEF PackFails, historyVars, modeVars, uiVars, SessionInv, FitInv, ModesInv,
           PlacesInv, Streaming, QueueInv, CoreInv
  <1>8. CASE PackFrame
    BY <1>8, QueueAged, FlagsAre, WireIsTyped, ModesAssumption
       DEF PackFrame, historyVars, modeVars, uiVars, SessionInv, FitInv, ModesInv,
           PlacesInv, Streaming, QueueInv, CoreInv
  <1>9. CASE BlitNoMiss
    BY <1>9, BlitSent, FlagsAre, WireIsTyped, ModesAssumption
       DEF BlitNoMiss, coreVars, rendererVars, modeVars, uiVars, EchoAdvanced, EchoMissed,
           Armed, SessionInv, FitInv, ModesInv, PlacesInv, Streaming, QueueInv, CoreInv
  <1>10. CASE BlitMissed
    BY <1>10, BlitSent, FlagsAre, WireIsTyped, ModesAssumption
       DEF BlitMissed, coreVars, rendererVars, modeVars, uiVars, EchoMissed, Armed,
           SessionInv, FitInv, ModesInv, PlacesInv, Streaming, QueueInv, CoreInv
  <1>11. CASE Reconnect
    BY <1>11, SessionBegins, FlagsAre, WireIsTyped, ModesAssumption
       DEF Reconnect, historyVars, rendererVars, modeVars, uiVars, EchoMissed, Armed,
           SessionInv, FitInv, ModesInv, PlacesInv, Streaming, QueueInv, CoreInv
  <1>12. CASE ReconnectAcked
    BY <1>12, AnswerTaken, SwitchresSent, FlagsAre, WireIsTyped, ModesAssumption
       DEF ReconnectAcked, historyVars, coreVars, rendererVars, modeVars, uiVars,
           SessionInv, FitInv, ModesInv, PlacesInv, Streaming, QueueInv, CoreInv
  <1>13. CASE ReplayTimeout
    BY <1>13, SwitchresSent, FlagsAre, WireIsTyped, ModesAssumption
       DEF ReplayTimeout, historyVars, coreVars, rendererVars, modeVars, uiVars,
           SessionInv, FitInv, ModesInv, PlacesInv, Streaming, QueueInv, CoreInv
  <1>14. CASE CoreReceives
    BY <1>14, CoreReads, HeadGone, FlagsAre, WireIsTyped, ModesAssumption
       DEF CoreReceives, historyVars, clientVars, watchdogVars, rendererVars, modeVars,
           uiVars, SessionInv, FitInv, ModesInv, PlacesInv, Streaming, QueueInv, CoreInv
  <1>15. CASE CommandVanishes
    BY <1>15, TailDrops, HeadGone, FlagsAre, WireIsTyped, ModesAssumption
       DEF CommandVanishes, coreVars, clientVars, watchdogVars, rendererVars, modeVars,
           uiVars, NoteLost, SessionInv, FitInv, ModesInv, PlacesInv, Streaming, QueueInv,
           CoreInv
  <1>16. CASE LoseCommand
    BY <1>16, RemoveDrops, LossFits, FlagsAre, WireIsTyped, ModesAssumption
       DEF LoseCommand, coreVars, clientVars, watchdogVars, rendererVars, modeVars,
           uiVars, NoteLost, SessionInv, FitInv, ModesInv, PlacesInv, Streaming, QueueInv,
           CoreInv
  <1>17. CASE CoreStops
    BY <1>17, BlankFits, FlagsAre, WireIsTyped, ModesAssumption
       DEF CoreStops, historyVars, netVars, clientVars, watchdogVars, rendererVars,
           modeVars, uiVars, SessionInv, FitInv, ModesInv, PlacesInv, Streaming, QueueInv,
           CoreInv
  <1> QED
    BY <1>1, <1>2, <1>3, <1>4, <1>5, <1>6, <1>7, <1>8, <1>9, <1>10, <1>11, <1>12, <1>13,
       <1>14, <1>15, <1>16, <1>17
       DEF Next, Worker

-----------------------------------------------------------------------------
(* The results.                                                            *)

\* The parts of the type invariant are all of it.
LEMMA TypesTogether ==
  TypeOK <=> FlagTypes /\ ModeTypes /\ CountTypes /\ FrameTypes /\ WireTypes
  BY DEF TypeOK, FlagTypes, ModeTypes, CountTypes, FrameTypes, WireTypes

\* The invariant holds when the program starts.
LEMMA SessionStarts ==
  ASSUME Init PROVE SessionInv
  <1>1. FlagTypes
    BY DEF Init, FlagTypes
  <1>2. ModeTypes
    BY LimitsAssumption DEF Init, ModeTypes
  <1>3. CountTypes
    BY LimitsAssumption DEF Init, CountTypes
  <1>4. FrameTypes
    BY ZeroFrame DEF Init, FrameTypes
  <1>5. WireTypes
    BY ZeroFrame DEF Init, WireTypes
  <1>6. TypeOK
    BY <1>1, <1>2, <1>3, <1>4, <1>5, TypesTogether
  <1>7. PlacesInv /\ CoreInv
    BY DEF Init, PlacesInv, Streaming, CoreInv
  <1>8. WatchdogInv
    BY LimitsAssumption DEF Init, WatchdogInv, RetryStaysArmed
  <1>9. NumbersInv
    BY DEF Init, NumbersInv
  <1>10. ModesInv
    BY DEF Init, ModesInv, Streaming
  <1>11. Len(toCore) = 0 /\ Len(toHost) = 0
    BY DEF Init
  <1>12. QueueInv
    BY <1>11 DEF Init, QueueInv, Ordered, InitIsLast, PackedInSize, NotAhead, AllControl
  <1>13. AnswersInv
    BY <1>11 DEF Init, AnswersInv, EchoNeverAhead
  <1>14. FitInv
    BY <1>11 DEF Init, FitInv, Fits
  <1> QED
    BY <1>6, <1>7, <1>8, <1>9, <1>10, <1>12, <1>13, <1>14 DEF SessionInv

\* Every step keeps it.
LEMMA SessionKept ==
  ASSUME SessionInv, [Next]_vars PROVE SessionInv'
  <1>1. TypeOK'
    <2>1. FlagTypes' /\ ModeTypes' /\ CountTypes' /\ FrameTypes' /\ WireTypes'
      BY FlagTypesStep, ModeTypesStep, CountTypesStep, FrameTypesStep, WireTypesStep
    <2> QED
      BY <2>1 DEF TypeOK, FlagTypes, ModeTypes, CountTypes, FrameTypes, WireTypes
  <1> QED
    BY <1>1, PlacesInvStep, WatchdogInvStep, NumbersInvStep, ModesInvStep, QueueInvStep,
       AnswersInvStep, CoreInvStep, FitInvStep DEF SessionInv

\* What holds at every step of the session, of every worker, core and network the model
\* allows: the invariant that all the results below follow from.
THEOREM SessionInvariant == Spec => []SessionInv
  <1>1. Init => SessionInv
    BY SessionStarts
  <1>2. SessionInv /\ [Next]_vars => SessionInv'
    BY SessionKept
  <1> QED
    BY <1>1, <1>2, PTL DEF Spec

\* The state of a session is always well formed, whatever is lost and however often the core
\* or the user starts it over (renderer_nogpu.h:298-593).
THEOREM SessionTypeCorrect == Spec => []TypeOK
  <1>1. SessionInv => TypeOK
    BY DEF SessionInv
  <1> QED
    BY <1>1, SessionInvariant, PTL

\* The echo the host acts on is never for a frame it has not sent in this session, so the
\* ACK gate and the raster servo compare frames of one session only
\* (groovymister.cpp:255-279).
THEOREM EchoStaysBehind == Spec => []EchoNeverAhead
  <1>1. SessionInv => EchoNeverAhead
    BY DEF SessionInv, AnswersInv
  <1> QED
    BY <1>1, SessionInvariant, PTL

\* A stream that lost its session is always on its way to another attempt: no way out of a
\* failed reconnect, and nothing that follows it, disarms the watchdog
\* (groovymister.cpp:950-960, 988-993, 1026-1028).
THEOREM RetryIsArmed == Spec => []RetryStaysArmed
  <1>1. SessionInv => RetryStaysArmed
    BY DEF SessionInv, WatchdogInv
  <1> QED
    BY <1>1, SessionInvariant, PTL

\* The byte count of every blit is that of the modeline its picture was packed for, although
\* CmdSwitchres changes the count before the core has agreed and the renderer changes its
\* own size only afterwards (groovymister.cpp:879, renderer_nogpu.h:331-335, 590-593).
THEOREM BlitsCarryTheirSize == Spec => []BlitSizeIsPackedSize
  <1>1. SessionInv => BlitSizeIsPackedSize
    <2> SUFFICES ASSUME SessionInv PROVE BlitSizeIsPackedSize
      OBVIOUS
    <2>1. PackedInSize(toCore) /\ DOMAIN toCore = 1 .. Len(toCore)
      BY WireIsTyped DEF SessionInv, QueueInv
    <2> QED
      BY <2>1 DEF PackedInSize, BlitSizeIsPackedSize
  <1> QED
    BY <1>1, SessionInvariant, PTL

\* A core that holds a modeline is given pictures packed for that modeline only, as long as
\* no CMD_SWITCHRES is lost (renderer_nogpu.h:331).
THEOREM BlitsFitTheCore == Spec => []BlitFitsUnlessLost
  <1>1. SessionInv => BlitFitsUnlessLost
    <2> SUFFICES ASSUME SessionInv, ~switchresLost PROVE BlitFitsCoreMode
      BY DEF BlitFitsUnlessLost
    <2>1. Fits(toCore, coreMode) /\ DOMAIN toCore = 1 .. Len(toCore)
      BY WireIsTyped DEF SessionInv, FitInv
    <2> QED
      BY <2>1 DEF Fits, BlitFitsCoreMode
  <1> QED
    BY <1>1, SessionInvariant, PTL

-----------------------------------------------------------------------------
(* What a step may never do.                                               *)

\* What was added is the last.
LEMMA AppendLast ==
  ASSUME NEW queue \in Seq(Command), NEW msg \in Command
  PROVE  Last(Append(queue, msg)) = msg
  BY AppendQueue DEF Last

\* A blit that is added to what is under way is ahead of the frame sent last.
LEMMA BlitsAdvance ==
  ASSUME SessionInv, [Next]_vars, Len(toCore') > Len(toCore), Last(toCore').kind = "blit"
  PROVE  Last(toCore').frame > clientFrame
  <1>1. toCore \in Seq(Command) /\ Len(toCore) \in Nat
    BY WireIsTyped
  <1>2. toCore' # toCore /\ ~(Len(toCore') <= Len(toCore))
    <2>1. Len(toCore') \in Nat
      BY WireTypesStep DEF WireTypes
    <2> QED
      BY <1>1, <2>1
  <1>3. CloseMsg.kind = "close" /\ InitMsg.kind = "init"
    BY DEF CloseMsg, InitMsg
  <1>4. \A m : SwitchresMsg(m).kind = "switchres"
    BY DEF SwitchresMsg
  <1>5. CASE
         \/ InitAcked \/ InitFailed \/ NextDraw \/ ModeInForce \/ SwitchRejected
         \/ SwitchAcked \/ SkipFirstBlit \/ BlitBackOff \/ ReconnectFailed \/ ReplayAcked
         \/ SyncPoll \/ SyncDone \/ CoolDown \/ CoreStarts \/ LoseACK \/ CoreStops
         \/ \E m \in Modes : SetModeline(m)
         \/ UNCHANGED vars
    <2>1. UNCHANGED toCore
      BY <1>5
         DEF InitAcked, InitFailed, NextDraw, ModeInForce, SwitchRejected, SwitchAcked,
             SkipFirstBlit, BlitBackOff, ReconnectFailed, ReplayAcked, SyncPoll, SyncDone,
             CoolDown, CoreStarts, LoseACK, CoreStops, SetModeline, uiVars, modeVars,
             rendererVars, watchdogVars, clientVars, netVars, coreVars, historyVars, vars
    <2> QED
      BY <1>2, <2>1
  <1>6. CASE StopStream
    <2>1. toCore' = Append(toCore, CloseMsg)
      BY <1>2, <1>6 DEF StopStream
    <2> QED
      BY <1>1, <1>3, <2>1, AppendLast, Sent
  <1>7. CASE StartInit \/ Reconnect
    <2>1. PICK sent \in {toCore, Append(toCore, CloseMsg)} :
            CmdInit(sent) \/ CmdInitSocketError(sent)
      BY <1>7 DEF StartInit, Reconnect
    <2>2. sent \in Seq(Command) /\ Len(sent) \in Nat
      BY <1>1, Sent
    <2>3. /\ Retag(sent) \in Seq(Command) /\ Len(Retag(sent)) = Len(sent)
          /\ \A i \in 1 .. Len(sent) : Retag(sent)[i].kind = sent[i].kind
      BY <2>2, RetagQueue DEF Relabels
    <2>4. CASE CmdInit(sent)
      BY <1>3, <2>3, <2>4, AppendLast, Sent DEF CmdInit
    <2>5. CASE CmdInitSocketError(sent)
      <3>1. toCore' = Retag(sent)
        BY <2>5 DEF CmdInitSocketError
      <3>2. sent # toCore
        BY <1>2, <2>3, <3>1, <1>1
      <3>3. sent = Append(toCore, CloseMsg) /\ Len(sent) = Len(toCore) + 1
        BY <1>1, <2>1, <3>2, AppendQueue, Sent
      <3>4. sent[Len(sent)] = CloseMsg /\ Len(sent) \in 1 .. Len(sent)
        BY <1>1, <3>3, AppendQueue, Sent
      <3> QED
        BY <1>3, <2>3, <3>1, <3>4 DEF Last
    <2> QED
      BY <2>1, <2>4, <2>5
  <1>8. CASE StartSwitch \/ SwitchTimeout \/ ReconnectAcked \/ ReplayTimeout
    <2>1. PICK m \in Modes : toCore' = Append(toCore, SwitchresMsg(m))
      <3>1. CASE StartSwitch
        BY <3>1, NumbersAre DEF StartSwitch
      <3>2. CASE SwitchTimeout
        BY <1>2, <3>2, ModesKept DEF SwitchTimeout
      <3>3. CASE ReconnectAcked
        BY <3>3, ModesKept DEF ReconnectAcked
      <3>4. CASE ReplayTimeout
        BY <1>2, <3>4, ModesKept DEF ReplayTimeout
      <3> QED
        BY <1>8, <3>1, <3>2, <3>3, <3>4
    <2> QED
      BY <1>1, <1>4, <2>1, AppendLast, Sent
  <1>9. CASE PackFails \/ PackFrame
    <2>1. NextFrame
      BY <1>9 DEF PackFails, PackFrame
    <2>2. Len(toCore') = Len(toCore)
      BY <2>1, NumberTaken DEF Relabels
    <2> QED
      BY <1>1, <1>2, <2>2
  <1>10. CASE BlitNoMiss \/ BlitMissed
    <2>1. pc = "blit" /\ SendBlit
      BY <1>10 DEF BlitNoMiss, BlitMissed
    <2>2. toCore' = Append(toCore, BlitMsg(frame, current, sizeMode))
      BY <1>2, <2>1 DEF SendBlit
    <2>3. BlitMsg(frame, current, sizeMode) \in Command
      <3>1. current \in Modes /\ sizeMode = current
        BY <2>1 DEF SessionInv, ModesInv, Streaming
      <3>2. frame \in FrameNumber
        BY DEF SessionInv, TypeOK
      <3> QED
        BY <3>1, <3>2, Sent
    <2>4. Last(toCore').frame = frame
      BY <1>1, <2>2, <2>3, AppendLast DEF BlitMsg
    <2>5. clientFrame < frame /\ frame \in Nat /\ clientFrame \in Nat
      BY <2>1, NumbersAre DEF SessionInv, NumbersInv
    <2> QED
      BY <2>4, <2>5
  <1>11. CASE CommandVanishes \/ LoseCommand \/ CoreReceives
    <2>1. \E k : Drops(toCore, toCore', k)
      <3>1. CASE CommandVanishes \/ CoreReceives
        <4>1. toCore # <<>> /\ toCore' = Tail(toCore)
          BY <3>1 DEF CommandVanishes, CoreReceives
        <4> QED
          BY <1>1, <4>1, TailDrops
      <3>2. CASE LoseCommand
        <4>1. PICK k \in DOMAIN toCore : toCore' = RemoveAt(toCore, k)
          BY <3>2 DEF LoseCommand
        <4> QED
          BY <1>1, <4>1, RemoveDrops
      <3> QED
        BY <1>11, <3>1, <3>2
    <2>2. Len(toCore') = Len(toCore) - 1
      BY <2>1 DEF Drops
    <2> QED
      BY <1>1, <1>2, <2>2
  <1> QED
    BY <1>5, <1>6, <1>7, <1>8, <1>9, <1>10, <1>11 DEF Next, Worker

\* Within a session every blit that is sent has a larger number than the frame sent before
\* it, across reconnects and the renderer's realignment (renderer_nogpu.h:338-353,
\* groovymister.cpp:1239).
THEOREM FramesAdvance == Spec => FramesIncrease
  <1>1. SessionInv /\ [Next]_vars =>
          [Len(toCore') > Len(toCore) /\ Last(toCore').kind = "blit"
             => Last(toCore').frame > clientFrame]_vars
    BY BlitsAdvance
  <1> QED
    BY <1>1, SessionInvariant, PTL DEF Spec, FramesIncrease
=============================================================================
