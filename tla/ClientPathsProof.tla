-------------------------- MODULE ClientPathsProof --------------------------
(***************************************************************************)
(* The client's ways out and in, for every number of slots, slices,        *)
(* datagrams and lines: what its sessions acquire and give back, that what *)
(* goes after a command is what the command announced, when a send may be  *)
(* refused, that the client never goes deaf, and how long it sleeps.       *)
(***************************************************************************)
EXTENDS MCClient, GroovySessionProof, TLAPS

(* The send path: the invariant.                                           *)

Names == {Resources[i] : i \in 1 .. Len(Resources)}

\* A session that is closed was torn down; what is open is what the live session and the
\* early returns of CmdInit opened.
Accounts ==
  /\ owned \in [Names -> Nat]
  /\ abandoned \in [Names -> Nat]
  /\ downed \in BOOLEAN
  /\ sending = "closed" => downed
  /\ TornDownOnce

\* The sends m_sendQueue may hold.
Requests == [from : Buffers \cup {"command"}, slice : Nat, stale : BOOLEAN]

\* What a command that went announces, and what is to come of it.
Expectations == [what : Announcements, stale : BOOLEAN, next : Nat]

\* What a buffer may hold.
Pictures == [picture : 0 .. MaxFields, form : {"none", "raw", "packed", "scrap", "sound"}]

\* Where the stream worker is, and its counters.
SendPlaces ==
  /\ compressed \in BOOLEAN /\ behind \in BOOLEAN /\ refused \in BOOLEAN
  /\ inits \in 0 .. MaxInits /\ fields \in 0 .. MaxFields /\ field \in {0, 1}
  /\ sending \in {"closed", "failed", "await", "pack", "encode", "stream", "sync", "sound",
                  "closing"}
  /\ switches \in 0 .. MaxSwitches

\* What the buffers and the last command hold.
SendData == content \in [Buffers -> Pictures] /\ command \in Announcements

\* What is queued never takes more than the slots there are.
Queue ==
  /\ nic \in Seq(Requests) /\ done \in Nat /\ Len(nic) + done <= SendSlots
  /\ expects \in Expectations

\* The sort of everything.
SendState == SendPlaces /\ SendData /\ Queue

\* A session is torn down whenever there is none, and nothing of it is left then.
Sessions ==
  /\ downed <=> sending \in {"closed", "failed"}
  /\ downed => nic = <<>> /\ done = 0 /\ ~behind /\ switches = 0

\* How many slots are taken, at most, when nothing was left over at the last sync.
Allowance ==
  CASE sending \in {"closed", "failed", "sound"} -> 0
    [] sending = "await" -> 1
    [] sending \in {"pack", "encode"} -> 1 + SoundSlices
    [] sending \in {"stream", "closing"} -> 2 + SoundSlices
    [] sending = "sync" -> 2 + SoundSlices + RawSlices

\* If the network keeps up and a frame fits, no more than that is taken.
InBudget == ~behind /\ switches = 0 /\ FrameFits => Len(nic) + done <= Allowance

\* The command that announces the slices to come is the last that was sent, and was not
\* written since.
Announced ==
  IF nic = <<>> THEN expects = [what |-> command, stale |-> FALSE, next |-> 1]
  ELSE nic[Len(nic)].from = "command" /\ ~nic[Len(nic)].stale

\* What the next slices are read from is what the command says.
Prepared ==
  /\ sending \in {"encode", "stream"} =>
       content[FieldBuffer(field)] = [picture |-> fields, form |-> "raw"]
  /\ sending = "stream" =>
       /\ command.slices \in 1 .. RawSlices /\ command.picture = fields
       /\ \/ command.form = "raw"
          \/ /\ command.form = "packed" /\ compressed
             /\ content["packed0"] = [picture |-> fields, form |-> "packed"]
       /\ ~refused => Announced

\* The n-th slice that an announcement promises; the fallback promises nothing.
IsSlice(request, what, n) ==
  \/ compressed /\ what.form = "raw"
  \/ /\ content[request.from] = [picture |-> what.picture, form |-> what.form]
     /\ request.slice = n /\ n <= what.slices

\* No command between the j-th send and the i-th.
OnlySlices(j, i) == \A k \in j + 1 .. i - 1 : nic[k].from # "command"

\* What the i-th send was promised to be, by the command in the queue before it, or by the
\* last that went.
Promised(i) ==
  /\ \A p \in 1 .. i - 1 :
       nic[p].from = "command" /\ ~nic[p].stale /\ OnlySlices(p, i)
         => IsSlice(nic[i], command, i - p)
  /\ ~expects.stale /\ OnlySlices(0, i) => IsSlice(nic[i], expects.what, expects.next + i - 1)

\* Unless a send was refused, all that is queued and not overwritten keeps the promise.
Promises ==
  ~refused => \A i \in 1 .. Len(nic) :
                nic[i].from # "command" /\ ~nic[i].stale => Promised(i)

\* Everything but the accounts.
Line == SendState /\ Sessions /\ InBudget /\ Prepared /\ Promises

\* The inductive invariant of the send path.
SendInv == Accounts /\ Line

-----------------------------------------------------------------------------
(* What the sessions acquire and give back.                                *)

\* What teardownVideo gives back is among what CmdInit acquires.
LEMMA ReleasedNames == Released \subseteq Names
<1> SUFFICES ASSUME NEW r \in Released PROVE \E i \in 1 .. Len(Resources) : Resources[i] = r
  BY DEF Names
<1>1. Len(Resources) = 10
  BY DEF Resources
<1>2. /\ Resources[1] = "winsock" /\ Resources[2] = "socket"
      /\ Resources[4] = "commandBuffer" /\ Resources[6] = "fieldBuffer0"
      /\ Resources[7] = "fieldBuffer1" /\ Resources[8] = "audioBuffer"
      /\ Resources[9] = "sendQueue" /\ Resources[10] = "receiveQueue"
  BY DEF Resources
<1> QED
  BY <1>1, <1>2 DEF Released

\* CmdInit acquires each resource at most once, and all of them when it does not fail.
LEMMA AcquiredOnce ==
  ASSUME owned \in [Names -> Nat], NEW n \in Nat
  PROVE  /\ Acquired(n) \in [Names -> Nat]
         /\ \A r \in Names : Acquired(n)[r] - owned[r] \in Nat
         /\ n = Len(Resources) => \A r \in Names : Acquired(n)[r] = owned[r] + 1
<1>1. Acquired(n) \in [Names -> Nat]
  BY DEF Acquired
<1>2. ASSUME n = Len(Resources), NEW r \in Names PROVE Acquired(n)[r] = owned[r] + 1
  <2>1. \E i \in 1 .. n : Resources[i] = r
    BY <1>2 DEF Names
  <2> QED
    BY <2>1 DEF Acquired
<1>3. ASSUME NEW r \in Names PROVE Acquired(n)[r] - owned[r] \in Nat
  BY DEF Acquired
<1> QED
  BY <1>1, <1>2, <1>3

\* Nothing is open at first.
LEMMA InitAccounts == SendInit => Accounts
<1> SUFFICES ASSUME SendInit PROVE Accounts
  OBVIOUS
<1>1. owned = [r \in Names |-> 0] /\ abandoned = owned /\ downed = TRUE
  BY DEF SendInit, Names
<1>2. \A r \in Released : owned[r] = abandoned[r] + 0
  BY <1>1, ReleasedNames
<1> QED
  BY <1>1, <1>2 DEF Accounts, TornDownOnce

\* teardownVideo gives back what the live session has, and nothing when there is none.
LEMMA TeardownAccounts == ASSUME Accounts, Teardown PROVE Accounts' /\ downed'
<1>1. downed' = TRUE /\ abandoned' = abandoned
  BY DEF Teardown
<1>2. owned' =
        [r \in Names |-> IF ~downed /\ r \in Released THEN owned[r] - 1 ELSE owned[r]]
  BY DEF Teardown, Accounts
<1>3. owned' \in [Names -> Nat]
  <2> SUFFICES ASSUME NEW r \in Names
               PROVE  (IF ~downed /\ r \in Released THEN owned[r] - 1 ELSE owned[r]) \in Nat
    BY <1>2
  <2>1. owned[r] \in Nat /\ abandoned[r] \in Nat
    BY DEF Accounts
  <2>2. ~downed /\ r \in Released => owned[r] = abandoned[r] + 1
    BY DEF Accounts, TornDownOnce
  <2> QED
    BY <2>1, <2>2
<1>4. ASSUME NEW r \in Released PROVE owned'[r] = abandoned'[r]
  <2>1. r \in Names /\ owned[r] \in Nat /\ abandoned[r] \in Nat
    BY ReleasedNames DEF Accounts
  <2>2. owned[r] = abandoned[r] + (IF downed THEN 0 ELSE 1)
    BY DEF Accounts, TornDownOnce
  <2> QED
    BY <1>1, <1>2, <2>1, <2>2
<1>5. \A r \in Released : owned'[r] = abandoned'[r] + 0
  <2> SUFFICES ASSUME NEW r \in Released PROVE owned'[r] = abandoned'[r] + 0
    OBVIOUS
  <2>1. abandoned'[r] \in Nat
    BY <1>1, ReleasedNames DEF Accounts
  <2> QED
    BY <1>4, <2>1
<1> QED
  BY <1>1, <1>3, <1>5 DEF Accounts, TornDownOnce

\* What an early return leaves open is what it abandons.
LEMMA EarlyReturnAccounts == ASSUME Accounts, CmdInitReturnsEarly PROVE Accounts'
<1>1. sending = "closed" /\ sending' = "failed" /\ downed' = downed
  BY DEF CmdInitReturnsEarly, Goes
<1>2. PICK n \in FailAt :
        /\ owned' = Acquired(n)
        /\ abandoned' = [r \in DOMAIN abandoned |-> abandoned[r] + owned'[r] - owned[r]]
  BY DEF CmdInitReturnsEarly
<1>3. owned' \in [Names -> Nat] /\ \A r \in Names : owned'[r] - owned[r] \in Nat
  <2>1. n \in Nat
    BY SendAssumption
  <2> QED
    BY <1>2, <2>1, AcquiredOnce DEF Accounts
<1>4. abandoned' \in [Names -> Nat]
  <2>1. \A r \in Names : abandoned[r] + owned'[r] - owned[r] \in Nat
    BY <1>3 DEF Accounts
  <2> QED
    BY <1>2, <2>1 DEF Accounts
<1>5. ASSUME NEW r \in Released PROVE owned'[r] = abandoned'[r] + 0
  <2>1. r \in Names /\ owned[r] \in Nat /\ abandoned[r] \in Nat /\ owned'[r] \in Nat
    BY <1>3, ReleasedNames DEF Accounts
  <2>2. owned[r] = abandoned[r] + 0
    BY <1>1 DEF Accounts, TornDownOnce
  <2>3. abandoned'[r] = abandoned[r] + owned'[r] - owned[r]
    BY <1>2, <2>1 DEF Accounts
  <2> QED
    BY <2>1, <2>2, <2>3
<1> QED
  BY <1>1, <1>3, <1>4, <1>5 DEF Accounts, TornDownOnce

\* A session that opens has one of each.
LEMMA OpenAccounts == ASSUME Accounts, OpenSession PROVE Accounts'
<1>1. /\ sending = "closed" /\ sending' = "await" /\ downed' = FALSE
      /\ owned' = Acquired(Len(Resources)) /\ abandoned' = abandoned
  BY DEF OpenSession, Goes
<1>2. Len(Resources) \in Nat
  BY DEF Resources
<1>3. owned' \in [Names -> Nat] /\ \A r \in Names : owned'[r] = owned[r] + 1
  BY <1>1, <1>2, AcquiredOnce DEF Accounts
<1>4. ASSUME NEW r \in Released PROVE owned'[r] = abandoned'[r] + 1
  <2>1. r \in Names /\ owned[r] \in Nat /\ abandoned[r] \in Nat
    BY ReleasedNames DEF Accounts
  <2>2. owned[r] = abandoned[r] + 0
    BY <1>1 DEF Accounts, TornDownOnce
  <2> QED
    BY <1>1, <1>3, <2>1, <2>2
<1> QED
  BY <1>1, <1>3, <1>4 DEF Accounts, TornDownOnce

\* Nothing else touches what is open.
LEMMA KeptAccounts ==
  ASSUME Accounts, UNCHANGED sessionVars, sending' = "closed" => sending = "closed"
  PROVE  Accounts'
  BY DEF Accounts, TornDownOnce, sessionVars

\* The accounts hold at every step.
LEMMA StepAccounts == Accounts /\ [SendNext]_sendVars => Accounts'
<1> SUFFICES ASSUME Accounts, [SendNext]_sendVars PROVE Accounts'
  OBVIOUS
<1>1. CASE CmdInitReturnsEarly
  BY <1>1, EarlyReturnAccounts
<1>2. CASE OpenSession
  BY <1>2, OpenAccounts
<1>3. CASE InitTimesOut \/ CloseFailed \/ CmdClose \/ RebuildSession
  BY <1>3, TeardownAccounts DEF InitTimesOut, CloseFailed, CmdClose, RebuildSession
<1>4. CASE InitAcknowledged \/ NoSound
  BY <1>4, KeptAccounts DEF InitAcknowledged, NoSound, Goes
<1>5. CASE SendClose \/ SendSwitchres \/ FillField \/ AnnounceRaw
  BY <1>5, KeptAccounts DEF SendClose, SendSwitchres, FillField, AnnounceRaw, Keeps, Goes
<1>6. CASE AnnouncePacked \/ AnnounceFallback \/ StreamField \/ SendSound
  BY <1>6, KeptAccounts
     DEF AnnouncePacked, AnnounceFallback, StreamField, SendSound, Keeps, Goes
<1>7. CASE Sync \/ Transmit
  BY <1>7, KeptAccounts DEF Sync, Transmit, Goes
<1>8. CASE UNCHANGED sendVars
  BY <1>8, KeptAccounts DEF sendVars
<1> QED
  BY <1>1, <1>2, <1>3, <1>4, <1>5, <1>6, <1>7, <1>8 DEF SendNext

-----------------------------------------------------------------------------
(* Sequences, and how the queue grows.                                     *)

\* A sequence appended to another.
LEMMA Joined ==
  ASSUME NEW S, NEW s \in Seq(S), NEW t \in Seq(S)
  PROVE  /\ s \o t \in Seq(S) /\ Len(s \o t) = Len(s) + Len(t)
         /\ \A i \in 1 .. Len(s) : (s \o t)[i] = s[i]
         /\ \A i \in Len(s) + 1 .. Len(s) + Len(t) : (s \o t)[i] = t[i - Len(s)]
<1>1. s \o t \in Seq(S)
  OBVIOUS
<1>2. Len(s \o t) = Len(s) + Len(t)
  OBVIOUS
<1>3. \A i \in 1 .. Len(s) : (s \o t)[i] = s[i]
  OBVIOUS
<1>4. \A i \in Len(s) + 1 .. Len(s) + Len(t) : (s \o t)[i] = t[i - Len(s)]
  OBVIOUS
<1> QED
  BY <1>1, <1>2, <1>3, <1>4

\* The first elements of a sequence.
LEMMA Cut ==
  ASSUME NEW S, NEW s \in Seq(S), NEW n \in 0 .. Len(s)
  PROVE  /\ SubSeq(s, 1, n) \in Seq(S) /\ Len(SubSeq(s, 1, n)) = n
         /\ \A i \in 1 .. n : SubSeq(s, 1, n)[i] = s[i]
<1>1. SubSeq(s, 1, n) \in Seq(S)
  OBVIOUS
<1>2. Len(SubSeq(s, 1, n)) = n
  OBVIOUS
<1>3. \A i \in 1 .. n : SubSeq(s, 1, n)[i] = s[i]
  OBVIOUS
<1> QED
  BY <1>1, <1>2, <1>3

\* As many as there is room for.
LEMMA RoomFor ==
  ASSUME NEW l \in Nat, NEW d \in Nat, NEW s \in Nat, NEW n \in Nat, l + d <= s
  PROVE  LET room == s - l - d
             fit == IF n <= room THEN n ELSE room
         IN  fit \in 0 .. n /\ l + d + fit <= s /\ (l + d + n <= s => fit = n)
  OBVIOUS

\* The sorts of the constants.
LEMMA Sizes ==
  /\ SendSlots \in Nat \ {0} /\ RawSlices \in Nat \ {0} /\ SoundSlices \in Nat \ {0}
  /\ MaxFields \in Nat /\ MaxSwitches \in Nat /\ MaxInits \in Nat
<1>1. {SendSlots, RawSlices, SoundSlices} \subseteq Nat \ {0}
  BY SendAssumption
<1>2. {MaxFields, MaxSwitches, MaxInits} \subseteq Nat
  BY SendAssumption
<1> QED
  BY <1>1, <1>2

\* A send, after the buffers that are written now.
Aged(request, written) ==
  [from |-> request.from, slice |-> request.slice,
   stale |-> request.stale \/ request.from \in written]

\* The queue after some buffers are written and some sends are queued, as many as fit.
Grows(written, requests) ==
  /\ nic' \in Seq(Requests)
  /\ Len(nic') \in Len(nic) .. Len(nic) + Len(requests)
  /\ Len(nic') + done <= SendSlots
  /\ \A i \in 1 .. Len(nic) : nic'[i] = Aged(nic[i], written)
  /\ \A i \in Len(nic) + 1 .. Len(nic') : nic'[i] = requests[i - Len(nic)]
  /\ refused' \in BOOLEAN /\ (refused => refused')
  /\ ~refused' => Len(nic') = Len(nic) + Len(requests)
  /\ Len(nic) + done + Len(requests) <= SendSlots => refused' = refused

\* The one send of m_bufferSend.
OneCommand == <<Request("command", 0)>>

\* The sorts of what is sent.
LEMMA RequestSort ==
  ASSUME NEW b \in Buffers \cup {"command"}, NEW i \in Nat PROVE Request(b, i) \in Requests
  BY DEF Request, Requests

\* A command is one send.
LEMMA CommandSort ==
  OneCommand \in Seq(Requests) /\ Len(OneCommand) = 1 /\ OneCommand[1] = Request("command", 0)
<1>1. Request("command", 0) \in Requests
  BY RequestSort
<1> QED
  BY <1>1 DEF OneCommand

\* The slices of a buffer are sent in order.
LEMMA SlicesSort ==
  ASSUME NEW b \in Buffers, NEW n \in Nat
  PROVE  /\ Slices(b, n) \in Seq(Requests) /\ Len(Slices(b, n)) = n
         /\ \A i \in 1 .. n : Slices(b, n)[i] = Request(b, i)
<1>1. \A i \in 1 .. n : Request(b, i) \in Requests
  BY RequestSort
<1> QED
  BY <1>1 DEF Slices

\* CmdAudio sends its command, and the slices of the sound after it.
LEMMA SoundSort ==
  LET requests == OneCommand \o Slices("audio", SoundSlices)
  IN  /\ requests \in Seq(Requests) /\ Len(requests) = 1 + SoundSlices
      /\ requests[1] = Request("command", 0)
      /\ \A i \in 2 .. 1 + SoundSlices : requests[i] = Request("audio", i - 1)
<1> DEFINE slices == Slices("audio", SoundSlices)
           requests == OneCommand \o slices
<1>1. slices \in Seq(Requests)
  BY SlicesSort, Sizes DEF Buffers
<1>2. Len(slices) = SoundSlices /\ \A i \in 1 .. SoundSlices : slices[i] = Request("audio", i)
  BY SlicesSort, Sizes DEF Buffers
<1>3. OneCommand \in Seq(Requests)
  BY CommandSort
<1> HIDE DEF slices
<1>4. requests \in Seq(Requests)
  BY <1>1, <1>3
<1>5. Len(requests) = Len(OneCommand) + Len(slices)
  BY <1>1, <1>3
<1>6. /\ \A i \in 1 .. Len(OneCommand) : requests[i] = OneCommand[i]
      /\ \A i \in Len(OneCommand) + 1 .. Len(OneCommand) + Len(slices) :
           requests[i] = slices[i - Len(OneCommand)]
  BY <1>1, <1>3, Joined
<1> HIDE DEF requests
<1>7. Len(requests) = 1 + SoundSlices /\ requests[1] = Request("command", 0)
  BY <1>2, <1>5, <1>6, CommandSort, Sizes
<1>8. \A i \in 2 .. 1 + SoundSlices : requests[i] = Request("audio", i - 1)
  <2> SUFFICES ASSUME NEW i \in 2 .. 1 + SoundSlices
               PROVE  requests[i] = Request("audio", i - 1)
    OBVIOUS
  <2>1. i \in 1 + 1 .. 1 + SoundSlices /\ i - 1 \in 1 .. SoundSlices
    BY Sizes
  <2>2. requests[i] = slices[i - 1]
    BY <2>1, <1>2, <1>6, CommandSort
  <2> QED
    BY <2>1, <2>2, <1>2
<1> QED
  BY <1>4, <1>7, <1>8 DEF requests, slices

\* SendStream sends slices of a buffer there is.
LEMMA FieldSort ==
  ASSUME SendState
  PROVE  Payload \in Buffers /\ FieldBuffer(field) \in Buffers /\ command.slices \in Nat
<1>1. field \in {0, 1}
  BY DEF SendState, SendPlaces
<1>2. Payload \in Buffers /\ FieldBuffer(field) \in Buffers
  BY <1>1 DEF Payload, Registered, FieldBuffer, Buffers
<1>3. command.slices \in {0} \cup 1 .. RawSlices \cup {SoundSlices}
  BY DEF SendState, SendData, Announcements
<1>4. command.slices \in Nat
  BY <1>3, Sizes
<1> QED
  BY <1>2, <1>4

\* A send stays a send.
LEMMA AgedSort ==
  ASSUME NEW r \in Requests, NEW S PROVE Aged(r, S) \in Requests
  BY DEF Aged, Requests

\* Of a send, only whether it is stale changes.
LEMMA AgedFields ==
  ASSUME NEW r \in Requests, NEW S
  PROVE  /\ Aged(r, S).from = r.from /\ Aged(r, S).slice = r.slice
         /\ Aged(r, S).stale <=> (r.stale \/ r.from \in S)
<1>1. Aged(r, S).from = r.from /\ Aged(r, S).slice = r.slice
  BY DEF Aged
<1>2. Aged(r, S).stale = (r.stale \/ r.from \in S)
  BY DEF Aged
<1> QED
  BY <1>1, <1>2

\* A buffer is written: the sends that read it are stale.
LEMMA OverwritesAge ==
  ASSUME NEW queue \in Seq(Requests), NEW b
  PROVE  /\ Overwrites(queue, b) \in Seq(Requests)
         /\ Len(Overwrites(queue, b)) = Len(queue)
         /\ \A i \in 1 .. Len(queue) : Overwrites(queue, b)[i] = Aged(queue[i], {b})
<1>1. DOMAIN queue = 1 .. Len(queue) /\ Len(queue) \in Nat
  OBVIOUS
<1>2. \A i \in 1 .. Len(queue) : queue[i] \in Requests
  OBVIOUS
<1>3. \A i \in 1 .. Len(queue) :
        [queue[i] EXCEPT !.stale = @ \/ queue[i].from = b] = Aged(queue[i], {b})
  BY <1>2 DEF Requests, Aged
<1>4. \A i \in 1 .. Len(queue) : Overwrites(queue, b)[i] = Aged(queue[i], {b})
  BY <1>1, <1>3 DEF Overwrites
<1>5. \A i \in 1 .. Len(queue) : Aged(queue[i], {b}) \in Requests
  BY <1>2, AgedSort
<1>6. Overwrites(queue, b) \in Seq(Requests) /\ Len(Overwrites(queue, b)) = Len(queue)
  <2> DEFINE aged == [i \in 1 .. Len(queue) |-> Aged(queue[i], {b})]
  <2>1. Overwrites(queue, b) = aged
    BY <1>1, <1>3 DEF Overwrites
  <2>2. aged \in Seq(Requests)
    BY <1>5
  <2>3. Len(aged) = Len(queue)
    BY <1>1
  <2> QED
    BY <2>1, <2>2, <2>3
<1> QED
  BY <1>4, <1>6

\* One buffer written after another.
LEMMA Age2 ==
  ASSUME NEW r \in Requests, NEW a, NEW b
  PROVE  Aged(Aged(r, {a}), {b}) = Aged(r, {a, b})
  BY DEF Aged, Requests

\* Two buffers are written.
LEMMA OverwritesAgeTwice ==
  ASSUME NEW queue \in Seq(Requests), NEW a, NEW b
  PROVE  LET twice == Overwrites(Overwrites(queue, a), b)
         IN  /\ twice \in Seq(Requests) /\ Len(twice) = Len(queue)
             /\ \A i \in 1 .. Len(queue) : twice[i] = Aged(queue[i], {a, b})
<1> DEFINE once == Overwrites(queue, a)
<1>1. /\ once \in Seq(Requests) /\ Len(once) = Len(queue)
      /\ \A i \in 1 .. Len(queue) : once[i] = Aged(queue[i], {a})
  BY OverwritesAge
<1> HIDE DEF once
<1>2. /\ Overwrites(once, b) \in Seq(Requests) /\ Len(Overwrites(once, b)) = Len(once)
      /\ \A i \in 1 .. Len(once) : Overwrites(once, b)[i] = Aged(once[i], {b})
  BY <1>1, OverwritesAge
<1>3. \A i \in 1 .. Len(queue) : queue[i] \in Requests
  OBVIOUS
<1>4. ASSUME NEW i \in 1 .. Len(queue)
      PROVE  Overwrites(once, b)[i] = Aged(queue[i], {a, b})
  <2>1. Overwrites(once, b)[i] = Aged(once[i], {b}) /\ once[i] = Aged(queue[i], {a})
    BY <1>1, <1>2
  <2>2. Aged(Aged(queue[i], {a}), {b}) = Aged(queue[i], {a, b})
    <3>1. queue[i] \in Requests
      BY <1>3
    <3> QED
      BY <3>1, Age2
  <2> QED
    BY <2>1, <2>2
<1> QED
  BY <1>1, <1>2, <1>4 DEF once

\* RIOSend of each appends as many as there are slots left for.
LEMMA PostGrows ==
  ASSUME Queue, refused \in BOOLEAN, NEW written, NEW queue \in Seq(Requests),
         Len(queue) = Len(nic),
         \A i \in 1 .. Len(nic) : queue[i] = Aged(nic[i], written),
         NEW requests \in Seq(Requests), Post(queue, requests)
  PROVE  Grows(written, requests)
<1> DEFINE room == SendSlots - Len(queue) - done
           fit == IF Len(requests) <= room THEN Len(requests) ELSE room
           going == SubSeq(requests, 1, fit)
<1>1. /\ Len(nic) \in Nat /\ done \in Nat /\ SendSlots \in Nat /\ Len(requests) \in Nat
      /\ Len(nic) + done <= SendSlots
  BY Sizes DEF Queue
<1>2. fit \in 0 .. Len(requests) /\ Len(nic) + done + fit <= SendSlots
  BY <1>1, RoomFor
<1>3. Len(nic) + done + Len(requests) <= SendSlots => fit = Len(requests)
  BY <1>1, RoomFor
<1>4. nic' = queue \o going /\ refused' = (refused \/ fit < Len(requests))
  BY DEF Post
<1> HIDE DEF fit
<1>5. /\ going \in Seq(Requests) /\ Len(going) = fit
      /\ \A i \in 1 .. fit : going[i] = requests[i]
  BY <1>2, Cut
<1> HIDE DEF going
<1>6. /\ nic' \in Seq(Requests) /\ Len(nic') = Len(nic) + fit
      /\ \A i \in 1 .. Len(nic) : nic'[i] = queue[i]
      /\ \A i \in Len(nic) + 1 .. Len(nic) + fit : nic'[i] = going[i - Len(nic)]
  <2>1. going \in Seq(Requests) /\ nic' = queue \o going
    BY <1>4, <1>5
  <2>2. /\ queue \o going \in Seq(Requests) /\ Len(queue \o going) = Len(queue) + Len(going)
        /\ \A i \in 1 .. Len(queue) : (queue \o going)[i] = queue[i]
        /\ \A i \in Len(queue) + 1 .. Len(queue) + Len(going) :
             (queue \o going)[i] = going[i - Len(queue)]
    BY <2>1, Joined, Zenon
  <2> QED
    BY <2>1, <2>2, <1>5
<1>7. \A i \in 1 .. Len(nic) : nic'[i] = Aged(nic[i], written)
  BY <1>6
<1>8. \A i \in Len(nic) + 1 .. Len(nic) + fit : i - Len(nic) \in 1 .. fit
  BY <1>1, <1>2
<1>9. \A i \in Len(nic) + 1 .. Len(nic) + fit : nic'[i] = requests[i - Len(nic)]
  BY <1>5, <1>6, <1>8
<1>10. /\ refused' \in BOOLEAN /\ (refused => refused')
       /\ (~refused' => fit = Len(requests))
       /\ (fit = Len(requests) => refused' = refused)
  <2>1. fit < Len(requests) <=> fit # Len(requests)
    BY <1>1, <1>2
  <2> QED
    BY <2>1, <1>4
<1>11. Len(nic') + done <= SendSlots /\ Len(nic') \in Len(nic) .. Len(nic) + Len(requests)
  BY <1>1, <1>2, <1>6
<1> QED
  BY <1>1, <1>2, <1>3, <1>6, <1>7, <1>9, <1>10, <1>11 DEF Grows

\* Send writes m_bufferSend and queues it.
LEMMA CommandGrows ==
  ASSUME SendState, NEW announced, SendCommand(announced)
  PROVE  Grows({"command"}, OneCommand)
<1>1. Queue /\ refused \in BOOLEAN /\ nic \in Seq(Requests)
  BY DEF SendState, SendPlaces, Queue
<1> DEFINE queue == Overwrites(nic, "command")
<1>2. /\ queue \in Seq(Requests) /\ Len(queue) = Len(nic)
      /\ \A i \in 1 .. Len(nic) : queue[i] = Aged(nic[i], {"command"})
  BY <1>1, OverwritesAge, Zenon
<1>3. Post(queue, OneCommand)
  BY DEF SendCommand, OneCommand
<1> HIDE DEF queue
<1> QED
  BY <1>1, <1>2, <1>3, CommandSort, PostGrows, Zenon

\* The codec writes its output, and then the command goes.
LEMMA PackedGrows ==
  ASSUME SendState, AnnouncePacked \/ AnnounceFallback
  PROVE  Grows({"packed0", "command"}, OneCommand)
<1>1. Queue /\ refused \in BOOLEAN /\ nic \in Seq(Requests)
  BY DEF SendState, SendPlaces, Queue
<1> DEFINE queue == Overwrites(Overwrites(nic, "packed0"), "command")
<1>2. /\ queue \in Seq(Requests) /\ Len(queue) = Len(nic)
      /\ \A i \in 1 .. Len(nic) : queue[i] = Aged(nic[i], {"packed0", "command"})
  BY <1>1, OverwritesAgeTwice, Zenon
<1>3. Post(queue, OneCommand)
  BY DEF AnnouncePacked, AnnounceFallback, OneCommand
<1> HIDE DEF queue
<1> QED
  BY <1>1, <1>2, <1>3, CommandSort, PostGrows, Zenon

\* The sound is written, and goes with its command.
LEMMA SoundGrows ==
  ASSUME SendState, SendSound
  PROVE  Grows({"audio", "command"}, OneCommand \o Slices("audio", SoundSlices))
<1>1. Queue /\ refused \in BOOLEAN /\ nic \in Seq(Requests)
  BY DEF SendState, SendPlaces, Queue
<1> DEFINE queue == Overwrites(Overwrites(nic, "audio"), "command")
           requests == OneCommand \o Slices("audio", SoundSlices)
<1>2. /\ queue \in Seq(Requests) /\ Len(queue) = Len(nic)
      /\ \A i \in 1 .. Len(nic) : queue[i] = Aged(nic[i], {"audio", "command"})
  BY <1>1, OverwritesAgeTwice, Zenon
<1>3. Post(queue, requests)
  BY DEF SendSound, OneCommand
<1>4. requests \in Seq(Requests)
  BY SoundSort
<1> HIDE DEF queue, requests
<1>5. Grows({"audio", "command"}, requests)
  BY <1>1, <1>2, <1>3, <1>4, PostGrows, Zenon
<1> QED
  BY <1>5 DEF requests

\* The slices of a field go, and nothing is written.
LEMMA FieldGrows ==
  ASSUME SendState, StreamField
  PROVE  Grows({}, Slices(Payload, command.slices))
<1>1. Queue /\ refused \in BOOLEAN /\ nic \in Seq(Requests)
  BY DEF SendState, SendPlaces, Queue
<1> DEFINE requests == Slices(Payload, command.slices)
<1>2. \A i \in 1 .. Len(nic) : nic[i] = Aged(nic[i], {})
  <2>1. \A i \in 1 .. Len(nic) : nic[i] \in Requests
    BY <1>1
  <2>2. \A r \in Requests : r = Aged(r, {})
    BY DEF Requests, Aged
  <2> QED
    BY <2>1, <2>2
<1>3. requests \in Seq(Requests)
  BY FieldSort, SlicesSort
<1>4. Post(nic, requests)
  BY DEF StreamField
<1> HIDE DEF requests
<1>5. Grows({}, requests)
  BY <1>1, <1>2, <1>3, <1>4, PostGrows, Zenon
<1> QED
  BY <1>5 DEF requests

\* A field is written, and nothing goes.
LEMMA FillGrows ==
  ASSUME SendState, FillField
  PROVE  Grows({FieldBuffer(field')}, <<>>)
<1>1. Queue /\ refused \in BOOLEAN /\ nic \in Seq(Requests)
  BY DEF SendState, SendPlaces, Queue
<1> DEFINE buffer == FieldBuffer(field')
<1>2. nic' = Overwrites(nic, buffer) /\ refused' = refused
  BY DEF FillField
<1> HIDE DEF buffer
<1>3. /\ nic' \in Seq(Requests) /\ Len(nic') = Len(nic)
      /\ \A i \in 1 .. Len(nic) : nic'[i] = Aged(nic[i], {buffer})
  BY <1>1, <1>2, OverwritesAge, Zenon
<1>4. Len(<<>>) = 0 /\ Len(nic) \in Nat /\ done \in Nat /\ Len(nic) + done <= SendSlots
  BY <1>1 DEF Queue
<1>5. /\ Len(nic') \in Len(nic) .. Len(nic) + 0 /\ Len(nic') + done <= SendSlots
      /\ Len(nic') = Len(nic) + 0
      /\ \A i \in Len(nic) + 1 .. Len(nic') : FALSE
  BY <1>3, <1>4
<1>6. Grows({buffer}, <<>>)
  BY <1>1, <1>2, <1>3, <1>4, <1>5 DEF Grows
<1> QED
  BY <1>6 DEF buffer

\* A queue that grows stays within its slots.
LEMMA GrownQueue ==
  ASSUME SendState, NEW written, NEW requests, Grows(written, requests),
         UNCHANGED <<done, expects>>
  PROVE  Queue'
  BY DEF SendState, Queue, Grows

\* What was promised still is when the queue grows, whatever is written, if what is
\* appended keeps its promises too.
LEMMA PromisesKept ==
  ASSUME SendState, Promises, NEW written, NEW requests, Grows(written, requests),
         compressed' = compressed, expects' = expects,
         command' = command \/ "command" \in written,
         \A b \in Buffers : b \notin written => content'[b] = content[b],
         \A i \in Len(nic) + 1 .. Len(nic') :
           ~refused' /\ nic'[i].from # "command" => Promised(i)'
  PROVE  Promises'
<1> SUFFICES ASSUME ~refused', NEW i \in 1 .. Len(nic'), nic'[i].from # "command",
                    ~nic'[i].stale
             PROVE  Promised(i)'
  BY DEF Promises
<1>1. /\ Len(nic) \in Nat /\ Len(nic') \in Nat /\ Len(nic) <= Len(nic')
      /\ \A k \in 1 .. Len(nic) : nic[k] \in Requests
  BY DEF SendState, Queue, Grows
<1>2. CASE i > Len(nic)
  <2>1. i \in Len(nic) + 1 .. Len(nic')
    BY <1>1, <1>2
  <2> QED
    BY <2>1
<1>3. CASE ~(i > Len(nic))
  <2>1. i \in 1 .. Len(nic) /\ i \in Nat
    BY <1>1, <1>3
  <2>2. \A k \in 1 .. Len(nic) :
          /\ nic'[k].from = nic[k].from /\ nic'[k].slice = nic[k].slice
          /\ nic'[k].stale <=> (nic[k].stale \/ nic[k].from \in written)
    <3> SUFFICES ASSUME NEW k \in 1 .. Len(nic)
                 PROVE  /\ nic'[k].from = nic[k].from /\ nic'[k].slice = nic[k].slice
                        /\ nic'[k].stale <=> (nic[k].stale \/ nic[k].from \in written)
      OBVIOUS
    <3>1. nic'[k] = Aged(nic[k], written)
      BY DEF Grows
    <3> QED
      BY <3>1, <1>1, AgedFields
  <2>3. /\ nic[i].from \in Buffers /\ nic[i].from \notin written /\ ~nic[i].stale
        /\ nic[i].from # "command"
    BY <2>1, <2>2, <1>1 DEF Requests
  <2>4. Promised(i)
    BY <2>1, <2>3 DEF Promises, Grows
  <2>5. content'[nic'[i].from] = content[nic[i].from] /\ nic'[i].slice = nic[i].slice
    BY <2>1, <2>2, <2>3
  <2>6. \A j \in 0 .. i - 1 : OnlySlices(j, i)' => OnlySlices(j, i)
    <3> SUFFICES ASSUME NEW j \in 0 .. i - 1, OnlySlices(j, i)', NEW k \in j + 1 .. i - 1
                 PROVE  nic[k].from # "command"
      BY DEF OnlySlices
    <3>1. nic'[k].from # "command" /\ k \in 1 .. Len(nic)
      BY <1>1, <2>1 DEF OnlySlices
    <3> QED
      BY <3>1, <2>2
  <2>7. ASSUME NEW p \in 1 .. i - 1, nic'[p].from = "command", ~nic'[p].stale,
               OnlySlices(p, i)'
        PROVE  IsSlice(nic[i], command, i - p)'
    <3>1. p \in 1 .. Len(nic) /\ p \in 0 .. i - 1
      BY <1>1, <2>1
    <3>2. nic[p].from = "command" /\ ~nic[p].stale /\ "command" \notin written
      BY <2>2, <2>7, <3>1
    <3>3. IsSlice(nic[i], command, i - p)
      BY <2>4, <2>6, <2>7, <3>1, <3>2 DEF Promised
    <3> QED
      BY <2>5, <3>2, <3>3 DEF IsSlice
  <2>8. ASSUME ~expects'.stale, OnlySlices(0, i)'
        PROVE  IsSlice(nic[i], expects.what, expects.next + i - 1)'
    <3>1. 0 \in 0 .. i - 1
      BY <2>1
    <3>2. IsSlice(nic[i], expects.what, expects.next + i - 1)
      BY <2>4, <2>6, <2>8, <3>1 DEF Promised
    <3> QED
      BY <2>5, <3>2 DEF IsSlice
  <2> QED
    BY <2>7, <2>8 DEF Promised
<1> QED
  BY <1>2, <1>3

\* A command that is appended is the last of the queue, and fresh.
LEMMA CommandIsLast ==
  ASSUME SendState, NEW written, Grows(written, OneCommand)
  PROVE  /\ \A i \in Len(nic) + 1 .. Len(nic') : nic'[i].from = "command"
         /\ ~refused' => nic' # <<>> /\ nic'[Len(nic')].from = "command"
                         /\ ~nic'[Len(nic')].stale
<1>1. Len(nic) \in Nat /\ Len(nic') \in Len(nic) .. Len(nic) + 1
  BY CommandSort DEF SendState, Queue, Grows
<1>2. \A i \in Len(nic) + 1 .. Len(nic') : nic'[i] = OneCommand[i - Len(nic)] /\ i - Len(nic) = 1
  BY <1>1 DEF Grows
<1>3. \A i \in Len(nic) + 1 .. Len(nic') : nic'[i] = Request("command", 0)
  BY <1>2, CommandSort
<1>4. Request("command", 0).from = "command" /\ ~Request("command", 0).stale
  BY DEF Request
<1>5. ASSUME ~refused'
      PROVE  nic' # <<>> /\ nic'[Len(nic')].from = "command" /\ ~nic'[Len(nic')].stale
  <2>1. Len(nic') = Len(nic) + 1
    BY <1>5, CommandSort DEF Grows
  <2>2. nic' # <<>>
    <3>1. Len(<<>>) = 0 /\ Len(nic') # 0
      BY <2>1, <1>1
    <3> QED
      BY <3>1
  <2>3. Len(nic') \in Len(nic) + 1 .. Len(nic')
    BY <2>1, <1>1
  <2> QED
    BY <2>2, <2>3, <1>3, <1>4
<1> QED
  BY <1>3, <1>4, <1>5

\* How a command that is appended leaves the queue.
LEMMA CommandAppended ==
  ASSUME Line, NEW written, Grows(written, OneCommand), "command" \in written,
         UNCHANGED <<done, behind, expects, compressed>>,
         \A b \in Buffers : b \notin written => content'[b] = content[b]
  PROVE  /\ Queue' /\ Promises' /\ refused' \in BOOLEAN
         /\ ~refused' => Announced'
         /\ Len(nic') + done' <= Len(nic) + done + 1
<1>1. Queue'
  BY GrownQueue DEF Line
<1>2. Promises'
  <2>1. \A i \in Len(nic) + 1 .. Len(nic') :
          ~refused' /\ nic'[i].from # "command" => Promised(i)'
    BY CommandIsLast DEF Line
  <2> QED
    BY <2>1, PromisesKept DEF Line
<1>3. ~refused' => Announced'
  BY CommandIsLast DEF Line, Announced
<1>4. Len(nic') + done' <= Len(nic) + done + 1
  <2>1. Len(nic) \in Nat /\ done \in Nat /\ Len(nic') \in Len(nic) .. Len(nic) + 1
    BY CommandSort DEF Line, SendState, Queue, Grows
  <2> QED
    BY <2>1
<1> QED
  BY <1>1, <1>2, <1>3, <1>4 DEF Grows

-----------------------------------------------------------------------------
(* The steps of the send path.                                             *)

\* CMD_CLOSE, the last command of a session.
LEMMA CloseLine == ASSUME Line, SendClose PROVE Line'
<1>1. /\ sending = "pack" /\ sending' = "closing" /\ command' = Nothing
      /\ SendCommand(Nothing) /\ UNCHANGED <<field, fields, content>>
      /\ UNCHANGED <<sessionVars, done, behind, switches, expects>>
  BY DEF SendClose, SendCommand, Goes, Keeps
<1>2. /\ Queue' /\ Promises' /\ refused' \in BOOLEAN
      /\ Len(nic') + done' <= Len(nic) + done + 1
  <2>1. Grows({"command"}, OneCommand)
    BY <1>1, CommandGrows DEF Line
  <2> QED
    BY <1>1, <2>1, CommandAppended DEF sessionVars
<1>3. SendPlaces'
  BY <1>1, <1>2 DEF Line, SendState, SendPlaces, sessionVars
<1>4. SendData'
  <2>1. Nothing \in Announcements
    BY Sizes DEF Nothing, Announcements
  <2> QED
    BY <1>1, <2>1 DEF Line, SendState, SendData
<1>5. Sessions'
  BY <1>1 DEF Line, Sessions, sessionVars
<1>6. InBudget'
  BY <1>1, <1>2, Sizes DEF Line, SendState, Queue, InBudget, Allowance, FrameFits
<1>7. Prepared'
  BY <1>1 DEF Prepared
<1> QED
  BY <1>2, <1>3, <1>4, <1>5, <1>6, <1>7 DEF Line, SendState

\* CMD_SWITCHRES; it is not counted in what the queue is allowed to hold.
LEMMA SwitchresLine == ASSUME Line, SendSwitchres PROVE Line'
<1>1. /\ sending = "pack" /\ sending' = "pack" /\ command' = Nothing
      /\ switches < MaxSwitches /\ switches' = switches + 1
      /\ SendCommand(Nothing) /\ UNCHANGED <<field, fields, content>>
      /\ UNCHANGED <<sessionVars, done, behind, expects>>
  BY DEF SendSwitchres, SendCommand, Goes
<1>2. Queue' /\ Promises' /\ refused' \in BOOLEAN
  <2>1. Grows({"command"}, OneCommand)
    BY <1>1, CommandGrows DEF Line
  <2> QED
    BY <1>1, <2>1, CommandAppended DEF sessionVars
<1>3. switches' \in 0 .. MaxSwitches /\ switches' # 0
  BY <1>1, Sizes DEF Line, SendState, SendPlaces
<1>4. SendPlaces'
  BY <1>1, <1>2, <1>3 DEF Line, SendState, SendPlaces, sessionVars
<1>5. SendData'
  <2>1. Nothing \in Announcements
    BY Sizes DEF Nothing, Announcements
  <2> QED
    BY <1>1, <2>1 DEF Line, SendState, SendData
<1>6. Sessions'
  BY <1>1 DEF Line, Sessions, sessionVars
<1>7. InBudget' /\ Prepared'
  BY <1>1, <1>3 DEF InBudget, Prepared
<1> QED
  BY <1>2, <1>4, <1>5, <1>6, <1>7 DEF Line, SendState

\* The field's buffer is written: whatever was still to be sent from it is stale.
LEMMA FillLine == ASSUME Line, FillField PROVE Line'
<1>1. /\ sending = "pack" /\ sending' = "encode"
      /\ fields < MaxFields /\ fields' = fields + 1 /\ field' \in {0, 1}
      /\ content' = [content EXCEPT ![FieldBuffer(field')] =
                       [picture |-> fields', form |-> "raw"]]
      /\ UNCHANGED <<refused, command, sessionVars, done, behind, switches, expects>>
  BY DEF FillField, Goes, Keeps
<1>2. Grows({FieldBuffer(field')}, <<>>)
  BY FillGrows DEF Line
<1>3. Len(<<>>) = 0 /\ Len(nic) \in Nat
  BY DEF Line, SendState, Queue
<1>4. Len(nic') = Len(nic)
  BY <1>2, <1>3 DEF Grows
<1>5. Queue'
  BY <1>1, <1>2, GrownQueue DEF Line
<1>6. fields' \in 0 .. MaxFields
  BY <1>1, Sizes DEF Line, SendState, SendPlaces
<1>7. SendPlaces'
  BY <1>1, <1>6 DEF Line, SendState, SendPlaces, sessionVars
<1>8. FieldBuffer(field') \in Buffers
  BY <1>1 DEF FieldBuffer, Buffers
<1>9. content' \in [Buffers -> Pictures]
  BY <1>1, <1>6, <1>8 DEF Line, SendState, SendData, Pictures
<1>10. SendData'
  BY <1>1, <1>9 DEF Line, SendState, SendData
<1>11. Sessions'
  BY <1>1 DEF Line, Sessions, sessionVars
<1>12. InBudget'
  BY <1>1, <1>4 DEF Line, InBudget, Allowance, FrameFits
<1>13. Prepared'
  <2>1. content'[FieldBuffer(field')] = [picture |-> fields', form |-> "raw"]
    BY <1>1, <1>8 DEF Line, SendState, SendData
  <2> QED
    BY <1>1, <2>1 DEF Prepared
<1>14. Promises'
  <2>1. \A b \in Buffers : b \notin {FieldBuffer(field')} => content'[b] = content[b]
    BY <1>1 DEF Line, SendState, SendData
  <2>2. \A i \in Len(nic) + 1 .. Len(nic') :
          ~refused' /\ nic'[i].from # "command" => Promised(i)'
    BY <1>3, <1>4
  <2> QED
    BY <1>1, <1>2, <2>1, <2>2, PromisesKept DEF Line, sessionVars
<1> QED
  BY <1>5, <1>7, <1>10, <1>11, <1>12, <1>13, <1>14 DEF Line, SendState

\* What a raw field is announced by, whether there is no codec or it gave up.
LEMMA RawSort ==
  ASSUME SendState
  PROVE  [picture |-> fields, form |-> "raw", slices |-> RawSlices] \in Announcements
<1>1. fields \in 0 .. MaxFields /\ RawSlices \in 1 .. RawSlices
  BY Sizes DEF SendState, SendPlaces
<1> QED
  BY <1>1 DEF Announcements

\* The raw field is announced.
LEMMA RawLine == ASSUME Line, AnnounceRaw PROVE Line'
<1> DEFINE announced == [picture |-> fields, form |-> "raw", slices |-> RawSlices]
<1>1. /\ sending = "encode" /\ sending' = "stream" /\ ~compressed
      /\ command' = announced /\ SendCommand(announced)
      /\ UNCHANGED <<field, fields, content, sessionVars, done, behind, switches, expects>>
  BY DEF AnnounceRaw, SendCommand, Goes, Keeps
<1>2. announced \in Announcements /\ announced.form = "raw" /\ announced.picture = fields
      /\ announced.slices = RawSlices
  BY RawSort DEF Line
<1> HIDE DEF announced
<1>3. /\ Queue' /\ Promises' /\ refused' \in BOOLEAN /\ (~refused' => Announced')
      /\ Len(nic') + done' <= Len(nic) + done + 1
  <2>1. Grows({"command"}, OneCommand)
    BY <1>1, CommandGrows DEF Line
  <2> QED
    BY <1>1, <2>1, CommandAppended DEF sessionVars
<1>4. SendPlaces'
  BY <1>1, <1>3 DEF Line, SendState, SendPlaces, sessionVars
<1>5. SendData'
  BY <1>1, <1>2 DEF Line, SendState, SendData
<1>6. Sessions'
  BY <1>1 DEF Line, Sessions, sessionVars
<1>7. InBudget'
  BY <1>1, <1>3, Sizes DEF Line, SendState, Queue, InBudget, Allowance, FrameFits
<1>8. Prepared'
  <2>1. content'[FieldBuffer(field)'] = [picture |-> fields, form |-> "raw"]'
    BY <1>1 DEF Line, Prepared, FieldBuffer
  <2>2. command'.slices \in 1 .. RawSlices /\ command'.picture = fields'
        /\ command'.form = "raw"
    BY <1>1, <1>2, Sizes
  <2> QED
    BY <1>3, <2>1, <2>2 DEF Prepared
<1> QED
  BY <1>3, <1>4, <1>5, <1>6, <1>7, <1>8 DEF Line, SendState

\* The codec writes m_pBufferLZ4[0], which no raw field is in.
LEMMA PackedLine == ASSUME Line, AnnouncePacked \/ AnnounceFallback PROVE Line'
<1>1. /\ sending = "encode" /\ sending' = "stream" /\ compressed
      /\ UNCHANGED <<field, fields, sessionVars, done, behind, switches, expects>>
  BY DEF AnnouncePacked, AnnounceFallback, Goes, Keeps
<1>2. PICK form \in {"packed", "scrap"} :
        content' = [content EXCEPT !["packed0"] = [picture |-> fields, form |-> form]]
  BY DEF AnnouncePacked, AnnounceFallback
<1>3. /\ command'.slices \in 1 .. RawSlices /\ command'.picture = fields
      /\ command' \in Announcements
      /\ \/ command'.form = "raw"
         \/ /\ command'.form = "packed"
            /\ content' = [content EXCEPT !["packed0"] =
                             [picture |-> fields, form |-> "packed"]]
  <2>1. fields \in 0 .. MaxFields
    BY DEF Line, SendState, SendPlaces
  <2>2. CASE AnnouncePacked
    <3>1. PICK n \in 1 .. RawSlices :
            command' = [picture |-> fields, form |-> "packed", slices |-> n]
      BY <2>2 DEF AnnouncePacked
    <3>2. [picture |-> fields, form |-> "packed", slices |-> n] \in Announcements
      BY <2>1 DEF Announcements
    <3> QED
      BY <2>2, <3>1, <3>2 DEF AnnouncePacked
  <2>3. CASE AnnounceFallback
    BY <2>3, RawSort, Sizes DEF AnnounceFallback, Line
  <2> QED
    BY <2>2, <2>3
<1>4. content \in [Buffers -> Pictures] /\ "packed0" \in Buffers
  BY DEF Line, SendState, SendData, Buffers
<1>5. \A b \in Buffers : b \notin {"packed0", "command"} => content'[b] = content[b]
  BY <1>2, <1>4
<1>6. /\ Queue' /\ Promises' /\ refused' \in BOOLEAN /\ (~refused' => Announced')
      /\ Len(nic') + done' <= Len(nic) + done + 1
  <2>1. Grows({"packed0", "command"}, OneCommand)
    BY PackedGrows DEF Line
  <2> QED
    BY <1>1, <1>5, <2>1, CommandAppended DEF sessionVars
<1>7. SendPlaces'
  BY <1>1, <1>6 DEF Line, SendState, SendPlaces, sessionVars
<1>8. SendData'
  <2>1. [picture |-> fields, form |-> form] \in Pictures
    BY DEF Line, SendState, SendPlaces, Pictures
  <2>2. content' \in [Buffers -> Pictures]
    BY <1>2, <1>4, <2>1
  <2> QED
    BY <1>3, <2>2 DEF SendData
<1>9. Sessions'
  BY <1>1 DEF Line, Sessions, sessionVars
<1>10. InBudget'
  BY <1>1, <1>6, Sizes DEF Line, SendState, Queue, InBudget, Allowance, FrameFits
<1>11. Prepared'
  <2>1. FieldBuffer(field) \in Buffers /\ FieldBuffer(field) \notin {"packed0", "command"}
    BY DEF Line, SendState, SendPlaces, FieldBuffer, Buffers
  <2>2. content[FieldBuffer(field)] = [picture |-> fields, form |-> "raw"]
    BY <1>1 DEF Line, Prepared
  <2>3. content'[FieldBuffer(field)] = [picture |-> fields, form |-> "raw"]
    BY <1>5, <2>1, <2>2
  <2>4. command'.form = "packed" =>
          content'["packed0"] = [picture |-> fields, form |-> "packed"]
    BY <1>3, <1>4
  <2> QED
    BY <1>1, <1>3, <1>6, <2>3, <2>4 DEF Prepared, FieldBuffer, sessionVars
<1> QED
  BY <1>6, <1>7, <1>8, <1>9, <1>10, <1>11 DEF Line, SendState

\* SendStream: the slices are of what the command announces.
LEMMA StreamLine == ASSUME Line, StreamField PROVE Line'
<1> DEFINE slices == Slices(Payload, command.slices)
<1>1. /\ sending = "stream" /\ sending' = "sync"
      /\ UNCHANGED <<dataVars, sessionVars, done, behind, switches, expects>>
  BY DEF StreamField, Goes, Keeps
<1>2. Grows({}, slices)
  BY FieldGrows DEF Line
<1>3. /\ Len(slices) = command.slices
      /\ \A i \in 1 .. command.slices : slices[i] = Request(Payload, i)
      /\ command.slices \in 1 .. RawSlices /\ Payload \in Buffers
  BY <1>1, FieldSort, SlicesSort DEF Line, Prepared
<1> HIDE DEF slices
<1>4. Len(nic) \in Nat /\ done \in Nat /\ Len(nic') \in Len(nic) .. Len(nic) + command.slices
  BY <1>2, <1>3 DEF Line, SendState, Queue, Grows
<1>5. Queue'
  BY <1>1, <1>2, GrownQueue DEF Line
<1>6. SendPlaces'
  BY <1>1, <1>2 DEF Line, SendState, SendPlaces, sessionVars, dataVars, Grows
<1>7. SendData'
  BY <1>1 DEF Line, SendState, SendData, dataVars
<1>8. Sessions'
  BY <1>1 DEF Line, Sessions, sessionVars
<1>9. InBudget'
  <2>1. Len(nic') + done <= Len(nic) + done + RawSlices
    BY <1>3, <1>4, Sizes
  <2> QED
    BY <1>1, <1>4, <2>1, Sizes DEF Line, InBudget, Allowance, FrameFits
<1>10. Prepared'
  BY <1>1 DEF Prepared
<1>11. \/ compressed /\ command.form = "raw"
       \/ content[Payload] = [picture |-> command.picture, form |-> command.form]
  BY <1>1 DEF Line, SendState, SendPlaces, Prepared, Payload, Registered, FieldBuffer
<1>12. ASSUME NEW i \in Len(nic) + 1 .. Len(nic'), ~refused'
       PROVE  Promised(i)'
  <2>1. /\ i - Len(nic) \in 1 .. command.slices /\ Len(nic) \in 0 .. i - 1
        /\ i \in Nat /\ i - Len(nic) <= command.slices
    BY <1>3, <1>4, Sizes
  <2>2. nic'[i] = Request(Payload, i - Len(nic))
    BY <1>2, <1>3, <2>1 DEF Grows
  <2>3. nic'[i].from = Payload /\ nic'[i].slice = i - Len(nic)
    BY <2>2 DEF Request
  <2> PICK k \in 1 .. command.slices : k = i - Len(nic)
    BY <2>1
  <2>4. IsSlice(nic[i], command, k)'
    BY <1>1, <1>11, <2>1, <2>3 DEF IsSlice, dataVars, sessionVars
  <2>5. ~refused
    BY <1>2, <1>12 DEF Grows
  <2>6. CASE nic = <<>>
    <3>1. Len(nic) = 0
      BY <2>6
    <3>2. \A p \in 1 .. i - 1 : nic'[p].from # "command"
      <4> SUFFICES ASSUME NEW p \in 1 .. i - 1 PROVE nic'[p].from # "command"
        OBVIOUS
      <4>1. p \in Len(nic) + 1 .. Len(nic') /\ p - Len(nic) \in 1 .. command.slices
        BY <3>1, <1>3, <1>4, <2>1, Sizes
      <4>2. nic'[p] = Request(Payload, p - Len(nic))
        BY <1>2, <1>3, <4>1 DEF Grows
      <4> QED
        BY <4>2, <1>3 DEF Request, Buffers
    <3>3. expects'.what = command' /\ expects'.next = 1
      BY <1>1, <2>5, <2>6 DEF Line, Prepared, Announced, dataVars
    <3>4. expects'.next + i - 1 = k
      BY <3>1, <3>3, <2>1
    <3>5. IsSlice(nic[i], expects.what, expects.next + i - 1)'
      BY <2>4, <3>3, <3>4 DEF IsSlice
    <3> QED
      BY <3>2, <3>5 DEF Promised
  <2>7. CASE nic # <<>>
    <3>1. Len(nic) # 0 /\ Len(nic) \in 1 .. Len(nic)
      BY <1>4, <2>7 DEF Line, SendState, Queue
    <3>2. nic'[Len(nic)].from = "command"
      <4>1. nic[Len(nic)] \in Requests /\ nic[Len(nic)].from = "command"
        BY <1>1, <2>5, <2>7, <3>1 DEF Line, SendState, Queue, Prepared, Announced
      <4>2. nic'[Len(nic)] = Aged(nic[Len(nic)], {})
        BY <1>2, <3>1 DEF Grows
      <4> QED
        BY <4>1, <4>2, AgedFields
    <3>3. ~OnlySlices(0, i)'
      <4>1. Len(nic) \in 0 + 1 .. i - 1
        BY <2>1, <3>1, <1>4
      <4> QED
        BY <4>1, <3>2 DEF OnlySlices
    <3>4. ASSUME NEW p \in 1 .. i - 1, nic'[p].from = "command", OnlySlices(p, i)'
          PROVE  p = Len(nic)
      <4>1. ~(Len(nic) \in p + 1 .. i - 1)
        BY <3>2, <3>4 DEF OnlySlices
      <4>2. ~(p \in Len(nic) + 1 .. Len(nic'))
        <5> SUFFICES ASSUME p \in Len(nic) + 1 .. Len(nic') PROVE FALSE
          OBVIOUS
        <5>1. p - Len(nic) \in 1 .. command.slices
          BY <1>3, <1>4, Sizes
        <5>2. nic'[p] = Request(Payload, p - Len(nic))
          BY <1>2, <1>3, <5>1 DEF Grows
        <5> QED
          BY <5>2, <1>3, <3>4 DEF Request, Buffers
      <4> QED
        BY <4>1, <4>2, <1>4, <2>1, <3>1
    <3>5. ASSUME NEW p \in 1 .. i - 1, nic'[p].from = "command", OnlySlices(p, i)'
          PROVE  IsSlice(nic[i], command, i - p)'
      <4>1. p = Len(nic)
        BY <3>4, <3>5
      <4>2. i - p = k
        BY <4>1
      <4> QED
        BY <4>2, <2>4
    <3> QED
      BY <3>3, <3>5 DEF Promised
  <2> QED
    BY <2>6, <2>7
<1>13. Promises'
  BY <1>1, <1>2, <1>12, PromisesKept DEF Line, sessionVars, dataVars
<1> QED
  BY <1>5, <1>6, <1>7, <1>8, <1>9, <1>10, <1>13 DEF Line, SendState

\* CmdAudio: the command and the slices of the sound it announces go together.
LEMMA SoundLine == ASSUME Line, SendSound PROVE Line'
<1> DEFINE requests == OneCommand \o Slices("audio", SoundSlices)
<1>1. /\ sending = "sound" /\ sending' = "pack"
      /\ content' = [content EXCEPT !["audio"] = [picture |-> fields, form |-> "sound"]]
      /\ command' = [picture |-> fields, form |-> "sound", slices |-> SoundSlices]
      /\ UNCHANGED <<field, fields, sessionVars, done, behind, switches, expects>>
  BY DEF SendSound, Goes, Keeps
<1>2. Grows({"audio", "command"}, requests)
  BY SoundGrows DEF Line
<1>3. /\ Len(requests) = 1 + SoundSlices /\ requests[1] = Request("command", 0)
      /\ \A i \in 2 .. 1 + SoundSlices : requests[i] = Request("audio", i - 1)
  BY SoundSort
<1> HIDE DEF requests
<1>4. Len(nic) \in Nat /\ done \in Nat /\ Len(nic') \in Len(nic) .. Len(nic) + 1 + SoundSlices
  BY <1>2, <1>3, Sizes DEF Line, SendState, Queue, Grows
<1>5. Queue'
  BY <1>1, <1>2, GrownQueue DEF Line
<1>6. SendPlaces'
  BY <1>1, <1>2 DEF Line, SendState, SendPlaces, sessionVars, Grows
<1>7. /\ content \in [Buffers -> Pictures] /\ "audio" \in Buffers
      /\ [picture |-> fields, form |-> "sound"] \in Pictures
  BY DEF Line, SendState, SendData, SendPlaces, Pictures, Buffers
<1>8. SendData'
  <2>1. fields \in 0 .. MaxFields /\ SoundSlices \in {SoundSlices}
    BY DEF Line, SendState, SendPlaces
  <2>2. command' \in Announcements
    BY <1>1, <2>1 DEF Announcements
  <2>3. content' \in [Buffers -> Pictures]
    BY <1>1, <1>7
  <2> QED
    BY <2>2, <2>3 DEF SendData
<1>9. Sessions'
  BY <1>1 DEF Line, Sessions, sessionVars
<1>10. InBudget'
  BY <1>1, <1>4, Sizes DEF Line, InBudget, Allowance, FrameFits
<1>11. Prepared'
  BY <1>1 DEF Prepared
<1>12. ASSUME NEW i \in Len(nic) + 1 .. Len(nic'), ~refused', nic'[i].from # "command"
       PROVE  Promised(i)'
  <2>1. Len(nic') = Len(nic) + 1 + SoundSlices
    BY <1>2, <1>3, <1>4, <1>12, Sizes DEF Grows
  <2>2. \A k \in Len(nic) + 1 .. Len(nic') :
          nic'[k] = requests[k - Len(nic)] /\ k - Len(nic) \in 1 .. 1 + SoundSlices
    <3>1. \A k \in Len(nic) + 1 .. Len(nic') : nic'[k] = requests[k - Len(nic)]
      BY <1>2 DEF Grows
    <3>2. \A k \in Len(nic) + 1 .. Len(nic') : k - Len(nic) \in 1 .. 1 + SoundSlices
      BY <1>4, <2>1, Sizes
    <3> QED
      BY <3>1, <3>2
  <2>3. Len(nic) + 1 \in Len(nic) + 1 .. Len(nic')
    BY <1>4, <2>1, Sizes
  <2>4. nic'[Len(nic) + 1].from = "command"
    <3>1. (Len(nic) + 1) - Len(nic) = 1
      BY <1>4
    <3>2. nic'[Len(nic) + 1] = requests[1]
      BY <2>2, <2>3, <3>1
    <3> QED
      BY <3>2, <1>3 DEF Request
  <2>5. \A k \in Len(nic) + 2 .. Len(nic') :
          nic'[k].from = "audio" /\ nic'[k].slice = (k - Len(nic)) - 1
    <3> SUFFICES ASSUME NEW k \in Len(nic) + 2 .. Len(nic')
                 PROVE  nic'[k].from = "audio" /\ nic'[k].slice = (k - Len(nic)) - 1
      OBVIOUS
    <3>1. k \in Len(nic) + 1 .. Len(nic') /\ k - Len(nic) \in 2 .. 1 + SoundSlices
      BY <1>4, <2>1, Sizes
    <3>2. nic'[k] = Request("audio", (k - Len(nic)) - 1)
      BY <2>2, <3>1, <1>3
    <3> QED
      BY <3>2 DEF Request
  <2>6. i \in Len(nic) + 2 .. Len(nic') /\ Len(nic) + 1 \in 1 .. i - 1
    <3>1. i # Len(nic) + 1
      BY <1>12, <2>4
    <3> QED
      BY <3>1, <1>4
  <2>7. ~OnlySlices(0, i)'
    <3>1. Len(nic) + 1 \in 0 + 1 .. i - 1
      BY <2>6
    <3> QED
      BY <3>1, <2>4 DEF OnlySlices
  <2>8. ASSUME NEW p \in 1 .. i - 1, nic'[p].from = "command", OnlySlices(p, i)'
        PROVE  IsSlice(nic[i], command, i - p)'
    <3>1. ~(Len(nic) + 1 \in p + 1 .. i - 1)
      BY <2>4, <2>8 DEF OnlySlices
    <3>2. ~(p \in Len(nic) + 2 .. Len(nic'))
      BY <2>5, <2>8
    <3>3. p = Len(nic) + 1
      BY <3>1, <3>2, <2>6, <1>4
    <3>4. i - p = (i - Len(nic)) - 1 /\ i - p <= SoundSlices
      BY <3>3, <2>1, <2>6, <1>4, Sizes
    <3>5. content'["audio"] = [picture |-> fields, form |-> "sound"]
      BY <1>1, <1>7
    <3> QED
      BY <3>4, <3>5, <2>5, <2>6, <1>1 DEF IsSlice
  <2> QED
    BY <2>7, <2>8 DEF Promised
<1>13. Promises'
  <2>1. \A b \in Buffers : b \notin {"audio", "command"} => content'[b] = content[b]
    BY <1>1, <1>7
  <2> QED
    BY <1>1, <1>2, <1>12, <2>1, PromisesKept DEF Line, sessionVars
<1> QED
  BY <1>5, <1>6, <1>8, <1>9, <1>10, <1>11, <1>13 DEF Line, SendState

\* drainSendCompletions: no completion is left, and what is not gone is the network's.
LEMMA SyncLine == ASSUME Line, Sync PROVE Line'
<1>1. /\ sending \in {"sync", "encode"} /\ sending' = "sound"
      /\ done' = 0 /\ behind' = (nic # <<>>) /\ switches' = 0
      /\ UNCHANGED <<sessionVars, nic, refused, expects, dataVars>>
  BY DEF Sync, Goes, LeftAfterDrain
<1>2. Queue'
  <2>1. Len(nic) \in Nat /\ done \in Nat /\ Len(nic) + done <= SendSlots
    BY DEF Line, SendState, Queue
  <2>2. Len(nic) + 0 <= SendSlots /\ 0 \in Nat
    BY <2>1, Sizes
  <2> QED
    BY <1>1, <2>2 DEF Line, SendState, Queue
<1>3. SendPlaces'
  <2>1. behind' \in BOOLEAN /\ switches' \in 0 .. MaxSwitches
    BY <1>1, Sizes
  <2> QED
    BY <1>1, <2>1 DEF Line, SendState, SendPlaces, sessionVars, dataVars
<1>4. SendData'
  BY <1>1 DEF Line, SendState, SendData, dataVars
<1>5. Sessions'
  BY <1>1 DEF Line, Sessions, sessionVars
<1>6. InBudget'
  <2>1. ~behind' => Len(nic') = 0 /\ done' = 0
    BY <1>1
  <2> QED
    BY <1>1, <2>1 DEF InBudget, Allowance
<1>7. Prepared'
  BY <1>1 DEF Prepared
<1>8. Promises'
  BY <1>1 DEF Line, Promises, Promised, OnlySlices, IsSlice, sessionVars, dataVars
<1> QED
  BY <1>2, <1>3, <1>4, <1>5, <1>6, <1>7, <1>8 DEF Line, SendState

\* Nothing is sent and nothing goes.
LEMMA QuietLine ==
  ASSUME Line, InitAcknowledged \/ NoSound \/ UNCHANGED sendVars
  PROVE  Line'
<1>1. /\ UNCHANGED <<sessionVars, queueVars, dataVars>>
      /\ \/ sending = "await" /\ sending' = "pack"
         \/ sending = "sound" /\ sending' = "pack"
         \/ sending' = sending
  BY DEF InitAcknowledged, NoSound, sendVars, Goes
<1>2. Queue'
  BY <1>1 DEF Line, SendState, Queue, queueVars
<1>3. SendPlaces'
  BY <1>1 DEF Line, SendState, SendPlaces, sessionVars, dataVars, queueVars
<1>4. SendData'
  BY <1>1 DEF Line, SendState, SendData, dataVars
<1>5. Sessions'
  BY <1>1 DEF Line, Sessions, sessionVars, queueVars
<1>6. InBudget'
  <2> SUFFICES ASSUME ~behind, switches = 0, FrameFits
               PROVE  Len(nic) + done <= Allowance'
    BY <1>1 DEF InBudget, queueVars, FrameFits
  <2>1. Len(nic) + done <= Allowance
    BY DEF Line, InBudget
  <2>2. CASE sending = "await" /\ sending' = "pack"
    BY <2>1, <2>2, <1>1, Sizes DEF Line, SendState, Queue, Allowance
  <2>3. CASE sending = "sound" /\ sending' = "pack"
    BY <2>1, <2>3, <1>1, Sizes DEF Line, SendState, Queue, Allowance
  <2>4. CASE sending' = sending
    BY <2>1, <2>4 DEF Allowance
  <2> QED
    BY <2>2, <2>3, <2>4, <1>1
<1>7. Prepared'
  BY <1>1 DEF Line, Prepared, FieldBuffer, Announced, dataVars, queueVars, sessionVars
<1>8. Promises'
  BY <1>1 DEF Line, Promises, Promised, OnlySlices, IsSlice, sessionVars, dataVars, queueVars
<1> QED
  BY <1>2, <1>3, <1>4, <1>5, <1>6, <1>7, <1>8 DEF Line, SendState

\* A CmdInit that returns early sends nothing.
LEMMA EarlyReturnLine == ASSUME Line, CmdInitReturnsEarly PROVE Line'
<1>1. /\ sending = "closed" /\ sending' = "failed"
      /\ inits < MaxInits /\ inits' = inits + 1
      /\ UNCHANGED <<downed, compressed, queueVars, dataVars>>
  BY DEF CmdInitReturnsEarly, Goes
<1>2. Queue'
  BY <1>1 DEF Line, SendState, Queue, queueVars
<1>3. SendPlaces'
  <2>1. inits' \in 0 .. MaxInits
    BY <1>1, Sizes DEF Line, SendState, SendPlaces
  <2> QED
    BY <1>1, <2>1 DEF Line, SendState, SendPlaces, dataVars, queueVars
<1>4. SendData'
  BY <1>1 DEF Line, SendState, SendData, dataVars
<1>5. Sessions'
  BY <1>1 DEF Line, Sessions, queueVars
<1>6. InBudget'
  BY <1>1, Sizes DEF Line, SendState, Queue, InBudget, Allowance, queueVars
<1>7. Prepared'
  BY <1>1 DEF Prepared
<1>8. Promises'
  BY <1>1 DEF Line, Promises, Promised, OnlySlices, IsSlice, dataVars, queueVars
<1> QED
  BY <1>2, <1>3, <1>4, <1>5, <1>6, <1>7, <1>8 DEF Line, SendState

\* CMD_INIT is the first send of a session.
LEMMA OpenLine == ASSUME Line, OpenSession PROVE Line'
<1>1. /\ sending = "closed" /\ sending' = "await"
      /\ inits < MaxInits /\ inits' = inits + 1
      /\ downed' = FALSE /\ compressed' \in BOOLEAN /\ command' = Nothing
      /\ nic' = OneCommand /\ refused' = FALSE
      /\ UNCHANGED <<done, behind, switches, expects, field, fields, content>>
  BY DEF OpenSession, Goes, OneCommand
<1>2. done = 0 /\ nic = <<>>
  BY <1>1 DEF Line, Sessions
<1>3. Queue'
  BY <1>1, <1>2, CommandSort, Sizes DEF Line, SendState, Queue
<1>4. SendPlaces'
  <2>1. inits' \in 0 .. MaxInits
    BY <1>1, Sizes DEF Line, SendState, SendPlaces
  <2> QED
    BY <1>1, <2>1 DEF Line, SendState, SendPlaces
<1>5. SendData'
  <2>1. Nothing \in Announcements
    BY Sizes DEF Nothing, Announcements
  <2> QED
    BY <1>1, <2>1 DEF Line, SendState, SendData
<1>6. Sessions'
  BY <1>1 DEF Sessions
<1>7. InBudget'
  BY <1>1, <1>2, CommandSort DEF InBudget, Allowance
<1>8. Prepared'
  BY <1>1 DEF Prepared
<1>9. Promises'
  <2>1. \A i \in 1 .. Len(nic') : nic'[i].from = "command"
    <3>1. \A i \in 1 .. Len(nic') : i = 1
      BY <1>1, CommandSort
    <3>2. OneCommand[1].from = "command"
      BY CommandSort DEF Request
    <3> QED
      BY <1>1, <3>1, <3>2
  <2> QED
    BY <2>1 DEF Promises
<1> QED
  BY <1>3, <1>4, <1>5, <1>6, <1>7, <1>8, <1>9 DEF Line, SendState

\* After teardownVideo nothing of the session is left in the queue.
LEMMA TeardownLine ==
  ASSUME Line, InitTimesOut \/ CloseFailed \/ CmdClose \/ RebuildSession
  PROVE  Line'
<1>1. /\ Teardown /\ UNCHANGED dataVars
      /\ sending' \in {"failed", "closed"}
  BY DEF InitTimesOut, CloseFailed, CmdClose, RebuildSession, Goes
<1>2. /\ downed' /\ nic' = <<>> /\ done' = 0 /\ ~behind' /\ switches' = 0
      /\ behind' \in BOOLEAN /\ downed' = TRUE
      /\ UNCHANGED <<compressed, inits, refused, expects>>
  <2>1. CASE downed
    <3>1. nic = <<>> /\ done = 0 /\ ~behind /\ switches = 0 /\ behind \in BOOLEAN
      BY <2>1 DEF Line, Sessions, SendState, SendPlaces
    <3> QED
      BY <1>1, <2>1, <3>1 DEF Teardown
  <2>2. CASE ~downed
    BY <1>1, <2>2 DEF Teardown
  <2> QED
    BY <2>1, <2>2
<1>3. Len(nic') = 0
  BY <1>2
<1>4. Queue'
  <2>1. nic' \in Seq(Requests)
    BY <1>2
  <2>2. Len(nic') + done' <= SendSlots
    BY <1>2, <1>3, Sizes
  <2> QED
    BY <1>2, <2>1, <2>2 DEF Line, SendState, Queue
<1>5. SendPlaces'
  <2>1. switches' \in 0 .. MaxSwitches
    BY <1>2, Sizes
  <2> QED
    BY <1>1, <1>2, <2>1 DEF Line, SendState, SendPlaces, dataVars
<1>6. SendData'
  BY <1>1 DEF Line, SendState, SendData, dataVars
<1>7. Sessions' /\ Prepared'
  BY <1>1, <1>2 DEF Sessions, Prepared
<1>8. InBudget'
  BY <1>1, <1>2, <1>3 DEF InBudget, Allowance
<1>9. Promises'
  BY <1>3 DEF Promises
<1> QED
  BY <1>4, <1>5, <1>6, <1>7, <1>8, <1>9 DEF Line, SendState

\* A datagram goes: what it was behind is what the receiver expects now.
LEMMA TransmitLine == ASSUME Line, Transmit PROVE Line'
<1>1. /\ nic # <<>> /\ nic' = Tail(nic) /\ done' = done + 1
      /\ expects' = IF Head(nic).from = "command"
                    THEN [what |-> command, stale |-> Head(nic).stale, next |-> 1]
                    ELSE [expects EXCEPT !.next = @ + 1]
      /\ UNCHANGED <<sessionVars, behind, switches, refused, dataVars, sending>>
  BY DEF Transmit
<1>2. nic \in Seq(Requests) /\ done \in Nat /\ expects \in Expectations
  BY DEF Line, SendState, Queue
<1>3. Len(nic) \in Nat /\ Len(nic) # 0
  BY <1>1, <1>2
<1>4. nic' \in Seq(Requests) /\ Len(nic') = Len(nic) - 1
  BY <1>1, <1>2
<1>5. \A i \in 1 .. Len(nic') : nic'[i] = nic[i + 1]
  BY <1>1, <1>2, <1>4
<1>6. Head(nic) = nic[1] /\ nic[1] \in Requests
  <2>1. Head(nic) = nic[1]
    BY <1>1, <1>2
  <2> QED
    BY <2>1, <1>2, <1>3
<1>7. expects' \in Expectations
  <2>1. command \in Announcements
    BY DEF Line, SendState, SendData
  <2>2. nic[1].stale \in BOOLEAN
    BY <1>6 DEF Requests
  <2> QED
    BY <1>1, <1>2, <1>6, <2>1, <2>2 DEF Expectations
<1>8. Queue' /\ Len(nic') + done' = Len(nic) + done
  <2>1. Len(nic') + done' = Len(nic) + done /\ done' \in Nat
    BY <1>1, <1>2, <1>3, <1>4
  <2> QED
    BY <1>1, <1>2, <1>4, <1>7, <2>1 DEF Line, SendState, Queue
<1>9. SendPlaces'
  BY <1>1 DEF Line, SendState, SendPlaces, sessionVars, dataVars
<1>10. SendData'
  BY <1>1 DEF Line, SendState, SendData, dataVars
<1>11. Sessions'
  BY <1>1 DEF Line, Sessions, sessionVars
<1>12. InBudget'
  <2>1. (Allowance = Allowance') /\ (InBudget => InBudget')
    BY <1>1, <1>8 DEF InBudget, Allowance, FrameFits
  <2> QED
    BY <2>1 DEF Line
<1>13. Prepared'
  <2>1. ASSUME sending = "stream", ~refused PROVE Announced'
    <3>1. nic[Len(nic)].from = "command" /\ ~nic[Len(nic)].stale
      BY <1>1, <2>1 DEF Line, Prepared, Announced
    <3>2. CASE Len(nic) = 1
      <4>1. Len(nic') = 0
        BY <1>4, <3>2
      <4>2. nic' = <<>>
        BY <1>4, <4>1
      <4>3. expects' = [what |-> command, stale |-> Head(nic).stale, next |-> 1]
        BY <1>1, <1>6, <3>1, <3>2
      <4>4. Head(nic).stale = FALSE
        BY <1>6, <3>1, <3>2 DEF Requests
      <4> QED
        BY <1>1, <4>2, <4>3, <4>4 DEF Announced, dataVars
    <3>3. CASE Len(nic) # 1
      <4>1. Len(nic') \in 1 .. Len(nic') /\ Len(nic') + 1 = Len(nic) /\ Len(nic') # 0
        BY <1>3, <1>4, <3>3
      <4>2. nic'[Len(nic')] = nic[Len(nic)]
        BY <4>1, <1>5
      <4>3. nic' # <<>>
        BY <4>1
      <4> QED
        BY <3>1, <4>2, <4>3 DEF Announced
    <3> QED
      BY <3>2, <3>3
  <2> QED
    BY <1>1, <2>1 DEF Line, Prepared, FieldBuffer, sessionVars, dataVars
<1>14. Promises'
  <2> SUFFICES ASSUME ~refused', NEW i \in 1 .. Len(nic'), nic'[i].from # "command",
                      ~nic'[i].stale
               PROVE  Promised(i)'
    BY DEF Promises
  <2>1. /\ i + 1 \in 1 .. Len(nic) /\ i \in Nat /\ nic'[i] = nic[i + 1]
        /\ (i + 1) - 1 = i
    BY <1>3, <1>4, <1>5
  <2>2. Promised(i + 1)
    BY <1>1, <2>1 DEF Line, Promises
  <2>3. \A j \in 0 .. i - 1 : OnlySlices(j, i)' => OnlySlices(j + 1, i + 1)
    <3> SUFFICES ASSUME NEW j \in 0 .. i - 1, OnlySlices(j, i)',
                        NEW k \in (j + 1) + 1 .. (i + 1) - 1
                 PROVE  nic[k].from # "command"
      BY DEF OnlySlices
    <3>1. k - 1 \in j + 1 .. i - 1 /\ k - 1 \in 1 .. Len(nic') /\ (k - 1) + 1 = k
      BY <1>3, <1>4, <2>1
    <3> QED
      BY <3>1, <1>5 DEF OnlySlices
  <2>4. ASSUME NEW p \in 1 .. i - 1, nic'[p].from = "command", ~nic'[p].stale,
               OnlySlices(p, i)'
        PROVE  IsSlice(nic[i], command, i - p)'
    <3>1. /\ p \in 0 .. i - 1 /\ p + 1 \in 1 .. (i + 1) - 1 /\ nic'[p] = nic[p + 1]
          /\ (i + 1) - (p + 1) = i - p
      BY <1>3, <1>4, <1>5, <2>1
    <3>2. IsSlice(nic[i + 1], command, i - p)
      BY <2>2, <2>3, <2>4, <3>1 DEF Promised
    <3> QED
      BY <1>1, <2>1, <3>2 DEF IsSlice, sessionVars, dataVars
  <2>5. ASSUME ~expects'.stale, OnlySlices(0, i)'
        PROVE  IsSlice(nic[i], expects.what, expects.next + i - 1)'
    <3>1. OnlySlices(1, i + 1)
      BY <2>1, <2>3, <2>5
    <3>2. CASE nic[1].from = "command"
      <4>1. expects'.what = command' /\ expects'.next = 1 /\ expects'.stale = nic[1].stale
        BY <1>1, <1>6, <3>2 DEF dataVars
      <4>2. 1 \in 1 .. (i + 1) - 1 /\ expects'.next + i - 1 = i
        BY <2>1, <4>1
      <4>3. IsSlice(nic[i + 1], command, i)
        BY <2>1, <2>2, <2>5, <3>1, <3>2, <4>1, <4>2 DEF Promised
      <4> QED
        BY <1>1, <2>1, <4>1, <4>2, <4>3 DEF IsSlice, sessionVars, dataVars
    <3>3. CASE nic[1].from # "command"
      <4>1. /\ expects'.what = expects.what /\ expects'.next = expects.next + 1
            /\ expects'.stale = expects.stale /\ expects.next \in Nat
        BY <1>1, <1>2, <1>6, <3>3 DEF Expectations
      <4>2. OnlySlices(0, i + 1)
        <5> SUFFICES ASSUME NEW k \in 0 + 1 .. (i + 1) - 1 PROVE nic[k].from # "command"
          BY DEF OnlySlices
        <5>1. k = 1 \/ k \in 1 + 1 .. (i + 1) - 1
          BY <2>1
        <5> QED
          BY <5>1, <3>1, <3>3 DEF OnlySlices
      <4>3. expects.next + (i + 1) - 1 = expects'.next + i - 1
        BY <2>1, <4>1
      <4>4. IsSlice(nic[i + 1], expects.what, expects'.next + i - 1)
        BY <2>2, <2>5, <4>1, <4>2, <4>3 DEF Promised
      <4> QED
        BY <1>1, <2>1, <4>1, <4>4 DEF IsSlice, sessionVars, dataVars
    <3> QED
      BY <3>2, <3>3
  <2> QED
    BY <2>4, <2>5 DEF Promised
<1> QED
  BY <1>8, <1>9, <1>10, <1>11, <1>12, <1>13, <1>14 DEF Line, SendState

\* At first nothing is queued.
LEMMA StartLine == SendInit => Line
<1> SUFFICES ASSUME SendInit PROVE Line
  OBVIOUS
<1>1. /\ downed = TRUE /\ compressed = FALSE /\ inits = 0 /\ sending = "closed"
      /\ field = 0 /\ fields = 0
      /\ content = [b \in Buffers |-> [picture |-> 0, form |-> "none"]]
      /\ command = Nothing
      /\ nic = <<>> /\ done = 0 /\ behind = FALSE /\ switches = 0 /\ refused = FALSE
      /\ expects = [what |-> Nothing, stale |-> FALSE, next |-> 1]
  BY DEF SendInit
<1>2. Nothing \in Announcements
  BY Sizes DEF Nothing, Announcements
<1>3. SendPlaces
  <2>1. 0 \in 0 .. MaxInits /\ 0 \in 0 .. MaxFields /\ 0 \in 0 .. MaxSwitches
    BY Sizes
  <2> QED
    BY <1>1, <2>1 DEF SendPlaces
<1>4. SendData
  <2>1. [picture |-> 0, form |-> "none"] \in Pictures
    BY Sizes DEF Pictures
  <2> QED
    BY <1>1, <1>2, <2>1 DEF SendData
<1>5. Len(nic) = 0
  BY <1>1
<1>6. Queue
  <2>1. nic \in Seq(Requests) /\ expects \in Expectations
    BY <1>1, <1>2 DEF Expectations
  <2> QED
    BY <1>1, <1>5, <2>1, Sizes DEF Queue
<1>7. Sessions /\ Prepared
  BY <1>1 DEF Sessions, Prepared
<1>8. InBudget
  BY <1>1, <1>5 DEF InBudget, Allowance
<1>9. Promises
  BY <1>5 DEF Promises
<1> QED
  BY <1>3, <1>4, <1>6, <1>7, <1>8, <1>9 DEF Line, SendState

\* Every step of the client and of the network keeps it.
LEMMA StepLine == Line /\ [SendNext]_sendVars => Line'
<1> SUFFICES ASSUME Line, [SendNext]_sendVars PROVE Line'
  OBVIOUS
<1>1. CASE CmdInitReturnsEarly \/ OpenSession
  BY <1>1, EarlyReturnLine, OpenLine
<1>2. CASE InitTimesOut \/ CloseFailed \/ CmdClose \/ RebuildSession
  BY <1>2, TeardownLine
<1>3. CASE InitAcknowledged \/ NoSound \/ UNCHANGED sendVars
  BY <1>3, QuietLine
<1>4. CASE SendClose \/ SendSwitchres \/ FillField \/ AnnounceRaw
  BY <1>4, CloseLine, SwitchresLine, FillLine, RawLine
<1>5. CASE AnnouncePacked \/ AnnounceFallback \/ StreamField \/ SendSound
  BY <1>5, PackedLine, StreamLine, SoundLine
<1>6. CASE Sync \/ Transmit
  BY <1>6, SyncLine, TransmitLine
<1> QED
  BY <1>1, <1>2, <1>3, <1>4, <1>5, <1>6 DEF SendNext

\* The invariant holds.
LEMMA SendInvariant == SendSpec => []SendInv
<1>1. SendInit => SendInv
  BY InitAccounts, StartLine DEF SendInv
<1>2. SendInv /\ [SendNext]_sendVars => SendInv'
  BY StepAccounts, StepLine DEF SendInv
<1> QED
  BY <1>1, <1>2, PTL DEF SendSpec

\* The types are part of it.
LEMMA SendTypes == SendInv => SendTypeOK
<1> SUFFICES ASSUME SendInv PROVE SendTypeOK
  OBVIOUS
<1>1. /\ owned \in [{Resources[i] : i \in 1 .. Len(Resources)} -> Nat]
      /\ abandoned \in [DOMAIN owned -> Nat]
  BY DEF SendInv, Accounts, Names
<1>2. {downed, compressed, behind, refused} \subseteq BOOLEAN
  <2>1. /\ downed \in BOOLEAN /\ compressed \in BOOLEAN
        /\ behind \in BOOLEAN /\ refused \in BOOLEAN
    BY DEF SendInv, Accounts, Line, SendState, SendPlaces
  <2> QED
    BY <2>1
<1>3. /\ inits \in 0 .. MaxInits /\ fields \in 0 .. MaxFields /\ field \in {0, 1}
      /\ sending \in {"closed", "failed", "await", "pack", "encode", "stream", "sync",
                      "sound", "closing"}
      /\ switches \in 0 .. MaxSwitches
  BY DEF SendInv, Line, SendState, SendPlaces
<1>4. /\ content \in [Buffers -> [picture : 0 .. MaxFields,
                                  form : {"none", "raw", "packed", "scrap", "sound"}]]
      /\ command \in Announcements
  BY DEF SendInv, Line, SendState, SendData, Pictures
<1>5. Len(nic) + done <= SendSlots /\ expects.what \in Announcements
  BY DEF SendInv, Line, SendState, Queue, Expectations
<1> QED
  BY <1>1, <1>2, <1>3, <1>4, <1>5 DEF SendTypeOK

\* Whatever way sessions end (groovymister.cpp:354-390), by a failed CmdInit, CmdClose or a
\* reconnect, what teardownVideo gives back is given back once: what is open belongs to the
\* live session, or was left by a CmdInit that returned early.
THEOREM TornDownExactlyOnce == SendSpec => []TornDownOnce
<1>1. SendInv => TornDownOnce
  BY DEF SendInv, Accounts
<1> QED
  BY <1>1, SendInvariant, PTL

\* The state of the send path is always well formed, and m_sendQueue never holds more than
\* its BUFFER_SLICES slots (groovymister.cpp:670, 684, 1596-1640).
THEOREM SendTypeCorrect == SendSpec => []SendTypeOK
  BY SendInvariant, SendTypes, PTL

\* When the network kept up, what a frame still has to send fits.
LEMMA AllFits ==
  ASSUME Line, ~behind, FrameFits, switches = 0, NEW written, NEW requests,
         Grows(written, requests), NEW n \in Nat, n = Len(requests),
         \/ sending \in {"pack", "encode"} /\ n = 1
         \/ sending = "stream" /\ n <= RawSlices
         \/ sending = "sound" /\ n <= 1 + SoundSlices
  PROVE  refused' = refused
<1>1. Len(nic) \in Nat /\ done \in Nat /\ Len(nic) + done <= Allowance
  BY DEF Line, SendState, Queue, InBudget
<1>2. Len(nic) + done + n <= SendSlots
  <2>1. Allowance \in Nat /\ Allowance + n <= RawSlices + SoundSlices + 2
    <3>1. CASE sending \in {"pack", "encode"} /\ n = 1
      BY <3>1, Sizes DEF Allowance
    <3>2. CASE sending = "stream" /\ n <= RawSlices
      BY <3>2, Sizes DEF Allowance
    <3>3. CASE sending = "sound" /\ n <= 1 + SoundSlices
      BY <3>3, Sizes DEF Allowance
    <3> QED
      BY <3>1, <3>2, <3>3
  <2>2. RawSlices + SoundSlices + 2 <= SendSlots
    BY DEF FrameFits
  <2> QED
    BY <1>1, <2>1, <2>2, Sizes
<1> QED
  BY <1>2 DEF Grows

\* A step that refuses a send comes after a backlog, or after mode switches.
LEMMA BacklogStep ==
  ASSUME Line, SendNext, refused', ~refused, ~behind, FrameFits
  PROVE  switches' > 0
<1>1. refused # refused'
  OBVIOUS
<1>2. CASE SendSwitchres
  BY <1>2 DEF Line, SendState, SendPlaces, SendSwitchres
<1> DEFINE Sends == \/ SendClose \/ AnnounceRaw \/ AnnouncePacked \/ AnnounceFallback
                    \/ StreamField \/ SendSound
<1>3. CASE Sends
  <2>1. switches' = switches /\ switches \in Nat
    BY <1>3 DEF SendClose, AnnounceRaw, AnnouncePacked, AnnounceFallback, StreamField,
                SendSound, Keeps, Line, SendState, SendPlaces
  <2>2. ASSUME switches = 0 PROVE FALSE
    <3>1. CASE SendClose \/ AnnounceRaw
      <4>1. sending \in {"pack", "encode"} /\ Grows({"command"}, OneCommand)
        BY <3>1, CommandGrows DEF SendClose, AnnounceRaw, Goes, Line
      <4> QED
        BY <4>1, <2>2, <1>1, CommandSort, AllFits
    <3>2. CASE AnnouncePacked \/ AnnounceFallback
      <4>1. sending \in {"pack", "encode"} /\ Grows({"packed0", "command"}, OneCommand)
        BY <3>2, PackedGrows DEF AnnouncePacked, AnnounceFallback, Goes, Line
      <4> QED
        BY <4>1, <2>2, <1>1, CommandSort, AllFits
    <3>3. CASE StreamField
      <4> DEFINE slices == Slices(Payload, command.slices)
      <4>1. sending = "stream" /\ Grows({}, slices)
        BY <3>3, FieldGrows DEF StreamField, Goes, Line
      <4>2. Len(slices) = command.slices /\ command.slices \in 1 .. RawSlices
        BY <4>1, FieldSort, SlicesSort DEF Line, Prepared
      <4> HIDE DEF slices
      <4>3. Len(slices) \in Nat /\ Len(slices) <= RawSlices
        BY <4>2, Sizes
      <4> QED
        BY <4>1, <4>3, <2>2, <1>1, AllFits
    <3>4. CASE SendSound
      <4> DEFINE requests == OneCommand \o Slices("audio", SoundSlices)
      <4>1. sending = "sound" /\ Grows({"audio", "command"}, requests)
        BY <3>4, SoundGrows DEF SendSound, Goes, Line
      <4>2. Len(requests) = 1 + SoundSlices
        BY SoundSort
      <4> HIDE DEF requests
      <4>3. Len(requests) \in Nat /\ Len(requests) <= 1 + SoundSlices
        BY <4>2, Sizes
      <4> QED
        BY <4>1, <4>3, <2>2, <1>1, AllFits
    <3> QED
      BY <1>3, <3>1, <3>2, <3>3, <3>4
  <2> QED
    BY <2>1, <2>2
<1>4. ~FillField /\ ~CmdInitReturnsEarly /\ ~OpenSession /\ ~InitAcknowledged /\ ~NoSound
  BY <1>1 DEF FillField, CmdInitReturnsEarly, OpenSession, InitAcknowledged, NoSound, queueVars
<1>5. ~InitTimesOut /\ ~CloseFailed /\ ~CmdClose /\ ~RebuildSession /\ ~Sync /\ ~Transmit
  BY <1>1 DEF InitTimesOut, CloseFailed, CmdClose, RebuildSession, Teardown, Sync, Transmit
<1> QED
  BY <1>2, <1>3, <1>4, <1>5 DEF SendNext

\* Completions that nobody took out do not add up until sends are refused
\* (groovymister.cpp:1306-1312, 1362-1370): whatever the number of slots, a send is
\* refused because the network had not taken others at the last sync, because a frame is
\* too large, or after mode switches.
THEOREM BacklogAlone == SendSpec => RefusedOnlyByBacklog
<1>1. Line /\ [SendNext]_sendVars
        => [refused' /\ ~refused => behind \/ ~FrameFits \/ switches' > 0]_sendVars
  BY BacklogStep
<1>2. SendSpec => []Line
  BY SendInvariant, PTL DEF SendInv
<1> QED
  BY <1>1, <1>2, PTL DEF SendSpec, RefusedOnlyByBacklog

\* The datagram that goes next is the next slice of what the last command announced.
LEMMA PayloadStep ==
  ASSUME Line, nic # <<>>, Head(nic).from # "command", ~refused, ~Head(nic).stale,
         ~expects.stale, ~FallsBack
  PROVE  /\ content[Head(nic).from] =
              [picture |-> expects.what.picture, form |-> expects.what.form]
         /\ Head(nic).slice = expects.next
         /\ expects.next <= expects.what.slices
<1>1. nic \in Seq(Requests) /\ expects.next \in Nat
  BY DEF Line, SendState, Queue, Expectations
<1>2. Head(nic) = nic[1] /\ 1 \in 1 .. Len(nic)
  <2>1. Len(nic) \in Nat /\ Len(nic) # 0
    BY <1>1
  <2>2. Head(nic) = nic[1]
    BY <1>1
  <2> QED
    BY <2>1, <2>2
<1>3. Promised(1)
  BY <1>2 DEF Line, Promises
<1>4. OnlySlices(0, 1)
  BY DEF OnlySlices
<1>5. expects.next + 1 - 1 = expects.next
  BY <1>1
<1>6. IsSlice(nic[1], expects.what, expects.next)
  BY <1>3, <1>4, <1>5 DEF Promised
<1> QED
  BY <1>2, <1>6 DEF IsSlice, FallsBack

\* What goes after a command is what the command announced, slice by slice
\* (groovymister.cpp:1134-1185), whatever the network has taken meanwhile: but for the
\* fallback, for a buffer written while it was being sent, and after a send that was
\* refused.
THEOREM SlicesAsAnnounced == SendSpec => PayloadAsAnnounced
<1>1. Line => [nic # <<>> /\ nic' = Tail(nic) /\ Head(nic).from # "command" =>
                 \/ refused \/ FallsBack \/ Head(nic).stale \/ expects.stale
                 \/ /\ content[Head(nic).from] =
                         [picture |-> expects.what.picture, form |-> expects.what.form]
                    /\ Head(nic).slice = expects.next
                    /\ expects.next <= expects.what.slices]_sendVars
  BY PayloadStep
<1>2. SendSpec => []Line
  BY SendInvariant, PTL DEF SendInv
<1> QED
  BY <1>1, <1>2, PTL DEF PayloadAsAnnounced

-----------------------------------------------------------------------------
(* The receive path.                                                       *)

\* Where getACK is.
Places ==
  /\ receiving \in {"idle", "dequeue", "look", "take", "repost", "notify"}
  /\ armed \in BOOLEAN /\ repostFailed \in BOOLEAN

\* Receives, datagrams and notifications.
Counts ==
  /\ posted \in 0 .. MaxOutstandingReceive
  /\ arrivals \in 0 .. MaxArrivals /\ inbox \in Nat /\ packets \in Nat

\* Which datagrams are where.
Lists ==
  /\ completions \in Seq(1 .. MaxArrivals)
  /\ unread \in Seq(1 .. MaxArrivals)
  /\ heard \in Seq([first : 1 .. MaxArrivals, last : 1 .. MaxArrivals])

\* Only while completions are taken out and read may there be neither a receive nor a
\* completion; a notification is asked for only while there is no completion.
Attentive ==
  /\ receiving \in {"idle", "notify"} => posted > 0 \/ completions # <<>>
  /\ armed => completions = <<>>
  /\ receiving = "idle" /\ completions = <<>> => armed
  /\ receiving = "idle" /\ completions # <<>> => packets > 0

\* The datagrams in the socket are the newest, one after the other, and none is there
\* while a receive is outstanding.
Queued ==
  /\ posted > 0 => unread = <<>>
  /\ \A i \in 1 .. Len(unread) : unread[i] = arrivals - Len(unread) + i

\* Every datagram is somewhere; the buffer holds the newest that was received.
Accounted ==
  /\ Len(heard) + results + Len(completions) + Len(unread) = arrivals
  /\ inbox = arrivals - Len(unread)
  /\ results \in Nat
  /\ receiving \in {"look", "take"} <=> results > 0

\* What was read is in order, and no older than the result it was read for.
InOrder ==
  \A i \in 1 .. Len(heard) :
    /\ i <= heard[i].first /\ heard[i].first <= heard[i].last
    /\ \A k \in 1 .. i - 1 : heard[k].last <= heard[i].first

\* What was read last, against what is being read and what the buffer holds.
Newest ==
  /\ frameUDP \in 0 .. MaxArrivals
  /\ \A i \in 1 .. Len(heard) : heard[i].last <= inbox
  /\ receiving = "take" =>
       /\ Len(heard) < frameUDP /\ frameUDP <= inbox
       /\ \A i \in 1 .. Len(heard) : heard[i].last <= frameUDP
       /\ completions = <<>> /\ results = 1 => frameUDP = inbox
  /\ completions = <<>> /\ results = 0 /\ Len(heard) > 0 => heard[Len(heard)].last = inbox

\* The inductive invariant of the receive path.
Ears ==
  /\ Places /\ Counts /\ Lists /\ Attentive /\ Queued /\ Accounted /\ InOrder /\ Newest

\* The sorts of the constants.
LEMMA Bounds ==
  MaxArrivals \in Nat /\ MaxPackets \in Nat
  /\ MaxOutstandingReceive \in Nat /\ MaxOutstandingReceive > 0
  BY ReceiveAssumption

\* What a sequence holds.
LEMMA ElementOf == ASSUME NEW S, NEW s \in Seq(S), NEW i \in 1 .. Len(s) PROVE s[i] \in S
  OBVIOUS

\* What a sequence holds when one more is appended.
LEMMA Appended ==
  ASSUME NEW S, NEW s \in Seq(S), NEW e \in S
  PROVE  /\ Append(s, e) \in Seq(S) /\ Len(Append(s, e)) = Len(s) + 1
         /\ \A i \in 1 .. Len(s) + 1 : Append(s, e)[i] = IF i <= Len(s) THEN s[i] ELSE e
  OBVIOUS

\* The lengths of what is queued.
LEMMA Lengths ==
  ASSUME Lists
  PROVE  /\ Len(heard) \in Nat /\ Len(completions) \in Nat /\ Len(unread) \in Nat
         /\ \A i \in 1 .. Len(heard) :
              heard[i].first \in 1 .. MaxArrivals /\ heard[i].last \in 1 .. MaxArrivals
         /\ completions = <<>> <=> Len(completions) = 0
         /\ unread = <<>> <=> Len(unread) = 0
         /\ heard = <<>> <=> Len(heard) = 0
<1>1. Len(heard) \in Nat /\ Len(completions) \in Nat /\ Len(unread) \in Nat
  BY DEF Lists
<1>2. heard \in Seq([first : 1 .. MaxArrivals, last : 1 .. MaxArrivals])
  BY DEF Lists
<1>3. \A i \in 1 .. Len(heard) : heard[i] \in [first : 1 .. MaxArrivals, last : 1 .. MaxArrivals]
  BY <1>2, ElementOf
<1>4. \A i \in 1 .. Len(heard) :
        heard[i].first \in 1 .. MaxArrivals /\ heard[i].last \in 1 .. MaxArrivals
  BY <1>3
<1>5. completions = <<>> <=> Len(completions) = 0
  BY DEF Lists
<1>6. unread = <<>> <=> Len(unread) = 0
  BY DEF Lists
<1>7. heard = <<>> <=> Len(heard) = 0
  BY <1>2
<1> QED
  BY <1>1, <1>4, <1>5, <1>6, <1>7

\* A receive is outstanding after CmdInit.
LEMMA InitEars == ReceiveInit => Ears
<1> SUFFICES ASSUME ReceiveInit PROVE Ears
  OBVIOUS
<1>1. Places
  BY DEF ReceiveInit, Places
<1>2. Counts
  BY Bounds DEF ReceiveInit, Counts
<1>3. Lists
  BY DEF ReceiveInit, Lists
<1>4. Attentive
  BY DEF ReceiveInit, Attentive
<1>5. /\ arrivals = 0 /\ inbox = 0 /\ heard = <<>>
      /\ Len(unread) = 0 /\ Len(completions) = 0 /\ Len(heard) = 0
  BY DEF ReceiveInit
<1>6. Queued
  BY <1>5 DEF ReceiveInit, Queued
<1>7. Accounted
  <2>1. results = 0 /\ receiving = "idle"
    BY DEF ReceiveInit
  <2>2. Len(heard) + results + Len(completions) + Len(unread) = arrivals
    BY <2>1, <1>5
  <2>3. inbox = arrivals - Len(unread)
    BY <1>5
  <2>4. receiving \notin {"look", "take"} /\ ~(results > 0)
    BY <2>1
  <2> QED
    BY <2>1, <2>2, <2>3, <2>4 DEF Accounted
<1>8. InOrder /\ Newest
  BY <1>5, Bounds DEF ReceiveInit, InOrder, Newest
<1> QED
  BY <1>1, <1>2, <1>3, <1>4, <1>6, <1>7, <1>8 DEF Ears

\* Nothing is read.
LEMMA SameReads ==
  ASSUME Lists, UNCHANGED heard PROVE heard' = heard /\ (InOrder => InOrder')
  BY DEF InOrder

\* A newer datagram has come into the buffer, or none: what was read is still no newer.
LEMMA NewerKeepsNewest ==
  ASSUME Ears, inbox' \in Nat, inbox <= inbox', UNCHANGED <<heard, results, frameUDP>>,
         receiving' = "take" => receiving = "take",
         \/ completions' # <<>>
         \/ completions' = completions /\ inbox' = inbox
  PROVE  Newest'
<1>1. \A i \in 1 .. Len(heard) : heard[i].last \in Nat /\ heard[i].last <= inbox
  BY Lengths, Bounds DEF Ears, Newest
<1>2. frameUDP \in Nat /\ inbox \in Nat /\ Len(heard) \in Nat
  BY Lengths, Bounds DEF Ears, Newest, Counts
<1>3. \A i \in 1 .. Len(heard') : heard'[i].last <= inbox'
  BY <1>1, <1>2
<1>4. receiving' = "take" =>
        /\ Len(heard') < frameUDP' /\ frameUDP' <= inbox'
        /\ \A i \in 1 .. Len(heard') : heard'[i].last <= frameUDP'
        /\ completions' = <<>> /\ results' = 1 => frameUDP' = inbox'
  BY <1>1, <1>2 DEF Ears, Newest
<1>5. completions' = <<>> /\ results' = 0 /\ Len(heard') > 0 =>
        heard'[Len(heard')].last = inbox'
  BY DEF Ears, Newest
<1>6. frameUDP' \in 0 .. MaxArrivals
  BY DEF Ears, Newest
<1> QED
  BY <1>3, <1>4, <1>5, <1>6 DEF Newest

\* A datagram ends an outstanding receive.
LEMMA ReceivedEars ==
  ASSUME Ears, arrivals + 1 <= MaxArrivals, arrivals' = arrivals + 1,
         UNCHANGED <<receiving, results, frameUDP, heard, repostFailed, unread>>,
         posted > 0, posted' = posted - 1, Completes(arrivals')
  PROVE  Ears'
<1>1. /\ completions' = Append(completions, arrivals') /\ inbox' = arrivals'
      /\ packets' = packets + (IF armed THEN 1 ELSE 0) /\ armed' = FALSE
  BY DEF Completes
<1>2. arrivals' \in 1 .. MaxArrivals
  BY Bounds DEF Ears, Counts
<1>3. completions' \in Seq(1 .. MaxArrivals) /\ Len(completions') = Len(completions) + 1
  BY <1>1, <1>2 DEF Ears, Lists
<1>4. completions' # <<>>
  <2>1. completions \in Seq(1 .. MaxArrivals)
    BY DEF Ears, Lists
  <2> QED
    BY <2>1, <1>1
<1>5. unread = <<>> /\ Len(unread) = 0
  BY DEF Ears, Queued
<1>6. Places'
  BY <1>1 DEF Ears, Places
<1>7. Counts'
  BY <1>1, <1>2, Bounds DEF Ears, Counts
<1>8. Lists'
  BY <1>3 DEF Ears, Lists
<1>9. Attentive'
  BY <1>1, <1>4 DEF Ears, Attentive, Counts
<1>10. Queued'
  BY <1>5 DEF Ears, Queued
<1>11. Accounted'
  BY <1>1, <1>2, <1>3, <1>5, Lengths DEF Ears, Accounted, Counts
<1>12. InOrder'
  BY SameReads DEF Ears
<1>13. Newest'
  <2>1. inbox' \in Nat /\ inbox <= inbox'
    BY <1>1, <1>2, <1>5 DEF Ears, Accounted, Counts
  <2> QED
    BY <2>1, <1>4, NewerKeepsNewest
<1> QED
  BY <1>6, <1>7, <1>8, <1>9, <1>10, <1>11, <1>12, <1>13 DEF Ears

\* A datagram waits in the socket.
LEMMA WaitingEars ==
  ASSUME Ears, arrivals + 1 <= MaxArrivals, arrivals' = arrivals + 1,
         UNCHANGED <<receiving, results, frameUDP, heard, repostFailed>>,
         posted = 0, unread' = Append(unread, arrivals'),
         UNCHANGED <<posted, inbox, completions, armed, packets>>
  PROVE  Ears'
<1>1. arrivals' \in 1 .. MaxArrivals
  BY Bounds DEF Ears, Counts
<1> unread \in Seq(1 .. MaxArrivals)
  BY DEF Ears, Lists
<1>2. unread' \in Seq(1 .. MaxArrivals) /\ Len(unread') = Len(unread) + 1
  BY <1>1, Appended
<1>3. \A i \in 1 .. Len(unread') :
        unread'[i] = IF i <= Len(unread) THEN unread[i] ELSE arrivals'
  BY <1>1, <1>2, Appended
<1>4. Places' /\ Attentive'
  BY DEF Ears, Places, Attentive
<1>5. Counts'
  BY <1>1 DEF Ears, Counts
<1>6. Lists'
  BY <1>2 DEF Ears, Lists
<1>7. Queued'
  BY <1>1, <1>2, <1>3, Lengths DEF Ears, Queued, Counts
<1>8. Accounted'
  <2>1. inbox' = arrivals' - Len(unread')
    BY <1>2, Lengths DEF Ears, Accounted, Counts
  <2>2. Len(heard') + results' + Len(completions') + Len(unread') = arrivals'
    <3>1. /\ Len(heard) + results + Len(completions) + Len(unread) = arrivals
          /\ Len(heard') = Len(heard) /\ Len(completions') = Len(completions)
          /\ results' = results /\ results \in Nat
      BY DEF Ears, Accounted
    <3>2. Len(heard) \in Nat /\ Len(completions) \in Nat /\ Len(unread) \in Nat
      BY Lengths DEF Ears
    <3> QED
      BY <3>1, <3>2, <1>2
  <2> QED
    BY <2>1, <2>2 DEF Ears, Accounted
<1>9. InOrder'
  BY SameReads DEF Ears
<1>10. Newest'
  BY DEF Ears, Newest
<1> QED
  BY <1>4, <1>5, <1>6, <1>7, <1>8, <1>9, <1>10 DEF Ears

\* A datagram comes at any time.
LEMMA ArriveEars == ASSUME Ears, Arrive PROVE Ears'
<1>1. /\ arrivals + 1 <= MaxArrivals /\ arrivals' = arrivals + 1
      /\ UNCHANGED <<receiving, results, frameUDP, heard, repostFailed>>
  BY Bounds DEF Arrive, Ears, Counts, readingVars
<1>2. CASE posted > 0 /\ posted' = posted - 1 /\ Completes(arrivals') /\ UNCHANGED unread
  BY <1>1, <1>2, ReceivedEars
<1>3. CASE /\ posted = 0 /\ unread' = Append(unread, arrivals')
           /\ UNCHANGED <<posted, inbox, completions, armed, packets>>
  BY <1>1, <1>3, WaitingEars
<1> QED
  BY <1>2, <1>3 DEF Arrive

\* A receive that is posted ends at once, by the oldest datagram in the socket.
LEMMA EndsAtOnceEars ==
  ASSUME Ears, receiving = "repost", receiving' = "notify",
         UNCHANGED <<arrivals, results, frameUDP, heard>>,
         unread # <<>>, Completes(Head(unread)), unread' = Tail(unread),
         UNCHANGED <<posted, repostFailed>>
  PROVE  Ears'
<1>1. Len(unread) > 0 /\ Head(unread) = unread[1] /\ Head(unread) \in 1 .. MaxArrivals
  <2>1. Len(unread) \in Nat /\ Len(unread) # 0
    BY DEF Ears, Lists
  <2>2. unread \in Seq(1 .. MaxArrivals) /\ unread # <<>>
    BY DEF Ears, Lists
  <2>3. Head(unread) = unread[1]
    BY <2>2
  <2>4. Head(unread) \in 1 .. MaxArrivals
    BY <2>2, Bounds
  <2> QED
    BY <2>1, <2>3, <2>4
<1>2. unread' \in Seq(1 .. MaxArrivals) /\ Len(unread') = Len(unread) - 1
  BY DEF Ears, Lists
<1>3. \A i \in 1 .. Len(unread') : unread'[i] = unread[i + 1]
  BY <1>2 DEF Ears, Lists
<1>4. /\ completions' = Append(completions, Head(unread)) /\ inbox' = Head(unread)
      /\ packets' = packets + (IF armed THEN 1 ELSE 0) /\ armed' = FALSE
  BY DEF Completes
<1>5. completions' \in Seq(1 .. MaxArrivals) /\ Len(completions') = Len(completions) + 1
  BY <1>1, <1>4 DEF Ears, Lists
<1>6. completions' # <<>>
  <2>1. completions \in Seq(1 .. MaxArrivals)
    BY DEF Ears, Lists
  <2> QED
    BY <2>1, <1>4
<1>7. inbox' = arrivals - Len(unread) + 1
  BY <1>1, <1>4, Lengths DEF Ears, Queued
<1>8. Places'
  BY <1>4 DEF Ears, Places
<1>9. Counts'
  BY <1>1, <1>4 DEF Ears, Counts
<1>10. Lists'
  BY <1>2, <1>5 DEF Ears, Lists
<1>11. Attentive'
  BY <1>4, <1>6 DEF Attentive
<1>12. Queued'
  BY <1>1, <1>2, <1>3, Lengths DEF Ears, Queued, Counts
<1>13. inbox' = arrivals' - Len(unread') /\ inbox' = inbox + 1
  BY <1>2, <1>7, Lengths DEF Ears, Accounted, Counts
<1>14. Accounted'
  <2>1. Len(heard') + results' + Len(completions') + Len(unread') = arrivals'
    <3>1. /\ Len(heard) + results + Len(completions) + Len(unread) = arrivals
          /\ Len(heard') = Len(heard) /\ results' = results /\ results \in Nat
      BY DEF Ears, Accounted
    <3>2. Len(heard) \in Nat /\ Len(completions) \in Nat /\ Len(unread) \in Nat
      BY Lengths DEF Ears
    <3> QED
      BY <3>1, <3>2, <1>2, <1>5
  <2> QED
    BY <2>1, <1>13 DEF Ears, Accounted
<1>15. InOrder'
  BY SameReads DEF Ears
<1>16. Newest'
  <2>1. inbox' \in Nat /\ inbox <= inbox'
    BY <1>13 DEF Ears, Counts
  <2> QED
    BY <2>1, <1>6, NewerKeepsNewest
<1> QED
  BY <1>8, <1>9, <1>10, <1>11, <1>12, <1>14, <1>15, <1>16 DEF Ears

\* A receive is posted again.
LEMMA RepostEars == ASSUME Ears, Repost PROVE Ears'
<1>1. /\ receiving = "repost" /\ receiving' = "notify"
      /\ UNCHANGED <<arrivals, results, frameUDP, heard>>
  BY DEF Repost, ReceiveGoes, readingVars
<1>2. CASE /\ posted + Len(completions) >= MaxOutstandingReceive
           /\ repostFailed' = TRUE
           /\ UNCHANGED <<posted, inbox, completions, unread, armed, packets>>
  <2>1. posted > 0 \/ completions # <<>>
    BY <1>2, Bounds, Lengths DEF Ears, Counts
  <2>2. Places' /\ Attentive'
    BY <1>1, <1>2, <2>1 DEF Ears, Places, Attentive
  <2>3. Counts' /\ Lists'
    BY <1>1, <1>2 DEF Ears, Counts, Lists
  <2>4. Queued' /\ Accounted'
    BY <1>1, <1>2 DEF Ears, Queued, Accounted
  <2>5. InOrder' /\ Newest'
    BY <1>1, <1>2, SameReads DEF Ears, Newest
  <2> QED
    BY <2>2, <2>3, <2>4, <2>5 DEF Ears
<1>3. CASE /\ posted < MaxOutstandingReceive /\ unread = <<>>
           /\ posted' = posted + 1
           /\ UNCHANGED <<inbox, completions, unread, armed, packets, repostFailed>>
  <2>1. posted' > 0 /\ posted' \in 0 .. MaxOutstandingReceive
    BY <1>3, Bounds DEF Ears, Counts
  <2>2. Places' /\ Attentive'
    BY <1>1, <1>3, <2>1 DEF Ears, Places, Attentive
  <2>3. Counts' /\ Lists'
    BY <1>1, <1>3, <2>1 DEF Ears, Counts, Lists
  <2>4. Queued' /\ Accounted'
    BY <1>1, <1>3 DEF Ears, Queued, Accounted
  <2>5. InOrder' /\ Newest'
    BY <1>1, <1>3, SameReads DEF Ears, Newest
  <2> QED
    BY <2>2, <2>3, <2>4, <2>5 DEF Ears
<1>4. CASE /\ unread # <<>>
           /\ Completes(Head(unread)) /\ unread' = Tail(unread)
           /\ UNCHANGED <<posted, repostFailed>>
  BY <1>1, <1>4, EndsAtOnceEars
<1> QED
  BY <1>2, <1>3, <1>4 DEF Repost, PostReceive, socketVars

\* The completions are taken out, and are to be read.
LEMMA DequeueEars == ASSUME Ears, DequeueAll PROVE Ears'
<1>1. /\ receiving = "dequeue" /\ completions' = <<>> /\ results' = Len(completions)
      /\ receiving' = IF completions = <<>> THEN "repost" ELSE "look"
      /\ UNCHANGED <<posted, inbox, frameUDP, unread, armed, packets, arrivals, heard,
                     repostFailed>>
  BY DEF DequeueAll, ReceiveGoes
<1>2. Len(completions') = 0 /\ results = 0
  BY <1>1 DEF Ears, Accounted
<1>3. Places' /\ Attentive'
  BY <1>1 DEF Ears, Places, Attentive
<1>4. Counts' /\ Queued'
  BY <1>1 DEF Ears, Counts, Queued
<1>5. Lists'
  BY <1>1 DEF Ears, Lists
<1>6. Accounted'
  BY <1>1, <1>2, Lengths DEF Ears, Accounted, Counts
<1>7. InOrder'
  BY <1>1, SameReads DEF Ears
<1>8. Newest'
  BY <1>1, <1>2, Lengths DEF Ears, Newest
<1> QED
  BY <1>3, <1>4, <1>5, <1>6, <1>7, <1>8 DEF Ears

\* The frame of the next result is read from the buffer.
LEMMA LookEars == ASSUME Ears, LookAtFrame PROVE Ears'
<1>1. /\ receiving = "look" /\ receiving' = "take" /\ frameUDP' = inbox
      /\ UNCHANGED <<posted, inbox, completions, results, unread, armed, packets, arrivals,
                     heard, repostFailed>>
  BY DEF LookAtFrame, ReceiveGoes, socketVars
<1>2. Places' /\ Attentive'
  BY <1>1 DEF Ears, Places, Attentive
<1>3. Counts' /\ Queued' /\ Lists'
  BY <1>1 DEF Ears, Counts, Queued, Lists
<1>4. Accounted'
  BY <1>1 DEF Ears, Accounted
<1>5. InOrder'
  BY <1>1, SameReads DEF Ears
<1>6. Newest'
  <2>1. /\ Len(heard) + results + Len(completions) + Len(unread) = arrivals
        /\ inbox = arrivals - Len(unread) /\ arrivals \in 0 .. MaxArrivals
        /\ Len(heard) \in Nat /\ Len(completions) \in Nat /\ Len(unread) \in Nat
        /\ results \in Nat /\ results > 0
    BY <1>1, Lengths DEF Ears, Accounted, Counts
  <2>2. inbox \in 0 .. MaxArrivals /\ Len(heard) < inbox
    BY <2>1, Bounds
  <2> QED
    BY <1>1, <2>1, <2>2 DEF Ears, Newest
<1> QED
  BY <1>2, <1>3, <1>4, <1>5, <1>6 DEF Ears

\* The rest of the result is read: the first byte was of frameUDP, the last is of frameUDP or
\* of what the buffer holds now.
LEMMA TakeEars == ASSUME Ears, TakeStatus PROVE Ears'
<1>1. PICK newest \in {frameUDP, inbox} :
        heard' = Append(heard, [first |-> frameUDP, last |-> newest])
  BY DEF TakeStatus
<1>2. /\ receiving = "take" /\ results' = results - 1
      /\ receiving' = IF results = 1 THEN "dequeue" ELSE "look"
      /\ UNCHANGED <<posted, inbox, completions, frameUDP, unread, armed, packets, arrivals,
                     repostFailed>>
  BY DEF TakeStatus, ReceiveGoes, socketVars
<1>3. /\ Len(heard) + results + Len(completions) + Len(unread) = arrivals
      /\ inbox = arrivals - Len(unread) /\ arrivals \in 0 .. MaxArrivals
      /\ Len(heard) \in Nat /\ Len(completions) \in Nat /\ Len(unread) \in Nat
      /\ results \in Nat /\ results > 0
  BY <1>2, Lengths DEF Ears, Accounted, Counts
<1>4. /\ frameUDP \in Nat /\ inbox \in Nat
      /\ Len(heard) < frameUDP /\ frameUDP <= inbox /\ inbox <= MaxArrivals
      /\ frameUDP <= newest /\ newest <= inbox /\ newest \in Nat
      /\ \A i \in 1 .. Len(heard) : heard[i].last <= frameUDP
      /\ completions = <<>> /\ results = 1 => frameUDP = inbox
  BY <1>2, <1>3, Bounds DEF Ears, Newest, Counts
<1>5. frameUDP \in 1 .. MaxArrivals /\ newest \in 1 .. MaxArrivals
  BY <1>3, <1>4, Bounds
<1>6. [first |-> frameUDP, last |-> newest] \in [first : 1 .. MaxArrivals, last : 1 .. MaxArrivals]
  BY <1>5
<1>7. /\ heard' \in Seq([first : 1 .. MaxArrivals, last : 1 .. MaxArrivals])
      /\ Len(heard') = Len(heard) + 1
      /\ \A i \in 1 .. Len(heard') :
           heard'[i] = IF i <= Len(heard) THEN heard[i]
                       ELSE [first |-> frameUDP, last |-> newest]
  <2> DEFINE Results == [first : 1 .. MaxArrivals, last : 1 .. MaxArrivals]
             new == [first |-> frameUDP, last |-> newest]
  <2>1. heard \in Seq(Results) /\ new \in Results /\ heard' = Append(heard, new)
    BY <1>1, <1>6 DEF Ears, Lists
  <2> HIDE DEF Results, new
  <2>2. heard' \in Seq(Results) /\ Len(heard') = Len(heard) + 1
    BY <2>1
  <2>3. \A i \in 1 .. Len(heard') : heard'[i] = IF i <= Len(heard) THEN heard[i] ELSE new
    BY <2>1
  <2> QED
    BY <2>2, <2>3 DEF Results, new
<1>8. Places' /\ Attentive'
  BY <1>2 DEF Ears, Places, Attentive
<1>9. Counts' /\ Queued'
  BY <1>2 DEF Ears, Counts, Queued
<1>10. Lists'
  <2>1. completions' \in Seq(1 .. MaxArrivals) /\ unread' \in Seq(1 .. MaxArrivals)
    BY <1>2 DEF Ears, Lists
  <2>2. heard' \in Seq([first : 1 .. MaxArrivals, last : 1 .. MaxArrivals])
    BY <1>7
  <2> QED
    BY <2>1, <2>2 DEF Lists
<1>11. Accounted'
  <2>1. results' \in Nat /\ Len(heard') + results' + Len(completions') + Len(unread') = arrivals'
    <3>1. Len(heard') = Len(heard) + 1
      BY <1>7
    <3>2. /\ Len(completions') = Len(completions) /\ Len(unread') = Len(unread)
          /\ results' = results - 1 /\ arrivals' = arrivals
      BY <1>2
    <3> QED
      BY <3>1, <3>2, <1>3
  <2>2. inbox' = arrivals' - Len(unread')
    BY <1>2, <1>3
  <2>3. receiving' \in {"look", "take"} <=> results' > 0
    <3>1. CASE results = 1
      BY <3>1, <1>2
    <3>2. CASE results # 1
      BY <3>2, <1>2, <1>3
    <3> QED
      BY <3>1, <3>2
  <2> QED
    BY <2>1, <2>2, <2>3 DEF Accounted
<1>12. \A i \in 1 .. Len(heard) :
         heard[i].first \in Nat /\ heard[i].last \in Nat /\ heard'[i] = heard[i]
  <2> SUFFICES ASSUME NEW i \in 1 .. Len(heard)
               PROVE  heard[i].first \in Nat /\ heard[i].last \in Nat /\ heard'[i] = heard[i]
    OBVIOUS
  <2>1. heard[i].first \in 1 .. MaxArrivals /\ heard[i].last \in 1 .. MaxArrivals
    BY Lengths DEF Ears
  <2>2. heard'[i] = heard[i]
    BY <1>3, <1>7
  <2> QED
    BY <2>1, <2>2, Bounds
<1>13. heard'[Len(heard) + 1].first = frameUDP /\ heard'[Len(heard) + 1].last = newest
  BY <1>3, <1>7
<1>14. InOrder'
  <2> SUFFICES ASSUME NEW i \in 1 .. Len(heard')
               PROVE  /\ i <= heard'[i].first /\ heard'[i].first <= heard'[i].last
                      /\ \A k \in 1 .. i - 1 : heard'[k].last <= heard'[i].first
    BY DEF InOrder
  <2>1. CASE i <= Len(heard)
    <3>1. \A k \in 1 .. i : k \in 1 .. Len(heard)
      BY <2>1, <1>3, <1>7
    <3> QED
      BY <3>1, <2>1, <1>3, <1>12 DEF Ears, InOrder
  <2>2. CASE i > Len(heard)
    <3>1. i = Len(heard) + 1 /\ \A k \in 1 .. i - 1 : k \in 1 .. Len(heard)
      BY <2>2, <1>3, <1>7
    <3> QED
      BY <3>1, <1>3, <1>4, <1>12, <1>13
  <2> QED
    BY <2>1, <2>2, <1>3, <1>7
<1>15. Newest'
  <2>1. \A i \in 1 .. Len(heard') : heard'[i].last <= inbox'
    <3> SUFFICES ASSUME NEW i \in 1 .. Len(heard') PROVE heard'[i].last <= inbox'
      OBVIOUS
    <3>1. CASE i <= Len(heard)
      BY <3>1, <1>2, <1>3, <1>4, <1>12
    <3>2. CASE i > Len(heard)
      <4>1. i = Len(heard) + 1
        BY <3>2, <1>3, <1>7
      <4> QED
        BY <4>1, <1>2, <1>4, <1>13
    <3> QED
      BY <3>1, <3>2, <1>3, <1>7
  <2>2. completions' = <<>> /\ results' = 0 /\ Len(heard') > 0 =>
          heard'[Len(heard')].last = inbox'
    <3>1. heard'[Len(heard')].last = newest
      BY <1>7, <1>13
    <3> QED
      BY <3>1, <1>2, <1>3, <1>4
  <2>3. receiving' # "take" /\ frameUDP' \in 0 .. MaxArrivals
    BY <1>2 DEF Ears, Newest
  <2> QED
    BY <2>1, <2>2, <2>3 DEF Newest
<1> QED
  BY <1>8, <1>9, <1>10, <1>11, <1>14, <1>15 DEF Ears

\* GetQueuedCompletionStatus returns.
LEMMA WaitEars == ASSUME Ears, WaitEnds \/ WaitTimesOut PROVE Ears'
<1>1. /\ receiving = "idle" /\ receiving' \in {"dequeue", "notify"}
      /\ UNCHANGED <<posted, inbox, completions, results, frameUDP, unread, armed, arrivals,
                     heard, repostFailed>>
  BY DEF WaitEnds, WaitTimesOut, ReceiveGoes, socketVars, readingVars
<1>2. packets' \in Nat
  BY DEF WaitEnds, WaitTimesOut, socketVars, Ears, Counts
<1>3. Places' /\ Attentive'
  BY <1>1 DEF Ears, Places, Attentive
<1>4. Counts'
  BY <1>1, <1>2 DEF Ears, Counts
<1>5. Lists' /\ Queued' /\ Accounted'
  BY <1>1 DEF Ears, Lists, Queued, Accounted
<1>6. InOrder' /\ Newest'
  BY <1>1, SameReads DEF Ears, Newest
<1> QED
  BY <1>3, <1>4, <1>5, <1>6 DEF Ears

\* The next notification is asked for.
LEMMA NotifyEars == ASSUME Ears, Notify PROVE Ears'
<1>1. /\ receiving = "notify" /\ receiving' = "idle"
      /\ UNCHANGED <<posted, inbox, completions, results, frameUDP, unread, arrivals, heard,
                     repostFailed>>
  BY DEF Notify, ReceiveGoes, readingVars
<1>2. \/ completions # <<>> /\ ~armed /\ packets' = packets + 1 /\ armed' = armed
      \/ (completions = <<>> \/ armed) /\ armed' = TRUE /\ packets' = packets
  BY DEF Notify
<1>3. Places'
  BY <1>1, <1>2 DEF Ears, Places
<1>4. Counts'
  BY <1>1, <1>2 DEF Ears, Counts
<1>5. Lists' /\ Queued' /\ Accounted'
  BY <1>1 DEF Ears, Lists, Queued, Accounted
<1>6. Attentive'
  BY <1>1, <1>2 DEF Ears, Attentive, Counts
<1>7. InOrder' /\ Newest'
  BY <1>1, SameReads DEF Ears, Newest
<1> QED
  BY <1>3, <1>4, <1>5, <1>6, <1>7 DEF Ears

\* Every step of getACK and of the network keeps it.
LEMMA StepEars == Ears /\ [ReceiveNext]_receiveVars => Ears'
<1> SUFFICES ASSUME Ears, [ReceiveNext]_receiveVars PROVE Ears'
  OBVIOUS
<1>1. CASE UNCHANGED receiveVars
  <2>1. Places' /\ Attentive' /\ Queued'
    BY <1>1 DEF receiveVars, Ears, Places, Attentive, Queued
  <2>2. Counts' /\ Lists' /\ Accounted'
    BY <1>1 DEF receiveVars, Ears, Counts, Lists, Accounted
  <2>3. InOrder' /\ Newest'
    BY <1>1 DEF receiveVars, Ears, InOrder, Newest
  <2> QED
    BY <2>1, <2>2, <2>3 DEF Ears
<1> QED
  BY <1>1, ArriveEars, WaitEars, DequeueEars, LookEars, TakeEars, RepostEars, NotifyEars
  DEF ReceiveNext

\* It is enough.
LEMMA EarsHear == Ears => ReceiveNeverDeaf
<1> SUFFICES ASSUME Ears PROVE ReceiveNeverDeaf
  OBVIOUS
<1>1. Listening
  BY DEF Ears, Attentive, Listening
<1>2. DOMAIN heard = 1 .. Len(heard)
  BY DEF Ears, Lists
<1>3. HeardInOrder
  BY <1>2, Lengths DEF Ears, Accounted, InOrder, Newest, HeardInOrder
<1> QED
  BY <1>1, <1>3 DEF ReceiveNeverDeaf

\* The client never goes deaf (groovymister.cpp:1214-1264), however many receives are
\* outstanding into its one buffer: whenever getACK is not under way the next datagram will be
\* noticed, and what was read came in order, nothing left out but for something newer.
THEOREM NeverDeaf == ReceiveSpec => []ReceiveNeverDeaf
<1>1. ReceiveSpec => []Ears
  BY InitEars, StepEars, PTL DEF ReceiveSpec
<1> QED
  BY <1>1, EarsHear, PTL

\* The types are part of it.
LEMMA EarsTyped == Ears => ReceiveTypeOK
<1> SUFFICES ASSUME Ears PROVE ReceiveTypeOK
  OBVIOUS
<1>1. /\ receiving \in {"idle", "dequeue", "look", "take", "repost", "notify"}
      /\ {armed, repostFailed} \subseteq BOOLEAN
  BY DEF Ears, Places
<1>2. inbox \in 0 .. arrivals /\ arrivals \in 0 .. MaxArrivals
  <2>1. /\ inbox = arrivals - Len(unread) /\ arrivals \in 0 .. MaxArrivals
        /\ Len(heard) + results + Len(completions) + Len(unread) = arrivals
        /\ Len(heard) \in Nat /\ Len(completions) \in Nat /\ Len(unread) \in Nat
        /\ results \in Nat
    BY Lengths DEF Ears, Accounted, Counts
  <2>2. inbox \in 0 .. arrivals
    BY <2>1, Bounds
  <2> QED
    BY <2>1, <2>2
<1>3. posted \in 0 .. MaxOutstandingReceive /\ packets \in Nat /\ results \in Nat
  BY DEF Ears, Counts, Accounted
<1>4. {completions, unread} \subseteq Seq(1 .. MaxArrivals)
  BY DEF Ears, Lists
<1>5. /\ heard \in Seq([first : 1 .. MaxArrivals, last : 1 .. MaxArrivals])
      /\ frameUDP \in 0 .. MaxArrivals
  BY DEF Ears, Lists, Newest
<1> QED
  BY <1>1, <1>2, <1>3, <1>4, <1>5 DEF ReceiveTypeOK

\* The state of the receive path is always well formed: m_bufferReceive never holds what
\* did not come (groovymister.cpp:1214-1264).
THEOREM ReceiveTypeCorrect == ReceiveSpec => []ReceiveTypeOK
<1>1. ReceiveSpec => []Ears
  BY InitEars, StepEars, PTL DEF ReceiveSpec
<1> QED
  BY <1>1, EarsTyped, PTL

-----------------------------------------------------------------------------
(* The raster servo.                                                       *)

\* Division.
LEMMA DivMod ==
  ASSUME NEW n \in Int, n > 0, NEW x \in Int
  PROVE  /\ x \div n \in Int /\ x % n \in Int /\ 0 <= x % n /\ x % n < n
         /\ x = n * (x \div n) + (x % n)
         /\ x >= 0 => 0 <= x \div n /\ x % n <= x
         /\ x < n /\ x >= 0 => x % n = x
<1>1. x \div n \in Int
  OBVIOUS
<1>2. x % n \in Int /\ 0 <= x % n /\ x % n < n
  OBVIOUS
<1>3. x = n * (x \div n) + (x % n)
  OBVIOUS
<1>4. x >= 0 => 0 <= x \div n
  BY <1>1, <1>2, <1>3
<1>5. x >= 0 => x % n <= x
  <2>1. x >= 0 => 0 <= n * (x \div n)
    BY <1>1, <1>4
  <2> QED
    BY <1>1, <1>2, <1>3, <2>1
<1>6. x < n /\ x >= 0 => x % n = x
  OBVIOUS
<1> QED
  BY <1>1, <1>2, <1>3, <1>4, <1>5, <1>6

\* A quotient and a remainder are the only ones.
LEMMA DivUnique ==
  ASSUME NEW n \in Int, n > 0, NEW q \in Int, NEW r \in Int, 0 <= r, r < n
  PROVE  (n * q + r) % n = r /\ (n * q + r) \div n = q
  OBVIOUS

\* A quotient rounded up is no more than what its numerator allows.
LEMMA CeilBounded ==
  ASSUME NEW n \in Int, n > 0, NEW v \in Nat, NEW a \in Nat, a <= v * n
  PROVE  (a + n - 1) \div n \in 0 .. v
<1> DEFINE q == (a + n - 1) \div n
           r == (a + n - 1) % n
<1>1. q \in Int /\ r \in Int /\ 0 <= r /\ a + n - 1 = n * q + r /\ 0 <= q
  BY DivMod
<1> HIDE DEF q, r
<1>2. n * q <= n * v + n - 1
  BY <1>1
<1>3. ~(q >= v + 1)
  <2> SUFFICES ASSUME q >= v + 1 PROVE FALSE
    OBVIOUS
  <2>1. n * q >= n * (v + 1)
    BY <1>1
  <2>2. n * (v + 1) = n * v + n
    OBVIOUS
  <2> QED
    BY <1>1, <1>2, <2>1, <2>2
<1>4. q \in 0 .. v
  BY <1>1, <1>3
<1> QED
  BY <1>4 DEF q

\* Half of what is not negative, towards zero.
LEMMA HalfBounded ==
  ASSUME NEW d \in Int, NEW b \in Nat, -b <= d, d <= b
  PROVE  HalfOf(d) \in Int /\ -(b \div 2) <= HalfOf(d) /\ HalfOf(d) <= b \div 2
<1>1. \A x \in Int : x \div 2 \in Int /\ 2 * (x \div 2) <= x /\ x <= 2 * (x \div 2) + 1
  OBVIOUS
<1>2. b \div 2 \in Int /\ d \div 2 \in Int /\ (-d) \div 2 \in Int
  BY <1>1
<1>3. CASE d < 0
  BY <1>1, <1>2, <1>3 DEF HalfOf
<1>4. CASE d >= 0
  BY <1>1, <1>2, <1>4 DEF HalfOf
<1> QED
  BY <1>3, <1>4

\* The sorts of the constants.
LEMMA WordTypes ==
  /\ WordSize \in Nat /\ WordSize > 0 /\ VTotal \in Nat /\ VTotal > 0
  /\ LineTime \in Nat /\ LineTime > 0 /\ MaxSpread \in Nat /\ Margin \in Nat
  /\ WordSize \div 2 \in Nat /\ WordSize = 2 * (WordSize \div 2)
<1>1. /\ WordSize \in Nat /\ WordSize > 0 /\ VTotal \in Nat /\ VTotal > 0
      /\ LineTime \in Nat /\ LineTime > 0 /\ MaxSpread \in Nat /\ Margin \in Nat
      /\ WordSize % 2 = 0
  BY RasterAssumption
<1>2. /\ WordSize \div 2 \in Int /\ 0 <= WordSize \div 2
      /\ WordSize = 2 * (WordSize \div 2) + (WordSize % 2)
  BY <1>1, DivMod
<1> QED
  BY <1>1, <1>2

\* An int that fits half a word is read back from any word equal to it but for whole words.
LEMMA SignedIs ==
  ASSUME NEW q \in Int, NEW d \in Int, -(WordSize \div 2) < d, d < WordSize \div 2
  PROVE  Signed(WordSize * q + d) = d
<1> DEFINE W == WordSize
           h == WordSize \div 2
<1>1. W \in Int /\ W > 0 /\ h \in Nat /\ W = 2 * h /\ -h < d /\ d < h
  BY WordTypes
<1>2. CASE d >= 0
  <2>1. (WordSize * q + d) % WordSize = d
    BY <1>1, <1>2, DivUnique
  <2> QED
    BY <1>1, <1>2, <2>1 DEF Signed, Word
<1>3. CASE d < 0
  <2>1. W * (q - 1) + (W + d) = W * q + d
    BY <1>1
  <2>2. 0 <= W + d /\ W + d < W /\ W + d >= h /\ W + d \in Int /\ q - 1 \in Int
    BY <1>1, <1>3
  <2>3. (W * (q - 1) + (W + d)) % W = W + d
    BY <1>1, <2>2, DivUnique
  <2>4. (WordSize * q + d) % WordSize = WordSize + d
    BY <2>1, <2>3
  <2> QED
    BY <1>1, <2>2, <2>4 DEF Signed, Word
<1> QED
  BY <1>2, <1>3

\* How far two rasters that are compared are from each other.
Spread == (MaxSpread + 2) * VTotal

\* What is compared, and the nudge for it, fit an int.
LEMMA SpreadTypes ==
  /\ Spread \in Nat /\ Spread > 0 /\ Spread < WordSize \div 2
  /\ NudgeBound \in Nat /\ NudgeBound = LineTime * (Spread \div 2)
  /\ NudgeBound < WordSize \div 2
<1>1. Spread \in Nat /\ Spread > 0
  BY WordTypes DEF Spread
<1>2. Spread \div 2 \in Nat
  BY <1>1
<1>3. NudgeBound = LineTime * (Spread \div 2)
  BY DEF NudgeBound, Spread
<1>4. Spread < WordSize \div 2 /\ NudgeBound < WordSize \div 2
  BY SpreadAssumption DEF Spread, NudgeBound
<1>5. LineTime * (Spread \div 2) \in Nat
  BY <1>2, WordTypes
<1> QED
  BY <1>1, <1>3, <1>4, <1>5

\* Halving keeps a distance, up to rounding.
LEMMA HalvedDistance ==
  ASSUME interlaced \in BOOLEAN, NEW e \in Int, NEW c \in Int, NEW b \in Nat, b > 0,
         -b <= e - c, e - c <= b
  PROVE  /\ Halved(e) \in Int /\ Halved(c) \in Int
         /\ -b <= Halved(e) - Halved(c) /\ Halved(e) - Halved(c) <= b
<1>1. \A x \in Int : x \div 2 \in Int /\ 2 * (x \div 2) <= x /\ x <= 2 * (x \div 2) + 1
  OBVIOUS
<1>2. CASE interlaced
  <2>1. Halved(e) = e \div 2 /\ Halved(c) = c \div 2
    BY <1>2 DEF Halved
  <2> QED
    BY <1>1, <2>1
<1>3. CASE ~interlaced
  BY <1>3 DEF Halved
<1> QED
  BY <1>2, <1>3

\* What the code computes with words is half the true distance, and no more than its bound.
LEMMA NudgeRight ==
  ASSUME interlaced \in BOOLEAN, NEW e \in Int, NEW c \in Int,
         -Spread <= e - c, e - c <= Spread, ~Astride(e, c)
  PROVE  /\ Nudge(e, c) = TrueNudge(e, c)
         /\ Nudge(e, c) \in Int /\ -NudgeBound <= Nudge(e, c) /\ Nudge(e, c) <= NudgeBound
<1> DEFINE d == Halved(e) - Halved(c)
           w == Halved(Word(e)) - Halved(Word(c))
           half == HalfOf(d)
<1>1. /\ WordSize \in Int /\ WordSize > 0 /\ WordSize \div 2 \in Nat
      /\ WordSize = 2 * (WordSize \div 2)
      /\ e \div WordSize \in Int /\ c \div WordSize \in Int
      /\ Word(e) \in Int /\ Word(c) \in Int
      /\ e = WordSize * (e \div WordSize) + Word(e)
      /\ c = WordSize * (c \div WordSize) + Word(c)
  BY WordTypes, DivMod DEF Word
<1>2. /\ d \in Int /\ -Spread <= d /\ d <= Spread
      /\ -(WordSize \div 2) < d /\ d < WordSize \div 2
  <2>1. Halved(e) \in Int /\ Halved(c) \in Int /\ -Spread <= d /\ d <= Spread
    BY SpreadTypes, HalvedDistance
  <2> HIDE DEF d
  <2>2. d \in Int
    BY <2>1 DEF d
  <2> QED
    BY <1>1, <2>1, <2>2, SpreadTypes
<1>3. half \in Int /\ -(Spread \div 2) <= half /\ half <= Spread \div 2
  BY <1>2, SpreadTypes, HalfBounded
<1>4. \E q \in Int : w = WordSize * q + d
  <2>1. CASE ~interlaced
    <3> DEFINE q == (c \div WordSize) - (e \div WordSize)
    <3>1. w = Word(e) - Word(c) /\ d = e - c
      BY <2>1 DEF Halved
    <3> DEFINE ew == WordSize * (e \div WordSize)
               cw == WordSize * (c \div WordSize)
    <3>2. q \in Int /\ WordSize * q = cw - ew /\ ew \in Int /\ cw \in Int
      BY <1>1
    <3>3. e = ew + Word(e) /\ c = cw + Word(c)
      BY <1>1
    <3>4. w = (cw - ew) + d
      <4> HIDE DEF ew, cw, w, d
      <4> QED
        BY <1>1, <3>1, <3>2, <3>3
    <3> HIDE DEF q, w, d, ew, cw
    <3> QED
      BY <3>2, <3>4
  <2>2. CASE interlaced
    <3> DEFINE q == e \div WordSize
               h == WordSize \div 2
    <3>1. q = c \div WordSize
      BY <2>2 DEF Astride
    <3>2. e = 2 * (h * q) + Word(e) /\ c = 2 * (h * q) + Word(c)
      BY <1>1, <3>1
    <3>3. h * q \in Int
      BY <1>1
    <3> DEFINE k == h * q
    <3> HIDE DEF k
    <3>4. \A x \in Int : (2 * k + x) \div 2 = k + x \div 2
      BY <3>3 DEF k
    <3>5. e \div 2 = k + Word(e) \div 2 /\ c \div 2 = k + Word(c) \div 2
      BY <1>1, <3>2, <3>4 DEF k
    <3>6. w = d
      BY <1>1, <2>2, <3>3, <3>5 DEF Halved, k
    <3>7. w = WordSize * 0 + d
      BY <1>1, <1>2, <3>6
    <3> QED
      BY <3>7
  <2> QED
    BY <2>1, <2>2
<1>5. Signed(w) = d
  BY <1>2, <1>4, SignedIs
<1>6. /\ LineTime * half \in Int
      /\ -NudgeBound <= LineTime * half /\ LineTime * half <= NudgeBound
  <2> DEFINE b == Spread \div 2
  <2>1. b \in Int /\ NudgeBound = LineTime * b
    BY SpreadTypes
  <2>2. -b <= half /\ half <= b
    BY <1>3
  <2> HIDE DEF b, half
  <2>3. half \in Int
    BY <1>3 DEF half
  <2>4. LineTime * half <= LineTime * b /\ -(LineTime * b) <= LineTime * half
    BY <2>1, <2>2, <2>3, WordTypes
  <2> QED
    BY <2>1, <2>3, <2>4, WordTypes
<1>7. Signed(LineTime * half) = LineTime * half
  <2>1. LineTime * half = WordSize * 0 + LineTime * half
    BY <1>1, <1>6
  <2>2. -(WordSize \div 2) < LineTime * half /\ LineTime * half < WordSize \div 2
    BY <1>1, <1>6, SpreadTypes
  <2> QED
    BY <1>6, <2>1, <2>2, SignedIs
<1>8. /\ Nudge(e, c) = Signed(LineTime * HalfOf(Signed(w)))
      /\ TrueNudge(e, c) = LineTime * half
  BY DEF Nudge, TrueNudge
<1>9. Nudge(e, c) = LineTime * half
  BY <1>5, <1>7, <1>8
<1> HIDE DEF half
<1> QED
  BY <1>6, <1>8, <1>9

\* The times of a blit belong together; the sleep is that of the sync under way.
RasterInv ==
  /\ RasterTypeOK
  /\ pacing = "idle" => sent = 0
  /\ streamed => stream <= (IF pacing = "sync" THEN elapsed ELSE emulation)
  /\ pacing # "wait" => sleep = 0
  /\ sleep >= 0
  /\ SleepBounded

\* The sorts of the state.
LEMMA RasterTypes ==
  ASSUME RasterTypeOK
  PROVE  /\ interlaced \in BOOLEAN /\ streamed \in BOOLEAN /\ raster.clean \in BOOLEAN
         /\ sent \in Nat /\ echo \in Nat /\ polls \in Nat
         /\ elapsed \in Nat /\ emulation \in Nat /\ stream \in Nat
         /\ vSync \in Int /\ sleep \in Int /\ raster.nudge \in Int /\ raster.truth \in Int
  BY RasterAssumption DEF RasterTypeOK

\* The time of a field is a number.
LEMMA FieldTime == ASSUME interlaced \in BOOLEAN PROVE FrameTime \in Nat
<1>1. LineTime * VTotal \in Nat
  BY WordTypes
<1>2. (LineTime * VTotal) \div 2 \in Nat
  BY <1>1
<1> QED
  BY <1>1, <1>2 DEF FrameTime

\* A signed word is an int, whatever it is read from.
LEMMA NudgeTypes ==
  ASSUME interlaced \in BOOLEAN, NEW e \in Int, NEW c \in Int
  PROVE  Nudge(e, c) \in Int /\ TrueNudge(e, c) \in Int
<1>1. \A x \in Int :
        Word(x) \in Int /\ Signed(x) \in Int /\ Halved(x) \in Int /\ HalfOf(x) \in Int
  <2> TAKE x \in Int
  <2>1. x \div 2 \in Int /\ (-x) \div 2 \in Int
    OBVIOUS
  <2>2. Word(x) \in Int
    BY WordTypes, DivMod DEF Word
  <2> QED
    BY <2>1, <2>2, WordTypes DEF Signed, Halved, HalfOf
<1>2. Word(e) \in Int /\ Word(c) \in Int
  BY <1>1
<1>3. Halved(Word(e)) - Halved(Word(c)) \in Int /\ Halved(e) - Halved(c) \in Int
  BY <1>1, <1>2
<1>4. /\ HalfOf(Signed(Halved(Word(e)) - Halved(Word(c)))) \in Int
      /\ HalfOf(Halved(e) - Halved(c)) \in Int
  BY <1>1, <1>3
<1>5. \A x \in Int : LineTime * x \in Int
  BY WordTypes
<1> QED
  BY <1>1, <1>4, <1>5 DEF Nudge, TrueNudge

\* The line is in the picture, or at least a number.
LEMMA LineAsked ==
  ASSUME RasterInv, NEW early \in BOOLEAN
  PROVE  /\ VSyncLine(early) \in Int
         /\ streamed /\ pacing = "blit" => VSyncLine(early) \in 0 .. VTotal
<1>1. /\ VTotal \in Nat /\ VTotal > 0 /\ WordSize \in Int /\ WordSize > 0 /\ Margin \in Nat
      /\ emulation \in Nat /\ stream \in Nat /\ FrameTime \in Nat
  BY WordTypes, RasterTypes, FieldTime DEF RasterInv
<1>2. CASE early
  <2>1. VTotal \div 2 \in Int /\ 0 <= VTotal \div 2 /\ VTotal \div 2 <= VTotal
    BY <1>1
  <2> QED
    BY <1>2, <2>1, <1>1 DEF VSyncLine
<1>3. CASE ~early /\ TimeCalc = 0
  BY <1>1, <1>3 DEF VSyncLine
<1>4. CASE ~early /\ TimeCalc # 0
  <2> DEFINE left == Margin + emulation - stream
             w == Word(VTotal * TimeCalc)
  <2>1. Margin + emulation < FrameTime /\ TimeCalc = Word(left)
    BY <1>1, <1>4 DEF TimeCalc
  <2>2. FrameTime > 0 /\ left \in Int
    BY <1>1, <2>1
  <2>3. TimeCalc \in Nat /\ (left >= 0 => TimeCalc <= left)
    <3>1. /\ left % WordSize \in Int /\ 0 <= left % WordSize
          /\ (left >= 0 => left % WordSize <= left)
      BY <1>1, <2>2, DivMod
    <3> QED
      BY <2>1, <3>1 DEF Word
  <2>4. VTotal * TimeCalc \in Nat
    BY <1>1, <2>3
  <2>5. w \in Nat /\ w <= VTotal * TimeCalc
    BY <1>1, <2>4, DivMod DEF Word
  <2> DEFINE lines == (w + FrameTime - 1) \div FrameTime
  <2>6. VSyncLine(early) = VTotal - lines
    BY <1>4 DEF VSyncLine
  <2>7. lines \in Int
    BY <1>1, <2>2, <2>5, DivMod
  <2>8. ASSUME streamed, pacing = "blit" PROVE lines \in 0 .. VTotal
    <3>1. stream <= emulation
      BY <2>8 DEF RasterInv
    <3>2. left >= 0 /\ left <= FrameTime
      BY <1>1, <2>1, <3>1
    <3>3. TimeCalc <= FrameTime
      BY <1>1, <2>2, <2>3, <3>2
    <3>4. VTotal * TimeCalc <= VTotal * FrameTime
      BY <1>1, <2>3, <3>3
    <3>5. VTotal * FrameTime \in Nat
      BY <1>1
    <3> HIDE DEF w
    <3>6. w <= VTotal * FrameTime
      BY <2>4, <2>5, <3>4, <3>5
    <3> QED
      BY <1>1, <2>2, <2>5, <3>6, CeilBounded
  <2> HIDE DEF lines
  <2> QED
    BY <1>1, <2>6, <2>7, <2>8
<1> QED
  BY <1>2, <1>3, <1>4

\* Two rasters whose frames are close to each other are.
LEMMA NearSpread ==
  ASSUME NEW e \in Int, NEW c \in Int, NEW k \in 0 .. VTotal - 1, NEW l \in 0 .. VTotal - 1,
         Near(e, c)
  PROVE  LET d == ((e - 1) * VTotal + k) - (c * VTotal + l)
         IN  d \in Int /\ -Spread <= d /\ d <= Spread
<1> DEFINE x == e - 1 - c
           d == ((e - 1) * VTotal + k) - (c * VTotal + l)
<1>1. /\ VTotal \in Nat /\ VTotal > 0 /\ MaxSpread \in Nat /\ x \in Int
      /\ -(MaxSpread + 1) <= x /\ x <= MaxSpread + 1
  BY WordTypes DEF Near
<1>2. k \in Int /\ l \in Int /\ -VTotal <= k - l /\ k - l <= VTotal
  BY <1>1
<1>3. d = x * VTotal + (k - l)
  BY <1>1, <1>2
<1> HIDE DEF x, d
<1>4. x * VTotal <= (MaxSpread + 1) * VTotal /\ -((MaxSpread + 1) * VTotal) <= x * VTotal
  BY <1>1
<1>5. Spread = (MaxSpread + 1) * VTotal + VTotal
  BY <1>1 DEF Spread
<1>6. (MaxSpread + 1) * VTotal \in Int /\ x * VTotal \in Int
  BY <1>1
<1>7. d \in Int /\ -Spread <= d /\ d <= Spread
  BY <1>1, <1>2, <1>3, <1>4, <1>5, <1>6
<1> QED
  BY <1>7 DEF d

\* No wait is under way at first.
LEMMA RasterStarts == RasterInit => RasterInv
<1> SUFFICES ASSUME RasterInit PROVE RasterInv
  OBVIOUS
<1>1. RasterTypeOK
  <2>1. {interlaced, streamed, raster.clean} \subseteq BOOLEAN
    BY DEF RasterInit, NoRaster
  <2>2. {vSync, sleep, raster.nudge, raster.truth} \subseteq Int
    BY DEF RasterInit, NoRaster
  <2>3. sent \in 0 .. LastFrame /\ echo \in 0 .. LastFrame /\ polls \in 0 .. MaxPolls
    BY RasterAssumption DEF RasterInit
  <2>4. /\ {elapsed, emulation, stream} \subseteq Nat
        /\ pacing \in {"idle", "blit", "sync", "wait"}
    BY DEF RasterInit
  <2> QED
    BY <2>1, <2>2, <2>3, <2>4 DEF RasterTypeOK
<1>2. NudgeBound \in Nat /\ FrameTime \in Nat
  BY SpreadTypes, FieldTime DEF RasterInit
<1>3. 0 * NudgeBound = 0
  BY <1>2
<1>4. SleepBounded
  BY <1>2, <1>3 DEF RasterInit, NoRaster, SleepBounded, NudgeIsTrue
<1> QED
  BY <1>1, <1>4 DEF RasterInit, RasterInv

\* Every step of the servo keeps it.
LEMMA RasterKept == RasterInv /\ [RasterNext]_rasterVars => RasterInv'
<1> SUFFICES ASSUME RasterInv, [RasterNext]_rasterVars PROVE RasterInv'
  OBVIOUS
<1>1. /\ interlaced \in BOOLEAN /\ streamed \in BOOLEAN /\ raster.clean \in BOOLEAN
      /\ sent \in Nat /\ echo \in Nat /\ polls \in Nat
      /\ elapsed \in Nat /\ emulation \in Nat /\ stream \in Nat
      /\ vSync \in Int /\ sleep \in Int /\ raster.nudge \in Int /\ raster.truth \in Int
      /\ FrameTime \in Nat /\ NudgeBound \in Nat
      /\ RasterTypeOK
  BY RasterTypes, FieldTime, SpreadTypes DEF RasterInv
<1>2. /\ MaxStream \in Nat /\ MaxLate \in Nat /\ LastFrame \in Nat /\ MaxPolls \in Nat
      /\ StartFrames \subseteq 1 .. LastFrame
  BY RasterAssumption
<1>3. CASE RasterStart
  <2>1. RasterTypeOK'
    <3>1. {interlaced', streamed', raster'.clean} \subseteq BOOLEAN
      BY <1>1, <1>3 DEF RasterStart
    <3>2. sent' \in 0 .. LastFrame /\ echo' \in 0 .. LastFrame
      <4>1. sent' \in 1 .. LastFrame /\ echo' = sent' - 1
        BY <1>2, <1>3 DEF RasterStart
      <4>2. \A f \in 1 .. LastFrame : f \in 0 .. LastFrame /\ f - 1 \in 0 .. LastFrame
        BY <1>2
      <4> QED
        BY <4>1, <4>2
    <3> QED
      BY <1>1, <1>3, <3>1, <3>2 DEF RasterStart, RasterTypeOK
  <2>2. sleep' = 0 /\ raster' = raster /\ polls' = polls /\ pacing' = "blit"
    BY <1>3 DEF RasterStart, RasterInv
  <2>3. FrameTime' \in Nat
    <3>1. interlaced' \in BOOLEAN
      BY <1>3 DEF RasterStart
    <3>2. LineTime * VTotal \in Nat /\ (LineTime * VTotal) \div 2 \in Nat
      BY WordTypes
    <3> QED
      BY <3>1, <3>2 DEF FrameTime
  <2>4. polls * NudgeBound \in Nat
    BY <1>1
  <2>5. SleepBounded'
    <3>1. (NudgeBound)' = NudgeBound
      BY DEF NudgeBound
    <3>2. (polls * NudgeBound)' = polls * NudgeBound
      BY <2>2, <3>1
    <3>3. 0 \in 0 .. FrameTime' + polls * NudgeBound
      BY <2>3, <2>4
    <3>4. raster.clean => NudgeIsTrue
      BY DEF RasterInv, SleepBounded
    <3>5. raster.clean => NudgeIsTrue'
      BY <2>2, <3>4 DEF NudgeIsTrue
    <3> QED
      BY <2>2, <3>2, <3>3, <3>5 DEF SleepBounded
  <2>6. streamed' => stream' <= emulation'
    BY <1>3 DEF RasterStart, RasterInv
  <2> QED
    BY <2>1, <2>2, <2>5, <2>6 DEF RasterInv
<1>4. ASSUME UNCHANGED <<interlaced, sleep, raster, polls>>
      PROVE  SleepBounded'
  BY <1>4 DEF RasterInv, SleepBounded, NudgeIsTrue, FrameTime, NudgeBound
<1>5. ASSUME NEW early \in BOOLEAN, StreamBlit(early)
      PROVE  RasterInv'
  <2>1. PICK late \in 0 .. MaxLate : elapsed' = elapsed + late + stream'
    BY <1>5 DEF StreamBlit
  <2>2. stream' \in Nat /\ elapsed' \in Nat /\ stream' <= elapsed'
    <3>1. stream' \in 0 .. MaxStream
      BY <1>5 DEF StreamBlit
    <3>2. late \in Nat /\ stream' \in Nat
      BY <1>2, <3>1
    <3> QED
      <4>1. \A a, b, c \in Nat : a + b + c \in Nat /\ c <= a + b + c
        OBVIOUS
      <4> QED
        BY <1>1, <2>1, <3>2, <4>1
  <2>3. vSync' \in Int
    BY <1>5, LineAsked DEF StreamBlit
  <2>4. RasterTypeOK'
    <3>1. {interlaced', streamed', raster'.clean} \subseteq BOOLEAN
      BY <1>1, <1>5 DEF StreamBlit
    <3>2. {vSync', sleep', raster'.nudge, raster'.truth} \subseteq Int
      BY <1>1, <1>5, <2>3 DEF StreamBlit
    <3>3. sent' \in 0 .. LastFrame
      BY <1>1, <1>2, <1>5 DEF StreamBlit
    <3>4. /\ {elapsed', emulation', stream'} \subseteq Nat
          /\ pacing' \in {"idle", "blit", "sync", "wait"}
      BY <1>1, <1>5, <2>2 DEF StreamBlit
    <3>5. echo' \in 0 .. LastFrame /\ polls' \in 0 .. MaxPolls
      BY <1>1, <1>5 DEF StreamBlit, RasterTypeOK
    <3> QED
      BY <3>1, <3>2, <3>3, <3>4, <3>5 DEF RasterTypeOK
  <2>5. SleepBounded'
    BY <1>4, <1>5 DEF StreamBlit
  <2> QED
    BY <1>5, <2>2, <2>4, <2>5 DEF StreamBlit, RasterInv
<1>6. CASE SkipBlit
  <2>1. PICK late \in 0 .. MaxLate : elapsed' = elapsed + late
    BY <1>6 DEF SkipBlit
  <2>2. elapsed' \in Nat
    BY <1>1, <1>2, <2>1
  <2>3. RasterTypeOK'
    BY <1>1, <1>6, <2>2 DEF SkipBlit, RasterTypeOK
  <2>4. SleepBounded'
    BY <1>4, <1>6 DEF SkipBlit
  <2> QED
    BY <1>6, <2>3, <2>4 DEF SkipBlit, RasterInv
<1>7. CASE StartWait
  <2>1. sleep' \in 0 .. FrameTime /\ emulation' = elapsed /\ polls' = 0
    BY <1>1, <1>7 DEF StartWait
  <2>2. RasterTypeOK'
    BY <1>1, <1>2, <1>7, <2>1 DEF StartWait, RasterTypeOK
  <2>3. FrameTime' = FrameTime /\ NudgeBound' = NudgeBound /\ 0 * NudgeBound = 0
    BY <1>1, <1>7 DEF StartWait, FrameTime, NudgeBound
  <2>4. raster.clean => NudgeIsTrue'
    BY <1>7 DEF StartWait, RasterInv, SleepBounded, NudgeIsTrue
  <2>5. SleepBounded'
    BY <1>1, <1>7, <2>1, <2>3, <2>4 DEF StartWait, SleepBounded
  <2> QED
    BY <1>1, <1>7, <2>1, <2>2, <2>5 DEF StartWait, RasterInv
<1>8. CASE PollAnswered
  <2>1. PICK core \in 0 .. LastFrame, echoLine \in Lines, coreLine \in Lines :
          LET echoAt == (echo' - 1) * VTotal + echoLine
              coreAt == core * VTotal + coreLine
              n == IF Near(echo', core) THEN Nudge(echoAt, coreAt) ELSE 0
          IN  /\ raster' = [nudge |-> n, truth |-> TrueNudge(echoAt, coreAt),
                            clean |-> raster.clean /\ ~Astride(echoAt, coreAt)]
              /\ sleep' = Slept(n)
    BY <1>8 DEF PollAnswered
  <2> DEFINE echoAt == (echo' - 1) * VTotal + echoLine
             coreAt == core * VTotal + coreLine
             n == IF Near(echo', core) THEN Nudge(echoAt, coreAt) ELSE 0
  <2>2. /\ echo' \in Nat /\ echo' <= sent /\ core \in Nat
        /\ echoLine \in 0 .. VTotal - 1 /\ coreLine \in 0 .. VTotal - 1
    BY <1>1, <1>2, <1>8, RasterAssumption DEF PollAnswered
  <2>3. echoAt \in Int /\ coreAt \in Int
    BY <2>2, WordTypes
  <2>4. n \in Int /\ TrueNudge(echoAt, coreAt) \in Int
    BY <1>1, <2>3, NudgeTypes
  <2>5. ASSUME ~Astride(echoAt, coreAt)
        PROVE  n \in {0, TrueNudge(echoAt, coreAt)} /\ -NudgeBound <= n /\ n <= NudgeBound
    <3>1. CASE ~Near(echo', core)
      BY <1>1, <3>1
    <3>2. CASE Near(echo', core)
      <4>1. -Spread <= echoAt - coreAt /\ echoAt - coreAt <= Spread
        BY <2>2, <3>2, NearSpread
      <4> HIDE DEF echoAt, coreAt
      <4>2. /\ Nudge(echoAt, coreAt) = TrueNudge(echoAt, coreAt)
            /\ -NudgeBound <= Nudge(echoAt, coreAt) /\ Nudge(echoAt, coreAt) <= NudgeBound
        BY <1>1, <2>3, <2>5, <4>1, NudgeRight
      <4> QED
        BY <3>2, <4>2
    <3> QED
      BY <3>1, <3>2
  <2> DEFINE truth == TrueNudge(echoAt, coreAt)
             astride == Astride(echoAt, coreAt)
  <2>6. /\ raster' = [nudge |-> n, truth |-> truth, clean |-> raster.clean /\ ~astride]
        /\ sleep' = Slept(n)
    BY <2>1
  <2> HIDE DEF n, truth, astride
  <2>7. /\ raster'.nudge = n /\ raster'.truth = truth
        /\ raster'.clean = (raster.clean /\ ~astride)
    BY <2>6
  <2>8. truth \in Int /\ n \in Int
    BY <2>4 DEF truth
  <2>9. ~astride => n \in {0, truth} /\ -NudgeBound <= n /\ n <= NudgeBound
    BY <2>5 DEF astride, truth
  <2>10. sleep' \in Int /\ sleep' >= 0 /\ (n <= NudgeBound => sleep' <= sleep + NudgeBound)
    BY <1>1, <2>6, <2>8 DEF Slept, RasterInv
  <2>11. RasterTypeOK'
    <3>1. {interlaced', streamed', raster'.clean} \subseteq BOOLEAN
      BY <1>1, <1>8, <2>7 DEF PollAnswered
    <3>2. {vSync', sleep', raster'.nudge, raster'.truth} \subseteq Int
      BY <1>1, <1>8, <2>7, <2>8, <2>10 DEF PollAnswered
    <3>3. /\ {elapsed', emulation', stream'} \subseteq Nat
          /\ pacing' \in {"idle", "blit", "sync", "wait"}
      BY <1>1, <1>8 DEF PollAnswered
    <3>4. sent' \in 0 .. LastFrame /\ echo' \in 0 .. LastFrame /\ polls' \in 0 .. MaxPolls
      BY <1>1, <1>2, <1>8, <2>2 DEF PollAnswered, RasterTypeOK
    <3> QED
      BY <3>1, <3>2, <3>3, <3>4 DEF RasterTypeOK
  <2>12. SleepBounded'
    <3> SUFFICES ASSUME raster'.clean
                 PROVE  NudgeIsTrue' /\ sleep' \in (0 .. FrameTime + polls * NudgeBound)'
      BY DEF SleepBounded
    <3>1. raster.clean /\ ~astride
      BY <2>7
    <3>2. NudgeIsTrue'
      BY <2>7, <2>9, <3>1 DEF NudgeIsTrue
    <3>3. /\ polls' = polls + 1 /\ FrameTime' = FrameTime /\ NudgeBound' = NudgeBound
      BY <1>8 DEF PollAnswered, FrameTime, NudgeBound
    <3>4. sleep <= FrameTime + polls * NudgeBound
      BY <1>1, <3>1 DEF RasterInv, SleepBounded
    <3>5. /\ (polls + 1) * NudgeBound = polls * NudgeBound + NudgeBound
          /\ polls * NudgeBound \in Nat
      BY <1>1
    <3>6. sleep' \in 0 .. FrameTime + (polls + 1) * NudgeBound
      BY <1>1, <2>9, <2>10, <3>1, <3>4, <3>5
    <3> QED
      BY <3>2, <3>3, <3>6
  <2> QED
    BY <1>8, <2>10, <2>11, <2>12 DEF PollAnswered, RasterInv
<1>9. CASE WaitDone
  <2>1. RasterTypeOK'
    BY <1>1, <1>2, <1>9 DEF WaitDone, RasterTypeOK, NoRaster
  <2>2. FrameTime' = FrameTime /\ NudgeBound' = NudgeBound /\ polls' = polls
    BY <1>9 DEF WaitDone, FrameTime, NudgeBound
  <2>3. polls * NudgeBound \in Nat
    BY <1>1
  <2>4. NudgeIsTrue' /\ sleep' = 0
    BY <1>9 DEF WaitDone, NoRaster, NudgeIsTrue
  <2>5. SleepBounded'
    BY <1>1, <2>2, <2>3, <2>4 DEF SleepBounded
  <2> QED
    BY <1>9, <2>1, <2>4, <2>5 DEF WaitDone, RasterInv
<1>10. CASE UNCHANGED rasterVars
  <2>1. SleepBounded'
    BY <1>4, <1>10 DEF rasterVars
  <2> QED
    BY <1>10, <2>1 DEF rasterVars, RasterInv, RasterTypeOK
<1> QED
  BY <1>3, <1>5, <1>6, <1>7, <1>8, <1>9, <1>10 DEF RasterNext

\* The state of the servo is always well formed: no nudge leaves the integers, whatever
\* words it is computed from (groovymister.cpp:1362-1429).
THEOREM RasterTypeCorrect == RasterSpec => []RasterTypeOK
<1>1. RasterInv => RasterTypeOK
  BY DEF RasterInv
<1> QED
  BY <1>1, RasterStarts, RasterKept, PTL DEF RasterSpec

\* WaitSync sleeps no longer than the rest of a frame and one bounded nudge for each
\* status that came while it waited, and the nudge is half the true distance of the two
\* rasters (groovymister.cpp:1339-1429), unless one of an interlaced mode was astride the
\* end of the 32-bit counters.
THEOREM SleepsNoLonger == RasterSpec => []SleepBounded
<1>1. RasterInv => SleepBounded
  BY DEF RasterInv
<1> QED
  BY <1>1, RasterStarts, RasterKept, PTL DEF RasterSpec

\* The line CmdBlit asks the core to show a blit at lies in the picture
\* (groovymister.cpp:1037-1050) whenever the last blit was streamed.
THEOREM LineInPicture == RasterSpec => VSyncInPicture
<1>1. RasterInv /\ [RasterNext]_rasterVars =>
        [sent > 0 /\ sent' # sent /\ streamed => vSync' \in 0 .. VTotal]_rasterVars
  <2> SUFFICES ASSUME RasterInv, RasterNext, sent > 0, sent' # sent, streamed
               PROVE  vSync' \in 0 .. VTotal
    OBVIOUS
  <2>1. ~RasterStart
    <3>1. pacing # "idle"
      BY DEF RasterInv
    <3> QED
      BY <3>1 DEF RasterStart
  <2>2. ~SkipBlit /\ ~StartWait /\ ~PollAnswered /\ ~WaitDone
    BY DEF SkipBlit, StartWait, PollAnswered, WaitDone
  <2>3. PICK early \in BOOLEAN : StreamBlit(early)
    BY <2>1, <2>2 DEF RasterNext
  <2>4. vSync' = VSyncLine(early) /\ pacing = "blit"
    BY <2>3 DEF StreamBlit
  <2> QED
    BY <2>4, LineAsked
<1> QED
  BY <1>1, RasterStarts, RasterKept, PTL DEF RasterSpec, VSyncInPicture

-----------------------------------------------------------------------------
(* The parts of the client beside each other: whatever the others do, each *)
(* behaves as its own specification says, so that what is proved of one    *)
(* part holds of the client.                                               *)

\* A step of the client is a step of each part, or leaves it alone.
LEMMA StepOfEach ==
  [ClientNext]_clientPartVars =>
    /\ [Next]_vars /\ [SendNext]_sendVars
    /\ [ReceiveNext]_receiveVars /\ [RasterNext]_rasterVars
<1> SUFFICES ASSUME [ClientNext]_clientPartVars
             PROVE  /\ [Next]_vars /\ [SendNext]_sendVars
                    /\ [ReceiveNext]_receiveVars /\ [RasterNext]_rasterVars
  OBVIOUS
<1>1. CASE part = "session" /\ Next /\ UNCHANGED <<part, sendVars, receiveVars, rasterVars>>
  BY <1>1
<1>2. CASE part = "send" /\ SendNext /\ UNCHANGED <<part, vars, receiveVars, rasterVars>>
  BY <1>2
<1>3. CASE part = "receive" /\ ReceiveNext /\ UNCHANGED <<part, vars, sendVars, rasterVars>>
  BY <1>3
<1>4. CASE part = "raster" /\ RasterNext /\ UNCHANGED <<part, vars, sendVars, receiveVars>>
  BY <1>4
<1>5. CASE UNCHANGED clientPartVars
  BY <1>5 DEF clientPartVars
<1> QED
  BY <1>1, <1>2, <1>3, <1>4, <1>5 DEF ClientNext

\* The client behaves as each of its parts: none reads or writes what another keeps.
LEMMA PartsStandAlone == ClientSpec => Spec /\ SendSpec /\ ReceiveSpec /\ RasterSpec
<1>1. ClientInit => Init /\ SendInit /\ ReceiveInit /\ RasterInit
  BY DEF ClientInit
<1> QED
  BY <1>1, StepOfEach, PTL DEF ClientSpec, Spec, SendSpec, ReceiveSpec, RasterSpec

\* The state of the whole client is always well formed: its session, its send queue, its
\* receive path and its servo (groovymister.cpp:207-1805).
THEOREM ClientTypeCorrect == ClientSpec => []ClientTypeOK
<1>1. TypeOK /\ SendTypeOK /\ ReceiveTypeOK /\ RasterTypeOK <=> ClientTypeOK
  BY DEF ClientTypeOK
<1> QED
  BY <1>1, PartsStandAlone, SessionTypeCorrect, SendTypeCorrect, ReceiveTypeCorrect,
     RasterTypeCorrect, PTL

\* What no behaviour of the client does, whatever its parts are at: put a wrong picture or a
\* wrong byte count before the core, act on the echo of another session, give up on a lost
\* session, go deaf to answers that arrive, sleep for longer than a field and its nudges, or
\* give back twice what a session acquired (groovymister.cpp:255-279, 354-390, 879, 950-1028,
\* 1214-1264, 1339-1429).
THEOREM ClientIsSafe ==
  ClientSpec =>
    [](/\ BlitFitsUnlessLost /\ BlitSizeIsPackedSize /\ EchoNeverAhead /\ RetryStaysArmed
       /\ ReceiveNeverDeaf /\ SleepBounded /\ TornDownOnce)
  BY PartsStandAlone, BlitsFitTheCore, BlitsCarryTheirSize, EchoStaysBehind, RetryIsArmed,
     NeverDeaf, SleepsNoLonger, TornDownExactlyOnce, PTL

\* What no step of the client does: number a blit below the one before it, send other slices
\* than the command announced, have a send refused although the network keeps up, or aim at a
\* line that is not in the picture (groovymister.cpp:1037-1050, 1134-1185, 1239, 1306-1370).
THEOREM ClientStepsAreSafe ==
  ClientSpec =>
    FramesIncrease /\ PayloadAsAnnounced /\ RefusedOnlyByBacklog /\ VSyncInPicture
  BY PartsStandAlone, FramesAdvance, SlicesAsAnnounced, BacklogAlone, LineInPicture, PTL
=============================================================================
