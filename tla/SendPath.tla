------------------------------- MODULE SendPath -------------------------------
(***************************************************************************)
(* The client's way out (groovymister.cpp, the registered I/O build): what *)
(* CmdInit acquires and teardownVideo gives back, the buffers CmdBlit and  *)
(* CmdAudio fill, and the sends they queue.  A send only names a buffer:   *)
(* the network card reads it when the datagram goes, which may be after    *)
(* the client has written the next one into it.  A send holds a slot of    *)
(* m_sendQueue from the call until its completion is taken out.            *)
(***************************************************************************)
EXTENDS Integers, Sequences

CONSTANTS
  SendSlots,    \* BUFFER_SLICES: slots of m_sendQueue
  RawSlices,    \* datagrams of a raw field of the mode (m_RGBSize over m_mtu)
  SoundSlices,  \* datagrams of a send of sound
  FailAt,       \* after how many resources CmdInit may return early
  MaxFields,    \* bound: fields sent
  MaxSwitches,  \* bound: CMD_SWITCHRES sent since the send queue was last drained
  MaxInits      \* bound: calls of CmdInit

ASSUME SendAssumption ==
  /\ {SendSlots, RawSlices, SoundSlices} \subseteq Nat \ {0}
  /\ {MaxFields, MaxSwitches, MaxInits} \subseteq Nat
  /\ FailAt \subseteq 0 .. 10

VARIABLES
  owned,       \* how many of each resource are open
  abandoned,   \* history: how many of those an early return of CmdInit left behind
  downed,    \* m_videoTorndown
  compressed,  \* lz4Frames: which buffers CmdInit registered for the fields
  sending,     \* where the stream worker is
  field,       \* the field that is packed, 0 or 1
  fields,      \* fields packed so far
  content,     \* which picture, and in which form, each buffer holds
  command,     \* what m_bufferSend announces
  nic,         \* sends not gone yet
  done,        \* completions not taken out yet
  behind,      \* history: some were not gone when the queue was last drained
  switches,    \* history: CMD_SWITCHRES sent since then
  refused,     \* history: a send of this session found the queue full
  expects,     \* what the last command that went announces, and the next slice of it
  inits

sessionVars == <<owned, abandoned, downed, compressed, inits>>
queueVars == <<nic, done, behind, switches, refused, expects>>
dataVars == <<field, fields, content, command>>
sendVars == <<sessionVars, queueVars, dataVars, sending>>

\* In the order CmdInit acquires them.
Resources ==
  <<"winsock", "socket", "port", "commandBuffer", "receiveBuffer", "fieldBuffer0",
    "fieldBuffer1", "audioBuffer", "sendQueue", "receiveQueue">>

Released ==
  {"winsock", "socket", "commandBuffer", "fieldBuffer0", "fieldBuffer1", "audioBuffer",
   "sendQueue", "receiveQueue"}

Buffers == {"field0", "field1", "packed0", "packed1", "audio"}

FieldBuffer(f) == IF f = 0 THEN "field0" ELSE "field1"

\* m_pBufsBlit[f]: slices of the compressed or of the raw buffers, whichever CmdInit
\* registered.
Registered(f) ==
  IF compressed THEN IF f = 0 THEN "packed0" ELSE "packed1" ELSE FieldBuffer(f)

Nothing == [picture |-> 0, form |-> "none", slices |-> 0]

SendInit ==
  /\ owned = [r \in {Resources[i] : i \in 1 .. Len(Resources)} |-> 0]
  /\ abandoned = owned
  /\ downed = TRUE /\ compressed = FALSE /\ inits = 0
  /\ sending = "closed"
  /\ field = 0 /\ fields = 0
  /\ content = [b \in Buffers |-> [picture |-> 0, form |-> "none"]]
  /\ command = Nothing
  /\ nic = <<>> /\ done = 0 /\ behind = FALSE /\ switches = 0 /\ refused = FALSE
  /\ expects = [what |-> Nothing, stale |-> FALSE, next |-> 1]

-----------------------------------------------------------------------------
(* Queueing.                                                               *)

Request(buffer, i) == [from |-> buffer, slice |-> i, stale |-> FALSE]

\* The sends under way that read a buffer that is written now.
Overwrites(queue, buffer) ==
  [i \in DOMAIN queue |-> [queue[i] EXCEPT !.stale = @ \/ queue[i].from = buffer]]

\* RIOSend of each, with the queue as it is: those beyond its last slot are refused.
Post(queue, requests) ==
  LET room == SendSlots - Len(queue) - done
      fit == IF Len(requests) <= room THEN Len(requests) ELSE room
  IN  /\ nic' = queue \o SubSeq(requests, 1, fit)
      /\ refused' = (refused \/ fit < Len(requests))

Slices(buffer, n) == [i \in 1 .. n |-> Request(buffer, i)]

\* Send: m_bufferSend is written, and sent.
SendCommand(announced) ==
  /\ command' = announced
  /\ Post(Overwrites(nic, "command"), <<Request("command", 0)>>)

Goes(from, to) == sending = from /\ sending' = to

Keeps == UNCHANGED <<sessionVars, done, behind, switches, expects>>

-----------------------------------------------------------------------------
(* Sessions.                                                               *)

Acquired(n) ==
  [r \in DOMAIN owned |-> owned[r] + IF \E i \in 1 .. n : Resources[i] = r THEN 1 ELSE 0]

\* A step of CmdInit fails after n resources: it returns and keeps them.
CmdInitReturnsEarly ==
  /\ Goes("closed", "failed")
  /\ inits < MaxInits
  /\ inits' = inits + 1
  /\ \E n \in FailAt :
       /\ owned' = Acquired(n)
       /\ abandoned' = [r \in DOMAIN abandoned |-> abandoned[r] + owned'[r] - owned[r]]
  /\ UNCHANGED <<downed, compressed, queueVars, dataVars>>

\* All is acquired: teardownVideo is armed again, the counters start anew and
\* CMD_INIT goes.
OpenSession ==
  /\ Goes("closed", "await")
  /\ inits < MaxInits
  /\ inits' = inits + 1
  /\ owned' = Acquired(Len(Resources))
  /\ downed' = FALSE
  /\ compressed' \in BOOLEAN
  /\ command' = Nothing
  /\ nic' = <<Request("command", 0)>>
  /\ refused' = FALSE
  /\ UNCHANGED <<abandoned, done, behind, switches, expects, field, fields, content>>

\* A wrong version: a teardown that does not ask whether it was done.
TeardownAlways ==
  /\ downed' = TRUE
  /\ owned' = [r \in DOMAIN owned |-> IF r \in Released THEN owned[r] - 1 ELSE owned[r]]
  /\ nic' = <<>> /\ done' = 0 /\ behind' = FALSE /\ switches' = 0
  /\ UNCHANGED <<abandoned, compressed, inits, refused, expects>>

\* teardownVideo, once for each session; the completion port and the receive buffer
\* are not given back.
Teardown ==
  /\ downed' = TRUE
  /\ owned' = [r \in DOMAIN owned |->
                 IF ~downed /\ r \in Released THEN owned[r] - 1 ELSE owned[r]]
  /\ nic' = IF downed THEN nic ELSE <<>>
  /\ done' = IF downed THEN done ELSE 0
  /\ behind' = IF downed THEN behind ELSE FALSE
  /\ switches' = IF downed THEN switches ELSE 0
  /\ UNCHANGED <<abandoned, compressed, inits, refused, expects>>

\* CMD_INIT is not acknowledged.
InitTimesOut ==
  /\ Goes("await", "failed")
  /\ Teardown
  /\ UNCHANGED dataVars

InitAcknowledged ==
  /\ Goes("await", "pack")
  /\ UNCHANGED <<sessionVars, queueVars, dataVars>>

\* The host's CmdClose after a CmdInit that failed.
CloseFailed ==
  /\ Goes("failed", "closed")
  /\ Teardown
  /\ UNCHANGED dataVars

\* CmdClose on a live session: CMD_CLOSE, and the teardown right after it.
SendClose ==
  /\ Goes("pack", "closing")
  /\ SendCommand(Nothing)
  /\ Keeps /\ UNCHANGED <<field, fields, content>>

CmdClose ==
  /\ Goes("closing", "closed")
  /\ Teardown
  /\ UNCHANGED dataVars

\* The watchdog of CmdBlit: teardown, then CmdInit; the close goes by another socket.
RebuildSession ==
  /\ Goes("pack", "closed")
  /\ Teardown
  /\ UNCHANGED dataVars

-----------------------------------------------------------------------------
(* A frame.                                                                *)

\* CmdSwitchres sends, up to three times, and draw returns to try again if no answer comes:
\* WaitSync is not reached in between.
SendSwitchres ==
  /\ Goes("pack", "pack")
  /\ switches < MaxSwitches
  /\ switches' = switches + 1
  /\ SendCommand(Nothing)
  /\ UNCHANGED <<sessionVars, done, behind, expects, field, fields, content>>

\* nogpu_pack_frame writes the field's buffer.
FillField ==
  /\ Goes("pack", "encode")
  /\ fields < MaxFields
  /\ fields' = fields + 1
  /\ field' \in {0, 1}
  /\ content' = [content EXCEPT ![FieldBuffer(field')] =
                   [picture |-> fields', form |-> "raw"]]
  /\ nic' = Overwrites(nic, FieldBuffer(field'))
  /\ Keeps /\ UNCHANGED <<refused, command>>

\* CmdBlit without a codec announces the raw field.
AnnounceRaw ==
  /\ Goes("encode", "stream")
  /\ ~compressed
  /\ SendCommand([picture |-> fields, form |-> "raw", slices |-> RawSlices])
  /\ Keeps /\ UNCHANGED <<field, fields, content>>

\* With a codec the field is encoded into m_pBufferLZ4[0], whichever field it is.
AnnouncePacked ==
  /\ Goes("encode", "stream")
  /\ compressed
  /\ content' = [content EXCEPT !["packed0"] = [picture |-> fields, form |-> "packed"]]
  /\ \E n \in 1 .. RawSlices :
       /\ command' = [picture |-> fields, form |-> "packed", slices |-> n]
       /\ Post(Overwrites(Overwrites(nic, "packed0"), "command"), <<Request("command", 0)>>)
  /\ Keeps /\ UNCHANGED <<field, fields>>

\* The codec gives up, having written some of its output: the raw field is announced.
AnnounceFallback ==
  /\ Goes("encode", "stream")
  /\ compressed
  /\ content' = [content EXCEPT !["packed0"] = [picture |-> fields, form |-> "scrap"]]
  /\ command' = [picture |-> fields, form |-> "raw", slices |-> RawSlices]
  /\ Post(Overwrites(Overwrites(nic, "packed0"), "command"), <<Request("command", 0)>>)
  /\ Keeps /\ UNCHANGED <<field, fields>>

\* A wrong version: the field picks the slices of compressed pictures too.
PayloadByField == Registered(field)

\* buffer_blit: the slices are those of buffer 0 for a compressed picture.
Payload == IF command.form = "packed" THEN Registered(0) ELSE Registered(field)

\* SendStream.
StreamField ==
  /\ Goes("stream", "sync")
  /\ Post(nic, Slices(Payload, command.slices))
  /\ Keeps /\ UNCHANGED dataVars

\* A wrong version: one batch of completions is taken out, and no more.
LeftByOneBatch(n) == IF n > 3 THEN n - 3 ELSE 0

\* drainSendCompletions takes batches until one is not full.
LeftAfterDrain(n) == 0

\* WaitSync, or a frame for which nothing was sent.
Sync ==
  /\ \/ Goes("sync", "sound")
     \/ Goes("encode", "sound")
  /\ done' = LeftAfterDrain(done)
  /\ behind' = (nic # <<>>) /\ switches' = 0
  /\ UNCHANGED <<sessionVars, nic, refused, expects, dataVars>>

\* CmdAudio; there may be nothing to send.
NoSound ==
  /\ Goes("sound", "pack")
  /\ UNCHANGED <<sessionVars, queueVars, dataVars>>

SendSound ==
  /\ Goes("sound", "pack")
  /\ content' = [content EXCEPT !["audio"] = [picture |-> fields, form |-> "sound"]]
  /\ command' = [picture |-> fields, form |-> "sound", slices |-> SoundSlices]
  /\ Post(Overwrites(Overwrites(nic, "audio"), "command"),
          <<Request("command", 0)>> \o Slices("audio", SoundSlices))
  /\ Keeps /\ UNCHANGED <<field, fields>>

-----------------------------------------------------------------------------
(* The network card, outside.                                              *)

\* A datagram goes, with what its buffer holds now.
Transmit ==
  /\ nic # <<>>
  /\ nic' = Tail(nic)
  /\ done' = done + 1
  /\ expects' = IF Head(nic).from = "command"
                THEN [what |-> command, stale |-> Head(nic).stale, next |-> 1]
                ELSE [expects EXCEPT !.next = @ + 1]
  /\ UNCHANGED <<sessionVars, behind, switches, refused, dataVars, sending>>

SendNext ==
  \/ CmdInitReturnsEarly \/ OpenSession \/ InitTimesOut \/ InitAcknowledged \/ CloseFailed
  \/ SendClose \/ CmdClose \/ RebuildSession
  \/ SendSwitchres \/ FillField \/ AnnounceRaw \/ AnnouncePacked \/ AnnounceFallback \/ StreamField
  \/ Sync \/ NoSound \/ SendSound
  \/ Transmit

SendSpec == SendInit /\ [][SendNext]_sendVars

-----------------------------------------------------------------------------
Announcements ==
  [picture : 0 .. MaxFields, form : {"none", "raw", "packed", "sound"},
   slices : {0} \cup 1 .. RawSlices \cup {SoundSlices}]

\* Types; the queue never holds more than its slots.
SendTypeOK ==
  /\ owned \in [{Resources[i] : i \in 1 .. Len(Resources)} -> Nat]
  /\ abandoned \in [DOMAIN owned -> Nat]
  /\ {downed, compressed, behind, refused} \subseteq BOOLEAN
  /\ inits \in 0 .. MaxInits /\ fields \in 0 .. MaxFields /\ field \in {0, 1}
  /\ sending \in {"closed", "failed", "await", "pack", "encode", "stream", "sync", "sound",
                  "closing"}
  /\ content \in [Buffers -> [picture : 0 .. MaxFields,
                              form : {"none", "raw", "packed", "scrap", "sound"}]]
  /\ command \in Announcements
  /\ Len(nic) + done <= SendSlots
  /\ switches \in 0 .. MaxSwitches
  /\ expects.what \in Announcements

\* Whatever way a session ends (groovymister.cpp:354-390), what teardownVideo gives back is
\* given back once: what is open belongs to the live session, or was left by a CmdInit
\* that returned early.  A session that lives has all it needs.
TornDownOnce ==
  \A r \in Released : owned[r] = abandoned[r] + (IF downed THEN 0 ELSE 1)

\* The fallback of a session whose compressed buffers are registered: what goes is not the
\* raw field.
FallsBack == compressed /\ expects.what.form = "raw"

\* What goes after a command is what the command announced, slice by slice: the same
\* picture in the same form (groovymister.cpp:1134-1185).  Not so for the fallback, if a
\* buffer was written while it was being sent, or if a send was refused.
PayloadAsAnnounced ==
  [][nic # <<>> /\ nic' = Tail(nic) /\ Head(nic).from # "command" =>
       \/ refused \/ FallsBack \/ Head(nic).stale \/ expects.stale
       \/ /\ content[Head(nic).from] =
               [picture |-> expects.what.picture, form |-> expects.what.form]
          /\ Head(nic).slice = expects.next
          /\ expects.next <= expects.what.slices]_sendVars

FrameFits == RawSlices + SoundSlices + 2 <= SendSlots

\* Completions that nobody took out do not add up until sends are refused
\* (groovymister.cpp:1306-1312, 1362-1370): a send is refused because the network had not
\* taken others at the last sync, because a frame is too large, or because mode switches
\* were tried again and again, which no sync ends.
RefusedOnlyByBacklog ==
  [][refused' /\ ~refused => behind \/ ~FrameFits \/ switches' > 0]_sendVars

=============================================================================
