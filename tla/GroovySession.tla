---------------------------- MODULE GroovySession ----------------------------
(***************************************************************************)
(* The streaming session: the stream worker's draw loop                    *)
(* (renderer_nogpu::draw) over the Groovy client (GroovyMister), the UDP    *)
(* path to the MiSTer core, the core itself, and the user changing the     *)
(* modeline meanwhile.  Connection, mode switch, blits, the ACK watchdog,  *)
(* automatic reconnection and the final close are all on one thread; what  *)
(* interleaves with it are the network, the core and SetModeline.          *)
(*                                                                         *)
(* Frame numbers matter through their order only (getACK's gate, the       *)
(* watchdog's comparison), so the model keeps a window of MaxFrame numbers *)
(* and ages all of them together when the window is full.  Disturbances    *)
(* (a lost datagram, an answer after the timeout, a core restart, a socket *)
(* error) are counted and bounded by MaxFaults; without one, the core      *)
(* answers within the timeout and within a frame.  The network keeps the   *)
(* order of the datagrams it delivers.  The core is not part of the        *)
(* repository: it is modelled from what the client's code expects of it.   *)
(***************************************************************************)
EXTENDS Naturals, Sequences, SequencesExt

CONSTANTS
  Modes,            \* modelines SetModeline accepts
  Refused,          \* those the running stream's own options refuse
  NoMode,           \* no modeline
  MissLimit,        \* unacknowledged blits before a reconnect: 10 in the code
  SwitchresAttempts,\* SWITCHRES_ATTEMPTS: 3 in the code
  AutoReconnect,    \* the Auto-reconnect option of the session
  CoreEchoesBlank,  \* does a core that holds no mode acknowledge blits?
  MaxFrame,         \* bound: width of the window of frame numbers
  MaxRevision,      \* bound: user changes of the modeline, plus one
  MaxFaults         \* bound: disturbances

ASSUME ModesAssumption == Refused \subseteq Modes /\ NoMode \notin Modes
ASSUME LimitsAssumption ==
  /\ MissLimit \in Nat \ {0} /\ SwitchresAttempts \in Nat \ {0}
  /\ MaxFrame \in Nat \ {0, 1} /\ MaxRevision \in Nat \ {0} /\ MaxFaults \in Nat
ASSUME OptionsAssumption == AutoReconnect \in BOOLEAN /\ CoreEchoesBlank \in BOOLEAN

VARIABLES
  \* user interface thread (selected_modeline, modelineRevision)
  selected, revision,
  \* renderer_nogpu
  pc,            \* where draw() is; "top" is the loop head of cast_screen
  initialized,   \* m_initialized; also: m_initHost is not empty
  firstBlit,     \* m_first_blit
  frame,         \* m_frame of the renderer
  lastEpoch,     \* m_lastReconnectEpoch
  current,       \* m_current_mode
  modeRevision,  \* m_modeRevision
  want,          \* the modeline and revision nogpu_switch_video_mode copied
  \* GroovyMister
  connected,     \* m_isConnected
  torndown,      \* m_videoTorndown
  stash,         \* m_initPClock..m_initInterlace, NoMode: not m_switchresValid
  sizeMode,      \* the modeline m_RGBSize was computed from
  clientFrame,   \* m_frame of the client
  frameEcho,     \* fpga.frameEcho
  lastSeen,      \* m_lastFrameEchoSeen
  misses,        \* m_noAckBlitCount
  cooling,       \* the last reconnect attempt is less than a second old
  epoch,         \* m_reconnectEpoch, as compared with m_lastReconnectEpoch
  attempt,       \* datagrams sent by the running CmdSwitchres
  \* the network
  toCore,        \* commands; the old socket's are marked
  toHost,        \* ACKs for the current socket: the frame they echo
  \* the core
  coreUp, coreClient, coreMode, coreEcho,
  \* disturbances so far, and history
  faults,
  switchresLost, \* some CMD_SWITCHRES did not reach the core
  deadSend       \* something was sent after teardownVideo

uiVars == <<selected, revision>>
modeVars == <<current, modeRevision, want>>
rendererVars == <<initialized, firstBlit, frame, lastEpoch, modeVars>>
watchdogVars == <<lastSeen, misses, cooling, epoch>>
clientVars == <<connected, torndown, stash, sizeMode, clientFrame, frameEcho,
                watchdogVars, attempt>>
netVars == <<toCore, toHost>>
coreVars == <<coreUp, coreClient, coreMode, coreEcho>>
historyVars == <<switchresLost, deadSend>>
vars == <<uiVars, pc, rendererVars, clientVars, netVars, coreVars, faults, historyVars>>

FrameNumber == 0 .. MaxFrame

InitMsg == [kind |-> "init", cur |-> TRUE]
CloseMsg == [kind |-> "close", cur |-> TRUE]
SwitchresMsg(m) == [kind |-> "switchres", cur |-> TRUE, mode |-> m]
BlitMsg(f, packed, size) ==
  [kind |-> "blit", cur |-> TRUE, frame |-> f, packed |-> packed, size |-> size]

Init ==
  /\ selected \in Modes \ Refused     \* StartStream validated it
  /\ revision = 1
  /\ pc = "top" /\ initialized = FALSE /\ firstBlit = TRUE
  /\ frame = 0 /\ lastEpoch = 0
  /\ current = NoMode /\ modeRevision = 0
  /\ want = [mode |-> NoMode, revision |-> 0]
  /\ connected = FALSE /\ torndown = TRUE
  /\ stash = NoMode /\ sizeMode = NoMode
  /\ clientFrame = 0 /\ frameEcho = 0
  /\ lastSeen = 0 /\ misses = 0 /\ cooling = FALSE /\ epoch = 0 /\ attempt = 0
  /\ toCore = <<>> /\ toHost = <<>>
  /\ coreUp \in BOOLEAN
  /\ coreClient = "none" /\ coreMode = NoMode /\ coreEcho = 0
  /\ faults = 0
  /\ switchresLost = FALSE /\ deadSend = FALSE

-----------------------------------------------------------------------------
(* Waiting.                                                                *)

\* Nothing is on its way that could still answer the stream worker.
Settled == toCore = <<>> /\ toHost = <<>>

Disturb == faults < MaxFaults /\ faults' = faults + 1

\* getACK(60) gives up: when no answer can come any more, or as a disturbance
\* while one is still on its way.
TimesOut ==
  \/ Settled /\ UNCHANGED faults
  \/ ~Settled /\ Disturb

\* getACK takes whatever ACKs have come, one or several: the last is read, and each of the
\* others unless the buffer was written over before.  The status of one is used only if it
\* echoes a newer frame than the last one used.
TakeACK ==
  \E last \in 1 .. Len(toHost) :
    /\ toHost' = SubSeq(toHost, last + 1, Len(toHost))
    /\ frameEcho' \in {frameEcho} \cup {toHost[i] : i \in 1 .. last}
    /\ frameEcho' >= frameEcho /\ frameEcho' >= toHost[last]

-----------------------------------------------------------------------------
(* SetModeline, on the user interface thread.                              *)

SetModeline(m) ==
  /\ revision < MaxRevision
  /\ selected' = m
  /\ revision' = revision + 1
  /\ UNCHANGED <<pc, rendererVars, clientVars, netVars, coreVars, faults, historyVars>>

-----------------------------------------------------------------------------
(* CmdInit: a clean slate, a new socket, one CMD_INIT.  "sent" is what was *)
(* sent on the old socket last.                                            *)

Retag(msgs) == [i \in DOMAIN msgs |-> [msgs[i] EXCEPT !.cur = FALSE]]

\* A wrong version: the ACK gate is not reset.
CmdInitKeepsEcho(sent) ==
  /\ connected' = FALSE
  /\ clientFrame' = 0
  /\ frameEcho' = frameEcho
  /\ torndown' = FALSE
  /\ toCore' = Append(Retag(sent), InitMsg)
  /\ toHost' = <<>>
  /\ coreClient' = IF coreClient = "cur" THEN "old" ELSE coreClient

CmdInit(sent) ==
  /\ connected' = FALSE
  /\ clientFrame' = 0
  /\ frameEcho' = 0
  /\ torndown' = FALSE
  /\ toCore' = Append(Retag(sent), InitMsg)
  /\ toHost' = <<>>
  /\ coreClient' = IF coreClient = "cur" THEN "old" ELSE coreClient

\* One of the returns between creating the socket and re-arming teardownVideo.
CmdInitSocketError(sent) ==
  /\ Disturb
  /\ connected' = FALSE
  /\ clientFrame' = 0
  /\ frameEcho' = 0
  /\ torndown' = TRUE
  /\ toCore' = Retag(sent)
  /\ toHost' = <<>>
  /\ coreClient' = IF coreClient = "cur" THEN "old" ELSE coreClient

-----------------------------------------------------------------------------
(* The draw loop: connecting.                                              *)

StartInit ==
  /\ pc = "top"
  /\ ~initialized
  /\ \/ CmdInit(toCore) /\ pc' = "init" /\ UNCHANGED faults
     \/ CmdInitSocketError(toCore) /\ pc' = "top"
  /\ UNCHANGED <<uiVars, rendererVars, stash, sizeMode, watchdogVars, attempt,
                 coreUp, coreMode, coreEcho, historyVars>>

InitAcked ==
  /\ pc = "init"
  /\ TakeACK
  /\ connected' = TRUE
  /\ initialized' = TRUE
  /\ lastSeen' = 0
  /\ misses' = 0
  /\ pc' = "mode"
  /\ UNCHANGED <<uiVars, firstBlit, frame, lastEpoch, modeVars, torndown, stash,
                 sizeMode, clientFrame, cooling, epoch, attempt, toCore, coreVars,
                 faults, historyVars>>

InitFailed ==
  /\ pc = "init"
  /\ TimesOut
  /\ torndown' = TRUE
  /\ toHost' = <<>>
  /\ pc' = "top"
  /\ UNCHANGED <<uiVars, rendererVars, connected, stash, sizeMode, clientFrame,
                 frameEcho, watchdogVars, attempt, toCore, coreVars,
                 historyVars>>

NextDraw ==
  /\ pc = "top"
  /\ initialized
  /\ pc' = "mode"
  /\ UNCHANGED <<uiVars, rendererVars, clientVars, netVars, coreVars, faults, historyVars>>

\* StopStream between two draws: the destructor's CmdClose.
StopStream ==
  /\ pc = "top"
  /\ toCore' = IF connected THEN Append(toCore, CloseMsg) ELSE toCore
  /\ connected' = FALSE
  /\ stash' = NoMode
  /\ misses' = 0
  /\ torndown' = TRUE
  /\ toHost' = <<>>
  /\ pc' = "closed"
  /\ UNCHANGED <<uiVars, rendererVars, sizeMode, clientFrame, frameEcho, lastSeen,
                 cooling, epoch, attempt, coreVars, faults, historyVars>>

-----------------------------------------------------------------------------
(* nogpu_switch_video_mode and CmdSwitchres.                               *)

ModeInForce ==
  /\ pc = "mode"
  /\ revision = modeRevision
  /\ pc' = "draw"
  /\ UNCHANGED <<uiVars, rendererVars, clientVars, netVars, coreVars, faults, historyVars>>

\* The stream's own validation refuses the mode, or CmdSwitchres finds the
\* session down: the draw ends there.
SwitchRejected ==
  /\ pc = "mode"
  /\ revision # modeRevision
  /\ selected \in Refused \/ ~connected
  /\ pc' = "top"
  /\ UNCHANGED <<uiVars, rendererVars, clientVars, netVars, coreVars, faults, historyVars>>

\* A wrong version: the byte count is computed the first time only.
StartSwitchKeepsSize ==
  /\ pc = "mode"
  /\ revision # modeRevision
  /\ selected \notin Refused
  /\ connected
  /\ want' = [mode |-> selected, revision |-> revision]
  /\ sizeMode' = IF sizeMode = NoMode THEN selected ELSE sizeMode
  /\ attempt' = 1
  /\ toCore' = Append(toCore, SwitchresMsg(selected))
  /\ pc' = "switch"
  /\ UNCHANGED <<uiVars, initialized, firstBlit, frame, lastEpoch, current,
                 modeRevision, connected, torndown, stash, clientFrame, frameEcho,
                 watchdogVars, toHost, coreVars, faults, historyVars>>

\* The byte count changes before the mode is acknowledged.
StartSwitch ==
  /\ pc = "mode"
  /\ revision # modeRevision
  /\ selected \notin Refused
  /\ connected
  /\ want' = [mode |-> selected, revision |-> revision]
  /\ sizeMode' = selected
  /\ attempt' = 1
  /\ toCore' = Append(toCore, SwitchresMsg(selected))
  /\ pc' = "switch"
  /\ UNCHANGED <<uiVars, initialized, firstBlit, frame, lastEpoch, current,
                 modeRevision, connected, torndown, stash, clientFrame, frameEcho,
                 watchdogVars, toHost, coreVars, faults, historyVars>>

\* Two wrong versions: the shared modeline is read again after the wait; the
\* revision is not recorded.
SwitchRereads ==
  /\ pc = "switch"
  /\ TakeACK
  /\ stash' = selected
  /\ current' = selected
  /\ modeRevision' = revision
  /\ pc' = "draw"
  /\ UNCHANGED <<uiVars, initialized, firstBlit, frame, lastEpoch, want, connected,
                 torndown, sizeMode, clientFrame, watchdogVars, attempt, toCore,
                 coreVars, faults, historyVars>>

SwitchNotRecorded ==
  /\ pc = "switch"
  /\ TakeACK
  /\ stash' = want.mode
  /\ current' = want.mode
  /\ pc' = "draw"
  /\ UNCHANGED <<uiVars, initialized, firstBlit, frame, lastEpoch, modeRevision, want,
                 connected, torndown, sizeMode, clientFrame, watchdogVars, attempt,
                 toCore, coreVars, faults, historyVars>>

SwitchAcked ==
  /\ pc = "switch"
  /\ TakeACK
  /\ stash' = want.mode
  /\ current' = want.mode
  /\ modeRevision' = want.revision
  /\ pc' = "draw"
  /\ UNCHANGED <<uiVars, initialized, firstBlit, frame, lastEpoch, want, connected,
                 torndown, sizeMode, clientFrame, watchdogVars, attempt, toCore,
                 coreVars, faults, historyVars>>

SwitchTimeout ==
  /\ pc = "switch"
  /\ TimesOut
  /\ IF attempt < SwitchresAttempts
     THEN /\ attempt' = attempt + 1
          /\ toCore' = Append(toCore, SwitchresMsg(want.mode))
          /\ pc' = pc
     ELSE /\ attempt' = attempt
          /\ toCore' = toCore
          /\ pc' = "top"
  /\ UNCHANGED <<uiVars, rendererVars, connected, torndown, stash, sizeMode,
                 clientFrame, frameEcho, watchdogVars, toHost, coreVars, historyVars>>

-----------------------------------------------------------------------------
(* The rest of draw(): frame number, pack, blit, sync.                     *)

Older(f) == IF f > 1 THEN f - 1 ELSE f

OlderMsg(msg) == IF msg.kind = "blit" THEN [msg EXCEPT !.frame = Older(@)] ELSE msg

\* Every frame number of the system one step back, keeping their order.
AgeFrames ==
  /\ clientFrame' = Older(clientFrame)
  /\ frameEcho' = Older(frameEcho)
  /\ lastSeen' = Older(lastSeen)
  /\ coreEcho' = Older(coreEcho)
  /\ toCore' = [i \in DOMAIN toCore |-> OlderMsg(toCore[i])]
  /\ toHost' = [i \in DOMAIN toHost |-> Older(toHost[i])]

\* m_frame follows the client into a new session, then counts on.  The catch-up
\* to the core's own counter only makes the number larger, as counting does.
NextFrame ==
  LET base == IF epoch # lastEpoch THEN 0 ELSE frame
  IN  IF base < MaxFrame
      THEN /\ frame' = base + 1
           /\ UNCHANGED <<clientFrame, frameEcho, lastSeen, coreEcho, netVars>>
      ELSE /\ frame' = base
           /\ AgeFrames

\* There is no packable capture yet.
PackFails ==
  /\ pc = "draw"
  /\ lastEpoch' = epoch
  /\ NextFrame
  /\ pc' = "top"
  /\ UNCHANGED <<uiVars, initialized, firstBlit, modeVars, connected, torndown, stash,
                 sizeMode, misses, cooling, epoch, attempt, coreUp, coreClient,
                 coreMode, faults, historyVars>>

\* The first packed frame is not sent.
SkipFirstBlit ==
  /\ pc = "draw"
  /\ firstBlit
  /\ lastEpoch' = epoch
  /\ frame' = 0
  /\ firstBlit' = FALSE
  /\ pc' = "top"
  /\ UNCHANGED <<uiVars, initialized, modeVars, clientVars, netVars, coreVars,
                 faults, historyVars>>

\* A wrong version: the epoch is never recorded.
PackFrameEveryEpoch ==
  /\ pc = "draw"
  /\ ~firstBlit
  /\ lastEpoch' = lastEpoch
  /\ NextFrame
  /\ pc' = "blit"
  /\ UNCHANGED <<uiVars, initialized, firstBlit, modeVars, connected, torndown, stash,
                 sizeMode, misses, cooling, epoch, attempt, coreUp, coreClient,
                 coreMode, faults, historyVars>>

PackFrame ==
  /\ pc = "draw"
  /\ ~firstBlit
  /\ lastEpoch' = epoch
  /\ NextFrame
  /\ pc' = "blit"
  /\ UNCHANGED <<uiVars, initialized, firstBlit, modeVars, connected, torndown, stash,
                 sizeMode, misses, cooling, epoch, attempt, coreUp, coreClient,
                 coreMode, faults, historyVars>>

-----------------------------------------------------------------------------
(* CmdBlit with its watchdog.                                              *)

SendBlit ==
  /\ clientFrame' = frame
  /\ IF torndown
     THEN toCore' = toCore /\ deadSend' = TRUE
     ELSE toCore' = Append(toCore, BlitMsg(frame, current, sizeMode))
          /\ UNCHANGED deadSend
  /\ pc' = "sync"

\* What lets a blit of a torn-down session go on to the retry.  CmdBlit returns
\* at once for a client that is neither connected nor armed; RetryStaysArmed says
\* that draw never meets one, so that return is no action here.
Armed == AutoReconnect /\ misses >= MissLimit

\* What the watchdog sees at the start of a blit.
EchoAdvanced == AutoReconnect /\ frameEcho > lastSeen
EchoMissed == AutoReconnect /\ frameEcho <= lastSeen /\ clientFrame > 0

BlitNoMiss ==
  /\ pc = "blit"
  /\ connected \/ Armed
  /\ ~EchoMissed
  /\ IF EchoAdvanced
     THEN lastSeen' = frameEcho /\ misses' = 0
     ELSE UNCHANGED <<lastSeen, misses>>
  /\ SendBlit
  /\ UNCHANGED <<uiVars, rendererVars, connected, torndown, stash, sizeMode, frameEcho,
                 cooling, epoch, attempt, toHost, coreVars, faults, switchresLost>>

BlitMissed ==
  /\ pc = "blit"
  /\ connected \/ Armed
  /\ EchoMissed
  /\ misses + 1 < MissLimit
  /\ misses' = misses + 1
  /\ SendBlit
  /\ UNCHANGED <<uiVars, rendererVars, connected, torndown, stash, sizeMode, frameEcho,
                 lastSeen, cooling, epoch, attempt, toHost, coreVars, faults,
                 switchresLost>>

\* Inside the back-off window the blit is dropped.
BlitBackOff ==
  /\ pc = "blit"
  /\ connected \/ Armed
  /\ EchoMissed
  /\ misses + 1 >= MissLimit
  /\ cooling
  /\ misses' = MissLimit
  /\ pc' = "sync"
  /\ UNCHANGED <<uiVars, rendererVars, connected, torndown, stash, sizeMode, clientFrame,
                 frameEcho, lastSeen, cooling, epoch, attempt, netVars, coreVars,
                 faults, historyVars>>

\* CmdSendClose and teardownVideo on the old session, then CmdInit.
Reconnect ==
  /\ pc = "blit"
  /\ connected \/ Armed
  /\ EchoMissed
  /\ misses + 1 >= MissLimit
  /\ ~cooling
  /\ cooling' = TRUE
  /\ LET sent == IF connected THEN Append(toCore, CloseMsg) ELSE toCore
     IN  \/ /\ CmdInit(sent)
            /\ misses' = misses + 1
            /\ pc' = "reinit"
            /\ UNCHANGED faults
         \/ /\ CmdInitSocketError(sent)
            /\ misses' = MissLimit
            /\ pc' = "sync"
  /\ UNCHANGED <<uiVars, rendererVars, stash, sizeMode, lastSeen, epoch, attempt, coreUp,
                 coreMode, coreEcho, historyVars>>

\* The new session is up; the modeline of the last acknowledged switch, which
\* there always is once a blit was reached, is replayed.
ReconnectAcked ==
  /\ pc = "reinit"
  /\ TakeACK
  /\ connected' = TRUE
  /\ lastSeen' = 0
  /\ misses' = 0
  /\ sizeMode' = stash
  /\ attempt' = 1
  /\ toCore' = Append(toCore, SwitchresMsg(stash))
  /\ pc' = "replay"
  /\ UNCHANGED <<uiVars, rendererVars, torndown, stash, clientFrame, cooling, epoch,
                 coreVars, faults, historyVars>>

\* A wrong version: a failed reconnect starts counting afresh.
ReconnectDisarms ==
  /\ pc = "reinit"
  /\ TimesOut
  /\ torndown' = TRUE
  /\ toHost' = <<>>
  /\ misses' = 0
  /\ pc' = "sync"
  /\ UNCHANGED <<uiVars, rendererVars, connected, stash, sizeMode, clientFrame, frameEcho,
                 lastSeen, cooling, epoch, attempt, toCore, coreVars, historyVars>>

ReconnectFailed ==
  /\ pc = "reinit"
  /\ TimesOut
  /\ torndown' = TRUE
  /\ toHost' = <<>>
  /\ misses' = MissLimit
  /\ pc' = "sync"
  /\ UNCHANGED <<uiVars, rendererVars, connected, stash, sizeMode, clientFrame, frameEcho,
                 lastSeen, cooling, epoch, attempt, toCore, coreVars, historyVars>>

\* The renderer compares the counter with its copy once per draw, so one bit
\* tells a change.
ReplayAcked ==
  /\ pc = "replay"
  /\ TakeACK
  /\ epoch' = 1 - epoch
  /\ pc' = "sync"
  /\ UNCHANGED <<uiVars, rendererVars, connected, torndown, stash, sizeMode, clientFrame,
                 lastSeen, misses, cooling, attempt, toCore, coreVars, faults,
                 historyVars>>

\* The reconnect counts as done even when the replay was never acknowledged.
ReplayTimeout ==
  /\ pc = "replay"
  /\ TimesOut
  /\ IF attempt < SwitchresAttempts
     THEN /\ attempt' = attempt + 1
          /\ toCore' = Append(toCore, SwitchresMsg(stash))
          /\ UNCHANGED <<epoch, pc>>
     ELSE /\ epoch' = 1 - epoch
          /\ pc' = "sync"
          /\ UNCHANGED <<attempt, toCore>>
  /\ UNCHANGED <<uiVars, rendererVars, connected, torndown, stash, sizeMode, clientFrame,
                 frameEcho, lastSeen, misses, cooling, toHost, coreVars, historyVars>>

-----------------------------------------------------------------------------
(* WaitSync, up to the end of the draw.  DiffTimeRaster polls for ACKs only *)
(* while the last frame sent is not echoed.                                *)

SyncPoll ==
  /\ pc = "sync"
  /\ connected
  /\ clientFrame # frameEcho
  /\ TakeACK
  /\ UNCHANGED <<uiVars, pc, rendererVars, connected, torndown, stash, sizeMode,
                 clientFrame, watchdogVars, attempt, toCore, coreVars, faults,
                 historyVars>>

SyncDone ==
  LET answered == toCore = <<>> /\ (toHost = <<>> \/ clientFrame = frameEcho)
  IN  /\ pc = "sync"
      /\ IF ~connected \/ answered THEN UNCHANGED faults ELSE Disturb
      /\ pc' = "top"
      /\ UNCHANGED <<uiVars, rendererVars, clientVars, netVars, coreVars, historyVars>>

\* A second has passed since the last reconnect attempt.
CoolDown ==
  /\ cooling
  /\ cooling' = FALSE
  /\ UNCHANGED <<uiVars, pc, rendererVars, connected, torndown, stash, sizeMode,
                 clientFrame, frameEcho, lastSeen, misses, epoch, attempt, netVars,
                 coreVars, faults, historyVars>>

-----------------------------------------------------------------------------
(* The core and the network, as the client sees them.                      *)

Reply(client, echo) ==
  toHost' = IF client = "cur" /\ ~torndown THEN Append(toHost, echo) ELSE toHost

CoreInit(msg) ==
  LET client == IF msg.cur THEN "cur" ELSE "old"
  IN  /\ msg.kind = "init"
      /\ coreClient' = client
      /\ coreMode' = NoMode
      /\ coreEcho' = 0
      /\ Reply(client, 0)

CoreClose(msg) ==
  /\ msg.kind = "close"
  /\ coreClient' = "none"
  /\ coreMode' = NoMode
  /\ coreEcho' = 0
  /\ UNCHANGED toHost

CoreSwitchres(msg) ==
  /\ msg.kind = "switchres"
  /\ coreClient # "none"
  /\ coreMode' = msg.mode
  /\ Reply(coreClient, coreEcho)
  /\ UNCHANGED <<coreClient, coreEcho>>

CoreBlit(msg) ==
  /\ msg.kind = "blit"
  /\ coreClient # "none"
  /\ IF coreMode # NoMode \/ CoreEchoesBlank
     THEN coreEcho' = msg.frame /\ Reply(coreClient, msg.frame)
     ELSE UNCHANGED <<coreEcho, toHost>>
  /\ UNCHANGED <<coreClient, coreMode>>

CoreIgnores(msg) ==
  /\ msg.kind \in {"switchres", "blit"}
  /\ coreClient = "none"
  /\ UNCHANGED <<coreClient, coreMode, coreEcho, toHost>>

CoreReceives ==
  /\ coreUp
  /\ toCore # <<>>
  /\ toCore' = Tail(toCore)
  /\ LET msg == Head(toCore)
     IN  CoreInit(msg) \/ CoreClose(msg) \/ CoreSwitchres(msg) \/ CoreBlit(msg)
         \/ CoreIgnores(msg)
  /\ UNCHANGED <<uiVars, pc, rendererVars, clientVars, coreUp, faults, historyVars>>

NoteLost(msg) == switchresLost' = (switchresLost \/ msg.kind = "switchres")

\* Nobody listens: the datagram is gone.
CommandVanishes ==
  /\ ~coreUp
  /\ toCore # <<>>
  /\ toCore' = Tail(toCore)
  /\ NoteLost(Head(toCore))
  /\ UNCHANGED <<uiVars, pc, rendererVars, clientVars, toHost, coreVars, faults,
                 deadSend>>

LoseCommand ==
  /\ Disturb
  /\ \E i \in DOMAIN toCore :
       /\ toCore' = RemoveAt(toCore, i)
       /\ NoteLost(toCore[i])
  /\ UNCHANGED <<uiVars, pc, rendererVars, clientVars, toHost, coreVars, deadSend>>

LoseACK ==
  /\ Disturb
  /\ \E i \in DOMAIN toHost : toHost' = RemoveAt(toHost, i)
  /\ UNCHANGED <<uiVars, pc, rendererVars, clientVars, toCore, coreVars, historyVars>>

CoreStops ==
  /\ coreUp
  /\ Disturb
  /\ coreUp' = FALSE
  /\ coreClient' = "none"
  /\ coreMode' = NoMode
  /\ coreEcho' = 0
  /\ UNCHANGED <<uiVars, pc, rendererVars, clientVars, netVars, historyVars>>

CoreStarts ==
  /\ ~coreUp
  /\ coreUp' = TRUE
  /\ UNCHANGED <<uiVars, pc, rendererVars, clientVars, netVars, coreClient, coreMode,
                 coreEcho, faults, historyVars>>

-----------------------------------------------------------------------------
\* The stream worker, without the user's decision to stop.
Worker ==
  \/ StartInit \/ InitAcked \/ InitFailed \/ NextDraw
  \/ ModeInForce \/ SwitchRejected \/ StartSwitch \/ SwitchAcked \/ SwitchTimeout
  \/ PackFails \/ SkipFirstBlit \/ PackFrame
  \/ BlitNoMiss \/ BlitMissed \/ BlitBackOff \/ Reconnect
  \/ ReconnectAcked \/ ReconnectFailed \/ ReplayAcked \/ ReplayTimeout
  \/ SyncPoll \/ SyncDone

Next ==
  \/ \E m \in Modes : SetModeline(m)
  \/ StopStream
  \/ Worker
  \/ CoolDown
  \/ CoreReceives \/ CommandVanishes \/ CoreStarts
  \/ LoseCommand \/ LoseACK \/ CoreStops

Spec == Init /\ [][Next]_vars

\* The stream worker runs whenever it can, and finds a picture to pack again
\* and again; the core and the network serve what reaches them; a switched-off
\* core comes back; a second passes.  Nothing is assumed of the user, and
\* disturbances may or may not happen.
Fairness ==
  /\ WF_vars(Worker)
  /\ SF_vars(PackFrame) /\ SF_vars(SkipFirstBlit)
  /\ WF_vars(CoolDown)
  /\ WF_vars(CoreReceives) /\ WF_vars(CommandVanishes) /\ WF_vars(CoreStarts)

FairSpec == Spec /\ Fairness

-----------------------------------------------------------------------------
Command ==
  [kind : {"init", "close"}, cur : BOOLEAN]
    \cup [kind : {"switchres"}, cur : BOOLEAN, mode : Modes]
    \cup [kind : {"blit"}, cur : BOOLEAN, frame : FrameNumber,
          packed : Modes, size : Modes]

TypeOK ==
  /\ selected \in Modes /\ revision \in 1 .. MaxRevision
  /\ pc \in {"top", "init", "mode", "switch", "draw", "blit", "reinit", "replay",
             "sync", "closed"}
  /\ initialized \in BOOLEAN /\ firstBlit \in BOOLEAN
  /\ frame \in FrameNumber /\ lastEpoch \in 0 .. 1
  /\ current \in Modes \cup {NoMode} /\ modeRevision \in 0 .. MaxRevision
  /\ want \in [mode : Modes \cup {NoMode}, revision : 0 .. MaxRevision]
  /\ connected \in BOOLEAN /\ torndown \in BOOLEAN
  /\ stash \in Modes \cup {NoMode} /\ sizeMode \in Modes \cup {NoMode}
  /\ clientFrame \in FrameNumber /\ frameEcho \in FrameNumber
  /\ lastSeen \in FrameNumber /\ misses \in 0 .. MissLimit + 1
  /\ cooling \in BOOLEAN /\ epoch \in 0 .. 1
  /\ attempt \in 0 .. SwitchresAttempts
  /\ toCore \in Seq(Command) /\ toHost \in Seq(FrameNumber)
  /\ coreUp \in BOOLEAN /\ coreClient \in {"none", "old", "cur"}
  /\ coreMode \in Modes \cup {NoMode} /\ coreEcho \in FrameNumber
  /\ faults \in 0 .. MaxFaults
  /\ switchresLost \in BOOLEAN /\ deadSend \in BOOLEAN

\* The byte count of every blit belongs to the modeline its picture was packed
\* for, although CmdSwitchres changes the byte count before the core has agreed
\* and the renderer changes its own size only afterwards
\* (groovymister.cpp:879, renderer_nogpu.h:331-335, 590-593).
BlitSizeIsPackedSize ==
  \A i \in DOMAIN toCore :
    toCore[i].kind = "blit" => toCore[i].size = toCore[i].packed

\* A core that holds "held" when it reads the first datagram of a queue holds m, or nothing,
\* when it reads the i-th: so says the last datagram before that is no blit.
HoldsAt(queue, held, i, m) ==
  /\ \A j \in 1 .. i - 1 :
       queue[j].kind = "switchres" /\ (\A k \in j + 1 .. i - 1 : queue[k].kind = "blit")
         => queue[j].mode = m
  /\ (\A j \in 1 .. i - 1 : queue[j].kind = "blit") => held \in {NoMode, m}

\* A core that holds a modeline receives only pictures packed for it, as long
\* as every CMD_SWITCHRES arrives (renderer_nogpu.h:331).
BlitFitsCoreMode ==
  \A i \in DOMAIN toCore :
    toCore[i].kind = "blit" => HoldsAt(toCore, coreMode, i, toCore[i].packed)

BlitFitsUnlessLost == switchresLost \/ BlitFitsCoreMode

\* Nothing of a dead session is left in the new one: the echo the host acts on
\* was never for a frame it has not sent in this session, so the raster servo
\* and the ACK gate compare frames of one session only
\* (groovymister.cpp:255-279).
EchoNeverAhead == frameEcho <= clientFrame

\* A stream that lost its session is always on its way to another attempt: each
\* way out of a failed reconnect leaves the watchdog at its limit, and nothing
\* that follows (a blit on the dead session, a mode switch, a late answer) makes
\* CmdBlit's first test drop every later blit and the retry with it
\* (groovymister.cpp:950-960, 988-993, 1026-1028).
RetryStaysArmed == initialized /\ ~connected /\ pc # "closed" => Armed

\* Within a session the core sees every blit with a larger frame number than
\* the one before, across reconnects and the renderer's realignment: otherwise
\* its echo could not pass the ACK gate (renderer_nogpu.h:338-353,
\* groovymister.cpp:1239).
FramesIncrease ==
  [][Len(toCore') > Len(toCore) /\ Last(toCore').kind = "blit"
       => Last(toCore').frame > clientFrame]_vars

\* The core has accepted a picture in the session the host is in.
CoreShows ==
  /\ coreUp /\ ~torndown
  /\ coreClient = "cur" /\ coreMode # NoMode /\ coreEcho > 0

\* With Auto-reconnect on and no modeline waiting to be sent, whatever happened
\* to the core or the network, the core ends up showing pictures again, unless
\* the user stops the stream or asks for another modeline
\* (groovymister.cpp:962-1034).
StreamRecovers ==
  modeRevision = revision ~> CoreShows \/ modeRevision # revision \/ pc = "closed"

\* A modeline the user asks for while the core is there for this session comes
\* into force, unless the core drops the session, the stream is stopped, or the
\* stream's options refuse it (renderer_nogpu.h:550-601).
PendingModeApplied ==
  connected /\ coreClient = "cur" /\ revision # modeRevision
    ~> \/ revision = modeRevision \/ coreClient # "cur"
       \/ selected \in Refused \/ pc = "closed"

\* What README.md:37 says of Auto-reconnect ("Rebuilds the session by itself
\* after a core restart or a dropped link"): once connected, the core ends up
\* showing pictures, whatever the user does to the modeline, short of stopping.
AutoReconnectRebuilds == initialized ~> CoreShows \/ pc = "closed"

\* What renderer_nogpu.h:331 says ("pack only an acknowledged mode"): no
\* picture packed for one modeline reaches a core that holds another.
PacksAcknowledgedMode == BlitFitsCoreMode

\* What groovymister.cpp:1029-1030 and 952-956 say of a failed reconnect (the
\* session is down, and only the rate-limited retry runs): nothing is sent
\* after teardownVideo.
NoSendAfterTeardown == ~deadSend
=============================================================================
