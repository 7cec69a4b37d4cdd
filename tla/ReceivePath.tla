----------------------------- MODULE ReceivePath -----------------------------
(***************************************************************************)
(* The client's way in (getACK of groovymister.cpp, the registered I/O     *)
(* build).  CmdInit posts one receive, and every getACK that was woken      *)
(* posts another: the request queue holds BUFFER_SLICES of them, and all   *)
(* write the one buffer m_bufferReceive.  A completion goes to             *)
(* m_receiveQueue, and m_hIOCP is told once for each RIONotify.  getACK    *)
(* sleeps on m_hIOCP, takes the completions out, reads the buffer once for *)
(* each, posts a receive and asks for the next notification, and datagrams *)
(* may arrive between any two of these steps.  RIONotify tells of a        *)
(* completion m_hIOCP was already told of, so a getACK may be woken for    *)
(* nothing; the receive it posts is then one more outstanding, and the     *)
(* buffer may be written while the next getACK reads it.                   *)
(***************************************************************************)
EXTENDS Naturals, Sequences

CONSTANTS
  MaxOutstandingReceive,  \* what the request queue holds: BUFFER_SLICES
  MaxArrivals,            \* bound: datagrams that arrive
  MaxPackets              \* bound: notifications waiting in m_hIOCP

ASSUME ReceiveAssumption ==
  MaxOutstandingReceive \in Nat \ {0} /\ {MaxArrivals, MaxPackets} \subseteq Nat

VARIABLES
  receiving,     \* where getACK is
  posted,        \* receives outstanding
  inbox,         \* which datagram m_bufferReceive holds
  completions,   \* in m_receiveQueue
  results,       \* completions taken out that are still to be read
  frameUDP,      \* the datagram whose frame was looked at for the current result
  unread,        \* datagrams in the socket: no receive was outstanding when they came
  armed,         \* RIONotify waits for the next completion
  packets,       \* notifications in m_hIOCP
  arrivals,      \* datagrams that came
  heard,         \* history: for each result, the datagrams its first and last byte were of
  repostFailed   \* m_rioRecvRepostFailed, that it is not 0

receiveVars ==
  <<receiving, posted, inbox, completions, results, frameUDP, unread, armed, packets,
    arrivals, heard, repostFailed>>

\* What getACK keeps to itself.
readingVars == <<results, frameUDP, heard>>

\* What the network and RIONotify change.
socketVars == <<posted, inbox, completions, unread, armed, packets>>

\* After CmdInit has asked for a notification and posted the receive.
ReceiveInit ==
  /\ receiving = "idle" /\ posted = 1 /\ armed = TRUE /\ packets = 0
  /\ inbox = 0 /\ completions = <<>> /\ unread = <<>>
  /\ results = 0 /\ frameUDP = 0
  /\ arrivals = 0 /\ heard = <<>> /\ repostFailed = FALSE

-----------------------------------------------------------------------------
(* Registered I/O, outside.                                                *)

\* A datagram ends a receive, and the notification asked for is given.
Completes(datagram) ==
  /\ inbox' = datagram
  /\ completions' = Append(completions, datagram)
  /\ packets' = packets + (IF armed THEN 1 ELSE 0)
  /\ armed' = FALSE

Arrive ==
  /\ arrivals < MaxArrivals
  /\ arrivals' = arrivals + 1
  /\ \/ /\ posted > 0
        /\ posted' = posted - 1
        /\ Completes(arrivals')
        /\ UNCHANGED unread
     \/ /\ posted = 0
        /\ unread' = Append(unread, arrivals')
        /\ UNCHANGED <<posted, inbox, completions, armed, packets>>
  /\ UNCHANGED <<receiving, readingVars, repostFailed>>

\* RIOReceive: refused when the request queue is full, ended at once by a datagram that waits.
\* Whether a completion that was not taken out yet still takes a place is left open.
PostReceive ==
  \/ /\ posted + Len(completions) >= MaxOutstandingReceive
     /\ repostFailed' = TRUE
     /\ UNCHANGED socketVars
  \/ /\ posted < MaxOutstandingReceive /\ unread = <<>>
     /\ posted' = posted + 1
     /\ UNCHANGED <<inbox, completions, unread, armed, packets, repostFailed>>
  \/ /\ posted < MaxOutstandingReceive /\ unread # <<>>
     /\ Completes(Head(unread))
     /\ unread' = Tail(unread)
     /\ UNCHANGED <<posted, repostFailed>>

-----------------------------------------------------------------------------
(* getACK.                                                                 *)

ReceiveGoes(from, to) == receiving = from /\ receiving' = to

\* GetQueuedCompletionStatus takes a notification, or its time is up.
WaitEnds ==
  /\ packets > 0
  /\ ReceiveGoes("idle", "dequeue")
  /\ packets' = packets - 1
  /\ UNCHANGED <<posted, inbox, completions, unread, armed, arrivals, readingVars, repostFailed>>

WaitTimesOut ==
  /\ packets = 0
  /\ ReceiveGoes("idle", "notify")
  /\ UNCHANGED <<socketVars, arrivals, readingVars, repostFailed>>

\* RIODequeueCompletion, until it returns nothing.  RIO_MAX_RESULTS is more than there can be.
DequeueAll ==
  /\ ReceiveGoes("dequeue", IF completions = <<>> THEN "repost" ELSE "look")
  /\ results' = Len(completions)
  /\ completions' = <<>>
  /\ UNCHANGED <<posted, inbox, frameUDP, unread, armed, packets, arrivals, heard, repostFailed>>

\* The frame, or the version, of the next result is read from m_bufferReceive.
LookAtFrame ==
  /\ ReceiveGoes("look", "take")
  /\ frameUDP' = inbox
  /\ UNCHANGED <<socketVars, results, arrivals, heard, repostFailed>>

\* setFpgaStatus reads the rest, when the frame is newer than the one known: its last byte is
\* of what the buffer holds by then.  Which frame a datagram carries is left open.
TakeStatus ==
  /\ ReceiveGoes("take", IF results = 1 THEN "dequeue" ELSE "look")
  /\ results' = results - 1
  /\ \E newest \in {frameUDP, inbox} :
       heard' = Append(heard, [first |-> frameUDP, last |-> newest])
  /\ UNCHANGED <<socketVars, frameUDP, arrivals, repostFailed>>

\* A wrong version: nothing is posted when another datagram waits already.
RepostIfQuiet ==
  /\ ReceiveGoes("repost", "notify")
  /\ IF unread = <<>> THEN PostReceive
     ELSE UNCHANGED <<socketVars, repostFailed>>
  /\ UNCHANGED <<arrivals, readingVars>>

Repost ==
  /\ ReceiveGoes("repost", "notify")
  /\ PostReceive
  /\ UNCHANGED <<arrivals, readingVars>>

\* RIONotify gives the notification at once when a completion waits.
Notify ==
  /\ ReceiveGoes("notify", "idle")
  /\ \/ /\ completions # <<>> /\ ~armed
        /\ packets < MaxPackets
        /\ packets' = packets + 1
        /\ UNCHANGED armed
     \/ /\ completions = <<>> \/ armed
        /\ armed' = TRUE
        /\ UNCHANGED packets
  /\ UNCHANGED <<posted, inbox, completions, unread, arrivals, readingVars, repostFailed>>

ReceiveNext ==
  \/ Arrive \/ WaitEnds \/ WaitTimesOut \/ DequeueAll \/ LookAtFrame \/ TakeStatus
  \/ Repost \/ Notify

ReceiveSpec == ReceiveInit /\ [][ReceiveNext]_receiveVars

-----------------------------------------------------------------------------
\* Types.
ReceiveTypeOK ==
  /\ receiving \in {"idle", "dequeue", "look", "take", "repost", "notify"}
  /\ {armed, repostFailed} \subseteq BOOLEAN
  /\ posted \in 0 .. MaxOutstandingReceive /\ packets \in Nat /\ results \in Nat
  /\ inbox \in 0 .. arrivals /\ arrivals \in 0 .. MaxArrivals
  /\ frameUDP \in 0 .. MaxArrivals
  /\ {completions, unread} \subseteq Seq(1 .. MaxArrivals)
  /\ heard \in Seq([first : 1 .. MaxArrivals, last : 1 .. MaxArrivals])

\* Whenever getACK is not under way, the next datagram will be heard of: a receive is
\* outstanding and its notification is asked for, or one is done and m_hIOCP says so.
Listening ==
  receiving = "idle" =>
    IF completions = <<>> THEN posted > 0 /\ armed ELSE packets > 0

\* Every datagram that came was read, waits to be, or was read over by a later one; what is
\* read never goes back, within a result or from one to the next, and when nothing is left to
\* read the last that was read is the newest that came in.
HeardInOrder ==
  /\ Len(heard) + results + Len(completions) + Len(unread) = arrivals
  /\ \A i \in DOMAIN heard :
       /\ i <= heard[i].first /\ heard[i].first <= heard[i].last
       /\ \A k \in 1 .. i - 1 : heard[k].last <= heard[i].first
  /\ inbox = arrivals - Len(unread)
  /\ completions = <<>> /\ results = 0 /\ heard # <<>> => heard[Len(heard)].last = inbox

\* The client never goes deaf (groovymister.cpp:1214-1264): whatever arrives between any two
\* steps of getACK, also while it reads the buffer, the next datagram is noticed, and none is
\* missed but for a newer one.
ReceiveNeverDeaf == Listening /\ HeardInOrder
=============================================================================
