--------------------------- MODULE CaptureBuffers ---------------------------
(***************************************************************************)
(* The hand-over of frames from the capture worker (TickVideoCapture, in   *)
(* VideoCapture.h) to the stream worker (nogpu_pack_frame, in              *)
(* renderer_nogpu.h) through three buffers and two atomics: the index of   *)
(* the published buffer and the index the stream worker holds open.  No    *)
(* lock protects the buffers.  SetModeline, on the user interface thread,  *)
(* gives the capture worker the size to scale to, as two separate atomics. *)
(*                                                                         *)
(* Each load and store of an atomic is a step of its own.  The picture is  *)
(* reduced to Strips rows, each holding the number of the frame it was     *)
(* copied from (0: nothing yet), so that a torn frame is visible.          *)
(***************************************************************************)
EXTENDS Integers

CONSTANTS
  Strips,       \* rows of a picture, as far as the model is concerned
  Modes,        \* modelines the user may apply: records with w and h
  DefaultMode,  \* the modeline Initialize installs
  MaxFrames     \* bound: frames captured in a behaviour

ASSUME StripsAssumption == Strips \in Nat \ {0}
ASSUME ModesAssumption ==
  /\ Modes \subseteq [w : Nat \ {0}, h : Nat \ {0}]
  /\ DefaultMode \in Modes
ASSUME MaxFramesAssumption == MaxFrames \in Nat

BUFFER_COUNT == 3
BufferIndex == 0 .. BUFFER_COUNT - 1
NoLease == -1
NoMode == [w |-> 0, h |-> 0]
StripIndex == 1 .. Strips

VARIABLES
  \* shared
  published,  \* lastVideoCaptureIndex
  lease,      \* activeReadIndex
  outWidth,   \* captureOutputWidth
  outHeight,  \* captureOutputHeight
  buffers,    \* videoCaptures
  \* SetModeline between its two stores
  pending,
  \* capture worker
  wpc, wnext, wgeo, wrow, wseq,
  \* stream worker
  rpc, ridx, rrow, rframe,
  \* history: was the leased buffer still the published one when the lease
  \* became visible, and how many frames had been published by then
  fresh, rseq

modeVars == <<outWidth, outHeight, pending>>
writerVars == <<wpc, wnext, wgeo, wrow, wseq>>
readerVars == <<rpc, ridx, rrow, rframe, fresh, rseq>>
vars == <<published, lease, buffers, modeVars, writerVars, readerVars>>

Bitmap == [w : Nat, h : Nat, size : Nat, strips : [StripIndex -> Nat]]

EmptyBitmap == [w |-> 0, h |-> 0, size |-> 0, strips |-> [s \in StripIndex |-> 0]]

Init ==
  /\ published = 0
  /\ lease = NoLease
  /\ outWidth = DefaultMode.w
  /\ outHeight = DefaultMode.h
  /\ buffers = [b \in BufferIndex |-> EmptyBitmap]
  /\ pending = NoMode
  /\ wpc = "idle" /\ wnext = 0 /\ wgeo = NoMode /\ wrow = 1 /\ wseq = 0
  /\ rpc = "idle" /\ ridx = 0 /\ rrow = 1
  /\ rframe = [s \in StripIndex |-> 0]
  /\ fresh = FALSE /\ rseq = 0

-----------------------------------------------------------------------------
(* SetModeline: an accepted candidate reaches the capture worker as two    *)
(* stores.  The lifecycle mutex serialises the callers, nothing            *)
(* serialises the capture worker against them.                             *)

SetOutputWidth(m) ==
  /\ pending = NoMode
  /\ outWidth' = m.w
  /\ pending' = m
  /\ UNCHANGED <<published, lease, buffers, outHeight, writerVars, readerVars>>

SetOutputHeight ==
  /\ pending # NoMode
  /\ outHeight' = pending.h
  /\ pending' = NoMode
  /\ UNCHANGED <<published, lease, buffers, outWidth, writerVars, readerVars>>

-----------------------------------------------------------------------------
(* The capture worker.  A tick that got no picture from the source changes *)
(* none of this state and is not modelled.                                 *)

SampleWidth ==
  /\ wpc = "idle"
  /\ wseq < MaxFrames
  /\ wgeo' = [w |-> outWidth, h |-> 0]
  /\ wpc' = "height"
  /\ UNCHANGED <<published, lease, buffers, modeVars, wnext, wrow, wseq, readerVars>>

SampleHeight ==
  /\ wpc = "height"
  /\ wgeo' = [wgeo EXCEPT !.h = outHeight]
  /\ wpc' = "pick"
  /\ UNCHANGED <<published, lease, buffers, modeVars, wnext, wrow, wseq, readerVars>>

\* Three wrong versions of PickBuffer, for the runs that must fail: without the
\* modulo, with a bump that lands on the published buffer, without the lease.
PickPastTheEnd ==
  /\ wpc = "pick"
  /\ wnext' = IF published + 1 = lease THEN published + 2 ELSE published + 1
  /\ wpc' = "map"
  /\ UNCHANGED <<published, lease, buffers, modeVars, wgeo, wrow, wseq, readerVars>>

PickBumpsTwice ==
  LET next == (published + 1) % BUFFER_COUNT
  IN  /\ wpc = "pick"
      /\ wnext' = IF next = lease THEN (next + 2) % BUFFER_COUNT ELSE next
      /\ wpc' = "map"
      /\ UNCHANGED <<published, lease, buffers, modeVars, wgeo, wrow, wseq, readerVars>>

PickIgnoresLease ==
  /\ wpc = "pick"
  /\ wnext' = (published + 1) % BUFFER_COUNT
  /\ wpc' = "map"
  /\ UNCHANGED <<published, lease, buffers, modeVars, wgeo, wrow, wseq, readerVars>>

\* Only this worker stores lastVideoCaptureIndex, so its load and the load of
\* activeReadIndex are one step.
PickBuffer ==
  LET next == (published + 1) % BUFFER_COUNT
  IN  /\ wpc = "pick"
      /\ wnext' = IF next = lease THEN (next + 1) % BUFFER_COUNT ELSE next
      /\ wpc' = "map"
      /\ UNCHANGED <<published, lease, buffers, modeVars, wgeo, wrow, wseq, readerVars>>

\* A Direct2D failure before the pick, or a failed Map after it, gives up the
\* tick and leaves every buffer as it was.
AbandonFrame ==
  /\ wpc \in {"pick", "map"}
  /\ wpc' = "idle"
  /\ UNCHANGED <<published, lease, buffers, modeVars, wnext, wgeo, wrow, wseq, readerVars>>

\* The pixels that survive a resize are the old ones.
ResizeBuffer ==
  /\ wpc = "map"
  /\ buffers' = [buffers EXCEPT ![wnext].w = wgeo.w,
                                ![wnext].h = wgeo.h,
                                ![wnext].size = wgeo.w * wgeo.h]
  /\ wrow' = 1
  /\ wpc' = "copy"
  /\ UNCHANGED <<published, lease, modeVars, wnext, wgeo, wseq, readerVars>>

CopyStrip ==
  /\ wpc = "copy"
  /\ buffers' = [buffers EXCEPT ![wnext].strips[wrow] = wseq + 1]
  /\ IF wrow < Strips
     THEN wrow' = wrow + 1 /\ wpc' = wpc
     ELSE wrow' = wrow /\ wpc' = "publish"
  /\ UNCHANGED <<published, lease, modeVars, wnext, wgeo, wseq, readerVars>>

\* The preview callback runs before this store, on the same thread, and only
\* reads the buffer.
PublishFrame ==
  /\ wpc = "publish"
  /\ published' = wnext
  /\ wseq' = wseq + 1
  /\ wpc' = "idle"
  /\ UNCHANGED <<lease, buffers, modeVars, wnext, wgeo, wrow, readerVars>>

-----------------------------------------------------------------------------
(* The stream worker: nogpu_pack_frame.                                    *)

LoadIndex ==
  /\ rpc = "idle"
  /\ ridx' = published
  /\ rpc' = "lease"
  /\ UNCHANGED <<published, lease, buffers, modeVars, writerVars, rrow, rframe, fresh, rseq>>

\* A wrong version: the lease is a temporary, gone at the end of the statement.
LeaseDropsAtOnce ==
  /\ rpc = "lease"
  /\ lease' = NoLease
  /\ fresh' = (published = ridx)
  /\ rseq' = wseq
  /\ rpc' = "check"
  /\ UNCHANGED <<published, buffers, modeVars, writerVars, ridx, rrow, rframe>>

TakeLease ==
  /\ rpc = "lease"
  /\ lease' = ridx
  /\ fresh' = (published = ridx)
  /\ rseq' = wseq
  /\ rpc' = "check"
  /\ UNCHANGED <<published, buffers, modeVars, writerVars, ridx, rrow, rframe>>

\* Nothing captured yet, or fewer bytes than the size the bitmap claims.
Unusable(bitmap) ==
  \/ bitmap.w = 0
  \/ bitmap.h = 0
  \/ bitmap.size < bitmap.w * bitmap.h

RejectFrame ==
  /\ rpc = "check"
  /\ Unusable(buffers[ridx])
  /\ lease' = NoLease
  /\ rpc' = "idle"
  /\ UNCHANGED <<published, buffers, modeVars, writerVars, ridx, rrow, rframe, fresh, rseq>>

AcceptFrame ==
  /\ rpc = "check"
  /\ ~Unusable(buffers[ridx])
  /\ rrow' = 1
  /\ rpc' = "pack"
  /\ UNCHANGED <<published, lease, buffers, modeVars, writerVars, ridx, rframe, fresh, rseq>>

PackStrip ==
  /\ rpc = "pack"
  /\ rframe' = [rframe EXCEPT ![rrow] = buffers[ridx].strips[rrow]]
  /\ IF rrow < Strips
     THEN rrow' = rrow + 1 /\ rpc' = rpc
     ELSE rrow' = rrow /\ rpc' = "packed"
  /\ UNCHANGED <<published, lease, buffers, modeVars, writerVars, ridx, fresh, rseq>>

DropLease ==
  /\ rpc = "packed"
  /\ lease' = NoLease
  /\ rpc' = "idle"
  /\ UNCHANGED <<published, buffers, modeVars, writerVars, ridx, rrow, rframe, fresh, rseq>>

-----------------------------------------------------------------------------
Writer ==
  \/ SampleWidth \/ SampleHeight \/ PickBuffer \/ AbandonFrame
  \/ ResizeBuffer \/ CopyStrip \/ PublishFrame

Reader ==
  \/ LoadIndex \/ TakeLease \/ RejectFrame \/ AcceptFrame \/ PackStrip \/ DropLease

Next ==
  \/ \E m \in Modes : SetOutputWidth(m)
  \/ SetOutputHeight
  \/ Writer
  \/ Reader

Spec == Init /\ [][Next]_vars

-----------------------------------------------------------------------------
TypeOK ==
  /\ published \in BufferIndex
  /\ lease \in BufferIndex \cup {NoLease}
  /\ outWidth \in Nat /\ outHeight \in Nat
  /\ buffers \in [BufferIndex -> Bitmap]
  /\ pending \in Modes \cup {NoMode}
  /\ wpc \in {"idle", "height", "pick", "map", "copy", "publish"}
  /\ wnext \in BufferIndex
  /\ wgeo \in [w : Nat, h : Nat]
  /\ wrow \in StripIndex
  /\ wseq \in Nat
  /\ rpc \in {"idle", "lease", "check", "pack", "packed"}
  /\ ridx \in BufferIndex
  /\ rrow \in StripIndex
  /\ rframe \in [StripIndex -> Nat]
  /\ fresh \in BOOLEAN
  /\ rseq \in Nat

\* The stream worker has a buffer open.
Reading == rpc \in {"check", "pack", "packed"}

\* The capture worker has chosen a buffer and may write to it.
Writing == wpc \in {"map", "copy", "publish"}

\* The published buffer is whole at every moment: all its rows come from the
\* newest published frame, and its allocation is the one its width and height
\* ask for, whatever the capture worker is doing (VideoCapture.h:756-789).
PublishedWhole ==
  /\ \A s \in StripIndex : buffers[published].strips[s] = wseq
  /\ buffers[published].size = buffers[published].w * buffers[published].h

\* If the index the stream worker loaded is still the published one when its
\* lease becomes visible, the frame it packs is, row for row, the newest frame
\* published by then (renderer_nogpu.h:245-247).
LeasedFrameIsNewest ==
  rpc = "packed" /\ fresh => \A s \in StripIndex : rframe[s] = rseq

\* While the stream worker holds such a lease, no step of the capture worker
\* touches the leased buffer: neither its pixels nor its size
\* (VideoCapture.h:756-774).
LeasedBufferStable ==
  [][Reading /\ fresh => buffers'[ridx] = buffers[ridx]]_vars

\* What renderer_nogpu.h:246 says of every lease ("keeps the capture thread off
\* this buffer"): while the stream worker has a buffer open the capture worker
\* is not writing to it.
LeaseKeepsWriterOff ==
  Reading => ~(Writing /\ wnext = ridx)
=============================================================================
