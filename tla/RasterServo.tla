----------------------------- MODULE RasterServo -----------------------------
(***************************************************************************)
(* How the client paces a stream (groovymister.cpp): the line CmdBlit asks *)
(* the core to swap at, and WaitSync, which sleeps for the rest of a field *)
(* and shifts that by half the distance between the raster of the picture  *)
(* echoed and the raster of the core (DiffTimeRaster).  The code computes  *)
(* with unsigned words; here a word has WordSize values.  Time is counted  *)
(* in the client's ticks.                                                  *)
(***************************************************************************)
EXTENDS Integers

CONSTANTS
  WordSize,     \* values of an unsigned word: 2^32 in the code
  VTotal,       \* m_vTotal
  Lines,        \* lines of the picture an answer may report
  LineTime,     \* m_widthTime
  Margin,       \* what draw passes as the margin of a blit
  MaxSpread,    \* RASTER_MAX_FRAME_SPREAD
  StartFrames,  \* frame numbers a stream may have come to when it is looked at
  LastFrame,    \* bound: frame number
  MaxStream,    \* bound: time a blit takes to be streamed
  MaxLate,      \* bound: time lost before a blit and after a sync
  MaxPolls      \* bound: answers that come in during one sync

ASSUME RasterAssumption ==
  /\ {WordSize, VTotal, LineTime} \subseteq Nat \ {0}
  /\ {Margin, MaxSpread, LastFrame, MaxStream, MaxLate, MaxPolls} \subseteq Nat
  /\ Lines \subseteq 0 .. VTotal - 1
  /\ StartFrames \subseteq 1 .. LastFrame
  /\ WordSize % 2 = 0

\* The distance of two rasters that are compared, and the nudge for it, fit an int: with
\* 8 frames of spread they do for every modeline whose line is shorter than half a
\* millisecond.
ASSUME SpreadAssumption ==
  /\ (MaxSpread + 2) * VTotal < WordSize \div 2
  /\ LineTime * (((MaxSpread + 2) * VTotal) \div 2) < WordSize \div 2

VARIABLES
  pacing,      \* where the stream worker is
  interlaced,  \* m_interlace
  sent,        \* m_frame
  echo,        \* fpga.frameEcho
  elapsed,     \* time since m_tickSync
  emulation,   \* m_emulationTime
  stream,      \* m_streamTime
  streamed,    \* history: the time in emulation covers the blit in stream
  vSync,       \* what the last blit asks for
  sleep,       \* sleepTime
  raster,      \* history: the nudge of the last answer, half the true distance of its
               \* rasters, and whether no answer of this sync was astride the end of a word
  polls

rasterVars ==
  <<pacing, interlaced, sent, echo, elapsed, emulation, stream, streamed, vSync, sleep,
    raster, polls>>

Word(x) == x % WordSize

\* The int a word is read as.
Signed(x) == IF Word(x) < WordSize \div 2 THEN Word(x) ELSE Word(x) - WordSize

\* Division of an int by two, towards zero.
HalfOf(x) == IF x < 0 THEN -((-x) \div 2) ELSE x \div 2

FieldLines == IF interlaced THEN VTotal \div 2 ELSE VTotal
FrameTime == IF interlaced THEN (LineTime * VTotal) \div 2 ELSE LineTime * VTotal

NoRaster == [nudge |-> 0, truth |-> 0, clean |-> TRUE]

RasterInit ==
  /\ pacing = "idle" /\ interlaced = FALSE
  /\ sent = 0 /\ echo = 0
  /\ elapsed = 0 /\ emulation = 0 /\ stream = 0 /\ streamed = TRUE
  /\ vSync = 1 /\ sleep = 0 /\ raster = NoRaster /\ polls = 0

\* A stream is looked at when it is under way.
RasterStart ==
  /\ pacing = "idle" /\ pacing' = "blit"
  /\ interlaced' \in BOOLEAN
  /\ sent' \in StartFrames /\ echo' = sent' - 1
  /\ UNCHANGED <<elapsed, emulation, stream, streamed, vSync, sleep, raster, polls>>

-----------------------------------------------------------------------------
(* The blit.                                                               *)

\* A wrong version: no time left is not told from time left.
TimeCalcAlways == Word(Margin + emulation - stream)

\* The time left of the field when a blit is made now, as an unsigned word.
TimeCalc ==
  IF Margin + emulation >= FrameTime THEN 0 ELSE Word(Margin + emulation - stream)

\* The first frames of a session ask for the middle of the picture.
VSyncLine(early) ==
  IF early THEN VTotal \div 2
  ELSE IF TimeCalc = 0 THEN 1
  ELSE VTotal - (Word(VTotal * TimeCalc) + FrameTime - 1) \div FrameTime

\* A blit that is streamed; time was lost before it.
StreamBlit(early) ==
  /\ pacing = "blit" /\ pacing' = "sync"
  /\ sent < LastFrame
  /\ sent' = sent + 1
  /\ vSync' = VSyncLine(early)
  /\ stream' \in 0 .. MaxStream
  /\ \E late \in 0 .. MaxLate : elapsed' = elapsed + late + stream'
  /\ streamed' = TRUE
  /\ UNCHANGED <<interlaced, echo, emulation, sleep, raster, polls>>

\* A blit given up by the watchdog's back-off.
SkipBlit ==
  /\ pacing = "blit" /\ pacing' = "sync"
  /\ streamed' = FALSE
  /\ \E late \in 0 .. MaxLate : elapsed' = elapsed + late
  /\ UNCHANGED <<interlaced, sent, echo, emulation, stream, vSync, sleep, raster, polls>>

-----------------------------------------------------------------------------
(* WaitSync.                                                               *)

StartWait ==
  /\ pacing = "sync" /\ pacing' = "wait"
  /\ emulation' = elapsed
  /\ sleep' = IF elapsed >= FrameTime THEN 0 ELSE FrameTime - elapsed
  /\ polls' = 0
  /\ UNCHANGED <<interlaced, sent, echo, elapsed, stream, streamed, vSync, raster>>

Halved(x) == IF interlaced THEN x \div 2 ELSE x

\* A wrong version: the difference is halved as an unsigned word.
NudgeUnsigned(echoAt, coreAt) ==
  LineTime * (Word(Halved(Word(echoAt)) - Halved(Word(coreAt))) \div 2)

\* The two raster positions are words before they are halved and compared.
Nudge(echoAt, coreAt) ==
  Signed(LineTime * HalfOf(Signed(Halved(Word(echoAt)) - Halved(Word(coreAt)))))

TrueNudge(echoAt, coreAt) == LineTime * HalfOf(Halved(echoAt) - Halved(coreAt))

\* The words of an interlaced stream are halved, so that their difference is half a word
\* off when only one of them has started anew.
Astride(echoAt, coreAt) ==
  interlaced /\ echoAt \div WordSize # coreAt \div WordSize

\* After a reconnect the counts may belong to different sessions.
Near(e, g) == e - g <= MaxSpread /\ g - e <= MaxSpread

Slept(n) == IF n < 0 /\ -n > sleep THEN 0 ELSE sleep + n

\* An answer comes in: DiffTimeRaster has a new echo to look at.
PollAnswered ==
  /\ pacing = "wait" /\ polls < MaxPolls
  /\ polls' = polls + 1
  /\ echo' \in echo + 1 .. sent
  /\ \E core \in 0 .. LastFrame, echoLine \in Lines, coreLine \in Lines :
       LET echoAt == (echo' - 1) * VTotal + echoLine
           coreAt == core * VTotal + coreLine
           n == IF Near(echo', core) THEN Nudge(echoAt, coreAt) ELSE 0
       IN  /\ raster' = [nudge |-> n, truth |-> TrueNudge(echoAt, coreAt),
                         clean |-> raster.clean /\ ~Astride(echoAt, coreAt)]
           /\ sleep' = Slept(n)
  /\ UNCHANGED <<pacing, interlaced, sent, elapsed, emulation, stream, streamed, vSync>>

\* realTime has passed sleepTime.
WaitDone ==
  /\ pacing = "wait" /\ pacing' = "blit"
  /\ elapsed' \in 0 .. MaxLate
  /\ sleep' = 0 /\ raster' = NoRaster
  /\ UNCHANGED <<interlaced, sent, echo, emulation, stream, streamed, vSync, polls>>

RasterNext ==
  \/ RasterStart \/ StreamBlit(TRUE) \/ StreamBlit(FALSE) \/ SkipBlit
  \/ StartWait \/ PollAnswered \/ WaitDone

RasterSpec == RasterInit /\ [][RasterNext]_rasterVars

-----------------------------------------------------------------------------
\* Types.
RasterTypeOK ==
  /\ pacing \in {"idle", "blit", "sync", "wait"}
  /\ {interlaced, streamed, raster.clean} \subseteq BOOLEAN
  /\ sent \in 0 .. LastFrame /\ echo \in 0 .. LastFrame /\ polls \in 0 .. MaxPolls
  /\ {elapsed, emulation, stream} \subseteq Nat
  /\ {vSync, sleep, raster.nudge, raster.truth} \subseteq Int

NudgeBound == LineTime * (((MaxSpread + 2) * VTotal) \div 2)

\* A nudge is half the true distance of the two rasters, or none: words that start anew do
\* not matter, unless an interlaced stream is astride the end of a word.
NudgeIsTrue ==
  raster.clean => raster.nudge \in {0, raster.truth}

\* The stream worker sleeps in WaitSync no longer than a field and the nudges it was given
\* (groovymister.cpp:1339-1429): no distance of the counts, of another session or past the
\* end of a word, becomes a sleep of seconds.
SleepBounded ==
  raster.clean => NudgeIsTrue /\ sleep \in 0 .. FrameTime + polls * NudgeBound

\* The line a blit asks for lies in the picture (groovymister.cpp:1037-1050), if the field
\* that was measured last contains the blit that was measured last.  After a blit that was
\* skipped it may not, and the difference of the two times is no time at all.
VSyncInPicture ==
  [][sent > 0 /\ sent' # sent /\ streamed => vSync' \in 0 .. VTotal]_rasterVars

=============================================================================
