# A TLA+ verification of MiSTerCast

MiSTerCast streams a Windows screen, or one window, and its sound to the Groovy
core of a MiSTer over UDP. This directory holds TLA+ models of the native library
(`src/Library/MiSTerCastLib`) and of the front end's use of it
(`src/FrontEnd`), the TLC configurations that check them on small instances, and
theorems that the TLA+ proof system checks for every instance.

Run a model with `tlc -config X.cfg M` and a proof with `tlapm M.tla`; which
module goes with which configuration is in the table of runs below.

## 1. The system

| part | state | operations | with whom |
| --- | --- | --- | --- |
| **capture worker** (`capture_screen`, `VideoCapture.h`) | capture device or frame pool, `currentSourceOptions`, three `Bitmap`s, `lastVideoCaptureIndex` | `TickVideoCapture`: take options, rebuild a lost device, acquire, scale, copy, preview, publish | reads the source options and the output size the user interface thread writes; hands frames to the stream worker |
| **stream worker** (`cast_screen`, `renderer_nogpu.h`) | `m_initialized`, current mode and its revision, frame counter, `activeReadIndex` | `draw`: connect, switch mode, pack, blit, sync, audio | leases a capture buffer; owns the client below; reads `selected_modeline` under `modelineMutex` |
| **Groovy client** (`groovymister.cpp`) | socket and queues, registered buffers, `fpga` status, byte count, watchdog counters, stashed modeline, time base | `CmdInit`, `CmdSwitchres`, `CmdBlit` (with the ACK watchdog), `CmdAudio`, `WaitSync`, `CmdClose` | datagrams to and from the core; runs on the stream worker's thread |
| **the core and the network** (not in the repository) | client, mode, last frame echoed | answers `CMD_INIT`, `CMD_SWITCHRES`, blits | loses, delays, restarts |
| **library entry points** (`MiSTerCastLib.cpp`) | the two `std::thread` pointers, the stop flags, `source_config`, `selected_modeline` and its revision | `Initialize`, `Shutdown`, `StartStream`, `StopStream`, `SetSource`, `SetCaptureWindow`, `SetModeline`, `SetStreamOptions`, `SetAudioBufferMs` | called on the user interface thread under `lifecycleMutex`; start, stop and join the workers |
| **audio** (`AudioCapture.h`, `AudioTimeline.h`) | ring of slots, receiver clock | WASAPI packets in, slots for each field out | runs inside `draw` |
| **modeline gate** (`ValidateModelineFor`) | none | accepts or refuses a modeline | `SetModeline`, `StartStream`, the mode switch |
| **NLC codec** (`nlc_codec.cpp`), **LZ4** (`lz4/`) | hash table, chains | encode a frame into a buffer of its own size | inside `CmdBlit`; the decoders are in the core |
| **front end** (`MainWindow.xaml.cs`) | controls, `isStreaming`, saved settings | buttons, save files, log and preview callbacks | calls the entry points; called back from both workers |

What is hard about it: three threads share buffers, options, modelines and stop
flags with hardly a lock; a session over UDP has lost, late and uncorrelated
answers, a peer that restarts, and a watchdog inside the very call that an
earlier step may prevent; threads are replaced while the other one runs; and a
condition variable, a timeout and a stop flag meet in one wait. `PROJECT.json`
lists every such hazard at its line, with the properties that watch it or the
reason why none does yet.

What makes the parts correct:

* capture buffers: a frame is whole and of one size when it is published; the
  stream worker packs the frame it leased and nobody writes to it meanwhile;
* session: pictures fit the byte count, the core's mode and the session they are
  sent in; frame numbers only grow; the stream comes back after anything the
  core or the network does; a modeline asked for is applied;
* lifecycle: one capture worker and one stream worker, joined before anything
  they use goes; no frame of a source that was left; every call returns; no
  picture after a stop;
* window capture: no frame slept through, a source that comes back is captured
  again;
* audio: no sample of one round of the ring is played in another, drifting clocks alone
  neither outrun the correction of the pace nor make a gap but where a packet is moved, the
  receiver's buffer stays bounded and the clock follows the core's count;
* crop and packing: a picture is cut inside its source, packed inside the client's
  buffer and as long as the client says;
* codecs: what the encoder leaves fits its buffer and decodes to the picture, or within
  NEAR of it;
* send and receive path: every resource is given back once, what goes after a command is
  what it announced, and the client never sleeps over an answer;
* raster servo: no sleep of seconds, and no swap line outside the picture;
* front end: the library follows what the window shows, after any order of events.

## 2. The modules

| module | models | state and actions |
| --- | --- | --- |
| `CaptureBuffers` | the triple buffer | program counters of both workers; one action per load, store and row copy that the other worker can see |
| `CropArea` | the crop of a tick and the target it is drawn into | `cropping` is where the tick is; one action per look at the rotation, per object of the target that is made |
| `FieldPacking` | the modeline gate, the byte count, `nogpu_pack_frame` | one action per call; `packed` is the rows and bytes of the field packed last |
| `NlcCodec` | encoder and decoder of the near-lossless codec | one action per line of a plane |
| `Lz4Block` | the two LZ4 encoders `CmdBlit` uses, and the decoder | `coder` is where the encoder is; one action per probe, match and sequence |
| `GroovySession` | `renderer_nogpu::draw` over `GroovyMister`, the network and the core | `pc` is where `draw` is; one action per send and per outcome of a wait |
| `SendPath` | what a session acquires and gives back, the buffers, the send queue | `sending` is where the stream worker is; one action per datagram written or gone |
| `ReceivePath` | the receives outstanding into one buffer, and `getACK` | `receiving` is where `getACK` is; one action per system call and per look into the buffer, and `Arrive` between any two |
| `RasterServo` | swap line, `WaitSync`, `DiffTimeRaster` in words | `pacing`; one action per blit, answer and wait |
| `Lifecycle` | entry points and workers | `ui` is where the caller is; workers by number; one action per step a worker can see |
| `StreamService` | what `StartStream` and `StopStream` promise | abstract; `Lifecycle` implements it |
| `WindowCapture` | frame pool, callback, wake-up, restart | `windowFrameSignal` and the worker's sample of it |
| `AudioDevice` | the audio client of a session, from `CoInitialize` to its release, and the rate the core is told | `caster` is where `cast_screen` is; one action per function, which any of its calls may end |
| `AudioTimeline` | receiver clock, ring of slots, `TickAudioCapture` | `pc` is where the tick is; one action per packet and per branch of the clock |
| `DelayLine` | what the ring promises: a line of places without end | abstract; `AudioTimeline` implements it |
| `FrontEnd` | `MainWindow.xaml.cs` | `front` is the window and the library; one action per event |
| `LifecycleProof`, `AudioTimelineProof`, `GroovySessionProof` | theorems about the module of that name | |
| `FrameProof` | theorems about `CaptureBuffers`, `FieldPacking`, `FrontEnd` and the instance `MCFrame` | |
| `CaptureProof` | theorems about `WindowCapture`, `CropArea`, `AudioDevice` and the instance of all three | |
| `ClientPathsProof` | theorems about `SendPath`, `ReceivePath` and `RasterServo`, and about the client as it is run | |
| `CodecProof` | theorems about `NlcCodec`, and what the naturals and recursive functions need | |
| `BlockProof` | theorems about `Lz4Block` | |
| `MC...` | instances for TLC | bounds are in the `.cfg` files |

Three instances hold several models side by side. `MCClient` is the Groovy client:
`GroovySession` and, beside it, the parts it abstracts from (`SendPath`, `ReceivePath`,
`RasterServo`). `MCFrame` is the way of a frame: `CaptureBuffers`, `FieldPacking`,
`NlcCodec`, `Lz4Block` and `FrontEnd`. `MCCapture` is what a session captures:
`WindowCapture`, `CropArea` and `AudioDevice`. The models of one instance share
no state, so a behaviour is one of the part it starts with while the others rest; nothing
is claimed, or lost, about their product.

Each model has some definitions marked as *wrong versions*. They are what a
definition would be with a plausible mistake; nothing uses them, except that
`PROJECT.json` says which property fails when one takes the place of the right
definition.

### CaptureBuffers

The buffers hold a width, a height, an allocation size and strips, each the
number of the frame it came from; a strip stands for a share of the rows, so
that two strips suffice to see a torn frame. The capture worker samples the
output size in two loads, picks a buffer (`PickBuffer`, lines 756-762), resizes
it, copies strip by strip and publishes. The stream worker loads the index,
leases, checks, packs strip by strip and releases. `fresh` is history: the
leased buffer was still the published one when the lease became visible.

The code's comments claim more than that for a lease: that it keeps the capture
thread off the buffer. It does not when the index is retired between the load
and the lease; run `capture_lease` shows it. What does hold, and is proved, is
that the *published* buffer is never touched, and that under a lease that was
fresh nothing is.

### GroovySession

A datagram is a record; commands are in order on their way to the core, ACKs (the
frame number they echo) on their way back. `getACK` is the code's: it takes
whatever datagram comes first, and uses its status only if it echoes a newer frame.
A wait ends with an answer (`...Acked`), or without (`TimesOut`): when nothing is
on its way that could answer, or, as a disturbance, although something is.
Disturbances (a lost datagram, a late answer, a core restart, a socket error) are
counted and at most `MaxFaults`.

Abstractions: frame numbers only matter by order, so a window of `MaxFrame`
numbers is kept and all of them age together when it is full. The catch-up of
the renderer's frame counter to the core's (`renderer_nogpu.h:352`) only makes
the number larger and is left out. A reconnect always has a modeline to replay,
since no blit is reached without an acknowledged switch, and `m_initHost` is not
empty exactly when `initialized`. The version probe is not sent by MiSTerCast
(no input caps). Not here: the raster arithmetic, audio, the payload's
datagrams, compression, the input socket.

`BlitFitsCoreMode` looks ahead through the queue: `HoldsAt` says what a core holds when it
comes to the i-th datagram, by the last `CMD_SWITCHRES` before it that no command but blits
follows.

The built configuration uses registered I/O (`USE_RIO 1`). A `getACK` that is woken takes
what has come since, mostly one datagram; `ReceivePath` shows how it may be several, read
from one buffer, so `TakeACK` takes any number, reads the last of them, and of the others
any.

### Lifecycle

`lifecycleMutex` serialises the callers, and the front end has one calling thread,
so the caller is one process, `ui`. Between two calls the user does anything the
front end permits. A worker is a number that is never used again; what matters of
it is where it is between two looks at shared state. A source is a display or a
window; the crop stands for the other source options and is copied in two
halves, because the struct copies of `SetSourceOptions` and `TickVideoCapture`
are not guarded: every crop a user asks for is square, one that is not was torn.

The front end's callbacks (`Log`, `CaptureImage`) hand their work to the
dispatcher without waiting (`InvokeAsync`): `CallbackReturns` says so, and
`CallsReturn` fails when it is replaced by a callback that waits.

A device that `InitializeWindowCapture` left half open is, here, a device whose
frames never come (`TickWithoutFrame`); `WindowCapture` looks closer.

`ImplementsService` is `StreamService!Spec` under the mapping: `session` is
`streamSession`; `phase` is "stopping" while a stop is joining, otherwise
"started" or "stopped" by `castScreenTask`. So a worker that died by itself
still counts as started, as it does for the caller; a picture drawn after
`StopStream` returned, by a worker that was let go, is no step of the service.
`ServiceSafe` is that promise without its fairness.

### WindowCapture

The pool lends two frames; a frame that arrives queues a callback, the callback
increments the signal. `CleanupVideoCapture` revokes the callback, but one that
already runs may finish: `Rebuild` keeps any number of them. Ticks that find the
window closed or minimised sleep and change nothing, and are left out.

There are two specifications. `EventSpec` does not assume that the 32 ms timeout
ever ends a wait; whatever holds of it needs no timeout, and `MCCapture` assumes no more.
`Spec` does, and the finding holds in spite of it.

### AudioDevice

`InitAudioCapture` makes eight calls into Windows; the first that fails makes it return
with what it has, and `cast_screen` cleans up. A thread of its own opens the device in each
session, so that `comThread` of one session may be "other" in the next. The pointers are
globals: `opened` is which of them are set, `soundBuffer` whether `audioBuffer` points into
a client that is there. Windows may mix at any of `Rates`; the core is told the rate in
`CMD_INIT` if it is one Groovy knows, otherwise no sound. What a tick does with the packets
is `AudioTimeline`; a tick that fails ends the session (`RendererEnds`).

### AudioTimeline

Time is counted in samples of the host's clock, so that `sampleAt` is a difference, and the
timeline's phase, a `double` in the code, in grains of a sample. A slot holds the index of
the place it is for; what the sample sounds like does not matter. `StartTimeline` and
`StartClock` are the two `reset`s, `PlacePacket` and `RejectPacket` are `push`,
`CountsFields`, `ShiftsCount` and `Extrapolates` the branches of `due`, `Reanchor` the
recovery of `TickAudioCapture`, `Render` is `render` with the `advance` of each sample
taken together (`Passed`), since nothing looks at the ring in between. `render` never
skips: after `Reanchor` no more than the lead is due, and the lead is no more than one
send. The counters for the log, `m_pending` and `m_stale` steer nothing and are left out.

Three clocks meet. The host's is `now`. The core's (`CoreRuns`) gains or loses up to `Drift`
grains in every sample, now more and now less; it counts a field when it has shown
`FieldFrames` of its own. The device's (`DeviceRuns`) takes up to `Slip` samples more or less
than `PacketFrames` for a packet, and stamps a good one up to `Jitter` late. So a
device that is slow or fast moves its time stamps away from `packetEnd`, and `push` moves the
packet after them once they differ by more than `Tolerance` (`AudioTimeline.h:122-127`),
over and over and with nothing wrong. `Correction` is the proportional one of the code, error
by ten seconds (`ServoTime`) and at most a thousandth (`MaxCorrection`), rounded towards
0 to whole grains. Whatever ticks and packets do, it is applied only while packets are fresh.

What else may happen is a glitch, and `disturbed` remembers it: a packet that is lost or has a
bad stamp, a field whose report is lost or late (an ACK that is always late by as much only
shifts the core's count), a core that counts anew, a worker that is held up while packets pile
up. An end of the link, of the mode or of the core's sound is none.

`SoundUnbroken` says what the three clocks are to do together as long as there was no glitch.
The head keeps to the host's clock (`HeadOnTime`): it is never further from it than the field
the count may be behind or ahead by, two samples, and `Deadband`, the error it takes for a
correction that outruns the drift of the core. And once sound was heard there is no gap that is owed
(`Owed`):

* A packet that is moved ahead leaves a hole (`LeftFree`). That is what `push` does and no
  comment says otherwise: a slow device is heard with silence of a little more than
  2 ms each time its clock has lost that much, and of a fast one as much is written over.
  `holes` remembers these places, and they are not owed.
* Every other place up to the end of the last packet is, whatever the delay.
* What comes after the last packet is owed only if the delay covers the worst moment
  (`DelayIsEnough`): a sample is sent no later than the lead before the receiver plays it, the
  head may be ahead by a field and the deadband, and a sample is seen only with its packet,
  which may come late and be taken for the one before by the tolerance. For fields of 16.7
  ms, packets of 10 ms and a drift of 100 ppm the sum is 30 ms between delay and lead, so
  a setting of 60 ms is enough, or 67 ms at 50 Hz. The default of 40 ms
  (`MiSTerCastLib.h:99`) leaves 20 ms and is not: there the timeline may run dry in the
  worst phase of the clocks, and only the first two points hold.

`PaceAssumption` names what it rests on: the core drifts by less than a sample in a field and by
less than a correction makes up for (a thousandth; crystals differ by a tenth of that); a send
and a packet are shorter than the servo's ten seconds; a packet in time is fresh, and a
worker in time comes before the estimate is off by the 100 ms that correct it; and the ring,
250 ms longer than the delay, holds what comes meanwhile.

### CropArea

The rotation is read from `source_config` three times in a tick, the other options once
when the tick takes them over; `Rotate` is `SetSource` in between. Sizes are the
captured picture's; the modes X1 to X5 differ by a factor, and X2 stands for them. `torn`
remembers that the rotation changed during the tick. The picture is then drawn with the
wrong sides for one frame, which the code accepts; that it lies in the source even then is
checked and proved. The picture is drawn into a target of the modeline's size, made of three
objects of the graphics device, kept from tick to tick, made anew for another size, and
dropped with the device; any of the three may fail, and the next tick finds what is left.
The scaler, which reads inside the rectangle it is given, is left out.

### FieldPacking

Three calls ask the gate: `SetModeline` with the options set last, `StartStream` with
the same, and the mode switch with the options the stream was started with. The options
may change in between, also while a stream runs (`FrontEnd` shows how), so a
modeline accepted by one may be refused by another. `PackField` packs a capture of any
size, as `draw` does after a mode change that the capture worker has not followed yet.
Blanking is one boolean, `encloses`: nothing after the gate reads it.

### NlcCodec

A frame is three planes, YCoCg, as the client always asks for; each line of each plane
is predicted from its rebuilt neighbours, quantised, and packed by one of three
packings. A sample is a number and a segment a sequence of bits, which the decoder reads
with the same widths and runs; how bits lie in bytes is left out. The threads of the
encoder work on planes that share nothing, so their lines interleave. Left out:
RGB-direct and four planes, and a fixed Rice parameter, for which the client has no
setting. `ResidualAssumption` says that the header of a tile can hold the width of every
residual and an escape the residual itself: at 255 a residual is at most 1020
(`nlc_codec.cpp:184`), a header of 4 bits counts to 15 and an escape has 12.

### Lz4Block

`CmdBlit` calls `LZ4_compress_default` or `LZ4_compress_HC` with the capacity equal to
the picture, so that an encoder that does not gain stops, and the frame goes raw. The
fast encoder is followed probe by probe, with its hash table and its growing step. The
strong one is given its hash chains exactly: a search walks from the newest place with the
same first bytes down to `LowestMatch`, as many places as it has attempts, taking a longer
match forwards or backwards, and what the encoder then makes of two and three overlapping
matches is followed decision by decision. The
adaptive codecs (5 and 6) encode once more with the other encoder. `touched` is how far
the block's buffer was written, the copies of eight bytes at a time included. The
constants of the format are parameters, so that a picture of 36 bytes reaches the long
forms and the end rules. `BlockAssumption` says what the
encoders rely on, and holds of the code's values (4, 5, 12, 8, 15, 65535 and bytes of 256): a
match at the last place that may start one ends before the last literals, a stride of a copy
is no longer than the room asked for behind literals, an offset fits its two bytes, a
length that needs a further byte starts below a full byte, and `MinMatch` is three or four,
which is what the cuts of overlapping matches are made for.
Left out, because the client never calls it: dictionaries,
streams, `destSize`, other levels, the frame format and its checksum (`lz4frame.c`,
`xxhash.c`), and the delta frames of `CmdBlit`, for which the renderer would have to
count matching bytes and passes 0.

### SendPath

A send names a registered buffer; the card reads it when the datagram goes (`Transmit`),
after the client may have written the next picture into it. A send that is under way
while its buffer is written is `stale`. `owned` counts ten resources in the order in
which `CmdInit` acquires them; `CmdInitReturnsEarly` stops after any of them. `refused`
is a send for which the queue had no slot; `RIOSend` fails and nobody looks. One resend
of `CMD_SWITCHRES` stands for the attempts of all calls of `draw`.

### ReceivePath

`RIOReceive`, `RIODequeueCompletion` and `RIONotify` are external, as far as `getACK` uses
them. The request queue is made for BUFFER_SLICES receives (`groovymister.cpp:684`, here
`MaxOutstandingReceive`); whether one whose completion was not taken out still takes a place,
Microsoft's documentation leaves open, and `PostReceive` may do either. `CmdInit` posts one
receive, and a `getACK` that was woken posts one for all the completions it took out, so
mostly one is outstanding. But a datagram that comes after a wait was given up and before
`RIONotify` (`:1273`) is told of twice: the second notification wakes a `getACK` for which
nothing is left, and the receive it posts (`:1264`) is a second one into `m_bufferReceive`.
From then on a datagram may come in between two looks of `getACK` into the buffer, and does so
in the model: `LookAtFrame` is the look at the frame, `TakeStatus` stands for `setFpgaStatus`,
whose last byte is of what the buffer holds by then. `HeardInOrder` says what one buffer for
all datagrams costs: a result may be read as a newer datagram, or begun as one and ended as a
newer one, never as an older one.

### RasterServo

A word has `WordSize` values. An answer brings any line of any frame not more than `MaxSpread`
from the one echoed; a larger distance, of a core that counts anew, is cut off by the
code. `streamed` is history: the last blit was not skipped, so that `m_streamTime` belongs
to it. `SpreadAssumption` says that the distances that are left fit an `int`: with 8 frames
of spread they do for every modeline whose line is shorter than half a millisecond.

### FrontEnd

Every handler runs to its end on the one user interface thread. A control that a handler
changes calls its own handler first, so a handler is an operator on the record `front`:
the controls (`ui`), the fields that cache them, and what the library was last told
(`lib`). An event is any input to any control that is live, a window that opens or
closes, a save or a load of a settings file of versions 1 to 4, whole or damaged, start,
stop, and the end and the start of the program. A library that does not come up and an
address that does not resolve are choices of the event. Left out: log and preview, the
test that a text is a number (0 stands for one that is not), and the file of presets.

## 3. The runs

| run (`cfg`) | bounds | shows |
| --- | --- | --- |
| capture_buffers (`MCFrame`) | buffers: 2 strips, 4 frames, 2 modelines | `PublishedWhole`, `LeasedFrameIsNewest`, `LeasedBufferStable` |
| | packing: buffer of 24 bytes, envelope of 2 by 5, widths to 3, heights to 5, all options | `PackingSafe` |
| | codec: 3 by 2 pixels of 2 colours, channels of 4 values, NEAR 0 to 2, 3 packings | `RoundTrip` |
| | block: 262 pictures of up to 36 bytes, 2 codecs, 1 and 9 attempts | `BlockRoundTrip` |
| | window: 2 modelines, 2 options, 3 windows, 5 events | `FrontEndSound`; and `FrameTypeOK` of all five |
| capture_lease (`CaptureLease`) | as the buffers | counterexample to "keeps the capture thread off this buffer" |
| groovy_session (`MCClient`) | session: 3 modes, one refused; 1 mode change; 2 disturbances; 5 frame numbers; 2 misses; 2 attempts | `BlitFitsUnlessLost`, `BlitSizeIsPackedSize`, `EchoNeverAhead`, `RetryStaysArmed`, `FramesIncrease` |
| | send: queue of 5, raw field of 2 slices, 1 of sound, 2 fields, 2 sessions, 1 mode switch, an early return after 6 resources | `TornDownOnce`, `PayloadAsAnnounced`, `RefusedOnlyByBacklog` |
| | receive: 2 receives outstanding, 5 datagrams, 3 notifications | `ReceiveNeverDeaf` |
| | raster: words of 64, 5 lines of 2 ticks, frames 12 to 14, lines 0 and 4, 2 answers a sync | `SleepBounded`, `VSyncInPicture`; and `ClientTypeOK` of all four |
| session_liveness (`SessionLiveness`) | 2 modes, the rest as the session; a core that echoes nothing without a mode | `StreamRecovers`, `PendingModeApplied` |
| session_starved (`SessionStarved`) | 1 mode, 1 disturbance | Auto-reconnect that never runs |
| session_stale_ack (`SessionStaleAck`) | 2 modes, 2 disturbances | pictures of a mode the core never heard of |
| session_dead_send (`SessionDeadSend`) | 1 mode, 1 disturbance | a blit on a torn-down session |
| lifecycle (`MCLifecycle`) | 2 displays, 1 window, 2 square crops, 2 capture workers, 2 sessions | `TypeOK`, `CaptureExclusive`, `WorkersHeld`, `RestartHandsOver`, `FrameFromSelectedSource`, `CallsReturn`, `ImplementsService` |
| capture_sources (`MCCapture`) | pool of 2, 5 signals, 2 failures | `NoFrameSleptThrough`, `FramesTaken` |
| | crop: a wide and a tall source, 2 sizes, 4 offsets, all 9 alignments, 5 modes, 4 rotations, 2 by 2 modelines | `CropSound` |
| | audio: 3 rates of Windows, one of which Groovy does not know; any number of sessions | `AudioPaired`; and `CaptureTypeOK` of all three |
| window_half_open (`WindowHalfOpen`) | 3 signals, 1 failure | capture that never comes back |
| audio_timeline (`MCAudioTimeline`) | delay 10, lead 1, ring 21, send 5, field 2, packet 2 ± 1 samples; correction of the estimate above 6; grains of 1/8, drift of 1 grain a sample, servo of 5 samples; 15 samples of time; 1 change of a rate, late stamp, change of the link or glitch | `TypeOK`, `SlotsInWindow`, `ReceiverBufferBounded`, `ClockFollowsCount`, `SoundUnbroken`, `ImplementsDelayLine` |
| saved_window (`SavedWindow`) | 1 modeline, 1 option, 3 windows, 7 events | a saved window that is open and is not selected |

Deadlock is checked in `MCFrame`, whose parts go on for ever but for the window, which is
given a step at its bound. Elsewhere it is not: the models stop when the program has been
closed, when the user does nothing more, or when a bound is used up.

Why the bounds are enough. Three buffers and two workers repeat after one round of the
buffers: four frames let the capture worker lap a sleeping reader. Two strips tell a
torn frame from a whole one, and two modelines make a buffer that has to be resized. In
the session, two disturbances suffice for every pair of failures (a restart during a
reconnect, a lost switch answered by a late ACK); the watchdog's limit of ten and the
three attempts are only counted, so two of each pass through the same states; five frame
numbers hold a current and an older frame on each side of the link at both ends of the
gate. Two capture workers are one that runs and its successor (three give twice the
states and the same results); two sessions give a stale worker a session to disturb. For
the audio timeline, the delay is just enough, so that the last places before the head are at
stake, and the ring as long as it must be. The core drifts by an eighth and a packet is
half as long again or half as short, so that in fifteen samples every phase of the clocks
occurs, a packet is moved either way, and a head that is steered wrongly leaves its bounds
(one of the mutants). The clocks of a run are slow, right or fast and change once; the theorem
covers every rate and every change (section 5).

For the crop, a wide source holds the shapes of a television and a tall one does not,
one size fits and one is larger than either source in some direction, and the offsets
leave the source on each side. Packing has modelines below, at and above the limit of
the buffer and of the envelope, by options of two, three and four bytes; heights that
are odd. The send queue holds one frame with its commands and sound, and not a resent
command or a backlog more; two fields are the one under way and the next. In the receive
path, it takes one datagram to make a stale notification, which adds the second receive; then
one is read, one comes meanwhile, one is in the socket and one comes later. A word of 64 starts
anew between the first and the last line of frame 13, so that pairs of rasters on one
side of it, on the other and astride it occur. The pixels of the codec are the two
corners that differ most in all three planes, so that the widest residuals and the
escapes occur; the pictures of a block repeat near and far, and were chosen so that
every action and every case of two and three overlapping matches, and one encoder that
does not fit, occur. Five events of the window are a change, a save, a second change or
a start, a load, and one that follows; the last run needs windows that open, too, and
has seven.

Fairness. `GroovySession`: the stream worker is never blocked for good, since every
wait has a timeout; a picture can be packed infinitely often, because the capture
worker keeps publishing (strong fairness of `PackFrame` and `SkipFirstBlit`, as
packing may fail in between); a second passes; what reaches the core is handled
and a core that stopped is started again. Nothing is assumed of the user or of
disturbances. `Lifecycle` and `WindowCapture`: the operating system runs every
thread that can run, and delivers queued callbacks. A call's steps are fair, the
user's decision to make one is not.

## 4. What the runs found

Twelve runs, of which six are counterexamples to something a comment or a
document of the repository says; each is a finding in `PROJECT.json` with the
line it quotes.

* **A lease can come too late** (`renderer_nogpu.h:245-246`): a torn, or resized,
  frame may be packed. Bounds are safe against the sizes read, the vector is not.
* **Auto-reconnect starves** (`renderer_nogpu.h:332-336`): while a mode switch is
  not acknowledged no blit runs, so no watchdog does. A modeline change that meets
  a core restart leaves the stream dead until it is stopped by hand.
* **Any answer is an answer** (`groovymister.cpp:923`): a late blit ACK acknowledges
  a mode switch that was lost.
* **A blit on a dead session** (`groovymister.cpp:977`): the failed reconnect has
  zeroed the frame counter that the watchdog's test needs.
* **A half-open window capture is never rebuilt** (`VideoCapture.h:198-226, 387`).
* **A saved window loses to the one selected** (`MainWindow.xaml.cs:869-876`): a settings
  file is loaded, the window it names is open, and another one stays selected.

Seen while modelling, with no run of their own.

Capture: a tick between the two stores of `SetModeline` (`MiSTerCastLib.cpp:360-361`)
publishes one frame of neither modeline's size; a stop that lands after the worker's look
at the flag and before its sample of the signal (`VideoCapture.h:449`) is noticed by the
32 ms timeout only; a rotation that changes in the middle of a tick is drawn with the wrong
sides for one frame; `SetSource` (`MiSTerCastLib.cpp:379`) does not look at
`initialized`, and only the front end keeps it from being called too early.

Sending: a `CmdInit` that returns early (`groovymister.cpp:558-764`) leaves its socket
and registered buffers open. With a codec chosen, a frame that does not fit is announced
raw, but the slices registered are those of the compressed buffer (`:623-626`), which is
what goes; NLC with RGB565 always falls back so. Command and field buffers are written again
without waiting for their sends. The send queue is drained in `WaitSync` only
(`:1306-1312`, "called every frame"), and `draw` returns before it while a
mode switch is not acknowledged: after some 280 failed calls the queue of 846 slots is full. A
raw 720x576 RGB888 field at an MTU of 1500 needs 847.

Receiving: a stale notification makes one `getACK` return without an answer, before its
time is up, and leaves one more receive outstanding into the same buffer. A datagram that
comes while the buffer is read (`groovymister.cpp:1242`, `:1709-1713`) then makes a status that is
partly of one datagram and partly of the next, and the frame that was compared with
`fpga.frameEcho` need not be the one that is stored. The completion of the newer datagram is
read next, and sets it right when its frame is newer than the one stored. No line of the
repository says that a status is of one piece, and `ReceiveNeverDeaf` claims the order of what
is read, not that; `GroovySession` reads each status in one piece.

Pacing: the raster words of an interlaced stream are halved before they are subtracted,
so that a pair astride the end of a word, once in some 38 hours, is half a word off
(`SleepBounded` leaves it out); a blit that the watchdog skips leaves the stream time of
the one before, and the next swap line may lie outside of the picture (`VSyncInPicture`
leaves it out).

Codecs: the adaptive codecs encode again with the strong encoder into the same buffer, and if
that one does not fit the frame goes raw although the first result did.
`nlc_codec.h:87` says "every channel within" NEAR, but a colour transform lies between
(`:54-59`), and the client always uses it: what is within NEAR is the planes.

Front end: the crop box of X2 shows the size for the modeline before, until the modeline is
applied again; a crop of X1 to X5 is not sent while a size box is empty; a
modeline typed by hand while nothing is streamed is neither checked nor used, and Start
streams the previous one, while after a refused one Start stays disabled although what is
typed would be accepted (`README.md:50`); Load Settings stays live while streaming and
changes options that are "locked" (`README.md:28`); a refresh may select the first window
without a word; without `modelines.dat` the program ends at its start
(`MainWindow.xaml.cs:1208`).

Audio: after `reanchor` the clock's base is the count of now but its estimate the frames
sent so far (`AudioTimeline.h:64-73`), so that, once more than 100 ms have been sent, the
next field is too far off, is not counted and makes a second correction.

## 5. What is proved

Every theorem holds for all values of the constants that the named assumptions of its
module allow; TLC evaluates those assumptions on the instances of section 3.

**Capture buffers** (`FrameProof`): `[]TypeOK`, `[]PublishedWhole`,
`[]LeasedFrameIsNewest` and the action property `LeasedBufferStable`. None of these is
inductive. The strengthening `IInv` adds what each worker knows where it is: the buffer
the capture worker writes is not the published one; the strips it has copied carry the
next frame number; and, while the stream worker holds a fresh lease, either the leased
buffer is still the published one or the capture worker has published another since, and
in both cases the picked buffer is a third one. That last part is what "one bump always
lands" means (`VideoCapture.h:756-758`); `NextIndex` is the arithmetic under it.

**Lifecycle** (`LifecycleProof`): `[]TypeOK`, `[]WorkersHeld`, `[]CaptureExclusive`,
`[]RestartHandsOver`, `[]FrameFromSelectedSource`, and `Spec => ServiceSafe`: every step of
`StartStream`, `StopStream` and `Shutdown` is a step of `StreamService` or none.
`LifecycleInv` has three parts besides the types. `Held` says for each place of a call which
thread pointers are set and whether the buffers are there. `Handed` says how far a worker
has come in taking the options that were published last: the order of
`RestartVideoCapture` (stop, join, open, publish, start) is what makes it inductive, since
between publishing and the next restart no worker of before is left to lower the flag.
`Sourced` says that outside a swap the device is closed or open on the source in force, so
that a worker's own rebuild after a failure opens the right one.

**Window, crop, audio device** (`CaptureProof`), of the instance as it is run:
`[]CaptureTypeOK`, `[]NoFrameSleptThrough`, `[]CropSound`, `[]AudioPaired`. `Handshake` adds
that no sample of the signal is ahead of the counter: that is why a callback that increments
it always makes it different. `CropInv` adds what a tick knows at each of its looks at the
rotation, and that a target with a size is whole; `PlacedAlong` is the arithmetic of one
side (alignment, then offset, then keeping inside). `AudioInv` says, for each place of
`cast_screen`, which interfaces are open and on which thread.

**Audio timeline** (`AudioTimelineProof`): `[]TypeOK`, `[]SlotsInWindow`,
`[]ReceiverBufferBounded`, `[]ClockFollowsCount` and `Spec => ImplementsDelayLine`, the
refinement itself. The types and `SlotsInWindow` are inductive together; what carries it
is `OneSlotOnePlace` (two places nearer than the ring's size that share a slot are the
same), `AdvanceKeepsWindow` and `PlaceKeepsWindow`. `ReceiverBufferBounded` is not
inductive: the estimate can be corrected downwards while what is due cannot. `ClockInv`
measures both against `CountFloor`, what the fields said when they were last counted,
which never falls. `FollowInv` says what a tick knows between taking the count and
asking the clock.

`[]SoundUnbroken`, under `PaceAssumption` alone: for every delay, and for clocks that change
their pace in every sample within `Drift` and `Slip`. Its invariant, `InTime`, says how the
three clocks stand to each other while nothing has gone wrong, in five parts:

* `WorldInTime`: the core's count is known, the waiting packets are good and each goes on where the
  one before ended, but for `Slip` and `Jitter` (`Continues`), and the device is not overdue;
* `CallInTime`: the clock is asked before `Wait` is over, and what was due is sent;
* `EstimateInTime`: `Lag`, by how much the core is ahead of the estimate, lies within the field the
  estimate may be ahead by and the drift since it was asked; so an estimate is never corrected
  (`NeverTooFar`) and never falls;
* `HeadInTime`: two sums of the head's error (`Ahead`) and what the core has played beyond what was
  sent (`Reserve`), weighed by `Weight`, the number of samples in which the drift adds up to
  nearly one. Between two sends `Ahead` falls and `Reserve` rises by the host's pace, so
  that their sum moves by the drift alone; weighed like this, the drift moves one of the two only
  down and the other only up (`WeighingsDrift`), and a send either corrects by more than
  that or finds the error inside the deadband (`SteeredDown`, `SteeredUp`, from
  `CorrectionPulls`). Where the two weighings hold and nothing is due, the head is on time
  (`WeighedHead`);
* `LineInTime`: what is in the ring goes on to the end of the last packet, but for the holes, and
  from the head on once sound was heard; before its first packet the head is not steered and
  must not leave the deadband until then (`UnsteeredHead`).

The bare bound on the head is not inductive: a send moves the head by what was due, which
says nothing of the error by itself, and an error inside the deadband is left alone
while the drift goes on. That the ring takes each packet whole is `RingIsLongEnough`; that a
send with a delay that is enough ends before the last packet does, `HeadIsNear` and
`PacketIsNear` (`RenderKeepsSound`).

**Modeline gate and packing** (`FrameProof`): `[]PackingSafe`. The inductive
invariant `PackingInv` says that the mode in force passed the gate with the options *of its
stream* and that the field packed last is one of that mode; it would not be kept if the
mode switch asked with the options of now. `AcceptedFits` is the arithmetic: the gate halves
the product, `m_height` halves the height first, and the two agree because the gate refuses
odd interlaced heights.

**Session** (`GroovySessionProof`), for all modelines, limits and numbers of disturbances:
`[]TypeOK`, `[]BlitFitsUnlessLost`, `[]BlitSizeIsPackedSize`, `[]EchoNeverAhead`,
`[]RetryStaysArmed` and the action property `FramesIncrease`. They come out of one
invariant, `SessionInv`, because each needs the others:

* `PlacesInv`: what the worker's place says of the session (connected, torn down, first blit
  to come);
* `WatchdogInv`: a client that lost its session has heard nothing and its count of misses is
  at the limit; `RetryStaysArmed` is part of it, and only the reconnect itself is beyond;
* `NumbersInv`: the renderer's frame number is never behind the client's, and ahead of it at
  a blit; after a reconnect the client's is zero until the renderer has noticed. `FramesIncrease`
  follows from it for each step that sends a blit;
* `ModesInv`: byte count, modeline kept for a replay and modeline in force are the same, but
  for a switch that was asked for and not acknowledged, and that one is asked again before
  anything is packed. `BlitSizeIsPackedSize` is this at the moment of the blit, carried along
  the queue by `PackedInSize`;
* `QueueInv`, `AnswersInv`: what may be under way. Behind a `CMD_INIT` or a `CMD_CLOSE` come
  only others of them, since nothing else is sent until an answer has come; a core that
  serves this session has read all that was sent before; no answer of this session is for
  a frame that was not sent. `EchoNeverAhead` needs all three;
* `FitInv`: unless a `CMD_SWITCHRES` was lost, each blit under way, and the next one of a
  connected client, finds the core with its modeline or with none. The lemmas of the second
  section (`DropBlitHolds`, `HeadHolds`, `AppendHolds`, ...) say how `HoldsAt` moves when a
  queue is read, loses a datagram or grows.

**Send path** (`ClientPathsProof`): `[]SendTypeOK`, `[]TornDownOnce` and the action
properties `PayloadAsAnnounced` and `RefusedOnlyByBacklog`, for any number of slots, slices,
sessions and early returns. `Accounts` says that a closed session was torn down. `InBudget`
bounds what is queued at each place of a frame, as long as the network keeps up and no
switch was tried again; that is where `RefusedOnlyByBacklog` comes from. `Promises` says of
each queued send which slice of which announcement it is: of the command before it in the
queue, or of the last that went; `GrownQueue` carries it over every step that sends, and
`TransmitLine` over the one that takes.

**Receive path**: `[]ReceiveTypeOK` and `[]ReceiveNeverDeaf`, for any number of datagrams
notifications, and receives that may be outstanding. The invariant `Ears` adds that only
between taking completions out and posting again may there be neither a receive nor a
completion, that a notification is asked for only while there is none, that what waits in the
socket are the newest datagrams, in order, and that while a result is being read with no later
completion, its frame is still what the buffer holds.

**Raster servo**: `[]RasterTypeOK`, `[]SleepBounded` and `VSyncInPicture`, for words of any
size and every modeline that `SpreadAssumption` admits. `NearSpread` is the heart of it: two
rasters that are near have words that are near or wrap once, and the signed difference of
words is then their distance (`SignedIs`), which `NudgeRight` carries through the halving
and the clamp. `RasterInv` bounds what is slept so far by the polls made.

**The client as it is run** (`ClientPathsProof`): all of that of the client whose parts stand
beside each other, in `ClientTypeCorrect`, `ClientIsSafe` and `ClientStepsAreSafe`.

**Front end** (`FrameProof`), for any modelines, presets, options, gate and windows and
any number of events: `[]FrontTypeOK` and `[]FrontEndSound`. A handler is an operator on one
record, and handlers call each other when they change a control; there is one lemma per
handler, and they follow each other as the handlers do. `Fine` is what each of them leaves:
the library follows (`Follows`), a session is locked (`Locked`), the codec's own control is
right (`Packed`), and the crop mode cached is the one shown (`Cropped`). Three things the
property does not say make it inductive: a preset that is shown has the modeline that is
shown, which is why a file that names a preset and gives its modeline comes back with the
preset (`LoadModeFine`); no window of the list was opened after the last one that was, so
that a window that opens is never one that is selected already; and before the library is
there no crop is cached, which is why a crop chosen then is taken up when it comes.
`Loadable` is what a file keeps of the window that saved it.

**NLC codec** (`CodecProof`), for every size of picture, range of the channels, tile, header,
word and `near_lvl`, and either way of packing: `[]CodecTypeOK` and `[]RoundTrip`. The proof goes
from the bits upwards:

* `ReadsBits`, `ReadsRice`, `ReadsCode`: what is written of one number is read again, and
  not a bit beyond it, in plain bits, in a Rice code or in its escape;
* `Joins`: pieces written one after the other lie where the prefix sums of their lengths say;
* `HeaderFits`: the width, or the Rice parameter, that is chosen for a tile fits its header and
  suffices for each of its residuals; this needs `ResidualAssumption`;
* `TileReads`, `LineReads`: a tile, and a line of tiles of which the last may be short, is
  unpacked to the residuals it was packed from;
* `ColourRange`, `ColourBack`, `PredictionInRange`, `QuantIsNear`, `ZigzagBack`: the colour
  transform, the median predictor, the quantiser and the folding, one number at a time;
* `SampleIsNear`, `LineIsNear`: encoder and decoder rebuild the same line from the
  same line above it, each sample in range and within `near_lvl`;
* `SegmentIsFound`: the decoder finds the three segments of a line.

`RoundTrip` is not inductive; `CodecInv` is. It says of every segment that it is the packed
text of *some* residuals from which `DecodeLine` makes the rebuilt row (`LineOf`), and of what
was decoded that it is the rebuilt rows so far. That the encoder's rows equal the decoder's is
then `LineReads` and the definition of the row. `PackLine` and the rest are defined by recursion
over positions, and the prover has no induction over data. They are reached in two steps:
`Recursion` shows that a function given by its steps exists (over sets of its partial functions),
and `UpTo` that what holds at 0 and passes from x - 1 to x holds up to n, by the least
counterexample (`LeastNatural`, from the well-foundedness of the order of the naturals).

**LZ4** (`BlockProof`), for any pictures, any window, hash table and number of attempts, and
all codecs: `[]BlockTypeOK` and `[]BlockRoundTrip`. The property speaks of a whole block; the
invariant `BlockInv` says what an encoder has achieved so far:

* `BlockSays`: the bytes written are `Parsed`, that is, there are places in block and picture
  that lead from the start of both to `anchor`, each to the next by one sequence whose match
  repeats what stands there; a block whose last token waits for its match is `Opened`. A block
  that is done is `Restorable`, and the decoder, wherever it is in it, has the picture up to
  there (`Restores`). A chain of sequences is a *set* of places here, so that no step of the
  proof counts sequences;
* `Places`: what the encoder knows of the matches it has not written. `ProbeHolds` and
  `MatchHolds` say that the hash table has only places before this one, and that the bytes
  that were compared do agree. `SecondHolds` and `ThirdHolds` say how the two or three matches
  that the strong encoder weighs lie to each other: the first starts at most two bytes behind
  the one it replaced, and the second ends at least `2 * MinMatch` behind the start of the
  first, so that whichever is cut short, moved or dropped, what is written still has `MinMatch`
  bytes. The decisions of `LZ4HC_compress_hashChain` rest on this.

The lemmas follow the code. `SearchFinds` is `LZ4HC_InsertAndGetWiderMatch`: what it returns
is in the window, long enough, and agrees, also when it was taken from a run of one byte
without a look (`SkipsRun`). `WithLiteralsOpens`, `WithMatchCloses` and `WithLastEnds` are the
three writers: what they ask for is room enough for what they write, strides and the length
written four bytes at a time included. `ShiftIs` is the arithmetic of the cut. `ReadsLength`,
`ReadsHead`, `ReadsOffset` and `CopiesOn` are the decoder's parts, and `DecodeStep` says that at
every place of a `Restorable` block it takes the right one of its two branches and goes to
the next place with the picture up to there.

**The way of a frame as it is run**: a behaviour of `MCFrame` is one of each of its parts
(`FrameParts`), so that all of the above holds of the instance the run checks, and its
types are `FrameTypes`.

Every safety invariant and every action property that a passing run checks is stated by a
theorem. Only model-checked are the liveness properties (`CallsReturn`, `FramesTaken`,
`StreamRecovers`, `PendingModeApplied`) and the fairness in `ImplementsService`, of which the
safety part is proved: the prover handles neither fairness nor ENABLED.

## 6. Not modelled, and the plan

Models that could be finer: desktop duplication beside `WindowCapture`; the composition of
`GroovySession` with `SendPath`, so that a datagram that goes with another picture than
announced reaches the core (their product is beyond these bounds).

Left out for good:

* `Diagnostics.h`: counters for the log, with no effect on the stream;
* the input commands of the client (MiSTerCast never binds inputs), its keep-alives and rumble;
* of LZ4, what `CmdBlit` never calls: `lz4frame.c`, `xxhash.c`, dictionaries, streams;
  and with them the delta frames;
* RGB-direct and four planes of the NLC codec, and its vector instructions, which compute
  the same values;
* `MiSTerCast.cpp`, a leftover that is not part of the library's build;
* the scaler's pixels, and the Direct3D, WASAPI, Winsock and WPF
  internals, of which only the outcomes are modelled.
