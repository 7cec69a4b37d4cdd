------------------------------- MODULE FrontEnd -------------------------------
(***************************************************************************)
(* The window of MainWindow.xaml.cs: its controls, what it caches of them, *)
(* and the settings it has given to the library.  Every handler runs to    *)
(* its end on the one user interface thread, and a control that changes    *)
(* inside a handler calls its own handler first: a handler is therefore an *)
(* operator that takes the window and the library to what they become.     *)
(* Setting a control to the value it has raises no event.                  *)
(***************************************************************************)
EXTENDS Integers, Sequences

CONSTANTS
  Timings,         \* modelines, each stands for its active width
  Presets,       \* modelines.dat: a sequence of modes; preset 0 is "Custom"
  Options,       \* combinations of the stream options
  Nlc,           \* those whose codec is NLC
  Gate,          \* <<mode, options>> that ValidateModeline accepts
  FirstOptions,  \* the options shown at first, and the library's own
  OldOptions,    \* what a version 1 file stands for: LZ4, RGB888, MTU 1500
  SizeTexts,         \* sizes that can be typed; 0 is text that is no number
  BufferTexts,       \* audio buffers that can be typed; 0 is text that is not accepted
  FirstBuffer,   \* 40 ms
  Handles,       \* windows of other programs, in the order in which they are opened
  Title,         \* their title and program, by handle; the list is sorted by it
  MaxEvents      \* bound: events of a behaviour

ASSUME FrontAssumption ==
  /\ Timings \subseteq Nat \ {0} /\ Presets \in Seq(Timings) /\ Len(Presets) > 0
  /\ Nlc \subseteq Options /\ {FirstOptions, OldOptions} \subseteq Options
  /\ Gate \subseteq Timings \X Options
  /\ 0 \in SizeTexts /\ 0 \in BufferTexts /\ FirstBuffer \in BufferTexts \ {0}
  /\ Handles \subseteq Nat \ {0} /\ 1 \in Handles /\ Title \in [Handles -> Nat \ {0}]
  /\ MaxEvents \in Nat

VARIABLES
  front,    \* the window and the library: see FirstShown and Native
  alive,    \* the windows that are open
  opened,   \* the handle given out last: none is used twice
  file,     \* a settings file, <<>> at first
  loaded,   \* the last event was a settings file read to its end
  events    \* events so far

frontVars == <<front, alive, opened, file, loaded, events>>

NoWindow == 0
Idle == <<>>

-----------------------------------------------------------------------------
(* The library, as far as the front end sees it.                           *)

\* The settings before Initialize.
Native ==
  [on |-> FALSE, running |-> Idle, options |-> FirstOptions, mode |-> Presets[1],
   window |-> NoWindow, source |-> Idle, buffer |-> FirstBuffer]

GateAccepts(mode, options) == <<mode, options>> \in Gate

SetModeline(s, mode) ==
  IF GateAccepts(mode, s.lib.options) THEN [s EXCEPT !.lib.mode = mode] ELSE s

CanCapture(s, window) == s.lib.on /\ (window = NoWindow \/ window \in alive)

\* A crop of twice the modeline takes its size from the modeline.
SetSource(s, crop, size, preview) ==
  [s EXCEPT !.lib.source = [crop |-> crop, preview |-> preview,
                            size |-> IF crop = "x2" THEN 2 * s.lib.mode ELSE size]]

CanStart(s) == s.lib.on /\ s.lib.running = Idle /\ GateAccepts(s.lib.mode, s.lib.options)

BeginStream(s) ==
  [s EXCEPT !.lib.running = [options |-> s.lib.options, mode |-> s.lib.mode,
                             buffer |-> s.lib.buffer]]

-----------------------------------------------------------------------------
(* Handlers.                                                               *)

Target(s) == IF s.ui.capture = "window" THEN s.ui.selected ELSE NoWindow

OnCaptureSourceChanged(s) ==
  LET cached == [s EXCEPT !.ui.cropmode = s.ui.crop]
      aimed == [cached EXCEPT !.lib.window = Target(s)]
  IN  IF \/ s.ui.capture = "window" /\ s.ui.selected = NoWindow
         \/ ~CanCapture(s, Target(s))
      THEN cached
      ELSE IF s.ui.size = 0 THEN aimed
           ELSE SetSource(aimed, s.ui.crop, s.ui.size, s.ui.preview)

\* The handlers that look at isInitialized first.
SourceEvent(s) == IF s.ui.ready THEN OnCaptureSourceChanged(s) ELSE s

\* The crop size is shown without raising an event.
UpdateCropSize(s) ==
  IF s.ui.cropmode = "x2" THEN [s EXCEPT !.ui.size = 2 * s.ui.cache] ELSE s

ValidMode(s) == GateAccepts(s.ui.cache, s.ui.options)

\* Stop stays within reach when a mode is edited to something invalid.
Validated(s) == [s EXCEPT !.ui.start = ValidMode(s) \/ s.ui.streaming]

OnModelineChanged(s) ==
  LET read == [s EXCEPT !.ui.cache = s.ui.text]
  IN  IF ~s.ui.ready THEN read
      ELSE IF ~ValidMode(read) THEN Validated(read)
           ELSE OnCaptureSourceChanged(UpdateCropSize(
                  SetModeline(Validated(read), s.ui.text)))

\* A wrong version: the modeline is not looked at again.
OptionsAlone(s) ==
  IF ~s.ui.ready THEN s
  ELSE [s EXCEPT !.lib.options = s.ui.options,
                 !.ui.pack = s.ui.options \in Nlc /\ ~s.ui.streaming]

OnStreamOptionsChanged(s) ==
  IF ~s.ui.ready THEN s
  ELSE OnModelineChanged(
         [s EXCEPT !.lib.options = s.ui.options,
                   !.ui.pack = s.ui.options \in Nlc /\ ~s.ui.streaming])

SetStreamControlsEnabled(s, enabled) ==
  [s EXCEPT !.ui.options_live = enabled, !.ui.pack = enabled /\ s.ui.options \in Nlc]

InitializeMiSTerCast(s, succeeds) ==
  IF succeeds
  THEN OnStreamOptionsChanged(
         [s EXCEPT !.ui.ready = TRUE, !.lib.on = TRUE, !.lib.options = FirstOptions,
                   !.lib.mode = Presets[1], !.lib.buffer = FirstBuffer])
  ELSE s

SetOptions(s, options) ==
  IF options = s.ui.options THEN s
  ELSE OnStreamOptionsChanged([s EXCEPT !.ui.options = options])

\* ModelinePresetsBox.SelectedIndex: a preset fills in the fields and applies them.
SelectPreset(s, preset) ==
  IF preset = s.ui.preset THEN s
  ELSE IF preset = 0 THEN [s EXCEPT !.ui.preset = 0]
       ELSE OnModelineChanged([s EXCEPT !.ui.preset = preset, !.ui.text = Presets[preset]])

\* A field typed or read from a file: only Apply, offered while streaming, applies it.
TypeMode(s, mode) ==
  IF mode = s.ui.text THEN s
  ELSE [SelectPreset(s, 0) EXCEPT !.ui.text = mode, !.ui.apply = @ \/ s.ui.streaming]

SetCrop(s, crop) ==
  IF crop = s.ui.crop THEN s ELSE SourceEvent([s EXCEPT !.ui.crop = crop])

SetSize(s, size) ==
  IF size = s.ui.size THEN s ELSE SourceEvent([s EXCEPT !.ui.size = size])

SetPreview(s, preview) ==
  IF preview = s.ui.preview THEN s ELSE SourceEvent([s EXCEPT !.ui.preview = preview])

SetBuffer(s, buffer) ==
  [s EXCEPT !.ui.buffer = buffer,
            !.lib.buffer = IF s.ui.ready /\ buffer # 0 THEN buffer ELSE @]

First(windows) ==
  CHOOSE w \in windows : \A v \in windows :
    Title[w] < Title[v] \/ (Title[w] = Title[v] /\ w <= v)

Titled(windows, title) == {w \in windows : Title[w] = title}

\* The title looked for: the one asked for, or that of the window that was selected.
\* NoTitle stands for null and 0 for the empty key.
NoTitle == -1
Wanted(s, preferred) ==
  IF preferred # NoTitle THEN preferred
  ELSE IF s.ui.selected = NoWindow THEN 0 ELSE Title[s.ui.selected]

\* The window that was selected is kept while it is open.
Choice(s, preferred, selectFirst) ==
  LET matching == Titled(alive, Wanted(s, preferred))
  IN  IF s.ui.selected \in alive THEN s.ui.selected
      ELSE IF matching # {} THEN First(matching)
           ELSE IF selectFirst /\ alive # {} THEN First(alive) ELSE NoWindow

RefreshWindowSources(s, preferred, selectFirst) ==
  LET listed == [s EXCEPT !.ui.listed = alive,
                          !.ui.selected = Choice(s, preferred, selectFirst)]
  IN  IF s.ui.capture = "window" THEN SourceEvent(listed) ELSE listed

SelectWindow(s, window) ==
  LET chosen == [s EXCEPT !.ui.selected = window]
  IN  IF window # s.ui.selected /\ s.ui.capture = "window" THEN SourceEvent(chosen)
      ELSE chosen

SetCapture(s, capture) ==
  LET changed == [s EXCEPT !.ui.capture = capture]
  IN  IF capture = s.ui.capture THEN s
      ELSE SourceEvent(IF capture = "window" /\ s.ui.listed = {}
                       THEN RefreshWindowSources(changed, NoTitle, TRUE) ELSE changed)

-----------------------------------------------------------------------------
(* Settings files.                                                         *)

\* SaveSettingsButton: the preview and the alignment are not saved.
Settings(ui, version, good) ==
  [version |-> version, good |-> good, preset |-> ui.preset, text |-> ui.text,
   crop |-> ui.crop, size |-> ui.size, options |-> ui.options, capture |-> ui.capture,
   title |-> IF ui.selected = NoWindow THEN 0 ELSE Title[ui.selected],
   buffer |-> ui.buffer]

LoadMode(s) == TypeMode(SelectPreset(s, file.preset), file.text)

LoadSource(s) == SetSize(SetCrop(s, file.crop), file.size)

LoadOptions(s) == SetOptions(s, IF file.version >= 2 THEN file.options ELSE OldOptions)

LoadCapture(s) ==
  LET switched == SetCapture(s, IF file.version >= 3 THEN file.capture ELSE "display")
  IN  IF file.version >= 3 /\ file.capture = "window"
      THEN RefreshWindowSources(switched, file.title, FALSE) ELSE switched

LoadBuffer(s) ==
  LET buffer == IF file.version >= 4 /\ file.buffer # 0 THEN file.buffer ELSE FirstBuffer
  IN  [SetBuffer(OnStreamOptionsChanged(s), buffer) EXCEPT !.lib.buffer = buffer]

\* LoadSaveFileFromStream: a line that is no number stops it where it is.
LoadSaveFile(s) ==
  LET mode == LoadMode(s)
      source == LoadSource(mode)
      options == LoadOptions(source)
      capture == LoadCapture(options)
  IN  <<s, mode, source, options, capture, LoadBuffer(capture)>>[file.good + 1]

-----------------------------------------------------------------------------
(* Events.                                                                 *)

FirstShown ==
  [ready |-> FALSE, streaming |-> FALSE, preset |-> 1, text |-> Presets[1],
   cache |-> Presets[1], options |-> FirstOptions, crop |-> "custom", cropmode |-> "custom",
   size |-> 1, preview |-> TRUE, capture |-> "display", listed |-> {},
   selected |-> NoWindow, buffer |-> FirstBuffer, start |-> TRUE, apply |-> FALSE,
   options_live |-> TRUE, pack |-> TRUE, closed |-> FALSE]

\* The constructor, up to its call of the library: the window list and the presets.
Constructed == RefreshWindowSources([ui |-> FirstShown, lib |-> Native], NoTitle, TRUE)

FrontInit ==
  /\ opened = 1
  /\ alive = {opened}
  /\ front = Constructed
  /\ file = <<>>
  /\ loaded = FALSE
  /\ events = 0

ui == front.ui
lib == front.lib

Event ==
  /\ ~ui.closed
  /\ events < MaxEvents
  /\ events' = events + 1

Become(next) ==
  /\ Event
  /\ front' = next
  /\ loaded' = FALSE
  /\ UNCHANGED <<alive, opened, file>>

\* The constructor's last call, when the library comes up; when it does not, the first event
\* is another one.
LibraryReady ==
  /\ front = Constructed
  /\ front' = InitializeMiSTerCast(front, TRUE)
  /\ UNCHANGED <<alive, opened, file, loaded, events>>

\* Controls the user changes; those of the session only while it is not running.
EditMode(mode) == Become(TypeMode(front, mode))
PickPreset(preset) == Become(SelectPreset(front, preset))
ApplyModeline == ui.apply /\ Become([OnModelineChanged(front) EXCEPT !.ui.apply = FALSE])
EditOptions(options) == ui.options_live /\ Become(SetOptions(front, options))
EditCrop(crop) == Become(SetCrop(front, crop))
EditSize(size) == ui.cropmode = "custom" /\ Become(SetSize(front, size))
EditPreview == Become(SetPreview(front, ~ui.preview))
EditBuffer(buffer) == ui.options_live /\ Become(SetBuffer(front, buffer))
EditCapture(capture) == ~ui.streaming /\ Become(SetCapture(front, capture))
PickWindow(window) ==
  ~ui.streaming /\ ui.capture = "window" /\ window \in ui.listed
    /\ Become(SelectWindow(front, window))
RefreshWindows ==
  ~ui.streaming /\ ui.capture = "window" /\ Become(RefreshWindowSources(front, NoTitle, TRUE))

\* ToggleStreamButton: the library is asked again, then the buffer, the mode, the address.
StartPressed(up, resolves) ==
  LET asked == IF ui.ready THEN front ELSE InitializeMiSTerCast(front, up)
      buffered == [asked EXCEPT !.lib.buffer = ui.buffer]
      checked == Validated(buffered)
      blind == SetPreview(checked, FALSE)
      started == SetStreamControlsEnabled(
                   [BeginStream(blind) EXCEPT !.ui.streaming = TRUE], FALSE)
  IN  /\ ui.start /\ ~ui.streaming
      /\ Become(IF ~asked.ui.ready \/ ui.buffer = 0 THEN asked
                ELSE IF ~ValidMode(buffered) THEN checked
                     ELSE IF ~resolves \/ ~CanStart(blind) THEN blind ELSE started)

StopPressed ==
  /\ ui.start /\ ui.streaming
  /\ Become(SetStreamControlsEnabled(
              [front EXCEPT !.lib.running = Idle, !.ui.streaming = FALSE, !.ui.apply = FALSE],
              TRUE))

\* A file of this build, of an older one, or one that is damaged.
SaveSettings(version, good) ==
  /\ Event
  /\ ui.buffer # 0
  /\ file' = Settings(ui, version, good)
  /\ loaded' = FALSE
  /\ UNCHANGED <<front, alive, opened>>

\* The Load button is live while a stream runs.
LoadSettings ==
  /\ Event
  /\ file # <<>>
  /\ front' = LoadSaveFile(front)
  /\ loaded' = (file.good = 5)
  /\ UNCHANGED <<alive, opened, file>>

Closing ==
  Become([front EXCEPT !.ui.closed = TRUE, !.lib.running = Idle, !.lib.on = FALSE])

\* The program is started again: what it kept is the file.
Launch ==
  /\ ui.closed
  /\ front' = Constructed
  /\ loaded' = FALSE
  /\ UNCHANGED <<alive, opened, file, events>>

\* Other programs open and close their windows.
WindowOpens ==
  /\ Event
  /\ opened + 1 \in Handles
  /\ opened' = opened + 1
  /\ alive' = alive \union {opened + 1}
  /\ loaded' = FALSE
  /\ UNCHANGED <<front, file>>

WindowCloses ==
  /\ Event
  /\ \E w \in alive : alive' = alive \ {w}
  /\ loaded' = FALSE
  /\ UNCHANGED <<front, opened, file>>

FrontNext ==
  \/ LibraryReady
  \/ \E m \in Timings : EditMode(m)
  \/ \E p \in 0 .. Len(Presets) : PickPreset(p)
  \/ ApplyModeline
  \/ \E o \in Options : EditOptions(o)
  \/ \E c \in {"custom", "x2"} : EditCrop(c)
  \/ \E n \in SizeTexts : EditSize(n)
  \/ EditPreview
  \/ \E b \in BufferTexts : EditBuffer(b)
  \/ \E c \in {"display", "window"} : EditCapture(c)
  \/ \E w \in Handles : PickWindow(w)
  \/ RefreshWindows
  \/ \E up, resolves \in BOOLEAN : StartPressed(up, resolves)
  \/ StopPressed
  \/ \E v \in 1 .. 4, g \in {2, 5} : SaveSettings(v, g)
  \/ LoadSettings
  \/ Closing
  \/ Launch
  \/ WindowOpens
  \/ WindowCloses

FrontSpec == FrontInit /\ [][FrontNext]_frontVars

-----------------------------------------------------------------------------
(* Properties.                                                             *)

FrontTypeOK ==
  /\ ui.text \in Timings /\ ui.cache \in Timings /\ ui.options \in Options
  /\ ui.preset \in 0 .. Len(Presets)
  /\ ui.selected \in ui.listed \union {NoWindow}
  /\ ui.listed \subseteq Handles /\ alive \subseteq Handles
  /\ ui.buffer \in BufferTexts /\ lib.mode \in Timings /\ lib.options \in Options
  /\ events \in 0 .. MaxEvents

\* A source the library takes: a size, and a window that is there.
SourceTaken ==
  /\ ui.size # 0
  /\ ui.capture = "window" => ui.selected \in alive

\* The library has the options shown and, when the modeline read last is one it accepts,
\* that modeline and the source shown for it, whatever the order of the events that led here.
LibraryFollows ==
  ui.ready /\ ~ui.closed =>
    /\ lib.options = ui.options
    /\ ValidMode(front) =>
         /\ lib.mode = ui.cache
         /\ SourceTaken =>
              /\ lib.window = Target(front)
              /\ lib.source = [crop |-> ui.crop, preview |-> ui.preview,
                               size |-> IF ui.crop = "x2" THEN 2 * lib.mode ELSE ui.size]

\* The session began with a mode that fits its own options and the buffer that was shown;
\* its controls are locked until it ends, and it can be ended.
SessionHeld ==
  /\ ui.streaming = (lib.running # Idle) \/ ui.closed
  /\ lib.running # Idle => GateAccepts(lib.running.mode, lib.running.options)
  /\ ui.streaming => ui.start /\ ~ui.options_live /\ ~ui.pack
  /\ ui.ready /\ ~ui.streaming =>
       ui.options_live /\ ui.pack = (ui.options \in Nlc)

\* A file that was saved comes back as it was, the window it names apart.
SettingsRestored ==
  loaded =>
    /\ <<ui.text, ui.crop, ui.size>> = <<file.text, file.crop, file.size>>
         \/ (ui.crop = "x2" /\ ui.text = file.text /\ file.crop = "x2")
    /\ ui.options = IF file.version >= 2 THEN file.options ELSE OldOptions
    /\ ui.capture = IF file.version >= 3 THEN file.capture ELSE "display"
    /\ ui.buffer = IF file.version >= 4 THEN file.buffer ELSE FirstBuffer
    /\ ui.preset = file.preset

FrontEndSound == LibraryFollows /\ SessionHeld /\ SettingsRestored

\* The window a settings file names is the one selected once the file is loaded, when it is
\* open: "The saved capture window is not currently available. Restore it and refresh the
\* window list." is what the log says otherwise (MainWindow.xaml.cs:579).
SavedWindowRestored ==
  loaded /\ file.version >= 3 /\ file.capture = "window" /\ Titled(alive, file.title) # {} =>
    /\ ui.selected # NoWindow
    /\ Title[ui.selected] = file.title

=============================================================================
