------------------------------ MODULE AudioDevice ------------------------------
(***************************************************************************)
(* The client that records what Windows plays (AudioCapture.h): how the    *)
(* stream worker (cast_screen in MiSTerCastLib.cpp) opens, starts, drains  *)
(* and closes it around a session, and what the session makes of the rate  *)
(* of its mix (nogpu_init, draw and add_audio_to_recording in              *)
(* renderer_nogpu.h).  Every call into Windows may fail; each session has  *)
(* a thread of its own, and the process's audio globals outlive it.        *)
(***************************************************************************)
EXTENDS Naturals, Sequences

CONSTANTS
  Rates,     \* sample rates Windows may mix at
  Accepted   \* those Groovy knows: 22050, 44100 and 48000

ASSUME AudioDeviceAssumption == Rates \subseteq Nat \ {0} /\ Accepted \subseteq Nat \ {0}

VARIABLES
  caster,        \* where cast_screen is; "idle" between two sessions
  wanted,        \* source.audio as the user asked for it
  attempted,     \* audioInitAttempted
  started,       \* audioStarted, from then on source.audio of the renderer
  apartments,    \* CoInitialize calls of this thread that are not undone
  comThread,     \* audioComThread: "none", "this" or "other"
  opened,        \* pEnumerator, pDevice, pAudioClient, pwfx, pCaptureClient
  usable,        \* audioFormatUsable
  recording,     \* the audio client was started
  sampleRate,    \* audioSampleRate, 0 before the first format
  soundBuffer,   \* audioBuffer: "null", "live", or "freed" with its client
  announced,     \* sound rate of the last CMD_INIT, 0: no sound
  coreSound,     \* fpga.audio
  heard          \* history: rate of the last sound sent in this session, 0: none

soundVars == <<sampleRate, soundBuffer, announced, coreSound, heard>>
deviceVars == <<apartments, comThread, opened, usable, recording>>
audioVars == <<caster, wanted, attempted, started, deviceVars, soundVars>>

AudioInit ==
  /\ caster = "idle" /\ wanted = FALSE /\ attempted = FALSE /\ started = FALSE
  /\ apartments = 0 /\ comThread = "none" /\ opened = {} /\ usable = FALSE
  /\ recording = FALSE /\ sampleRate = 0 /\ soundBuffer = "null"
  /\ announced = 0 /\ coreSound = FALSE /\ heard = 0

CasterGoes(from, to) == caster = from /\ caster' = to

-----------------------------------------------------------------------------
(* cast_screen up to its renderer.                                         *)

\* A new thread: what another one left is not its own.
StartSession ==
  /\ CasterGoes("idle", "open")
  /\ wanted' \in BOOLEAN
  /\ attempted' = FALSE /\ started' = FALSE
  /\ apartments' = 0
  /\ comThread' = IF comThread = "this" THEN "other" ELSE comThread
  /\ announced' = 0 /\ coreSound' = FALSE /\ heard' = 0
  /\ UNCHANGED <<opened, usable, recording, sampleRate, soundBuffer>>

\* No sound is wanted, or the session is stopped already.
WithoutAudio ==
  /\ CasterGoes("open", "renderer")
  /\ UNCHANGED <<wanted, attempted, started, deviceVars, soundVars>>

\* The calls of InitAudioCapture, and what each of them leaves behind.
Calls ==
  <<"CoInitialize", "enumerator", "device", "client", "format", "Initialize",
    "GetBufferSize", "capture">>

Interfaces == {"enumerator", "device", "client", "format", "capture"}

LeftBy(n) == opened \cup {c \in Interfaces : \E i \in 1 .. n : Calls[i] = c}

\* n of them succeed; the next one, if any, makes it return.
InitAudioCapture ==
  \E n \in 0 .. Len(Calls) :
    /\ CasterGoes("open", IF n = Len(Calls) THEN "start" ELSE "renderer")
    /\ wanted
    /\ attempted' = TRUE
    /\ apartments' = IF n > 0 THEN apartments + 1 ELSE apartments
    /\ comThread' = IF n > 0 THEN "this" ELSE comThread
    /\ opened' = LeftBy(n)
    /\ IF "format" \in opened'
       THEN sampleRate' \in Rates /\ usable' \in BOOLEAN
       ELSE UNCHANGED <<sampleRate, usable>>
    /\ UNCHANGED <<wanted, started, recording, soundBuffer, announced, coreSound, heard>>

\* A wrong version: a format that cannot be read is recorded all the same.
StartAnyFormat ==
  /\ CasterGoes("start", "renderer")
  /\ \/ "client" \in opened /\ started' = TRUE /\ recording' = TRUE
     \/ UNCHANGED <<started, recording>>
  /\ UNCHANGED <<wanted, attempted, apartments, comThread, opened, usable, soundVars>>

\* The timeline is cleared; then a client with a format that can be read is reset and
\* started, unless one of the two fails.
StartAudioCapture ==
  /\ CasterGoes("start", "renderer")
  /\ \/ "client" \in opened /\ usable /\ started' = TRUE /\ recording' = TRUE
     \/ UNCHANGED <<started, recording>>
  /\ UNCHANGED <<wanted, attempted, apartments, comThread, opened, usable, soundVars>>

-----------------------------------------------------------------------------
(* The session.                                                            *)

\* Sound of any other rate is off in CMD_INIT.
SoundRate == IF started /\ sampleRate \in Accepted THEN sampleRate ELSE 0

\* CmdInit starts from a clean status, here and when a blit reconnects.
CmdInit ==
  /\ announced' = SoundRate
  /\ coreSound' = FALSE
  /\ heard' = 0

\* nogpu_init, until the core answers.
Connect ==
  /\ caster = "renderer"
  /\ CmdInit
  /\ \/ UNCHANGED <<caster, soundBuffer>>
     \/ caster' = "draw" /\ soundBuffer' = "live"
  /\ UNCHANGED <<wanted, attempted, started, deviceVars, sampleRate>>

Reconnect ==
  /\ caster = "draw" /\ UNCHANGED caster
  /\ CmdInit
  /\ UNCHANGED <<wanted, attempted, started, deviceVars, sampleRate, soundBuffer>>

\* setFpgaStatus: a core that was told no rate has no sound.
Acknowledge ==
  /\ caster = "draw" /\ UNCHANGED caster
  /\ coreSound' \in {FALSE, announced # 0}
  /\ UNCHANGED <<wanted, attempted, started, deviceVars, sampleRate, soundBuffer,
                 announced, heard>>

\* add_audio_to_recording: what is due is sent only if the core takes sound.
AddAudioToRecording == heard' = IF coreSound THEN sampleRate ELSE heard

\* TickAudioCapture drains the client, unless the session has no sound.
TickAudio ==
  /\ caster = "draw" /\ UNCHANGED caster
  /\ started
  /\ AddAudioToRecording
  /\ UNCHANGED <<wanted, attempted, started, deviceVars, sampleRate, soundBuffer,
                 announced, coreSound>>

\* A stop between two draws or before the first, an exception out of one of them, or of
\* a tick that failed; the renderer goes, and the client's buffers with it.
RendererEnds ==
  /\ caster \in {"renderer", "draw"}
  /\ caster' = "stop"
  /\ soundBuffer' = IF soundBuffer = "live" THEN "freed" ELSE soundBuffer
  /\ UNCHANGED <<wanted, attempted, started, deviceVars, sampleRate, announced, coreSound,
                 heard>>

-----------------------------------------------------------------------------
(* The end of cast_screen.                                                 *)

\* Stop may fail; the client is let go all the same.
StopAudioCapture ==
  /\ CasterGoes("stop", "cleanup")
  /\ recording' \in {recording, recording /\ ~started}
  /\ soundBuffer' = "null"
  /\ UNCHANGED <<wanted, attempted, started, apartments, comThread, opened, usable,
                 sampleRate, announced, coreSound, heard>>

\* A wrong version: only a client that was started is closed.
CleanupStarted ==
  /\ CasterGoes("cleanup", "idle")
  /\ IF started
     THEN /\ opened' = {} /\ usable' = FALSE /\ recording' = FALSE /\ comThread' = "none"
          /\ apartments' = IF comThread = "this" THEN apartments - 1 ELSE apartments
     ELSE UNCHANGED deviceVars
  /\ UNCHANGED <<wanted, attempted, started, soundVars>>

CleanupAudioCapture ==
  /\ CasterGoes("cleanup", "idle")
  /\ IF attempted
     THEN /\ opened' = {} /\ usable' = FALSE /\ recording' = FALSE /\ comThread' = "none"
          /\ apartments' = IF comThread = "this" THEN apartments - 1 ELSE apartments
     ELSE UNCHANGED deviceVars
  /\ UNCHANGED <<wanted, attempted, started, soundVars>>

AudioNext ==
  \/ StartSession \/ WithoutAudio \/ InitAudioCapture \/ StartAudioCapture
  \/ Connect \/ Reconnect \/ Acknowledge \/ TickAudio \/ RendererEnds
  \/ StopAudioCapture \/ CleanupAudioCapture

AudioSpec == AudioInit /\ [][AudioNext]_audioVars

-----------------------------------------------------------------------------
\* Types.
AudioTypeOK ==
  /\ caster \in {"idle", "open", "start", "renderer", "draw", "stop", "cleanup"}
  /\ {wanted, attempted, started, usable, recording, coreSound} \subseteq BOOLEAN
  /\ apartments \in Nat
  /\ comThread \in {"none", "this", "other"}
  /\ opened \subseteq Interfaces
  /\ {sampleRate, heard} \subseteq Rates \cup {0} /\ announced \in Accepted \cup {0}
  /\ soundBuffer \in {"null", "live", "freed"}

\* Nothing of a session is left when its thread is joined, however far its opening came:
\* no interface, no apartment, no pointer into a client that is gone
\* (AudioCapture.h:239-254, MiSTerCastLib.cpp:129-131).
AudioReleased ==
  caster = "idle" =>
    /\ opened = {} /\ apartments = 0 /\ comThread = "none"
    /\ ~recording /\ ~usable /\ soundBuffer = "null"

\* A session that draws with sound has every pointer its ticks and its end go through, a
\* client that records in a format they can read, and a buffer that is still there
\* (AudioCapture.h:277-285, 303-357, MiSTerCastLib.cpp:124-128).
AudioReady ==
  /\ started /\ caster \in {"renderer", "draw", "stop"} =>
       opened = Interfaces /\ recording /\ usable
  /\ caster = "draw" => soundBuffer = "live"

\* The core is never sent sound of a rate CMD_INIT did not tell it.
SoundAsAnnounced == heard \in {0, announced}

\* What a session opened it uses while it is there and closes in the end, whichever of its
\* calls failed, and its sound plays at the rate that was agreed.
AudioPaired == AudioReleased /\ AudioReady /\ SoundAsAnnounced
=============================================================================
