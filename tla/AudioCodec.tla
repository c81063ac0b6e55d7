----------------------------- MODULE AudioCodec -----------------------------
(***************************************************************************)
(* The recorder's one ES8311 codec and its speaker amplifier               *)
(* (audio_sticks3.c), behind the hw_audio_* calls of the main loop         *)
(* (board_sticks3.c).  Microphone and speaker take turns, the amplifier is *)
(* a bit of the PMIC on the same I2C bus, and any of these accesses may    *)
(* fail.  hw_audio_capture_start and hw_audio_playback_start have no       *)
(* result: the main loop goes on as if they had worked.                    *)
(*                                                                         *)
(* A call is one step.  What it may come to is a set of outcomes: the      *)
(* codec afterwards, whether the call succeeded, how many accesses failed. *)
(***************************************************************************)
EXTENDS Naturals

CONSTANT MaxFaults  \* bounds the failed accesses

FaultsAssumption == MaxFaults \in Nat

VARIABLES
  codec,   \* handles, mic and spk open, amp, capture and playback state, ready
  app,     \* what the main loop believes to be doing
  faults,  \* failed accesses so far
  clean    \* none since the codec was set up or last played to the end (history)

codecVars == <<codec, app, faults, clean>>

Off == [handles |-> FALSE, mic |-> FALSE, spk |-> FALSE, amp |-> FALSE,
        capture |-> FALSE, playback |-> FALSE, ready |-> FALSE]

(* The PMIC's setup (lcd_init) switched the amplifier off.                 *)
Init == codec = Off /\ app = "idle" /\ faults = 0 /\ clean = FALSE

-----------------------------------------------------------------------------
Did(c) == [codec |-> c, ok |-> TRUE, bad |-> 0]
Failed(c) == [codec |-> c, ok |-> FALSE, bad |-> 1]

(* What follows a call that came to r, whose own result does not count.    *)
Instead(r, c) == [codec |-> c, ok |-> r.ok, bad |-> r.bad]
Anyway(r, next) == {[codec |-> s.codec, ok |-> FALSE, bad |-> r.bad + s.bad] : s \in next}

(* board_sticks3_speaker_enable.                                           *)
Amplifier(c, on) == {Did([c EXCEPT !.amp = on]), Failed(c)}

(* open_microphone: the amplifier is off before the codec opens, which     *)
(* unmutes its output.                                                     *)
OpenMicrophone_loud(c) ==  \* mutant: a failed speaker_enable does not stop it
  UNION {{Did([a.codec EXCEPT !.mic = TRUE]), Failed(a.codec)} : a \in Amplifier(c, FALSE)}

OpenMicrophone(c) ==
  UNION {IF a.ok THEN {Did([a.codec EXCEPT !.mic = TRUE]), Failed(a.codec),
                       Failed([a.codec EXCEPT !.mic = TRUE])}
                 ELSE {a} : a \in Amplifier(c, FALSE)}

(* audio_capture_deinit; the playback state is left as it is.              *)
Deinit(c) ==
  {[codec |-> [a.codec EXCEPT !.handles = FALSE, !.mic = FALSE, !.spk = FALSE, !.capture = FALSE],
    ok |-> TRUE, bad |-> a.bad] : a \in Amplifier(c, FALSE)}

(* audio_capture_init: bus, channels and handles, then the microphone.     *)
CaptureInit(c) ==
  IF c.handles THEN {Did(c)}
  ELSE LET opened == OpenMicrophone([c EXCEPT !.handles = TRUE])
       IN  {o \in opened : o.ok}
             \cup UNION {Anyway(f, Deinit(f.codec)) : f \in {o \in opened : ~o.ok} \cup {Failed(c)}}

EnsureAudio(c) ==
  IF c.ready THEN {Did(c)}
  ELSE {[i EXCEPT !.codec.ready = i.ok] : i \in CaptureInit(c)}

(* audio_capture_start, audio_capture_stop.                                *)
CaptureStart(c) ==
  {Instead(e, [e.codec EXCEPT !.capture = @ \/ (e.codec.handles /\ ~e.codec.playback)])
     : e \in EnsureAudio(c)}

CaptureStop(c) == [c EXCEPT !.capture = FALSE]

(* audio_playback_start: the microphone gives way, and comes back when the *)
(* speaker cannot be opened.                                               *)
GivesUp(c) == UNION {Anyway(Failed(c), OpenMicrophone([c EXCEPT !.spk = FALSE]))}

OpenSpeaker(c) ==
  LET closed == [c EXCEPT !.capture = FALSE, !.mic = FALSE]
      open == [closed EXCEPT !.spk = TRUE]
  IN  GivesUp(closed) \cup GivesUp(open)
        \cup UNION {IF a.ok THEN {Did([a.codec EXCEPT !.playback = TRUE])} ELSE GivesUp(open)
                    : a \in Amplifier(open, TRUE)}

PlaybackStart(c) ==
  UNION {IF ~e.codec.handles THEN {[e EXCEPT !.ok = FALSE]}
         ELSE IF e.codec.playback THEN {[e EXCEPT !.ok = TRUE]}
         ELSE {[o EXCEPT !.bad = @ + e.bad] : o \in OpenSpeaker(e.codec)}
         : e \in EnsureAudio(c)}

(* audio_playback_stop: while the amplifier cannot be switched off the     *)
(* speaker stays started.                                                  *)
PlaybackStop(c) ==
  IF ~c.playback THEN {Did(c)}
  ELSE UNION {IF ~a.ok THEN {a}
              ELSE {[o EXCEPT !.codec.playback = FALSE]
                    : o \in OpenMicrophone([a.codec EXCEPT !.spk = FALSE])}
              : a \in Amplifier(c, FALSE)}

-----------------------------------------------------------------------------
(* The calls of the main loop.                                             *)
Call(outcomes) ==
  \E r \in outcomes :
    /\ faults + r.bad <= MaxFaults /\ faults' = faults + r.bad
    /\ codec' = r.codec
    /\ clean' = (r.bad = 0 /\ (clean \/ (r.codec.ready /\ ~codec.ready)
                                     \/ (codec.spk /\ codec.playback /\ ~r.codec.playback)))

(* recording_start, wake_idle_tick and the self-test before the update's   *)
(* confirmation; a press, the limit or an error ends a capture.            *)
Record == app = "idle" /\ Call(CaptureStart(codec)) /\ app' = "recording"

StopRecording ==
  /\ app = "recording" /\ app' = "idle"
  /\ codec' = CaptureStop(codec)
  /\ UNCHANGED <<faults, clean>>

(* A cue or a reply.  A write that fails ends it, as its end does.         *)
Speak == app = "idle" /\ Call(PlaybackStart(codec)) /\ app' = "speaking"

Refused ==
  /\ app = "speaking" /\ app' = "stopping"
  /\ IF codec.playback /\ codec.spk THEN Call({Failed(codec)}) ELSE Call({Did(codec)})

Played == app = "speaking" /\ codec.playback /\ codec.spk /\ app' = "stopping"
          /\ UNCHANGED <<codec, faults, clean>>

(* enter_state calls hw_audio_playback_stop on every error, whether        *)
(* something is played or not.                                             *)
StopPlaying == app \in {"stopping", "idle"} /\ Call(PlaybackStop(codec)) /\ app' = "idle"

(* board_sticks3_power_tick gives the codec up and then cannot go to       *)
(* sleep, or sleeps and boots.                                             *)
SleepFails ==
  /\ app = "idle" /\ codec.ready
  /\ Call({[d EXCEPT !.codec.ready = FALSE] : d \in Deinit(codec)})
  /\ UNCHANGED app

Sleep ==
  /\ app = "idle"
  /\ codec' = Off /\ clean' = FALSE
  /\ UNCHANGED <<app, faults>>

Next ==
  \/ Record \/ StopRecording \/ Speak \/ Refused \/ Played \/ StopPlaying
  \/ SleepFails \/ Sleep

Spec == Init /\ [][Next]_codecVars

-----------------------------------------------------------------------------
TypeOK ==
  /\ codec \in [DOMAIN Off -> BOOLEAN]
  /\ app \in {"idle", "recording", "speaking", "stopping"}
  /\ faults \in 0 .. MaxFaults /\ clean \in BOOLEAN

(* The comment above open_microphone: the shared output stays silent       *)
(* during capture and idle.  Whatever accesses fail, the microphone is     *)
(* never open while the amplifier is on.                                   *)
MicrophoneIsQuiet == codec.mic => ~codec.amp

(* After a set-up or a played sound without a failed access the recorder   *)
(* hears again, whatever failed before: a recording is of an open          *)
(* microphone.                                                             *)
HearsAgain ==
  codec.ready /\ clean /\ ~codec.playback => codec.mic /\ (app = "recording" => codec.capture)

=============================================================================
