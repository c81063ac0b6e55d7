--------------------------- MODULE CaptureWindow ---------------------------
(***************************************************************************)
(* How a recording opens and closes by itself: voice_wake_policy.c,        *)
(* voice_vad.c and the capture part of the main loop (main.c,              *)
(* `wake_idle_tick` and RECORDING), with the pre-roll that is put in front *)
(* of the recording.  The clock is the unsigned millisecond counter, which *)
(* wraps; `age` and `silent` measure the real time beside it.  A frame is  *)
(* 10 ms of sound, numbered since the detector of speech was reset.        *)
(***************************************************************************)
EXTENDS Naturals, SequencesExt

CONSTANTS
  Clock,       \* the counter is taken modulo Clock (2^32)
  Late,        \* the main loop comes round within so much time
  Burst,       \* frames a tick may find
  CueMax,      \* eight seconds
  SettleTime,  \* 150 ms after the cue
  WaitMax,     \* ten seconds without speech
  Pause,       \* wake_pause_ms
  MaxRecord,   \* MAX_RECORD_SECONDS_DEFAULT
  Onset,       \* frames of speech that open a recording
  PreRoll      \* WAKE_PREROLL_BYTES in frames

TimesAssumption ==
  /\ {Late, Burst, CueMax, SettleTime, WaitMax, Pause, MaxRecord, Onset} \subseteq Nat \ {0}
  /\ SettleTime + WaitMax + Late < Clock /\ MaxRecord + Late < Clock /\ CueMax + Late < Clock
  /\ Clock \in Nat

(* Ten milliseconds a frame: with a loop that is later, the beginning of   *)
(* the onset would be gone from the pre-roll when it is noticed.           *)
PreRollAssumption == PreRoll \in Nat /\ Onset + Burst - 1 <= PreRoll

VARIABLES
  wake,      \* voice_wake_t
  now,       \* hw_clock_ms
  vad,       \* ready, consecutive frames of speech, started
  preroll,   \* the ring of the last frames
  recorded,  \* the frames a recording begins with
  mic,       \* frames since the reset of the VAD, and whether each is speech
  age,       \* time since the state began, beside the counter
  silent     \* time since the last speech of a recording

capVars == <<wake, now, vad, preroll, recorded, mic, age, silent>>

Elapsed(since) == (now + Clock - since) % Clock

Armed == [state |-> "armed", hold |-> FALSE, cueEnd |-> 0, started |-> 0, lastSpeech |-> 0]
VadReset == [ready |-> TRUE, run |-> 0, started |-> FALSE]
EmptyRing == [slots |-> [i \in 0 .. PreRoll - 1 |-> 0], head |-> 0, used |-> 0]

Init ==
  /\ wake = Armed /\ now \in 0 .. Clock - 1
  /\ vad = [VadReset EXCEPT !.ready = FALSE] /\ preroll = EmptyRing /\ recorded = <<>> /\ mic = <<>>
  /\ age = 0 /\ silent = 0

Capture(state) == wake.state = state

-----------------------------------------------------------------------------
(* voice_wake_capture_init and voice_wake_activate: a capture by a wake    *)
(* word, a follow-up or the button, whose release may end it.              *)
Begin ==
  /\ Capture("armed") \/ Capture("done")
  /\ \E hold \in BOOLEAN :
       wake' = [Armed EXCEPT !.state = "cue", !.hold = hold, !.started = now]
  /\ age' = 0
  /\ UNCHANGED <<now, vad, preroll, recorded, mic, silent>>

(* Time goes by between two ticks of the main loop.                        *)
Passes(d) == now' = (now + d) % Clock

(* The button, or what capture_eligible looks at, ends the capture at any  *)
(* tick before the recording: wake_stop.                                   *)
Stop ==
  /\ wake' = [wake EXCEPT !.state = "done"]
  /\ preroll' = EmptyRing /\ recorded' = <<>> /\ mic' = <<>> /\ age' = 0 /\ silent' = 0
  /\ UNCHANGED vad

Cancelled ==
  /\ wake.state \in {"cue", "settle", "wait"}
  /\ Stop /\ UNCHANGED now

(* While the cue plays nothing else is looked at; the player cuts it.      *)
CuePlays(d) ==
  /\ Capture("cue") /\ age + d <= CueMax
  /\ Passes(d) /\ age' = age + d
  /\ UNCHANGED <<wake, vad, preroll, recorded, mic, silent>>

(* voice_wake_cue_done(success).                                           *)
CueDone ==
  /\ Capture("cue")
  /\ wake' = [wake EXCEPT !.state = "settle", !.cueEnd = now]
  /\ vad' = VadReset /\ preroll' = EmptyRing /\ mic' = <<>>
  /\ age' = 0
  /\ UNCHANGED <<now, recorded, silent>>

-----------------------------------------------------------------------------
(* voice_vad_feed, frame by frame: Onset frames of speech in a row open,   *)
(* then every frame of speech counts.                                      *)
Heard(v, speech) ==
  LET run == IF speech THEN v.run + 1 ELSE 0
      opened == v.started \/ run >= Onset
  IN  [v EXCEPT !.run = IF opened THEN 0 ELSE run, !.started = opened]

FeedVad(v, flags) ==
  FoldLeft(LAMBDA acc, flag : [vad |-> Heard(acc.vad, flag),
                               speech |-> acc.speech \/ (flag /\ Heard(acc.vad, flag).started)],
           [vad |-> v, speech |-> FALSE], flags)

(* wake_pre_append.                                                        *)
Appended(ring, frame) ==
  [slots |-> [ring.slots EXCEPT ![ring.head] = frame],
   head |-> (ring.head + 1) % PreRoll,
   used |-> IF ring.used < PreRoll THEN ring.used + 1 ELSE PreRoll]

FeedRing(ring, n) == FoldLeft(Appended, ring, [i \in 1 .. n |-> Len(mic) + i])

(* From the oldest frame to the end of the buffer, then its beginning.     *)
Unrolled(ring) ==
  LET first == (ring.head + PreRoll - ring.used) % PreRoll
      part == IF PreRoll - first > ring.used THEN ring.used ELSE PreRoll - first
  IN  [i \in 1 .. part |-> ring.slots[first + i - 1]]
        \o [i \in 1 .. ring.used - part |-> ring.slots[i - 1]]

Flags == UNION {[1 .. n -> BOOLEAN] : n \in 0 .. Burst}

(* voice_wake_tick in SETTLE and WAIT_SPEECH.                              *)
Waiting ==
  IF Capture("settle") /\ Elapsed(wake.cueEnd) >= SettleTime
    THEN [wake EXCEPT !.state = "wait", !.started = (wake.cueEnd + SettleTime) % Clock]
    ELSE wake

Fed(flags) ==
  LET out == FeedVad(vad, flags)
  IN  /\ vad' = out.vad
      /\ preroll' = FeedRing(preroll, Len(flags))
      /\ mic' = mic \o flags

(* During the settling the microphone is read and forgotten; the frames of *)
(* its last tick and of the wait go to pre-roll and VAD.                   *)
Settles(d) ==
  /\ Capture("settle") /\ age' = age + d /\ Passes(d)
  /\ Elapsed(wake.cueEnd) < SettleTime
  /\ UNCHANGED <<wake, vad, preroll, recorded, mic, silent>>

Listens(flags, d) ==
  /\ Waiting.state = "wait"
  /\ Elapsed(Waiting.started) < WaitMax
  /\ ~FeedVad(vad, flags).speech
  /\ Fed(flags) /\ wake' = Waiting
  /\ age' = age + d /\ Passes(d)
  /\ UNCHANGED <<recorded, silent>>

NobodySpeaks ==
  /\ Waiting.state = "wait"
  /\ Elapsed(Waiting.started) >= WaitMax
  /\ Stop /\ UNCHANGED now

RecordStarts(flags, d) ==
  /\ Waiting.state = "wait"
  /\ Elapsed(Waiting.started) < WaitMax
  /\ FeedVad(vad, flags).speech
  /\ vad' = FeedVad(vad, flags).vad /\ mic' = mic \o flags
  /\ recorded' = Unrolled(FeedRing(preroll, Len(flags)))
  /\ preroll' = EmptyRing
  /\ wake' = [Waiting EXCEPT !.state = "recording", !.lastSpeech = now]
  /\ Passes(d)
  /\ age' = age - SettleTime + d /\ silent' = d

(* A frame the VAD cannot judge ends capture or recording in ERROR.        *)
VadFails ==
  /\ wake.state \in {"cue", "settle", "wait", "recording"}
  /\ vad' = [vad EXCEPT !.ready = FALSE]
  /\ wake' = [wake EXCEPT !.state = "done"]
  /\ preroll' = EmptyRing /\ recorded' = <<>> /\ mic' = <<>> /\ age' = 0 /\ silent' = 0
  /\ UNCHANGED now

-----------------------------------------------------------------------------
(* A tick of RECORDING: speech moves the pause, then button, length and    *)
(* pause are looked at.                                                    *)
Spoken(speech) == [wake EXCEPT !.lastSpeech = IF speech THEN now ELSE @]

Finishes(w) == Elapsed(w.started) >= MaxRecord \/ (~w.hold /\ Elapsed(w.lastSpeech) >= Pause)

RecordGoesOn(d) ==
  /\ Capture("recording")
  /\ \E speech \in BOOLEAN :
       /\ ~Finishes(Spoken(speech))
       /\ wake' = Spoken(speech)
       /\ silent' = IF speech THEN d ELSE silent + d
  /\ Passes(d) /\ age' = age + d
  /\ mic' = <<>> /\ recorded' = <<>>
  /\ UNCHANGED <<vad, preroll>>

RecordEnds ==
  /\ Capture("recording")
  /\ \E finish, speech \in BOOLEAN :
       /\ finish \/ Finishes(Spoken(speech))
       /\ wake' = [Spoken(speech) EXCEPT !.state = IF finish THEN "done" ELSE "finished"]
       /\ silent' = IF speech THEN 0 ELSE silent
  /\ mic' = <<>> /\ recorded' = <<>>
  /\ UNCHANGED <<now, vad, preroll, age>>

Finish ==
  /\ Capture("finished")
  /\ Stop /\ UNCHANGED now

Next ==
  \/ Begin \/ Cancelled \/ CueDone \/ NobodySpeaks \/ VadFails \/ RecordEnds \/ Finish
  \/ \E d \in 1 .. Late :
       \/ CuePlays(d) \/ Settles(d) \/ RecordGoesOn(d)
       \/ \E flags \in Flags : Listens(flags, d) \/ RecordStarts(flags, d)

Spec == Init /\ [][Next]_capVars

-----------------------------------------------------------------------------
TypeOK ==
  /\ wake \in [state : {"armed", "cue", "settle", "wait", "recording", "finished", "done"}, hold : BOOLEAN,
               cueEnd : 0 .. Clock - 1, started : 0 .. Clock - 1, lastSpeech : 0 .. Clock - 1]
  /\ now \in 0 .. Clock - 1
  /\ vad \in [ready : BOOLEAN, run : 0 .. Onset, started : BOOLEAN]
  /\ preroll.head \in 0 .. PreRoll - 1 /\ preroll.used \in 0 .. PreRoll

(* A recording begins with the last frames that were heard, in order, and  *)
(* with the whole stretch of speech that opened it.                        *)
RecordsTheOnset ==
  recorded # <<>> =>
    /\ \A i \in DOMAIN recorded : recorded[i] = Len(mic) - Len(recorded) + i
    /\ \E from \in DOMAIN mic :
         /\ from >= recorded[1] /\ from + Onset - 1 <= Len(mic)
         /\ \A i \in from .. from + Onset - 1 : mic[i]

(* No capture keeps microphone and gate longer than it should, none of     *)
(* them is cut before its time, and a pause ends no recording by a held    *)
(* button, whatever the counter of milliseconds says.                      *)
EndsInTime ==
  /\ Capture("settle") => age < SettleTime + Late
  /\ Capture("wait") => age < SettleTime + WaitMax + Late
  /\ Capture("recording") => /\ age < MaxRecord + Late
                             /\ wake.hold \/ silent < Pause + Late
  /\ Capture("finished") => age >= MaxRecord \/ (~wake.hold /\ silent >= Pause)

=============================================================================
