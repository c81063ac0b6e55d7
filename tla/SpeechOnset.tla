---------------------------- MODULE SpeechOnset ----------------------------
(***************************************************************************)
(* From sound to "somebody speaks": voice_vad_feed cuts what the microphone *)
(* gives into frames of 10 ms for the WebRTC detector, which keeps its flag *)
(* up for some frames after the last one that it takes for speech (the     *)
(* hangover); speech begins after 200 ms of flags, so that a click with    *)
(* its hangover does not open a recording.                                 *)
(*                                                                         *)
(* Whether a frame sounds like speech, which GmmProbability decides by its *)
(* model of the noise, is any answer for a frame that is loud enough.      *)
(* Times, hangovers and thresholds are the code's own.                     *)
(***************************************************************************)
EXTENDS Integers, Sequences, SequencesExt

CONSTANTS
  Rate,       \* samples per second, 16000 in the code
  FrameSize,  \* samples of a frame, 160 in the code
  Mode,       \* how aggressive the detector is, 2 in the code
  Onset,      \* frames of flags before speech, 20 in the code
  MaxFaults   \* bounds the failures to get memory

VARIABLES
  detector,   \* the instance: made, initialised, its mode, over_hang, num_of_speech
  onset,      \* voice_vad.c: ready, started, speech_frames, used
  sounds,     \* what was heard: bursts of speech since the last frame without a flag
  opening,    \* the bursts that speech began with
  misses      \* failures in a row

onsetVars == <<detector, onset, sounds, opening, misses>>

-----------------------------------------------------------------------------
(* The tables, a row for each mode, a column for frames of 10, 20, 30 ms.  *)
OverHangMax1 == << <<8, 4, 3>>, <<8, 4, 3>>, <<6, 3, 2>>, <<6, 3, 2>> >>
OverHangMax2 == << <<14, 7, 5>>, <<14, 7, 5>>, <<9, 5, 3>>, <<9, 5, 3>> >>
MaxSpeechFrames == 6

(* WebRtcVad_ValidRateAndFrameLength; the sound is brought down to 8000    *)
(* samples per second, and the frame's length there chooses the column.    *)
ValidRateAndFrameLength(rate, length) ==
  rate \in {8000, 16000, 32000, 48000} /\ \E tens \in 1 .. 3 : length = (rate \div 1000) * 10 * tens

Narrow(rate, length) == length \div (rate \div 8000)
Column(length) == CASE length = 80 -> 1 [] length = 160 -> 2 [] OTHER -> 3

OverHang1(d) == OverHangMax1[d.mode + 1][Column(Narrow(Rate, FrameSize))]
OverHang2(d) == OverHangMax2[d.mode + 1][Column(Narrow(Rate, FrameSize))]

OnsetAssumption ==
  /\ ValidRateAndFrameLength(Rate, FrameSize) /\ Mode \in 0 .. 3
  /\ Onset \in Nat \ {0} /\ MaxFaults \in Nat
  \* a click cannot do it alone, whatever hangover it leaves
  /\ OverHangMax2[Mode + 1][Column(Narrow(Rate, FrameSize))] < Onset

NoDetector == [made |-> FALSE, init |-> FALSE, mode |-> 0, overHang |-> 0, speech |-> 0]
NoSounds == [bursts |-> 0, length |-> 0, longest |-> 0, silent |-> 0, last |-> FALSE]
NoOpening == [bursts |-> 2, longest |-> 0]

Init ==
  /\ detector = NoDetector
  /\ onset = [ready |-> FALSE, started |-> FALSE, frames |-> 0, used |-> 0]
  /\ sounds = NoSounds /\ opening = NoOpening /\ misses = 0

-----------------------------------------------------------------------------
(* voice_vad_reset: WebRtcVad_Create once, then WebRtcVad_Init, which sets *)
(* the default mode, and WebRtcVad_set_mode.                               *)
InitCore(d) == [d EXCEPT !.init = TRUE, !.mode = 0, !.overHang = 0, !.speech = 0]
SetMode(d, mode) == IF d.init THEN [d EXCEPT !.mode = mode] ELSE d

CreateFails ==
  /\ ~detector.made /\ misses < MaxFaults
  /\ misses' = misses + 1
  /\ UNCHANGED <<detector, onset, sounds, opening>>

ResetVad ==
  /\ detector' = SetMode(InitCore([detector EXCEPT !.made = TRUE]), Mode)
  /\ onset' = [ready |-> TRUE, started |-> FALSE, frames |-> 0, used |-> 0]
  /\ sounds' = NoSounds /\ opening' = NoOpening
  /\ misses' = 0

(* GmmProbability's last part: hangover after speech, longer after six     *)
(* frames of it.                                                           *)
Least(a, b) == IF a < b THEN a ELSE b

Smoothed_kept(d, speech) ==  \* mutant: the hangover is not used up
  IF speech THEN [d EXCEPT !.speech = Least(@ + 1, MaxSpeechFrames),
                           !.overHang = IF d.speech < MaxSpeechFrames THEN OverHang1(d) ELSE OverHang2(d)]
  ELSE [d EXCEPT !.speech = 0]

Smoothed(d, speech) ==
  IF speech THEN [d EXCEPT !.speech = Least(@ + 1, MaxSpeechFrames),
                           !.overHang = IF d.speech < MaxSpeechFrames THEN OverHang1(d) ELSE OverHang2(d)]
  ELSE [d EXCEPT !.speech = 0, !.overHang = IF @ > 0 THEN @ - 1 ELSE 0]

Flag(d, speech) == speech \/ d.overHang > 0

(* What was heard, for the properties: bursts of speech, numbered up to 2, *)
(* the length of the last one and of the longest, and the silence since.   *)
Noted(s, speech, flag) ==
  IF ~flag THEN NoSounds
  ELSE IF ~speech THEN [s EXCEPT !.last = FALSE, !.silent = @ + 1, !.length = 0]
  ELSE LET n == Least(s.length + 1, Onset - OverHang2(detector))
       IN  [bursts |-> IF s.last THEN s.bursts ELSE Least(s.bursts + 1, 2), length |-> n,
            longest |-> IF n > s.longest THEN n ELSE s.longest, silent |-> 0, last |-> TRUE]

(* A whole frame: WebRtcVad_Process, then the count of voice_vad_feed.     *)
Counted(o, flag) ==
  IF o.started THEN o
  ELSE LET n == IF flag THEN o.frames + 1 ELSE 0
       IN  [o EXCEPT !.frames = n, !.started = n >= Onset]

Frame(acc, speech) ==
  LET flag == Flag(acc.detector, speech)
      o == Counted(acc.onset, flag)
      s == Noted(acc.sounds, speech, flag)
  IN  [detector |-> Smoothed(acc.detector, speech), onset |-> o,
       sounds |-> s,
       opening |-> IF o.started /\ ~acc.onset.started THEN [bursts |-> s.bursts, longest |-> s.longest]
                   ELSE acc.opening]

(* voice_vad_feed of a part of the sound, in halves of a frame: the rest   *)
(* of a frame is kept for the next call.                                   *)
Feed(halves) ==
  /\ onset.ready
  /\ \E frames \in [1 .. (onset.used + halves) \div 2 -> BOOLEAN] :
       LET kept == [onset EXCEPT !.used = (@ + halves) % 2]
           acc == FoldLeft(Frame, [detector |-> detector, onset |-> kept, sounds |-> sounds,
                                   opening |-> opening], frames)
       IN  /\ detector' = acc.detector /\ onset' = acc.onset
           /\ sounds' = acc.sounds /\ opening' = acc.opening
  /\ UNCHANGED misses

Next == CreateFails \/ ResetVad \/ \E halves \in 1 .. 3 : Feed(halves)

Spec == Init /\ [][Next]_onsetVars

-----------------------------------------------------------------------------
TypeOK ==
  /\ detector.mode \in 0 .. 3 /\ detector.overHang \in 0 .. 14 /\ detector.speech \in 0 .. MaxSpeechFrames
  /\ onset.frames \in 0 .. Onset /\ onset.used \in 0 .. 1 /\ onset.ready \in BOOLEAN
  /\ misses \in 0 .. MaxFaults

(* A recording is not opened by one click: what begins it is either one    *)
(* sound as long as the onset without a hangover, or more than one.        *)
OneClickIsNothing == opening.bursts > 1 \/ opening.longest >= Onset - OverHang2(detector)

(* A pause is heard: no flag stands longer than the hangover after the     *)
(* last frame of speech, which is as long as the speech before it earned.  *)
PauseIsHeard ==
  /\ sounds.silent <= OverHang2(detector)
  /\ sounds.longest <= MaxSpeechFrames => sounds.silent <= OverHang1(detector)

=============================================================================
