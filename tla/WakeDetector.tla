---------------------------- MODULE WakeDetector ----------------------------
(***************************************************************************)
(* src/firmware/src/voice_wake_detector.cpp and voice_wake_score.c: the    *)
(* main loop feeds microphone bytes and polls for a detection, the         *)
(* inference task takes frames from a queue, and a reset by the main loop  *)
(* (cue, recording, lost frames) is only a new `epoch`.  A half is half a  *)
(* frame of bytes, numbered since the last reset; what the network says of *)
(* a window is a free choice.                                              *)
(***************************************************************************)
EXTENDS Naturals, Sequences, SequencesExt

CONSTANTS
  QueueCap,   \* frames in the queue
  Stride,     \* frames for one inference
  Window,     \* scores averaged
  Warmup,     \* scores ignored after a reset
  MaxResets,  \* bound on the calls of voice_wake_detector_reset
  MaxHalves   \* bound on what is fed between two resets

DetectorAssumption ==
  {QueueCap, Stride, Window, Warmup, MaxResets, MaxHalves} \subseteq Nat \ {0}

VARIABLES
  ready,      \* the model is loaded and has not failed
  epoch, detectionEpoch,
  fed,        \* halves fed in this epoch
  pending,    \* halves waiting for the rest of their frame
  frames,     \* the queue
  task,       \* active_epoch, stride, score, and the frame in hand
  evidence,   \* what the last stored detection was computed from
  heard       \* what the main loop was told by this poll

detVars == <<ready, epoch, detectionEpoch, fed, pending, frames, task, evidence, heard>>

None == <<>>
Frame(e, first) == [epoch |-> e, first |-> first]
EmptyScore == [values |-> <<>>, warmup |-> 0]
NoSpan == [epoch |-> 0, from |-> 1, to |-> 1, whole |-> TRUE]

Init ==
  /\ ready = FALSE
  /\ epoch = 1 /\ detectionEpoch = 0 /\ fed = 0 /\ pending = None /\ frames = <<>>
  /\ task = [pc |-> "receive", active |-> 0, stride |-> 0, score |-> EmptyScore, span |-> NoSpan, frame |-> None]
  /\ evidence = NoSpan /\ heard = None

-----------------------------------------------------------------------------
(* The main loop.                                                          *)
MainStep == UNCHANGED <<task, evidence>>

(* voice_wake_detector_reset.                                              *)
ResetVars(numbered) ==
  /\ epoch' = epoch + 1 /\ detectionEpoch' = 0
  /\ pending' = None /\ frames' = <<>> /\ fed' = numbered

Reset ==
  /\ epoch <= MaxResets
  /\ ResetVars(0) /\ heard' = None
  /\ UNCHANGED ready /\ MainStep

(* voice_wake_detector_feed; a full queue resets the detector and drops    *)
(* the rest of what was read.                                              *)
Feed ==
  /\ ready /\ fed < MaxHalves
  /\ LET half == fed + 1
     IN  IF pending = None
           THEN pending' = <<half>> /\ fed' = half /\ UNCHANGED <<epoch, detectionEpoch, frames>>
           ELSE IF Len(frames) < QueueCap
                  THEN /\ frames' = Append(frames, Frame(epoch, Head(pending)))
                       /\ pending' = None /\ fed' = half
                       /\ UNCHANGED <<epoch, detectionEpoch>>
                  ELSE epoch <= MaxResets /\ ResetVars(0)
  /\ heard' = None
  /\ UNCHANGED ready /\ MainStep

(* voice_wake_detector_detected.                                           *)
Poll ==
  /\ detectionEpoch' = 0
  /\ heard' = IF detectionEpoch # 0 /\ detectionEpoch = epoch THEN <<evidence>> ELSE None
  /\ UNCHANGED <<ready, epoch, fed, pending, frames>> /\ MainStep

-----------------------------------------------------------------------------
(* The inference task.                                                     *)
TaskStep == UNCHANGED <<epoch, fed, pending, heard>>
At(pc) == task.pc = pc

Loaded ==
  /\ ~ready /\ At("receive") /\ task.active = 0
  /\ ready' = TRUE
  /\ UNCHANGED <<detectionEpoch, frames, task, evidence>> /\ TaskStep

Receive ==
  /\ ready /\ At("receive") /\ frames # <<>>
  /\ frames' = Tail(frames)
  /\ task' = [task EXCEPT !.pc = "frame", !.frame = <<Head(frames)>>]
  /\ UNCHANGED <<ready, detectionEpoch, evidence>> /\ TaskStep

(* The frames the front end, the network and the score remember.           *)
Fresh(f) == [epoch |-> f.epoch, from |-> f.first, to |-> f.first + 2, whole |-> TRUE]
Extended(span, f) ==
  [span EXCEPT !.to = f.first + 2,
               !.whole = @ /\ span.epoch = f.epoch /\ span.to = f.first]

Restarted_warm(t, f) ==  \* mutant: the score of the last epoch is kept
  IF f.epoch # t.active
    THEN [t EXCEPT !.active = f.epoch, !.stride = 0, !.span = Fresh(f)]
    ELSE [t EXCEPT !.span = Extended(@, f)]

Restarted(t, f) ==
  IF f.epoch # t.active
    THEN [t EXCEPT !.active = f.epoch, !.stride = 0, !.score = EmptyScore, !.span = Fresh(f)]
    ELSE [t EXCEPT !.span = Extended(@, f)]

(* A frame of an older epoch is dropped; the first of a new one resets     *)
(* front end, network and score.                                           *)
TakeFrame ==
  /\ At("frame")
  /\ LET f == Head(task.frame)
     IN  task' = IF f.epoch # epoch
                   THEN [task EXCEPT !.pc = "receive", !.frame = None]
                   ELSE [Restarted(task, f) EXCEPT !.pc = "infer", !.frame = None, !.stride = @ + 1]
  /\ UNCHANGED <<ready, detectionEpoch, frames, evidence>> /\ TaskStep

(* voice_wake_score_feed.                                                  *)
Fed(score, high) ==
  [values |-> LET all == Append(score.values, high)
              IN  IF Len(all) > Window THEN Tail(all) ELSE all,
   warmup |-> IF score.warmup < Warmup THEN score.warmup + 1 ELSE Warmup]

Detects(score) ==
  score.warmup = Warmup /\ 2 * Len(SelectSeq(score.values, LAMBDA v : v)) > Window

Infer ==
  /\ At("infer")
  /\ IF task.stride < Stride
       THEN task' = [task EXCEPT !.pc = "receive"]
       ELSE \E high \in BOOLEAN :
              LET warm == task.score.warmup = Warmup
                  next == Fed(task.score, high)
              IN  task' = [task EXCEPT !.stride = 0, !.score = next,
                             !.pc = IF warm /\ Detects(next) THEN "detected" ELSE "receive"]
  /\ UNCHANGED <<ready, detectionEpoch, frames, evidence>> /\ TaskStep

(* The comparison with the epoch and the store are two steps.              *)
Compare ==
  /\ At("detected")
  /\ task' = [task EXCEPT !.pc = IF task.active = epoch THEN "store" ELSE "forget"]
  /\ UNCHANGED <<ready, detectionEpoch, frames, evidence>> /\ TaskStep

Store ==
  /\ At("store")
  /\ detectionEpoch' = task.active /\ evidence' = task.span
  /\ task' = [task EXCEPT !.pc = "forget"]
  /\ UNCHANGED <<ready, frames>> /\ TaskStep

Forget ==
  /\ At("forget")
  /\ task' = [task EXCEPT !.pc = "receive", !.score = EmptyScore]
  /\ UNCHANGED <<ready, detectionEpoch, frames, evidence>> /\ TaskStep

(* An inference that fails ends the task.                                  *)
Breaks ==
  /\ At("infer") /\ task.stride = Stride
  /\ ready' = FALSE /\ task' = [task EXCEPT !.pc = "stopped"]
  /\ UNCHANGED <<detectionEpoch, frames, evidence>> /\ TaskStep

Next ==
  \/ Reset \/ Feed \/ Poll
  \/ Loaded \/ Receive \/ TakeFrame \/ Infer \/ Compare \/ Store \/ Forget \/ Breaks

Spec == Init /\ [][Next]_detVars

-----------------------------------------------------------------------------
TypeOK ==
  /\ ready \in BOOLEAN /\ epoch \in 1 .. MaxResets + 1 /\ detectionEpoch \in 0 .. epoch
  /\ fed \in 0 .. MaxHalves /\ Len(pending) <= 1 /\ Len(frames) <= QueueCap
  /\ task.pc \in {"receive", "frame", "infer", "detected", "store", "forget", "stopped"}
  /\ task.stride \in 0 .. Stride /\ task.score.warmup \in 0 .. Warmup

(* What wakes the recorder was heard since the last reset (never the cue,  *)
(* the reply or the last recording), in one piece without a lost frame,    *)
(* and for longer than the warm-up, although a reset is no more than a     *)
(* counter that the inference task compares later.                         *)
HeardWhole ==
  \A h \in ToSet(heard) :
    /\ h.epoch = epoch /\ h.whole
    /\ h.to - h.from >= 2 * Stride * (Warmup + 1)

=============================================================================
