--------------------------- MODULE DeviceApp_proofs ---------------------------
(***************************************************************************)
(* Proofs about the recorder's application for rings and streams of any    *)
(* size and for both ways to use the button: whatever the main loop, the   *)
(* turn worker, the button and the gate's other users do, and in whatever  *)
(* order, the codec is handed over correctly, the gate is held, a turn has *)
(* one worker whose ids are saved, and an accepted recording is whole.     *)
(***************************************************************************)
EXTENDS DeviceApp, TLAPS

-----------------------------------------------------------------------------
(* The inductive invariant, in parts, of the memory a and the saved ids s. *)

(* The dialogue of a capture has the recorder for itself: no turn, no cue; *)
(* once its listening cue is over it hears.                                *)
CaptureInv(a) ==
  /\ a.capture # "none" => a.state = "IDLE" /\ ~a.task /\ a.cue = "none"
  /\ a.capture = "wait" => a.mic /\ ~a.spk
  /\ a.state \in {"RECORDING", "PLAYING"} => a.cue = "none"

CodecInv(a) ==
  /\ a.state = "RECORDING" => a.mic /\ ~a.spk
  /\ a.state = "PLAYING" => a.spk /\ ~a.mic

(* The gate is the application's from the start until all is quiet, and    *)
(* from the claim for a capture or a cue on.                               *)
GateInv(a) ==
  /\ a.owned <=> a.activity = "voice"
  /\ a.state \in {"BOOT", "RECORDING", "PROCESSING", "PLAYING"} => a.owned
  /\ a.task \/ a.capture # "none" \/ a.cue # "none" => a.owned

(* The worker lives while it has a result to give, and while it lives its  *)
(* turn is in flash, until it reports it as READY and the ids are cleared. *)
TurnInv(a, s) ==
  /\ a.task <=> a.pc # "off"
  /\ a.result = "WAITING" <=> a.pc \notin {"off", "exit"}
  /\ a.result = "WAITING" => s # "none"
  /\ a.state = "BOOT" => ~a.task
  /\ a.state = "BOOT" /\ a.req => s # "none"
  /\ a.state = "RECORDING" =>
       a.pc \in {"open", "upload", "exit", "off"} /\ ~a.upFinished /\ a.result # "READY"
  /\ a.state \in {"PROCESSING", "PLAYING"} /\ a.result = "READY" /\ ~a.storageFailed => s = "none"

(* A ring that overflowed is never emptied, so the end of the recording is *)
(* announced only when all of it is in the stream, or when it failed.      *)
UploadInv(a) ==
  /\ a.over => a.ring > 0
  /\ a.pc = "closing" => a.upFinished /\ a.up = 0
  /\ a.pc \in {"open", "upload", "closing"} /\ a.upFinished /\ ~a.upFailed => a.ring = 0 /\ ~a.over

Core(a, s) == CaptureInv(a) /\ GateInv(a) /\ TurnInv(a, s) /\ UploadInv(a)
Good(a, s) == a \in Memory /\ Core(a, s) /\ CodecInv(a)

IInv == Good(app, nvs) /\ finger \in BOOLEAN /\ nvs \in {"none", "req", "turn"}

(* The two action properties, of one step.                                 *)
Forgotten ==
  app.state = "PLAYING" /\ app'.state = "IDLE" /\ ~app'.cancel /\ app.result # "CANCELLED"
    => app.result = "READY" /\ app'.aud = 0 /\ nvs = "none"
ErrorKept == app.error /\ ~app'.error => app'.cue = "error" \/ app'.state = "BOOT"
Kept == Forgotten /\ ErrorKept

-----------------------------------------------------------------------------
(* The memory as a record: its fields, and the types of its fields.        *)
Fields ==
  {
    "loop", "state", "held", "ignoring", "ack", "mic", "spk", "listening",
    "capture", "hold", "routine", "error", "cue", "stages", "answering",
    "deferred", "activity", "owned", "confirmed", "task", "cancel",
    "started", "result", "upFailed", "upFinished", "released",
    "storageFailed", "fresh", "followUp", "pc", "turnId", "early",
    "downloaded", "req", "ring", "over", "up", "aud"}
Rec(a) == DOMAIN a = Fields /\ a = [x \in Fields |-> a[x]]
Typed(a) ==
  /\ a.loop \in {"feedback", "tick", "tail"} /\ a.state \in States
  /\ a.held \in BOOLEAN /\ a.ignoring \in BOOLEAN
  /\ a.ack \in {"no", "ready", "pressed"} /\ a.mic \in BOOLEAN
  /\ a.spk \in BOOLEAN /\ a.listening \in BOOLEAN
  /\ a.capture \in {"none", "cue", "wait"} /\ a.hold \in BOOLEAN
  /\ a.routine \in BOOLEAN /\ a.error \in BOOLEAN
  /\ a.cue \in {"none", "routine", "error"} /\ a.stages \in BOOLEAN
  /\ a.answering \in BOOLEAN /\ a.deferred \in BOOLEAN
  /\ a.activity \in {"idle", "voice", "ota", "storage"}
  /\ a.owned \in BOOLEAN /\ a.confirmed \in BOOLEAN /\ a.task \in BOOLEAN
  /\ a.cancel \in BOOLEAN /\ a.started \in BOOLEAN
  /\ a.result \in {"WAITING", "READY", "FAILED", "CANCELLED"}
  /\ a.upFailed \in BOOLEAN /\ a.upFinished \in BOOLEAN
  /\ a.released \in BOOLEAN /\ a.storageFailed \in BOOLEAN
  /\ a.fresh \in BOOLEAN /\ a.followUp \in BOOLEAN
  /\ a.pc \in {"off", "open", "upload", "closing", "client", "poll", "download", "exit"}
  /\ a.turnId \in BOOLEAN /\ a.early \in BOOLEAN /\ a.downloaded \in BOOLEAN
  /\ a.req \in BOOLEAN /\ a.ring \in 0 .. RingCap /\ a.over \in BOOLEAN
  /\ a.up \in 0 .. UploadCap /\ a.aud \in 0 .. AudioCap

LEMMA MemoryIs ==
  ASSUME NEW a
  PROVE  a \in Memory <=> Rec(a) /\ Typed(a)
<1>1. ASSUME a \in Memory PROVE Rec(a)
  BY <1>1 DEF Memory, Rec, Fields
<1>2. ASSUME a \in Memory PROVE Typed(a)
  BY <1>2 DEF Memory, Typed
<1>3. ASSUME Rec(a), Typed(a) PROVE a \in Memory
  BY <1>3 DEF Memory, Rec, Typed, Fields
<1>4. QED
  BY <1>1, <1>2, <1>3

-----------------------------------------------------------------------------
(* What the operators of the application keep.                             *)
SameAudio(a, b) == b.ring = a.ring /\ b.over = a.over /\ b.up = a.up /\ b.aud = a.aud
SameWorker(a, b) ==
  /\ b.task = a.task /\ b.pc = a.pc /\ b.result = a.result
  /\ b.storageFailed = a.storageFailed /\ b.req = a.req
SameTurn(a, b) ==
  /\ SameAudio(a, b) /\ SameWorker(a, b)
  /\ b.upFinished = a.upFinished /\ b.upFailed = a.upFailed /\ b.cancel = a.cancel
SameGate(a, b) == b.owned = a.owned /\ b.activity = a.activity
SameCodec(a, b) == b.mic = a.mic /\ b.spk = a.spk /\ b.capture = a.capture /\ b.cue = a.cue
Same(a, b) ==
  /\ SameTurn(a, b) /\ SameGate(a, b) /\ SameCodec(a, b)
  /\ b.state = a.state /\ b.error = a.error

(* A routine cue may have been cut, and another one requested.             *)
Quieter(a, b) ==
  /\ SameTurn(a, b) /\ SameGate(a, b) /\ b.capture = a.capture /\ b.mic = a.mic
  /\ a.error => b.error
  /\ b.cue \in {a.cue, "none"} /\ (b.spk => a.spk)

LEMMA LoopIs ==
  ASSUME NEW a \in Memory, NEW l \in {"feedback", "tick", "tail"}
  PROVE  /\ [a EXCEPT !.loop = l] \in Memory
         /\ Same(a, [a EXCEPT !.loop = l])
<1>1. Rec([a EXCEPT !.loop = l])
  BY MemoryIs, Zenon DEF Rec, Same
<1>2. Typed([a EXCEPT !.loop = l])
  BY MemoryIs DEF Typed, Rec, Fields, States, Same
<1>3. Same(a, [a EXCEPT !.loop = l])
  BY MemoryIs DEF Typed, Rec, Fields, Same, SameTurn, SameAudio, SameWorker, SameGate, SameCodec
<1>4. QED
  BY <1>1, <1>2, <1>3, MemoryIs

LEMMA PolledIs ==
  ASSUME NEW a \in Memory, finger \in BOOLEAN
  PROVE  /\ Polled(a) \in Memory
         /\ Same(a, Polled(a))
<1>1. Rec(Polled(a))
  BY MemoryIs, Zenon DEF Rec, Polled
<1>2. Typed(Polled(a))
  BY MemoryIs DEF Typed, Rec, Fields, States, Polled
<1>3. Same(a, Polled(a))
  BY MemoryIs DEF Typed, Rec, Fields, Polled, Same, SameTurn, SameAudio, SameWorker, SameGate,
       SameCodec
<1>4. QED
  BY <1>1, <1>2, <1>3, MemoryIs

LEMMA UnheldIs ==
  ASSUME NEW a \in Memory, finger \in BOOLEAN
  PROVE  /\ Unheld(a) \in Memory
         /\ Same(a, Unheld(a))
<1>1. Rec(Unheld(a))
  BY MemoryIs, Zenon DEF Rec, Unheld, Polled
<1>2. Typed(Unheld(a))
  BY MemoryIs DEF Typed, Rec, Fields, States, Unheld, Polled
<1>3. Same(a, Unheld(a))
  BY MemoryIs DEF Typed, Rec, Fields, Unheld, Polled, Same, SameTurn, SameAudio, SameWorker,
       SameGate, SameCodec
<1>4. QED
  BY <1>1, <1>2, <1>3, MemoryIs

LEMMA MicOnIs ==
  ASSUME NEW a \in Memory
  PROVE  /\ MicOn(a) \in Memory
         /\ SameTurn(a, MicOn(a)) /\ SameGate(a, MicOn(a))
         /\ MicOn(a).state = a.state /\ MicOn(a).error = a.error
         /\ MicOn(a).capture = a.capture /\ MicOn(a).cue = a.cue
         /\ MicOn(a).spk = a.spk /\ (~a.spk => MicOn(a).mic)
<1>1. Rec(MicOn(a))
  BY MemoryIs, Zenon DEF Rec, MicOn
<1>2. Typed(MicOn(a))
  <2>1. CASE a.spk
    BY <2>1, MemoryIs DEF Typed, Rec, Fields, States, MicOn
  <2>2. CASE ~a.spk
    BY <2>2, MemoryIs DEF Typed, Rec, Fields, States, MicOn
  <2>3. QED
    BY <2>1, <2>2
<1>3. /\ SameTurn(a, MicOn(a)) /\ SameGate(a, MicOn(a))
      /\ MicOn(a).state = a.state /\ MicOn(a).error = a.error
      /\ MicOn(a).capture = a.capture /\ MicOn(a).cue = a.cue
      /\ MicOn(a).spk = a.spk /\ (~a.spk => MicOn(a).mic)
  <2>1. CASE a.spk
    BY <2>1, MemoryIs DEF Typed, Rec, Fields, MicOn, SameTurn, SameAudio, SameWorker, SameGate
  <2>2. CASE ~a.spk
    BY <2>2, MemoryIs DEF Typed, Rec, Fields, MicOn, SameTurn, SameAudio, SameWorker, SameGate
  <2>3. QED
    BY <2>1, <2>2
<1>4. QED
  BY <1>1, <1>2, <1>3, MemoryIs

LEMMA CancelRoutineIs ==
  ASSUME NEW a \in Memory
  PROVE  /\ CancelRoutine(a) \in Memory
         /\ Quieter(a, CancelRoutine(a))
         /\ CancelRoutine(a).state = a.state
<1>1. Rec(CancelRoutine(a))
  BY MemoryIs, Zenon DEF Rec, CancelRoutine
<1>2. Typed(CancelRoutine(a))
  BY MemoryIs DEF Typed, Rec, Fields, States, CancelRoutine
<1>3. /\ Quieter(a, CancelRoutine(a))
      /\ CancelRoutine(a).state = a.state
  BY MemoryIs DEF Typed, Rec, Fields, CancelRoutine, Quieter, SameTurn, SameAudio, SameWorker,
       SameGate
<1>4. QED
  BY <1>1, <1>2, <1>3, MemoryIs

LEMMA ReleaseGateIs ==
  ASSUME NEW a \in Memory
  PROVE  /\ ReleaseGate(a) \in Memory
         /\ SameTurn(a, ReleaseGate(a)) /\ SameCodec(a, ReleaseGate(a))
         /\ ReleaseGate(a).state = a.state /\ ReleaseGate(a).error = a.error
         /\ \/ SameGate(a, ReleaseGate(a))
            \/ (~ReleaseGate(a).owned /\ ReleaseGate(a).activity = "idle")
<1>1. Rec(ReleaseGate(a))
  BY MemoryIs, Zenon DEF Rec, ReleaseGate
<1>2. Typed(ReleaseGate(a))
  <2>1. CASE a.owned /\ a.confirmed
    BY <2>1, MemoryIs DEF Typed, Rec, Fields, States, ReleaseGate
  <2>2. CASE ~(a.owned /\ a.confirmed)
    <3>1. ReleaseGate(a) = a
      BY <2>2 DEF ReleaseGate
    <3>2. QED
      BY <3>1, MemoryIs
  <2>3. QED
    BY <2>1, <2>2
<1>3. /\ SameTurn(a, ReleaseGate(a)) /\ SameCodec(a, ReleaseGate(a))
      /\ ReleaseGate(a).state = a.state /\ ReleaseGate(a).error = a.error
      /\ SameGate(a, ReleaseGate(a)) \/ (~ReleaseGate(a).owned /\ ReleaseGate(a).activity = "idle")
  <2>1. CASE a.owned /\ a.confirmed
    BY <2>1, MemoryIs DEF Typed, Rec, Fields, ReleaseGate, SameTurn, SameAudio, SameWorker,
         SameGate, SameCodec
  <2>2. CASE ~(a.owned /\ a.confirmed)
    BY <2>2, MemoryIs DEF Typed, Rec, Fields, ReleaseGate, SameTurn, SameAudio, SameWorker,
         SameGate, SameCodec
  <2>3. QED
    BY <2>1, <2>2
<1>4. QED
  BY <1>1, <1>2, <1>3, MemoryIs

Requests ==
  {"capture", "error", "followup", "processing", "answering", "ready", "done", "cancelled"}

LEMMA RequestIs ==
  ASSUME NEW a \in Memory, NEW event \in Requests
  PROVE  /\ Request(a, event) \in Memory
         /\ Quieter(a, Request(a, event))
         /\ Request(a, event).state = a.state
         /\ event = "error" => Request(a, event).error
<1> DEFINE silent == [a EXCEPT !.routine = FALSE, !.stages = FALSE, !.answering = FALSE]
           failed == [a EXCEPT !.error = TRUE, !.routine = FALSE, !.stages = FALSE,
                               !.answering = FALSE,
                               !.cue = IF @ = "routine" THEN "none" ELSE @,
                               !.spk = @ /\ a.cue # "routine"]
           waiting == [a EXCEPT !.routine = TRUE, !.stages = TRUE, !.answering = FALSE]
           starting == [a EXCEPT !.routine = TRUE, !.stages = FALSE, !.answering = TRUE]
           ended == [a EXCEPT !.routine = TRUE, !.stages = FALSE, !.answering = FALSE]
<1>1. /\ event \in {"capture", "followup"} => Request(a, event) = silent
      /\ event = "error" => Request(a, event) = failed
      /\ event = "processing" => Request(a, event) = waiting
      /\ event = "answering" => Request(a, event) \in {a, starting}
      /\ event \in {"ready", "done", "cancelled"} => Request(a, event) = ended
  BY DEF Request
<1>2. Rec(silent) /\ Rec(failed) /\ Rec(waiting) /\ Rec(starting) /\ Rec(ended)
  BY MemoryIs, Zenon DEF Rec
<1>3. Typed(silent)
  BY MemoryIs DEF Rec, Typed, Fields
<1>4. Typed(failed)
  BY MemoryIs DEF Rec, Typed, Fields
<1>5. Typed(waiting) /\ Typed(starting)
  BY MemoryIs DEF Rec, Typed, Fields
<1>6. Typed(ended)
  BY MemoryIs DEF Rec, Typed, Fields
<1>7. /\ Quieter(a, a)
      /\ Quieter(a, silent) /\ silent.state = a.state
      /\ Quieter(a, failed) /\ failed.state = a.state
      /\ Quieter(a, waiting) /\ waiting.state = a.state
      /\ Quieter(a, starting) /\ starting.state = a.state
      /\ Quieter(a, ended) /\ ended.state = a.state
  BY MemoryIs DEF Rec, Typed, Fields, Quieter, SameTurn, SameAudio, SameWorker, SameGate
<1>8. failed.error
  BY MemoryIs DEF Rec, Fields
<1> HIDE DEF silent, failed, waiting, starting, ended
<1>9. {silent, failed, waiting, starting, ended} \subseteq Memory
  BY <1>2, <1>3, <1>4, <1>5, <1>6, MemoryIs
<1>10. Request(a, event) \in {a, silent, failed, waiting, starting, ended}
  BY <1>1 DEF Requests
<1>11. QED
  BY <1>1, <1>7, <1>8, <1>9, <1>10

LEMMA WakeStopIs ==
  ASSUME NEW a \in Memory
  PROVE  /\ WakeStop(a) \in Memory
         /\ SameTurn(a, WakeStop(a)) /\ WakeStop(a).cue = a.cue /\ WakeStop(a).capture = "none"
         /\ WakeStop(a).state = a.state /\ WakeStop(a).error = a.error
         /\ \/ SameGate(a, WakeStop(a))
            \/ a.capture # "none" /\ ~WakeStop(a).owned /\ WakeStop(a).activity = "idle"
<1> DEFINE b == [a EXCEPT !.spk = @ /\ a.capture # "cue",
                          !.mic = @ /\ ~a.listening /\ a.capture = "none",
                          !.listening = FALSE, !.capture = "none"]
<1>1. WakeStop(a) = IF a.capture # "none" THEN ReleaseGate(b) ELSE b
  BY DEF WakeStop
<1>2. Rec(b)
  BY MemoryIs, Zenon DEF Rec
<1>3. Typed(b)
  BY MemoryIs DEF Rec, Typed, Fields
<1>4. /\ SameTurn(a, b) /\ SameGate(a, b)
      /\ b.capture = "none" /\ b.cue = a.cue /\ b.state = a.state /\ b.error = a.error
  BY MemoryIs DEF Rec, Fields, SameTurn, SameAudio, SameWorker, SameGate
<1> HIDE DEF b
<1>5. b \in Memory
  BY <1>2, <1>3, MemoryIs
<1>6. QED
  BY <1>1, <1>4, <1>5, ReleaseGateIs DEF SameTurn, SameAudio, SameWorker, SameGate, SameCodec

-----------------------------------------------------------------------------
(* The transitions of the state machine.                                   *)
LEMMA EnterErrorIs ==
  ASSUME NEW a \in Memory, a.state # "ERROR"
  PROVE  /\ EnterError(a) \in Memory
         /\ EnterError(a).state = "ERROR" /\ EnterError(a).error
         /\ EnterError(a).capture = "none" /\ EnterError(a).cue = "none"
         /\ SameAudio(a, EnterError(a)) /\ SameWorker(a, EnterError(a))
         /\ EnterError(a).upFailed = (a.upFailed \/ a.task)
         /\ EnterError(a).upFinished = (a.upFinished \/ a.task)
         /\ \/ SameGate(a, EnterError(a))
            \/ a.capture # "none" /\ ~EnterError(a).owned /\ EnterError(a).activity = "idle"
<1> DEFINE b == IF a.capture # "none" \/ a.listening THEN WakeStop(a) ELSE a
           c == [b EXCEPT !.state = "ERROR", !.mic = FALSE, !.spk = FALSE, !.cue = "none",
                          !.followUp = FALSE, !.ack = "no",
                          !.cancel = @ \/ a.task, !.upFailed = @ \/ a.task,
                          !.upFinished = @ \/ a.task]
<1>1. EnterError(a) = Request(c, "error")
  BY DEF EnterError, Legal
<1>2. /\ b \in Memory /\ SameTurn(a, b) /\ b.capture = "none" /\ a.task \in BOOLEAN
      /\ \/ SameGate(a, b)
         \/ a.capture # "none" /\ ~b.owned /\ b.activity = "idle"
  <2>1. a.task \in BOOLEAN
    BY MemoryIs DEF Typed
  <2>2. CASE a.capture # "none" \/ a.listening
    BY <2>1, <2>2, WakeStopIs
  <2>3. CASE ~(a.capture # "none" \/ a.listening)
    BY <2>1, <2>3 DEF SameTurn, SameAudio, SameWorker, SameGate
  <2>4. QED
    BY <2>2, <2>3
<1> HIDE DEF b
<1>3. Rec(c)
  BY <1>2, MemoryIs, Zenon DEF Rec
<1>4. Typed(c)
  BY <1>2, MemoryIs DEF Rec, Typed, Fields, States
<1>5. /\ c.state = "ERROR" /\ c.capture = "none" /\ c.cue = "none"
      /\ SameAudio(b, c) /\ SameWorker(b, c) /\ SameGate(b, c)
      /\ c.upFailed = (b.upFailed \/ a.task)
      /\ c.upFinished = (b.upFinished \/ a.task)
  BY <1>2, MemoryIs DEF Rec, Fields, SameAudio, SameWorker, SameGate
<1> HIDE DEF c
<1>6. /\ Request(c, "error") \in Memory /\ Quieter(c, Request(c, "error"))
      /\ Request(c, "error").state = c.state /\ Request(c, "error").error
  BY <1>3, <1>4, MemoryIs, RequestIs DEF Requests
<1>7. QED
  BY <1>1, <1>2, <1>5, <1>6 DEF Quieter, SameTurn, SameAudio, SameWorker, SameGate

LEMMA EnterIdleIs ==
  ASSUME NEW a \in Memory, NEW followup \in BOOLEAN
  PROVE  /\ EnterIdle(a, followup) \in Memory
         /\ Quieter(a, EnterIdle(a, followup))
         /\ a.state \in {"BOOT", "PLAYING", "ERROR"} => EnterIdle(a, followup).state = "IDLE"
         /\ a.state \notin {"BOOT", "PLAYING", "ERROR"} => EnterIdle(a, followup) = a
<1> DEFINE b == [a EXCEPT !.state = "IDLE", !.held = FALSE]
<1>1. Legal(a.state, "IDLE") <=> a.state \in {"BOOT", "PLAYING", "ERROR"}
  BY DEF Legal
<1>2. Rec(b)
  BY MemoryIs, Zenon DEF Rec
<1>3. Typed(b)
  BY MemoryIs DEF Rec, Typed, Fields, States
<1>4. Quieter(a, b) /\ b.state = "IDLE"
  BY MemoryIs DEF Rec, Fields, Quieter, SameTurn, SameAudio, SameWorker, SameGate
<1>5. Quieter(a, a)
  BY DEF Quieter, SameTurn, SameAudio, SameWorker, SameGate
<1> HIDE DEF b
<1>6. b \in Memory
  BY <1>2, <1>3, MemoryIs
<1>7. \A event \in Requests : Request(b, event) \in Memory /\ Quieter(a, Request(b, event))
                              /\ Request(b, event).state = "IDLE"
  BY <1>4, <1>6, RequestIs DEF Quieter, SameTurn, SameAudio, SameWorker, SameGate
<1>8. CASE Legal(a.state, "IDLE")
  <2>1. PICK event \in Requests : EnterIdle(a, followup) = Request(b, event)
    BY <1>8 DEF EnterIdle, Requests, b
  <2>2. QED
    BY <1>1, <1>7, <1>8, <2>1
<1>9. CASE ~Legal(a.state, "IDLE")
  BY <1>1, <1>5, <1>9 DEF EnterIdle
<1>10. QED
  BY <1>8, <1>9

LEMMA EnterProcessingIs ==
  ASSUME NEW a \in Memory, a.state \in {"BOOT", "RECORDING"}
  PROVE  /\ EnterProcessing(a) \in Memory
         /\ Quieter(a, EnterProcessing(a)) /\ EnterProcessing(a).state = "PROCESSING"
<1> DEFINE b == [a EXCEPT !.state = "PROCESSING"]
<1>1. EnterProcessing(a) = Request(b, "processing")
  BY DEF EnterProcessing, Legal
<1>2. Rec(b)
  BY MemoryIs, Zenon DEF Rec
<1>3. Typed(b)
  BY MemoryIs DEF Rec, Typed, Fields, States
<1>4. Quieter(a, b) /\ b.state = "PROCESSING"
  BY MemoryIs DEF Rec, Fields, Quieter, SameTurn, SameAudio, SameWorker, SameGate
<1> HIDE DEF b
<1>5. b \in Memory
  BY <1>2, <1>3, MemoryIs
<1>6. QED
  BY <1>1, <1>4, <1>5, RequestIs DEF Requests, Quieter, SameTurn, SameAudio, SameWorker, SameGate

LEMMA StartWorkerIs ==
  ASSUME NEW a \in Memory, NEW upload \in BOOLEAN
  PROVE  /\ StartWorker(a, upload) \in Memory
         /\ SameGate(a, StartWorker(a, upload)) /\ SameCodec(a, StartWorker(a, upload))
         /\ StartWorker(a, upload).state = a.state /\ StartWorker(a, upload).error = a.error
         /\ StartWorker(a, upload).ring = a.ring /\ StartWorker(a, upload).over = a.over
         /\ StartWorker(a, upload).up = 0 /\ StartWorker(a, upload).upFinished = ~upload
         /\ StartWorker(a, upload).task /\ StartWorker(a, upload).result = "WAITING"
         /\ StartWorker(a, upload).pc = IF upload THEN "open" ELSE "client"
<1>1. Rec(StartWorker(a, upload))
  BY MemoryIs, CapAssumption, Zenon DEF Rec, StartWorker
<1>2. Typed(StartWorker(a, upload))
  BY MemoryIs, CapAssumption DEF Typed, Rec, Fields, States, StartWorker
<1>3. /\ SameGate(a, StartWorker(a, upload)) /\ SameCodec(a, StartWorker(a, upload))
      /\ StartWorker(a, upload).state = a.state /\ StartWorker(a, upload).error = a.error
      /\ StartWorker(a, upload).ring = a.ring /\ StartWorker(a, upload).over = a.over
      /\ StartWorker(a, upload).up = 0 /\ StartWorker(a, upload).upFinished = ~upload
      /\ StartWorker(a, upload).task /\ StartWorker(a, upload).result = "WAITING"
      /\ StartWorker(a, upload).pc = IF upload THEN "open" ELSE "client"
  BY MemoryIs, CapAssumption DEF Typed, Rec, Fields, StartWorker, SameGate, SameCodec
<1>4. QED
  BY <1>1, <1>2, <1>3, MemoryIs

LEMMA CaptureBeginIs ==
  ASSUME NEW a \in Memory, NEW manual \in BOOLEAN, a.cue = "none"
  PROVE  /\ CaptureBegin(a, manual) \in Memory
         /\ SameTurn(a, CaptureBegin(a, manual)) /\ CaptureBegin(a, manual).state = a.state
         /\ a.error => CaptureBegin(a, manual).error
         /\ CaptureBegin(a, manual).capture = "cue" /\ CaptureBegin(a, manual).cue = "none"
         /\ CaptureBegin(a, manual).owned /\ CaptureBegin(a, manual).activity = "voice"
<1> DEFINE b == Claim(a)
           c == Request(CancelRoutine(b), "capture")
           d == [c EXCEPT !.listening = FALSE, !.mic = FALSE, !.capture = "cue",
                          !.hold = manual /\ HoldMode]
<1>1. CaptureBegin(a, manual) = SpeakerOn(d)
  BY DEF CaptureBegin
<1>2. Rec(b)
  BY MemoryIs, Zenon DEF Rec, Claim
<1>3. Typed(b)
  BY MemoryIs DEF Rec, Typed, Fields, Claim
<1>4. /\ SameTurn(a, b) /\ SameCodec(a, b) /\ b.owned /\ b.activity = "voice"
      /\ b.state = a.state /\ b.error = a.error
  BY MemoryIs DEF Rec, Fields, Claim, SameTurn, SameAudio, SameWorker, SameCodec
<1> HIDE DEF b
<1>5. b \in Memory
  BY <1>2, <1>3, MemoryIs
<1>6. /\ c \in Memory /\ Quieter(b, c) /\ c.state = b.state
  BY <1>5, CancelRoutineIs, RequestIs DEF Requests, Quieter, SameTurn, SameAudio, SameWorker,
       SameGate
<1> HIDE DEF c
<1>7. Rec(SpeakerOn(d))
  BY <1>6, MemoryIs, Zenon DEF Rec, SpeakerOn
<1>8. Typed(d)
  BY <1>6, MemoryIs, HoldAssumption DEF Rec, Typed, Fields
<1>9. Typed(SpeakerOn(d))
  BY <1>6, <1>8, MemoryIs DEF Rec, Typed, Fields, SpeakerOn
<1>10. /\ SameTurn(c, SpeakerOn(d)) /\ SameGate(c, SpeakerOn(d))
       /\ SpeakerOn(d).state = c.state /\ SpeakerOn(d).error = c.error
       /\ SpeakerOn(d).capture = "cue" /\ SpeakerOn(d).cue = c.cue
  BY <1>6, MemoryIs DEF Rec, Fields, SpeakerOn, SameTurn, SameAudio, SameWorker, SameGate
<1> HIDE DEF d
<1>11. SpeakerOn(d) \in Memory
  BY <1>7, <1>9, MemoryIs
<1>12. c.cue = "none" /\ c.error \in BOOLEAN /\ b.error \in BOOLEAN
  BY <1>4, <1>5, <1>6, MemoryIs DEF Quieter, SameCodec, Typed
<1>13. QED
  BY <1>1, <1>4, <1>6, <1>10, <1>11, <1>12 DEF Quieter, SameTurn, SameAudio, SameWorker, SameGate

LEMMA RecordingBeginIs ==
  ASSUME NEW a \in Memory, a.state = "IDLE"
  PROVE  /\ RecordingBegin(a) \in Memory
         /\ SameGate(a, RecordingBegin(a))
         /\ RecordingBegin(a).state = "RECORDING" /\ RecordingBegin(a).error = a.error
         /\ RecordingBegin(a).capture = "none" /\ RecordingBegin(a).cue = a.cue
         /\ RecordingBegin(a).spk = a.spk /\ (~a.spk => RecordingBegin(a).mic)
         /\ RecordingBegin(a).task /\ RecordingBegin(a).pc = "open"
         /\ RecordingBegin(a).result = "WAITING" /\ ~RecordingBegin(a).upFinished
         /\ RecordingBegin(a).ring = 1 /\ ~RecordingBegin(a).over /\ RecordingBegin(a).up = 0
<1> DEFINE b == [a EXCEPT !.req = TRUE, !.ring = 0, !.over = FALSE]
           c == MicOn(StartWorker(b, TRUE))
           d == [c EXCEPT !.capture = "none", !.ring = 1]
           e == [d EXCEPT !.state = "RECORDING"]
<1>1. Rec(b)
  BY MemoryIs, Zenon DEF Rec
<1>2. Typed(b)
  BY MemoryIs, CapAssumption DEF Rec, Typed, Fields
<1>3. /\ SameGate(a, b) /\ SameCodec(a, b) /\ b.state = a.state /\ b.error = a.error
      /\ ~b.over
  BY MemoryIs DEF Rec, Fields, SameGate, SameCodec
<1> HIDE DEF b
<1>4. b \in Memory
  BY <1>1, <1>2, MemoryIs
<1>5. /\ c \in Memory /\ SameGate(a, c) /\ c.state = "IDLE" /\ c.error = a.error
      /\ c.spk = a.spk /\ (~a.spk => c.mic) /\ c.cue = a.cue
      /\ c.task /\ c.pc = "open" /\ c.result = "WAITING" /\ ~c.upFinished /\ ~c.over /\ c.up = 0
  <2> DEFINE w == StartWorker(b, TRUE)
  <2>1. /\ w \in Memory /\ SameGate(b, w) /\ SameCodec(b, w)
        /\ w.state = b.state /\ w.error = b.error /\ w.over = b.over /\ w.up = 0 /\ ~w.upFinished
        /\ w.task /\ w.result = "WAITING" /\ w.pc = "open"
    BY <1>4, StartWorkerIs
  <2> HIDE DEF w
  <2>2. /\ MicOn(w) \in Memory /\ SameTurn(w, MicOn(w)) /\ SameGate(w, MicOn(w))
        /\ MicOn(w).state = w.state /\ MicOn(w).error = w.error
        /\ MicOn(w).cue = w.cue /\ MicOn(w).spk = w.spk /\ (~w.spk => MicOn(w).mic)
    BY <2>1, MicOnIs
  <2>3. c = MicOn(w)
    BY DEF w
  <2>4. QED
    BY <1>3, <2>1, <2>2, <2>3, ZenonT(60) DEF SameTurn, SameAudio, SameWorker, SameGate, SameCodec
<1>6. RecordingBegin(a) = Enter(d, "RECORDING")
  BY DEF RecordingBegin, b
<1> HIDE DEF c
<1>7. Rec(d)
  BY <1>5, MemoryIs, Zenon DEF Rec
<1>8. Typed(d)
  BY <1>5, MemoryIs, CapAssumption, SMTT(30) DEF Rec, Typed, Fields
<1>9. /\ SameGate(c, d) /\ d.state = c.state /\ d.error = c.error
      /\ d.spk = c.spk /\ d.mic = c.mic /\ d.cue = c.cue /\ d.capture = "none"
      /\ d.task = c.task /\ d.pc = c.pc /\ d.result = c.result /\ d.upFinished = c.upFinished
      /\ d.ring = 1 /\ d.over = c.over /\ d.up = c.up
  BY <1>5, MemoryIs, ZenonT(60) DEF Rec, Fields, SameGate
<1> HIDE DEF d
<1>10. d \in Memory
  BY <1>7, <1>8, MemoryIs
<1>11. Rec(e)
  BY <1>10, MemoryIs, Zenon DEF Rec
<1>12. Typed(e)
  BY <1>10, MemoryIs DEF Rec, Typed, Fields, States
<1>13. Enter(d, "RECORDING") = e
  BY <1>5, <1>9 DEF Enter, Legal
<1>14. /\ SameGate(d, e) /\ e.state = "RECORDING" /\ e.error = d.error
       /\ e.spk = d.spk /\ e.mic = d.mic /\ e.cue = d.cue /\ e.capture = d.capture
       /\ e.task = d.task /\ e.pc = d.pc /\ e.result = d.result /\ e.upFinished = d.upFinished
       /\ e.ring = d.ring /\ e.over = d.over /\ e.up = d.up
  BY <1>10, MemoryIs DEF Rec, Fields, SameGate
<1> HIDE DEF e
<1>15. e \in Memory
  BY <1>11, <1>12, MemoryIs
<1>16. RecordingBegin(a) = e
  BY <1>6, <1>13
<1>17. SameGate(a, e)
  BY <1>5, <1>9, <1>14 DEF SameGate
<1>18. QED
  BY <1>5, <1>9, <1>14, <1>15, <1>16, <1>17

-----------------------------------------------------------------------------
(* What leaves the invariant alone, and how the error state restores it.   *)
LEMMA GoodSame ==
  ASSUME NEW a, NEW b \in Memory, NEW s, Good(a, s), Same(a, b)
  PROVE  Good(b, s)
<1>1. CaptureInv(b) /\ CodecInv(b) /\ GateInv(b)
  BY DEF Good, Core, CaptureInv, CodecInv, GateInv, Same, SameTurn, SameWorker, SameGate, SameCodec
<1>2. TurnInv(b, s)
  BY DEF Good, Core, TurnInv, Same, SameTurn, SameWorker
<1>3. UploadInv(b)
  BY DEF Good, Core, UploadInv, Same, SameTurn, SameWorker, SameAudio
<1>4. QED
  BY <1>1, <1>2, <1>3 DEF Good, Core

LEMMA GoodQuieter ==
  ASSUME NEW a, NEW b \in Memory, NEW s, Good(a, s), Quieter(a, b), b.state = a.state,
         a.state \notin {"RECORDING", "PLAYING"}
  PROVE  Good(b, s)
<1>1. CaptureInv(b) /\ CodecInv(b)
  BY DEF Good, Core, CaptureInv, CodecInv, Quieter, SameTurn, SameWorker
<1>2. GateInv(b)
  BY DEF Good, Core, GateInv, Quieter, SameTurn, SameWorker, SameGate
<1>3. TurnInv(b, s)
  BY DEF Good, Core, TurnInv, Quieter, SameTurn, SameWorker
<1>4. UploadInv(b)
  BY DEF Good, Core, UploadInv, Quieter, SameTurn, SameWorker, SameAudio
<1>5. QED
  BY <1>1, <1>2, <1>3, <1>4 DEF Good, Core

(* What the invariant needs of a memory in which an error is entered.      *)
Failing(a, s) ==
  /\ a.state # "ERROR" /\ GateInv(a)
  /\ a.capture # "none" => ~a.task
  /\ a.task <=> a.pc # "off"
  /\ a.result = "WAITING" <=> a.pc \notin {"off", "exit"}
  /\ a.result = "WAITING" => s # "none"
  /\ a.over => a.ring > 0
  /\ a.pc = "closing" => a.up = 0

LEMMA GoodFails ==
  ASSUME NEW a, NEW s, Good(a, s), a.state # "ERROR"
  PROVE  Failing(a, s)
BY DEF Good, Core, CaptureInv, TurnInv, UploadInv, Failing

LEMMA ErrorIsGood ==
  ASSUME NEW a \in Memory, NEW s, Failing(a, s)
  PROVE  Good(EnterError(a), s) /\ EnterError(a).state = "ERROR" /\ EnterError(a).error
<1> DEFINE b == EnterError(a)
<1>1. /\ b \in Memory /\ b.state = "ERROR" /\ b.error
      /\ b.capture = "none" /\ b.cue = "none"
      /\ SameAudio(a, b) /\ SameWorker(a, b)
      /\ b.upFailed = (a.upFailed \/ a.task)
      /\ b.upFinished = (a.upFinished \/ a.task)
      /\ \/ SameGate(a, b)
         \/ a.capture # "none" /\ ~b.owned /\ b.activity = "idle"
  BY EnterErrorIs DEF Failing
<1> HIDE DEF b
<1>2. CaptureInv(b) /\ CodecInv(b)
  BY <1>1 DEF CaptureInv, CodecInv
<1>3. GateInv(b)
  BY <1>1 DEF Failing, GateInv, SameWorker, SameGate
<1>4. TurnInv(b, s)
  BY <1>1 DEF Failing, TurnInv, SameWorker
<1>5. UploadInv(b)
  BY <1>1 DEF Failing, UploadInv, SameAudio, SameWorker
<1>6. QED
  BY <1>1, <1>2, <1>3, <1>4, <1>5 DEF Good, Core, b

LEMMA WakeStopIsGood ==
  ASSUME NEW a, NEW s, Good(a, s), a.state \notin {"RECORDING", "PLAYING"}
  PROVE  /\ Good(WakeStop(a), s) /\ WakeStop(a).state = a.state /\ WakeStop(a).error = a.error
         /\ WakeStop(a).capture = "none" /\ WakeStop(a).cue = a.cue
<1> DEFINE b == WakeStop(a)
<1>1. /\ b \in Memory /\ SameTurn(a, b) /\ b.cue = a.cue /\ b.capture = "none"
      /\ b.state = a.state /\ b.error = a.error
      /\ \/ SameGate(a, b)
         \/ a.capture # "none" /\ ~b.owned /\ b.activity = "idle"
  BY WakeStopIs DEF Good
<1> HIDE DEF b
<1>2. CaptureInv(b) /\ CodecInv(b)
  BY <1>1 DEF CaptureInv, CodecInv
<1>3. GateInv(b)
  BY <1>1 DEF Good, Core, CaptureInv, GateInv, SameTurn, SameWorker, SameGate
<1>4. TurnInv(b, s)
  BY <1>1 DEF Good, Core, TurnInv, SameTurn, SameWorker
<1>5. UploadInv(b)
  BY <1>1 DEF Good, Core, UploadInv, SameTurn, SameAudio, SameWorker
<1>6. QED
  BY <1>1, <1>2, <1>3, <1>4, <1>5 DEF Good, Core, b

LEMMA CaptureIsGood ==
  ASSUME NEW a, NEW s, Good(a, s), NEW manual \in BOOLEAN,
         a.state = "IDLE", ~a.task, a.cue = "none"
  PROVE  /\ Good(CaptureBegin(a, manual), s) /\ CaptureBegin(a, manual).state = "IDLE"
         /\ a.error => CaptureBegin(a, manual).error
<1> DEFINE b == CaptureBegin(a, manual)
<1>1. /\ b \in Memory /\ SameTurn(a, b) /\ b.state = a.state
      /\ a.error => b.error
      /\ b.capture = "cue" /\ b.cue = "none" /\ b.owned /\ b.activity = "voice"
  BY CaptureBeginIs DEF Good
<1> HIDE DEF b
<1>2. CaptureInv(b) /\ CodecInv(b) /\ GateInv(b)
  BY <1>1 DEF CaptureInv, CodecInv, GateInv, SameTurn, SameWorker
<1>3. TurnInv(b, s)
  BY <1>1 DEF Good, Core, TurnInv, SameTurn, SameWorker
<1>4. UploadInv(b)
  BY <1>1 DEF Good, Core, UploadInv, SameTurn, SameAudio, SameWorker
<1>5. QED
  BY <1>1, <1>2, <1>3, <1>4 DEF Good, Core, b

(* The state machine's other ways into IDLE and PROCESSING.                *)
LEMMA IdleIsGood ==
  ASSUME NEW a, NEW s, Core(a, s), a \in Memory, NEW followup \in BOOLEAN,
         a.state \in {"BOOT", "PLAYING", "ERROR"}
  PROVE  /\ Good(EnterIdle(a, followup), s) /\ EnterIdle(a, followup).state = "IDLE"
         /\ Quieter(a, EnterIdle(a, followup))
<1> DEFINE b == EnterIdle(a, followup)
<1>1. b \in Memory /\ Quieter(a, b) /\ b.state = "IDLE"
  BY EnterIdleIs
<1> HIDE DEF b
<1>2. CaptureInv(b) /\ CodecInv(b)
  BY <1>1 DEF Core, CaptureInv, CodecInv, Quieter
<1>3. GateInv(b)
  BY <1>1 DEF Core, GateInv, Quieter, SameTurn, SameWorker, SameGate
<1>4. TurnInv(b, s)
  BY <1>1 DEF Core, TurnInv, Quieter, SameTurn, SameWorker
<1>5. UploadInv(b)
  BY <1>1 DEF Core, UploadInv, Quieter, SameTurn, SameAudio, SameWorker
<1>6. QED
  BY <1>1, <1>2, <1>3, <1>4, <1>5 DEF Good, Core, b

-----------------------------------------------------------------------------
(* One step of the tick that leaves the memory a.                          *)
Goes(a) ==
  /\ Good(a, nvs) /\ (app.error => a.error)
  /\ app.state = "PLAYING" /\ a.state = "IDLE" /\ ~a.cancel /\ app.result # "CANCELLED"
       => app.result = "READY" /\ a.aud = 0 /\ nvs = "none"

LEMMA TickedKeeps ==
  ASSUME IInv, NEW a, Goes(a), Ticked(a)
  PROVE  IInv' /\ Kept
<1> DEFINE b == [a EXCEPT !.loop = "tail"]
<1>1. b \in Memory /\ Same(a, b)
  BY LoopIs DEF Goes, Good
<1>2. app' = b /\ finger' = finger /\ nvs' = nvs
  BY DEF Ticked
<1> HIDE DEF b
<1>3. Good(b, nvs)
  BY <1>1, GoodSame DEF Goes
<1>4. Kept
  BY <1>1, <1>2 DEF Goes, Kept, Forgotten, ErrorKept, Same, SameTurn, SameAudio
<1>5. Good(app, nvs)'
  BY <1>2, <1>3
<1>6. QED
  BY <1>2, <1>4, <1>5 DEF IInv

(* In states other than PLAYING a good memory that forgets no error does.  *)
LEMMA GoesUnlessPlaying ==
  ASSUME NEW a, Good(a, nvs), app.error => a.error, app.state # "PLAYING"
  PROVE  Goes(a)
BY DEF Goes

LEMMA QuieterGoes ==
  ASSUME NEW a \in Memory, NEW b \in Memory, Goes(a), app.state \notin {"RECORDING", "PLAYING"},
         a.state = app.state, Quieter(a, b), b.state = a.state
  PROVE  Goes(b)
<1>1. Good(b, nvs)
  BY GoodQuieter DEF Goes
<1>2. QED
  BY <1>1, GoesUnlessPlaying DEF Goes, Quieter

LEMMA SameGoes ==
  ASSUME NEW a, NEW b \in Memory, Goes(a), Same(a, b)
  PROVE  Goes(b)
BY GoodSame DEF Goes, Same, SameTurn, SameAudio

-----------------------------------------------------------------------------
(* The head of app_tick.                                                   *)
LEMMA StageIs ==
  ASSUME NEW a \in Memory, NEW advanced \in BOOLEAN
  PROVE  /\ Stage(a, advanced) \in Memory /\ Quieter(a, Stage(a, advanced))
         /\ Stage(a, advanced).state = a.state
         /\ a.state # "PROCESSING" => Stage(a, advanced) = a
<1> DEFINE b == [a EXCEPT !.routine = @ \/ (advanced /\ a.stages)]
<1>1. Rec(b)
  BY MemoryIs, Zenon DEF Rec
<1>2. Typed(b)
  BY MemoryIs DEF Rec, Typed, Fields
<1>3. Quieter(a, b) /\ Quieter(a, a) /\ b.state = a.state
  BY MemoryIs DEF Rec, Fields, Quieter, SameTurn, SameAudio, SameWorker, SameGate
<1>4. /\ Stage(a, advanced) \in {a, b, Request(a, "answering")}
      /\ a.state # "PROCESSING" => Stage(a, advanced) = a
  BY DEF Stage
<1> HIDE DEF b
<1>5. b \in Memory
  BY <1>1, <1>2, MemoryIs
<1>6. /\ Request(a, "answering") \in Memory /\ Quieter(a, Request(a, "answering"))
      /\ Request(a, "answering").state = a.state
  BY RequestIs DEF Requests
<1>7. QED
  BY <1>3, <1>4, <1>5, <1>6

LEMMA FeedbackTickIs ==
  ASSUME NEW a \in Memory, NEW ends \in BOOLEAN
  PROVE  /\ FeedbackTick(a, ends) \in Memory /\ Quieter(a, FeedbackTick(a, ends))
         /\ FeedbackTick(a, ends).state = a.state
<1> DEFINE b == [a EXCEPT !.spk = FALSE]
           c == [b EXCEPT !.cue = "none"]
<1>1. Rec(b)
  BY MemoryIs, Zenon DEF Rec
<1>2. Typed(b)
  BY MemoryIs DEF Rec, Typed, Fields
<1>3. Quieter(a, b) /\ Quieter(a, a) /\ b.state = a.state
  BY MemoryIs DEF Rec, Fields, Quieter, SameTurn, SameAudio, SameWorker, SameGate
<1>4. FeedbackTick(a, ends) \in {a, c}
  BY DEF FeedbackTick, SpeakerOff
<1> HIDE DEF b
<1>5. b \in Memory
  BY <1>1, <1>2, MemoryIs
<1>6. Rec(c)
  BY <1>5, MemoryIs, Zenon DEF Rec
<1>7. Typed(c)
  BY <1>5, MemoryIs DEF Rec, Typed, Fields
<1>8. Quieter(b, c) /\ c.state = b.state
  BY <1>5, MemoryIs DEF Rec, Fields, Quieter, SameTurn, SameAudio, SameWorker, SameGate
<1> HIDE DEF c
<1>9. c \in Memory
  BY <1>6, <1>7, MemoryIs
<1>10. Quieter(a, c)
  BY <1>3, <1>8 DEF Quieter, SameTurn, SameAudio, SameWorker, SameGate
<1>11. QED
  BY <1>3, <1>4, <1>8, <1>9, <1>10

LEMMA FeedbackStartIs ==
  ASSUME NEW a \in Memory
  PROVE  /\ FeedbackStart(a) \in Memory /\ SameTurn(a, FeedbackStart(a))
         /\ FeedbackStart(a).state = a.state /\ FeedbackStart(a).capture = a.capture
         /\ FeedbackStart(a).owned /\ FeedbackStart(a).activity = "voice"
         /\ a.error => FeedbackStart(a).cue = "error"
<1> DEFINE told == [Claim(a) EXCEPT !.cue = "error", !.error = FALSE]
           said == [Claim(a) EXCEPT !.cue = "routine", !.routine = FALSE]
<1>1. FeedbackStart(a) = IF a.error THEN SpeakerOn(told) ELSE SpeakerOn(said)
  BY DEF FeedbackStart
<1>2. Rec(SpeakerOn(told)) /\ Rec(SpeakerOn(said))
  BY MemoryIs, Zenon DEF Rec, Claim, SpeakerOn
<1>3. Typed(SpeakerOn(told))
  BY MemoryIs DEF Rec, Typed, Fields, Claim, SpeakerOn
<1>4. Typed(SpeakerOn(said))
  BY MemoryIs DEF Rec, Typed, Fields, Claim, SpeakerOn
<1>5. /\ SameTurn(a, SpeakerOn(told)) /\ SpeakerOn(told).state = a.state
      /\ SpeakerOn(told).capture = a.capture /\ SpeakerOn(told).cue = "error"
      /\ SpeakerOn(told).owned /\ SpeakerOn(told).activity = "voice"
  BY MemoryIs DEF Rec, Fields, Claim, SpeakerOn, SameTurn, SameAudio, SameWorker
<1>6. /\ SameTurn(a, SpeakerOn(said)) /\ SpeakerOn(said).state = a.state
      /\ SpeakerOn(said).capture = a.capture
      /\ SpeakerOn(said).owned /\ SpeakerOn(said).activity = "voice"
  BY MemoryIs DEF Rec, Fields, Claim, SpeakerOn, SameTurn, SameAudio, SameWorker
<1> HIDE DEF told, said
<1>7. SpeakerOn(told) \in Memory /\ SpeakerOn(said) \in Memory
  BY <1>2, <1>3, <1>4, MemoryIs
<1>8. QED
  BY <1>1, <1>5, <1>6, <1>7

LEMMA ServiceIs ==
  ASSUME NEW a, NEW s, Good(a, s), NEW ends \in BOOLEAN
  PROVE  /\ Good(FeedbackService(a, ends), s)
         /\ FeedbackService(a, ends).state = a.state
         /\ a.error /\ ~FeedbackService(a, ends).error => FeedbackService(a, ends).cue = "error"
<1>1. CASE a.capture # "none" \/ a.state \in {"RECORDING", "PLAYING"}
  BY <1>1 DEF FeedbackService
<1>2. CASE ~(a.capture # "none" \/ a.state \in {"RECORDING", "PLAYING"})
  <2> DEFINE w == IF FeedbackPending(a) /\ a.listening THEN WakeStop(a) ELSE a
             b == FeedbackTick(w, ends)
  <2>1. /\ Good(w, s) /\ w.state = a.state /\ w.error = a.error /\ w.capture = "none"
    BY <1>2, WakeStopIsGood
  <2>2. /\ Good(b, s) /\ b.state = a.state /\ (a.error => b.error) /\ b.capture = "none"
    <3> HIDE DEF w
    <3>1. b \in Memory /\ Quieter(w, b) /\ b.state = w.state
      BY <2>1, FeedbackTickIs DEF Good
    <3>2. QED
      BY <1>2, <2>1, <3>1, GoodQuieter DEF Quieter
  <2>3. FeedbackService(a, ends) \in {b, FeedbackStart(b)}
    BY <1>2 DEF FeedbackService
  <2> HIDE DEF b
  <2> DEFINE c == FeedbackStart(b)
  <2>4. /\ c \in Memory /\ SameTurn(b, c) /\ c.state = b.state /\ c.capture = b.capture
        /\ c.owned /\ c.activity = "voice" /\ (b.error => c.cue = "error")
    BY <2>2, FeedbackStartIs DEF Good
  <2> HIDE DEF c
  <2>5. CaptureInv(c) /\ CodecInv(c) /\ GateInv(c)
    BY <1>2, <2>2, <2>4 DEF CaptureInv, CodecInv, GateInv
  <2>6. TurnInv(c, s)
    BY <2>2, <2>4 DEF Good, Core, TurnInv, SameTurn, SameWorker
  <2>7. UploadInv(c)
    BY <2>2, <2>4 DEF Good, Core, UploadInv, SameTurn, SameAudio, SameWorker
  <2>8. Good(c, s)
    BY <2>4, <2>5, <2>6, <2>7 DEF Good, Core
  <2>9. QED
    BY <2>2, <2>3, <2>4, <2>8 DEF c
<1>3. QED
  BY <1>1, <1>2

LEMMA FeedbackKeeps ==
  ASSUME IInv, Feedback
  PROVE  IInv' /\ Kept
<1>1. PICK advanced \in BOOLEAN, ends \in BOOLEAN : FeedbackStep(advanced, ends)
  BY DEF Feedback
<1> DEFINE a == Stage(app, advanced)
           b == FeedbackService(a, ends)
           c == [b EXCEPT !.loop = "tick"]
<1>2. app' = c /\ finger' = finger /\ nvs' = nvs
  BY <1>1 DEF FeedbackStep
<1>3. Good(a, nvs) /\ a.state = app.state /\ (app.error => a.error)
  <2>1. /\ a \in Memory /\ Quieter(app, a) /\ a.state = app.state
        /\ app.state # "PROCESSING" => a = app
    BY StageIs DEF IInv, Good
  <2> HIDE DEF a
  <2>2. QED
    BY <2>1, GoodQuieter DEF IInv, Quieter
<1> HIDE DEF a
<1>4. Good(b, nvs) /\ b.state = app.state /\ (app.error /\ ~b.error => b.cue = "error")
  BY <1>3, ServiceIs
<1> HIDE DEF b
<1>5. c \in Memory /\ Same(b, c)
  BY <1>4, LoopIs DEF Good
<1> HIDE DEF c
<1>6. Good(c, nvs)
  BY <1>4, <1>5, GoodSame
<1>7. Good(app, nvs)'
  BY <1>2, <1>6
<1>8. Kept
  BY <1>2, <1>4, <1>5 DEF Kept, Forgotten, ErrorKept, Same, SameCodec
<1>9. QED
  BY <1>2, <1>7, <1>8 DEF IInv

-----------------------------------------------------------------------------
(* The tick in BOOT and in IDLE.                                           *)
LEMMA AppGoes ==
  ASSUME IInv
  PROVE  /\ app \in Memory /\ Good(app, nvs) /\ finger \in BOOLEAN
         /\ app.state # "PLAYING" => Goes(app)
BY DEF IInv, Good, Goes

LEMMA ErrorGoes ==
  ASSUME NEW a \in Memory, Failing(a, nvs)
  PROVE  Goes(EnterError(a))
<1> HIDE DEF Failing
<1>1. Good(EnterError(a), nvs) /\ EnterError(a).state = "ERROR" /\ EnterError(a).error
  BY ErrorIsGood
<1>2. QED
  BY <1>1 DEF Goes

LEMMA TickBootKeeps ==
  ASSUME IInv, TickBoot
  PROVE  IInv' /\ Kept
<1>1. app.state = "BOOT"
  BY DEF TickBoot, At
<1>2. Goes(app)
  BY <1>1, AppGoes
<1>3. Goes(EnterIdle(app, FALSE))
  <2>1. /\ Good(EnterIdle(app, FALSE), nvs)
        /\ Quieter(app, EnterIdle(app, FALSE))
    BY <1>1, AppGoes, IdleIsGood DEF Good
  <2>2. QED
    BY <1>1, <2>1 DEF Goes, Quieter
<1>4. ASSUME app.req PROVE Goes(EnterProcessing(StartWorker(app, FALSE)))
  <2> DEFINE a == StartWorker(app, FALSE)
             b == EnterProcessing(a)
  <2>1. /\ a \in Memory /\ SameGate(app, a) /\ SameCodec(app, a)
        /\ a.state = "BOOT" /\ a.error = app.error
        /\ a.ring = app.ring /\ a.over = app.over
        /\ a.task /\ a.result = "WAITING" /\ a.pc = "client"
    BY <1>1, AppGoes, StartWorkerIs
  <2> HIDE DEF a
  <2>2. b \in Memory /\ Quieter(a, b) /\ b.state = "PROCESSING"
    BY <2>1, EnterProcessingIs
  <2> HIDE DEF b
  <2>3. nvs # "none" /\ app.capture = "none" /\ app.owned /\ app.activity = "voice"
    BY <1>1, <1>4 DEF IInv, Good, Core, CaptureInv, GateInv, TurnInv
  <2>4. CaptureInv(b) /\ CodecInv(b) /\ GateInv(b)
    BY <2>1, <2>2, <2>3 DEF CaptureInv, CodecInv, GateInv, Quieter, SameGate, SameCodec
  <2>5. TurnInv(b, nvs)
    BY <2>1, <2>2, <2>3 DEF TurnInv, Quieter, SameTurn, SameWorker
  <2>6. UploadInv(b)
    BY <2>1, <2>2 DEF IInv, Good, Core, UploadInv, Quieter, SameTurn, SameAudio, SameWorker
  <2>7. Good(b, nvs)
    BY <2>2, <2>4, <2>5, <2>6 DEF Good, Core
  <2>8. Goes(b)
    BY <1>1, <2>1, <2>2, <2>7 DEF Goes, Quieter
  <2>9. QED
    BY <2>8 DEF a, b
<1>5. Goes(EnterError(app))
  BY <1>1, AppGoes, GoodFails, ErrorGoes
<1>6. PICK a : Goes(a) /\ Ticked(a)
  BY <1>2, <1>3, <1>4, <1>5 DEF TickBoot
<1>7. QED
  BY <1>6, TickedKeeps

LEMMA TickIgnoreKeeps ==
  ASSUME IInv, TickIgnore
  PROVE  IInv' /\ Kept
<1> DEFINE a == [app EXCEPT !.ignoring = FALSE, !.held = FALSE,
                            !.deferred = @ /\ ~HoldMode]
<1>1. Goes(app) /\ app \in Memory
  BY AppGoes DEF TickIgnore, At
<1>2. Rec(a)
  BY <1>1, MemoryIs, Zenon DEF Rec
<1>3. Typed(a)
  BY <1>1, MemoryIs DEF Rec, Typed, Fields
<1>4. Same(app, a)
  BY <1>1, MemoryIs DEF Rec, Fields, Same, SameTurn, SameAudio, SameWorker, SameGate, SameCodec
<1>5. Ticked(IF finger THEN app ELSE a)
  BY DEF TickIgnore
<1> HIDE DEF a
<1>6. Goes(a)
  BY <1>1, <1>2, <1>3, <1>4, MemoryIs, SameGoes
<1>7. QED
  BY <1>1, <1>5, <1>6, TickedKeeps

LEMMA TickDeferKeeps ==
  ASSUME IInv, TickDefer
  PROVE  IInv' /\ Kept
<1> DEFINE a == Polled(app)
           b == [a EXCEPT !.deferred = TRUE]
<1>1. a \in Memory /\ Same(app, a) /\ Goes(app)
  BY AppGoes, PolledIs DEF TickDefer, At
<1>2. Goes(a)
  BY <1>1, SameGoes
<1>3. Ticked(b)
  BY DEF TickDefer
<1> HIDE DEF a
<1>4. Rec(b)
  BY <1>1, MemoryIs, Zenon DEF Rec
<1>5. Typed(b)
  BY <1>1, MemoryIs DEF Rec, Typed, Fields
<1>6. Same(a, b)
  BY <1>1, MemoryIs DEF Rec, Fields, Same, SameTurn, SameAudio, SameWorker, SameGate, SameCodec
<1> HIDE DEF b
<1>7. Goes(b)
  BY <1>2, <1>4, <1>5, <1>6, MemoryIs, SameGoes
<1>8. QED
  BY <1>3, <1>7, TickedKeeps

LEMMA IdleIs ==
  ASSUME IInv, AtIdle
  PROVE  /\ Goes(Idle(app)) /\ Idle(app) \in Memory /\ Good(Idle(app), nvs)
         /\ Idle(app).state = "IDLE" /\ app.state = "IDLE" /\ Idle(app).capture = app.capture
<1> DEFINE u == Unheld(app)
           d == [u EXCEPT !.deferred = FALSE]
           b == IF Terminal(app) THEN u ELSE d
           c == Request(CancelRoutine(b), "capture")
<1>1. app.state = "IDLE" /\ Goes(app)
  BY AppGoes DEF AtIdle, At
<1>2. u \in Memory /\ Same(app, u)
  BY AppGoes, UnheldIs
<1>3. Idle(app) \in {b, c}
  BY DEF Idle
<1> HIDE DEF u
<1>4. Rec(d)
  BY <1>2, MemoryIs, Zenon DEF Rec
<1>5. Typed(d)
  BY <1>2, MemoryIs DEF Rec, Typed, Fields
<1>6. Same(u, d)
  BY <1>2, MemoryIs DEF Rec, Fields, Same, SameTurn, SameAudio, SameWorker, SameGate, SameCodec
<1> HIDE DEF d
<1>7. b \in Memory /\ Goes(b) /\ b.state = "IDLE" /\ b.capture = app.capture
  <2>1. Goes(u) /\ u.state = "IDLE" /\ u.capture = app.capture
    BY <1>1, <1>2, SameGoes DEF Same, SameCodec
  <2>2. d \in Memory /\ Goes(d) /\ d.state = "IDLE" /\ d.capture = app.capture
    BY <1>4, <1>5, <1>6, <2>1, MemoryIs, SameGoes DEF Same, SameCodec
  <2>3. QED
    BY <1>2, <2>1, <2>2
<1> HIDE DEF b
<1>8. c \in Memory /\ Goes(c) /\ c.state = "IDLE" /\ c.capture = app.capture
  <2> DEFINE r == CancelRoutine(b)
  <2>1. r \in Memory /\ Quieter(b, r) /\ r.state = b.state
    BY <1>7, CancelRoutineIs
  <2>2. Goes(r)
    BY <1>1, <1>7, <2>1, QuieterGoes
  <2> HIDE DEF r
  <2>3. /\ Request(r, "capture") \in Memory /\ Quieter(r, Request(r, "capture"))
        /\ Request(r, "capture").state = r.state
    BY <2>1, RequestIs DEF Requests
  <2>4. Goes(Request(r, "capture"))
    BY <1>1, <1>7, <2>1, <2>2, <2>3, QuieterGoes
  <2>5. QED
    BY <1>7, <2>1, <2>3, <2>4 DEF r, Quieter
<1>9. QED
  BY <1>1, <1>3, <1>7, <1>8 DEF Goes

LEMMA TickIdleFeedbackKeeps ==
  ASSUME IInv, TickIdleFeedback
  PROVE  IInv' /\ Kept
BY IdleIs, TickedKeeps DEF TickIdleFeedback

(* A memory at IDLE that forgets no error.                                 *)
LEMMA IdleGoes ==
  ASSUME NEW a, Good(a, nvs), app.state = "IDLE", app.error => a.error
  PROVE  Goes(a)
BY DEF Goes

LEMMA TickMonitorKeeps ==
  ASSUME IInv, TickMonitor
  PROVE  IInv' /\ Kept
<1> DEFINE a == Idle(app)
           l == [a EXCEPT !.listening = TRUE]
           heard == MicOn(l)
           begun == CaptureBegin(heard, FALSE)
<1>1. PICK online \in BOOLEAN, detected \in BOOLEAN :
        Ticked(IF ~Eligible(a, online) THEN IF a.listening THEN WakeStop(a) ELSE a
               ELSE IF detected /\ CanClaim(heard) THEN begun ELSE heard)
  BY DEF TickMonitor
<1>2. /\ Goes(a) /\ a \in Memory /\ a.state = "IDLE" /\ app.state = "IDLE" /\ a.capture = "none"
      /\ a.cue = "none"
  BY IdleIs DEF TickMonitor, QuietIdle
<1>3. Eligible(a, online) => ~a.task
  BY DEF Eligible
<1> HIDE DEF a
<1>4. Goes(WakeStop(a))
  BY <1>2, WakeStopIsGood DEF Goes
<1>5. Rec(l)
  BY <1>2, MemoryIs, Zenon DEF Rec
<1>6. Typed(l)
  BY <1>2, MemoryIs DEF Rec, Typed, Fields
<1>7. Same(a, l)
  BY <1>2, MemoryIs DEF Rec, Fields, Same, SameTurn, SameAudio, SameWorker, SameGate, SameCodec
<1> HIDE DEF l
<1>8. l \in Memory /\ Good(l, nvs)
  BY <1>2, <1>5, <1>6, <1>7, MemoryIs, GoodSame DEF Goes
<1>9. /\ Good(heard, nvs) /\ heard.state = "IDLE" /\ heard.task = a.task /\ heard.cue = "none"
      /\ heard.error = a.error
  <2>1. /\ heard \in Memory /\ SameTurn(l, heard) /\ SameGate(l, heard)
        /\ heard.state = l.state /\ heard.error = l.error
        /\ heard.capture = l.capture /\ heard.cue = l.cue
    BY <1>8, MicOnIs
  <2> HIDE DEF heard
  <2>2. heard.state = "IDLE" /\ heard.task = a.task /\ heard.cue = "none" /\ heard.capture = "none"
        /\ heard.error = a.error
    BY <1>2, <1>7, <2>1 DEF Same, SameTurn, SameWorker, SameCodec
  <2>3. CaptureInv(heard) /\ CodecInv(heard)
    BY <2>2 DEF CaptureInv, CodecInv
  <2>4. GateInv(heard)
    BY <1>8, <2>1 DEF Good, Core, GateInv, SameTurn, SameWorker, SameGate
  <2>5. TurnInv(heard, nvs)
    BY <1>8, <2>1 DEF Good, Core, TurnInv, SameTurn, SameWorker
  <2>6. UploadInv(heard)
    BY <1>8, <2>1 DEF Good, Core, UploadInv, SameTurn, SameAudio, SameWorker
  <2>7. QED
    BY <2>1, <2>2, <2>3, <2>4, <2>5, <2>6 DEF Good, Core
<1> HIDE DEF heard
<1>10. Goes(heard)
  BY <1>2, <1>9, IdleGoes DEF Goes
<1>11. ASSUME ~a.task PROVE Goes(begun)
  BY <1>2, <1>9, <1>11, CaptureIsGood, IdleGoes DEF Goes
<1> HIDE DEF begun
<1>12. PICK b : Goes(b) /\ Ticked(b)
  BY <1>1, <1>2, <1>3, <1>4, <1>10, <1>11
<1>13. QED
  BY <1>12, TickedKeeps

LEMMA IgnoringIs ==
  ASSUME NEW a \in Memory, NEW v \in BOOLEAN
  PROVE  [a EXCEPT !.ignoring = v] \in Memory /\ Same(a, [a EXCEPT !.ignoring = v])
<1> DEFINE b == [a EXCEPT !.ignoring = v]
<1>1. Rec(b)
  BY MemoryIs, Zenon DEF Rec
<1>2. Typed(b)
  BY MemoryIs DEF Rec, Typed, Fields
<1>3. Same(a, b)
  BY MemoryIs DEF Rec, Fields, Same, SameTurn, SameAudio, SameWorker, SameGate, SameCodec
<1>4. QED
  BY <1>1, <1>2, <1>3, MemoryIs

(* The monitor or the capture is stopped, and then something is said.      *)
LEMMA StoppedGoes ==
  ASSUME NEW a, Good(a, nvs), a.state = "IDLE", app.state = "IDLE", app.error => a.error,
         NEW event \in Requests, NEW v \in BOOLEAN
  PROVE  /\ Goes([Request(WakeStop(a), event) EXCEPT !.ignoring = v])
         /\ Goes(EnterError(WakeStop(a)))
<1> DEFINE w == WakeStop(a)
           r == Request(w, event)
           b == [r EXCEPT !.ignoring = v]
<1>1. Good(w, nvs) /\ w.state = "IDLE" /\ w.error = a.error
  BY WakeStopIsGood
<1>2. Goes(EnterError(w))
  BY <1>1, GoodFails, ErrorGoes DEF Good
<1>3. r \in Memory /\ Quieter(w, r) /\ r.state = w.state
  <2> HIDE DEF w
  <2>1. QED
    BY <1>1, RequestIs DEF Good
<1>4. Goes(w)
  BY <1>1, IdleGoes
<1> HIDE DEF w
<1>5. Goes(r)
  BY <1>1, <1>3, <1>4, QuieterGoes DEF Good
<1> HIDE DEF r
<1>6. b \in Memory /\ Same(r, b)
  BY <1>3, IgnoringIs
<1> HIDE DEF b
<1>7. Goes(b)
  BY <1>5, <1>6, SameGoes
<1>8. QED
  BY <1>2, <1>7 DEF b, r, w

LEMMA TickPressKeeps ==
  ASSUME IInv, TickPress
  PROVE  IInv' /\ Kept
<1> DEFINE i == Idle(app)
           a == IF i.listening THEN WakeStop(i) ELSE i
           failed == [Request(WakeStop(a), "error") EXCEPT !.ignoring = TRUE]
           later == [a EXCEPT !.deferred = TRUE]
<1>1. \/ Ticked(failed)
      \/ \E online \in BOOLEAN :
           Ticked(IF ~Eligible(a, online) THEN EnterError(a)
                  ELSE IF CanClaim(a) THEN CaptureBegin(a, TRUE) ELSE later)
  BY DEF TickPress
<1>2. Goes(i) /\ i.state = "IDLE" /\ app.state = "IDLE" /\ i.cue = "none" /\ Good(i, nvs)
  BY IdleIs DEF TickPress, QuietIdle
<1> HIDE DEF i
<1>3. Good(a, nvs) /\ a.state = "IDLE" /\ (app.error => a.error) /\ a.cue = "none"
  BY <1>2, WakeStopIsGood DEF Goes
<1> HIDE DEF a
<1>4. Goes(failed)
  BY <1>2, <1>3, StoppedGoes DEF Requests
<1>5. Goes(EnterError(a))
  BY <1>3, GoodFails, ErrorGoes DEF Good
<1>6. ASSUME ~a.task PROVE Goes(CaptureBegin(a, TRUE))
  BY <1>2, <1>3, <1>6, CaptureIsGood, IdleGoes
<1>7. Goes(later)
  <2>1. a \in Memory
    BY <1>3 DEF Good
  <2>2. Rec(later)
    BY <2>1, MemoryIs, Zenon DEF Rec
  <2>3. Typed(later)
    BY <2>1, MemoryIs DEF Rec, Typed, Fields
  <2>4. Same(a, later)
    BY <2>1, MemoryIs DEF Rec, Fields, Same, SameTurn, SameAudio, SameWorker, SameGate, SameCodec
  <2>5. Goes(a)
    BY <1>2, <1>3, IdleGoes
  <2> HIDE DEF later
  <2>6. QED
    BY <2>2, <2>3, <2>4, <2>5, MemoryIs, SameGoes
<1> HIDE DEF failed, later
<1>8. PICK b : Goes(b) /\ Ticked(b)
  BY <1>1, <1>4, <1>5, <1>6, <1>7 DEF Eligible
<1>9. QED
  BY <1>8, TickedKeeps

(* The dialogue of a capture.                                              *)
LEMMA InCaptureIs ==
  ASSUME IInv, InCapture
  PROVE  /\ Goes(Idle(app)) /\ Good(Idle(app), nvs) /\ Idle(app).state = "IDLE"
         /\ app.state = "IDLE" /\ (app.error => Idle(app).error)
         /\ Idle(app).capture = app.capture /\ Idle(app).capture # "none"
BY IdleIs DEF InCapture, QuietIdle, Goes

LEMMA TickCaptureCancelKeeps ==
  ASSUME IInv, TickCaptureCancel
  PROVE  IInv' /\ Kept
<1>1. Goes([Request(WakeStop(Idle(app)), "cancelled") EXCEPT !.ignoring = finger])
  BY InCaptureIs, AppGoes, StoppedGoes DEF TickCaptureCancel, Requests
<1>2. QED
  BY <1>1, TickedKeeps DEF TickCaptureCancel

LEMMA TickCaptureFailsKeeps ==
  ASSUME IInv, TickCaptureFails
  PROVE  IInv' /\ Kept
<1>1. Goes(EnterError(WakeStop(Idle(app))))
  BY InCaptureIs, AppGoes, StoppedGoes DEF TickCaptureFails, Requests
<1>2. QED
  BY <1>1, TickedKeeps DEF TickCaptureFails

LEMMA TickCueKeeps ==
  ASSUME IInv, TickCue
  PROVE  IInv' /\ Kept
<1> DEFINE a == Idle(app)
           o == SpeakerOff([a EXCEPT !.capture = "wait"])
           b == MicOn(o)
<1>1. InCapture /\ (Ticked(a) \/ Ticked(b))
  BY DEF TickCue
<1>2. /\ Goes(a) /\ Good(a, nvs) /\ a \in Memory /\ a.state = "IDLE" /\ app.state = "IDLE"
      /\ a.capture # "none" /\ (app.error => a.error)
  BY <1>1, InCaptureIs DEF Good
<1> HIDE DEF a
<1>3. Rec(o)
  BY <1>2, MemoryIs, Zenon DEF Rec, SpeakerOff
<1>4. Typed(o)
  BY <1>2, MemoryIs DEF Rec, Typed, Fields, SpeakerOff
<1>5. /\ SameTurn(a, o) /\ SameGate(a, o) /\ o.state = a.state /\ o.error = a.error
      /\ o.capture = "wait" /\ o.cue = a.cue /\ ~o.spk
  BY <1>2, MemoryIs DEF Rec, Fields, SpeakerOff, SameTurn, SameAudio, SameWorker, SameGate
<1> HIDE DEF o
<1>6. /\ b \in Memory /\ SameTurn(o, b) /\ SameGate(o, b) /\ b.state = o.state /\ b.error = o.error
      /\ b.capture = o.capture /\ b.cue = o.cue /\ b.spk = o.spk /\ b.mic
  BY <1>3, <1>4, <1>5, MicOnIs, MemoryIs
<1> HIDE DEF b
<1>7. CaptureInv(b) /\ CodecInv(b)
  BY <1>2, <1>5, <1>6 DEF Good, Core, CaptureInv, CodecInv, SameTurn, SameWorker
<1>8. GateInv(b)
  BY <1>2, <1>5, <1>6 DEF Good, Core, GateInv, SameTurn, SameWorker, SameGate
<1>9. TurnInv(b, nvs)
  BY <1>2, <1>5, <1>6 DEF Good, Core, TurnInv, SameTurn, SameWorker
<1>10. UploadInv(b)
  BY <1>2, <1>5, <1>6 DEF Good, Core, UploadInv, SameTurn, SameAudio, SameWorker
<1>11. Goes(b)
  BY <1>2, <1>5, <1>6, <1>7, <1>8, <1>9, <1>10, IdleGoes DEF Good, Core
<1>12. QED
  BY <1>1, <1>2, <1>11, TickedKeeps

LEMMA TickWaitKeeps ==
  ASSUME IInv, TickWait
  PROVE  IInv' /\ Kept
BY InCaptureIs, TickedKeeps DEF TickWait

(* A recording begins with the ids in flash, or an error with whatever is  *)
(* there.                                                                  *)
LEMMA TickSpeechKeeps ==
  ASSUME IInv, TickSpeech
  PROVE  IInv' /\ Kept
<1> DEFINE a == Idle(app)
           failed == [a EXCEPT !.req = TRUE]
           begun == RecordingBegin(a)
           error == EnterError(WakeStop(failed))
<1>1. /\ \/ ~a.task /\ app' = [begun EXCEPT !.loop = "tail"] /\ nvs' = "req"
         \/ app' = [error EXCEPT !.loop = "tail"] /\ nvs' \in {nvs, "req"}
      /\ finger' = finger
  BY DEF TickSpeech
<1>2. /\ Good(a, nvs) /\ a \in Memory /\ a.state = "IDLE" /\ app.state = "IDLE"
      /\ a.capture = "wait" /\ (app.error => a.error)
  BY InCaptureIs DEF TickSpeech, Good
<1> HIDE DEF a
<1>3. ASSUME NEW b \in Memory, NEW s \in {"none", "req", "turn"}, Good(b, s),
             app' = [b EXCEPT !.loop = "tail"], nvs' = s, app.error => b.error
      PROVE  IInv' /\ Kept
  <2> DEFINE c == [b EXCEPT !.loop = "tail"]
  <2>1. c \in Memory /\ Same(b, c)
    BY LoopIs
  <2>2. app' = c
    BY <1>3
  <2> HIDE DEF c
  <2>3. Good(c, s)
    BY <1>3, <2>1, GoodSame
  <2>4. Good(app, nvs)'
    BY <1>3, <2>2, <2>3
  <2>5. Kept
    BY <1>2, <1>3, <2>1, <2>2 DEF Kept, Forgotten, ErrorKept, Same
  <2>6. QED
    BY <1>1, <1>3, <2>4, <2>5 DEF IInv
<1>4. /\ begun \in Memory /\ SameGate(a, begun)
      /\ begun.state = "RECORDING" /\ begun.error = a.error
      /\ begun.capture = "none" /\ begun.cue = a.cue
      /\ begun.spk = a.spk /\ (~a.spk => begun.mic)
      /\ begun.task /\ begun.pc = "open" /\ begun.result = "WAITING" /\ ~begun.upFinished
      /\ begun.ring = 1 /\ ~begun.over /\ begun.up = 0
  BY <1>2, RecordingBeginIs
<1>5. Good(begun, "req")
  <2> HIDE DEF begun
  <2>1. CaptureInv(begun) /\ CodecInv(begun) /\ GateInv(begun)
    BY <1>2, <1>4 DEF Good, Core, CaptureInv, CodecInv, GateInv, SameGate
  <2>2. TurnInv(begun, "req") /\ UploadInv(begun)
    BY <1>4 DEF TurnInv, UploadInv
  <2>3. QED
    BY <1>4, <2>1, <2>2 DEF Good, Core
<1>6. /\ failed \in Memory /\ SameGate(a, failed) /\ SameCodec(a, failed) /\ SameAudio(a, failed)
      /\ failed.state = a.state /\ failed.error = a.error
      /\ failed.task = a.task /\ failed.pc = a.pc /\ failed.result = a.result
      /\ failed.upFinished = a.upFinished /\ failed.upFailed = a.upFailed
  <2>1. Rec(failed)
    BY <1>2, MemoryIs, Zenon DEF Rec
  <2>2. Typed(failed)
    BY <1>2, MemoryIs DEF Rec, Typed, Fields
  <2>3. QED
    BY <1>2, <2>1, <2>2, MemoryIs DEF Rec, Fields, SameAudio, SameGate, SameCodec
<1> HIDE DEF failed
<1>7. Good(failed, nvs)
  <2>1. CaptureInv(failed) /\ CodecInv(failed) /\ GateInv(failed)
    BY <1>2, <1>6 DEF Good, Core, CaptureInv, CodecInv, GateInv, SameGate, SameCodec
  <2>2. TurnInv(failed, nvs) /\ UploadInv(failed)
    BY <1>2, <1>6 DEF Good, Core, TurnInv, UploadInv, SameAudio
  <2>3. QED
    BY <1>6, <2>1, <2>2 DEF Good, Core
<1>8. Goes(error)
  BY <1>2, <1>6, <1>7, StoppedGoes DEF Requests
<1>9. error.state = "ERROR" /\ error.error
  <2>1. Good(WakeStop(failed), nvs) /\ WakeStop(failed).state = "IDLE"
    BY <1>2, <1>6, <1>7, WakeStopIsGood
  <2>2. QED
    BY <2>1, EnterErrorIs DEF Good
<1> HIDE DEF error, begun
<1>10. ASSUME NEW s \in {nvs, "req"} PROVE Good(error, s)
  <2>1. error.result = "WAITING" => s # "none"
    BY <1>8, <1>10 DEF Goes, Good, Core, TurnInv
  <2>2. TurnInv(error, s)
    BY <1>8, <1>9, <2>1 DEF Goes, Good, Core, TurnInv
  <2>3. QED
    BY <1>8, <2>2 DEF Goes, Good, Core
<1>11. CASE app' = [begun EXCEPT !.loop = "tail"] /\ nvs' = "req"
  BY <1>2, <1>3, <1>4, <1>5, <1>11
<1>12. CASE app' = [error EXCEPT !.loop = "tail"] /\ nvs' \in {nvs, "req"}
  <2>1. PICK s \in {nvs, "req"} : nvs' = s
    BY <1>12
  <2>2. Good(error, s) /\ error \in Memory /\ s \in {"none", "req", "turn"}
    BY <1>10 DEF Good, IInv
  <2>3. QED
    BY <1>3, <1>9, <1>12, <2>1, <2>2
<1>13. QED
  BY <1>1, <1>11, <1>12

-----------------------------------------------------------------------------
(* The tick in RECORDING.                                                  *)
LEMMA TickOverflowKeeps ==
  ASSUME IInv, TickOverflow
  PROVE  IInv' /\ Kept
<1> DEFINE a == MicOff([app EXCEPT !.upFailed = TRUE, !.upFinished = TRUE, !.cancel = TRUE])
<1>1. app.state = "RECORDING" /\ Ticked(EnterError(a))
  BY DEF TickOverflow, At
<1>2. Rec(a)
  BY AppGoes, MemoryIs, Zenon DEF Rec, MicOff
<1>3. Typed(a)
  BY AppGoes, MemoryIs DEF Rec, Typed, Fields, MicOff
<1>4. /\ SameGate(app, a) /\ SameWorker(app, a) /\ SameAudio(app, a)
      /\ a.state = app.state /\ a.capture = app.capture /\ a.cue = app.cue
  BY AppGoes, MemoryIs DEF Rec, Fields, MicOff, SameAudio, SameWorker, SameGate
<1> HIDE DEF a
<1>5. Failing(app, nvs)
  BY <1>1, AppGoes, GoodFails
<1>6. Failing(a, nvs)
  BY <1>4, <1>5, AppGoes DEF Failing, Good, Core, GateInv, SameAudio, SameWorker, SameGate
<1>7. Goes(EnterError(a))
  BY <1>2, <1>3, <1>6, MemoryIs, ErrorGoes
<1>8. QED
  BY <1>1, <1>7, TickedKeeps

LEMMA MicOffIs ==
  ASSUME NEW a \in Memory
  PROVE  /\ MicOff(a) \in Memory
         /\ SameTurn(a, MicOff(a)) /\ SameGate(a, MicOff(a)) /\ MicOff(a).state = a.state
         /\ MicOff(a).error = a.error /\ MicOff(a).capture = a.capture /\ MicOff(a).cue = a.cue
<1>1. Rec(MicOff(a))
  BY MemoryIs, Zenon DEF Rec, MicOff
<1>2. Typed(MicOff(a))
  BY MemoryIs DEF Rec, Typed, Fields, MicOff
<1>3. /\ SameTurn(a, MicOff(a)) /\ SameGate(a, MicOff(a)) /\ MicOff(a).state = a.state
      /\ MicOff(a).error = a.error /\ MicOff(a).capture = a.capture /\ MicOff(a).cue = a.cue
  BY MemoryIs DEF Rec, Fields, MicOff, SameTurn, SameAudio, SameWorker, SameGate
<1>4. QED
  BY <1>1, <1>2, <1>3, MemoryIs

LEMMA MicOffFails ==
  ASSUME NEW a \in Memory, NEW s, Failing(a, s)
  PROVE  MicOff(a) \in Memory /\ Failing(MicOff(a), s)
BY MicOffIs DEF Failing, GateInv, SameTurn, SameAudio, SameWorker, SameGate

LEMMA TickUploadLostKeeps ==
  ASSUME IInv, TickUploadLost
  PROVE  IInv' /\ Kept
<1>1. Failing(app, nvs)
  BY AppGoes, GoodFails DEF TickUploadLost, At
<1>2. Goes(EnterError(MicOff(app)))
  BY <1>1, AppGoes, MicOffFails, ErrorGoes
<1>3. QED
  BY <1>2, TickedKeeps DEF TickUploadLost

(* Audio moves to the stream while the recording is not finished.          *)
LEMMA DrainIs ==
  ASSUME NEW a \in Memory
  PROVE  /\ Drain(a) \in Memory
         /\ SameWorker(a, Drain(a)) /\ SameGate(a, Drain(a)) /\ SameCodec(a, Drain(a))
         /\ Drain(a).state = a.state /\ Drain(a).error = a.error /\ Drain(a).over = a.over
         /\ Drain(a).upFinished = a.upFinished /\ Drain(a).upFailed = a.upFailed
         /\ Drain(a).cancel = a.cancel /\ Drain(a).aud = a.aud
         /\ a.over => Drain(a).ring = a.ring
<1> DEFINE room == UploadCap - a.up
           n == IF a.over THEN 0 ELSE IF a.ring < room THEN a.ring ELSE room
           b == [a EXCEPT !.ring = @ - n, !.up = @ + n]
<1>1. a.ring \in 0 .. RingCap /\ a.up \in 0 .. UploadCap
  BY MemoryIs DEF Typed
<1>2. n \in Nat /\ a.ring - n \in 0 .. RingCap /\ a.up + n \in 0 .. UploadCap /\ (a.over => n = 0)
  BY <1>1, CapAssumption
<1>3. Drain(a) = b
  BY DEF Drain
<1> HIDE DEF n
<1>4. Rec(b)
  BY MemoryIs, Zenon DEF Rec
<1>5. Typed(b)
  BY <1>2, MemoryIs DEF Rec, Typed, Fields
<1>6. /\ SameWorker(a, b) /\ SameGate(a, b) /\ SameCodec(a, b)
      /\ b.state = a.state /\ b.error = a.error /\ b.over = a.over
      /\ b.upFinished = a.upFinished /\ b.upFailed = a.upFailed
      /\ b.cancel = a.cancel /\ b.aud = a.aud /\ b.ring = a.ring - n
  BY MemoryIs DEF Rec, Fields, SameWorker, SameGate, SameCodec
<1> HIDE DEF b
<1>7. QED
  BY <1>1, <1>2, <1>3, <1>4, <1>5, <1>6, MemoryIs

LEMMA CaptureIs ==
  ASSUME NEW a \in Memory, NEW n \in 0 .. 2, ~a.over
  PROVE  /\ Capture(a, n) \in Memory
         /\ SameWorker(a, Capture(a, n)) /\ SameGate(a, Capture(a, n))
         /\ SameCodec(a, Capture(a, n))
         /\ Capture(a, n).state = a.state /\ Capture(a, n).error = a.error
         /\ Capture(a, n).upFinished = a.upFinished /\ Capture(a, n).upFailed = a.upFailed
         /\ Capture(a, n).over => Capture(a, n).ring > 0
<1> DEFINE full == a.ring + n > RingCap
           ring == IF full THEN RingCap ELSE a.ring + n
           b == [a EXCEPT !.ring = ring, !.over = @ \/ full]
<1>1. a.ring \in 0 .. RingCap
  BY MemoryIs DEF Typed
<1>2. ring \in 0 .. RingCap /\ full \in BOOLEAN /\ (full => ring > 0)
  BY <1>1, CapAssumption
<1>3. Capture(a, n) = b
  BY DEF Capture
<1> HIDE DEF ring, full
<1>4. Rec(b)
  BY MemoryIs, Zenon DEF Rec
<1>5. Typed(b)
  BY <1>2, MemoryIs DEF Rec, Typed, Fields
<1>6. /\ SameWorker(a, b) /\ SameGate(a, b) /\ SameCodec(a, b)
      /\ b.state = a.state /\ b.error = a.error
      /\ b.upFinished = a.upFinished /\ b.upFailed = a.upFailed
      /\ b.ring = ring /\ b.over = (a.over \/ full)
  BY MemoryIs DEF Rec, Fields, SameWorker, SameGate, SameCodec
<1> HIDE DEF b
<1>7. QED
  BY <1>2, <1>3, <1>4, <1>5, <1>6, MemoryIs

LEMMA TickRecordKeeps ==
  ASSUME IInv, TickRecord
  PROVE  IInv' /\ Kept
<1>1. app.state = "RECORDING" /\ ~app.over
  BY DEF TickRecord, At
<1>2. PICK n \in 0 .. 2, silent \in BOOLEAN, vadFailed \in BOOLEAN :
        LET a == Polled(Drain(Capture(app, n)))
            finishing == MicOff([a EXCEPT !.ignoring = finger, !.released = TRUE])
        IN Ticked(IF vadFailed THEN EnterError(MicOff(a))
                  ELSE IF ~silent /\ ~FinishEvent(app) THEN a
                  ELSE IF ~app.req \/ ~app.task THEN EnterError(finishing)
                  ELSE EnterProcessing(finishing))
  BY DEF TickRecord
<1> DEFINE c == Capture(app, n)
           d == Drain(c)
           a == Polled(d)
           r == [a EXCEPT !.ignoring = finger, !.released = TRUE]
           f == MicOff(r)
<1>3. /\ c \in Memory /\ SameWorker(app, c) /\ SameGate(app, c) /\ SameCodec(app, c)
      /\ c.state = app.state /\ c.error = app.error
      /\ c.upFinished = app.upFinished /\ c.upFailed = app.upFailed
      /\ c.over => c.ring > 0
  BY <1>1, AppGoes, CaptureIs
<1> HIDE DEF c
<1>4. /\ d \in Memory /\ SameWorker(c, d) /\ SameGate(c, d) /\ SameCodec(c, d)
      /\ d.state = c.state /\ d.error = c.error
      /\ d.upFinished = c.upFinished /\ d.upFailed = c.upFailed
      /\ d.over => d.ring > 0
  BY <1>3, DrainIs
<1> HIDE DEF d
<1>5. Good(d, nvs) /\ (app.error => d.error) /\ d.state = "RECORDING"
  <2>1. CaptureInv(d) /\ CodecInv(d) /\ GateInv(d)
    BY <1>3, <1>4 DEF IInv, Good, Core, CaptureInv, CodecInv, GateInv, SameWorker, SameGate,
         SameCodec
  <2>2. TurnInv(d, nvs)
    BY <1>3, <1>4 DEF IInv, Good, Core, TurnInv, SameWorker
  <2>3. UploadInv(d)
    BY <1>1, <1>3, <1>4 DEF IInv, Good, Core, TurnInv, UploadInv, SameWorker
  <2>4. QED
    BY <1>1, <1>3, <1>4, <2>1, <2>2, <2>3 DEF Good, Core
<1>6. a \in Memory /\ Same(d, a)
  BY <1>4, AppGoes, PolledIs
<1> HIDE DEF a
<1>7. Good(a, nvs) /\ a.state = "RECORDING" /\ (app.error => a.error) /\ Goes(a)
  <2>1. Good(a, nvs) /\ a.state = "RECORDING" /\ (app.error => a.error)
    BY <1>5, <1>6, GoodSame DEF Same
  <2>2. QED
    BY <1>1, <2>1, GoesUnlessPlaying
<1>8. r \in Memory /\ Same(a, r)
  <2>1. Rec(r)
    BY <1>6, MemoryIs, Zenon DEF Rec
  <2>2. Typed(r)
    BY <1>6, AppGoes, MemoryIs DEF Rec, Typed, Fields
  <2>3. Same(a, r)
    BY <1>6, MemoryIs DEF Rec, Fields, Same, SameTurn, SameAudio, SameWorker, SameGate, SameCodec
  <2>4. QED
    BY <2>1, <2>2, <2>3, MemoryIs
<1> HIDE DEF r
<1>9. Good(r, nvs) /\ r.state = "RECORDING" /\ (app.error => r.error)
  BY <1>7, <1>8, GoodSame DEF Same
<1>10. Goes(EnterError(MicOff(a)))
  BY <1>6, <1>7, GoodFails, MicOffFails, ErrorGoes
<1>11. Goes(EnterError(f))
  BY <1>8, <1>9, GoodFails, MicOffFails, ErrorGoes
<1>12. Goes(EnterProcessing(f))
  <2> DEFINE p == EnterProcessing(f)
  <2>1. /\ f \in Memory /\ SameTurn(r, f) /\ SameGate(r, f) /\ f.state = r.state
        /\ f.error = r.error /\ f.capture = r.capture /\ f.cue = r.cue
    BY <1>8, MicOffIs
  <2> HIDE DEF f
  <2>2. p \in Memory /\ Quieter(f, p) /\ p.state = "PROCESSING"
    BY <1>9, <2>1, EnterProcessingIs
  <2> HIDE DEF p
  <2>3. CaptureInv(p) /\ CodecInv(p)
    BY <1>9, <2>1, <2>2 DEF Good, Core, CaptureInv, CodecInv, Quieter
  <2>4. GateInv(p)
    BY <1>9, <2>1, <2>2 DEF Good, Core, GateInv, Quieter, SameTurn, SameWorker, SameGate
  <2>5. TurnInv(p, nvs)
    BY <1>9, <2>1, <2>2 DEF Good, Core, TurnInv, Quieter, SameTurn, SameWorker
  <2>6. UploadInv(p)
    BY <1>9, <2>1, <2>2 DEF Good, Core, UploadInv, Quieter, SameTurn, SameAudio, SameWorker
  <2>7. app.error => p.error
    BY <1>9, <2>1, <2>2 DEF Quieter
  <2>8. Goes(p)
    BY <1>1, <2>2, <2>3, <2>4, <2>5, <2>6, <2>7 DEF Goes, Good, Core
  <2>9. QED
    BY <2>8 DEF p
<1>13. Ticked(IF vadFailed THEN EnterError(MicOff(a))
              ELSE IF ~silent /\ ~FinishEvent(app) THEN a
              ELSE IF ~app.req \/ ~app.task THEN EnterError(f) ELSE EnterProcessing(f))
  BY <1>2 DEF a, c, d, r
<1> HIDE DEF f
<1>14. PICK b : Goes(b) /\ Ticked(b)
  BY <1>7, <1>10, <1>11, <1>12, <1>13
<1>15. QED
  BY <1>14, TickedKeeps

-----------------------------------------------------------------------------
(* The tick in PROCESSING.                                                 *)
LEMMA DrainRestIs ==
  ASSUME NEW a, NEW s, Good(a, s), a.state = "PROCESSING"
  PROVE  /\ Good(DrainRest(a), s) /\ DrainRest(a).state = a.state
         /\ DrainRest(a).error = a.error
<1>1. CASE ~a.released \/ a.upFinished
  BY <1>1 DEF DrainRest
<1>2. CASE ~(~a.released \/ a.upFinished)
  <2> DEFINE b == Drain(a)
             c == [b EXCEPT !.upFinished = b.ring = 0]
  <2>1. DrainRest(a) = c
    BY <1>2 DEF DrainRest
  <2>2. /\ b \in Memory
        /\ SameWorker(a, b) /\ SameGate(a, b) /\ SameCodec(a, b)
        /\ b.state = a.state /\ b.error = a.error /\ b.over = a.over
        /\ b.upFailed = a.upFailed
        /\ a.over => b.ring = a.ring
    BY DrainIs DEF Good
  <2> HIDE DEF b
  <2>3. Rec(c)
    BY <2>2, MemoryIs, Zenon DEF Rec
  <2>4. Typed(c)
    BY <2>2, MemoryIs DEF Rec, Typed, Fields
  <2>5. /\ SameWorker(b, c) /\ SameGate(b, c) /\ SameCodec(b, c)
        /\ c.state = b.state /\ c.error = b.error /\ c.over = b.over
        /\ c.upFailed = b.upFailed /\ c.ring = b.ring /\ (c.upFinished <=> b.ring = 0)
    BY <2>2, MemoryIs, ZenonT(60) DEF Rec, Fields, SameWorker, SameGate, SameCodec
  <2> HIDE DEF c
  <2>6. CaptureInv(c) /\ CodecInv(c) /\ GateInv(c)
    BY <2>2, <2>5 DEF Good, Core, CaptureInv, CodecInv, GateInv, SameWorker, SameGate, SameCodec
  <2>7. TurnInv(c, s)
    BY <2>2, <2>5 DEF Good, Core, TurnInv, SameWorker
  <2>8. UploadInv(c)
    <3>1. c.over => c.ring > 0
      BY <2>2, <2>5 DEF Good, Core, UploadInv
    <3>2. c.pc # "closing"
      BY <1>2, <2>2, <2>5 DEF Good, Core, UploadInv, SameWorker
    <3>3. c.upFinished => c.ring = 0 /\ ~(c.ring > 0)
      BY <2>5
    <3>4. QED
      BY <3>1, <3>2, <3>3 DEF UploadInv
  <2>9. QED
    BY <2>1, <2>2, <2>3, <2>4, <2>5, <2>6, <2>7, <2>8, MemoryIs DEF Good, Core
<1>3. QED
  BY <1>1, <1>2

LEMMA CancelIs ==
  ASSUME NEW a \in Memory
  PROVE  LET b == [a EXCEPT !.cancel = TRUE]
         IN /\ b \in Memory /\ SameAudio(a, b) /\ SameWorker(a, b) /\ SameGate(a, b)
            /\ SameCodec(a, b)
            /\ b.upFinished = a.upFinished /\ b.upFailed = a.upFailed
            /\ b.state = a.state /\ b.error = a.error /\ b.cancel
<1> DEFINE b == [a EXCEPT !.cancel = TRUE]
<1>1. Rec(b)
  BY MemoryIs, Zenon DEF Rec
<1>2. Typed(b)
  BY MemoryIs DEF Rec, Typed, Fields
<1>3. /\ SameAudio(a, b) /\ SameWorker(a, b) /\ SameGate(a, b) /\ SameCodec(a, b)
      /\ b.upFinished = a.upFinished /\ b.upFailed = a.upFailed
      /\ b.state = a.state /\ b.error = a.error /\ b.cancel
  BY MemoryIs DEF Rec, Fields, SameAudio, SameWorker, SameGate, SameCodec
<1>4. QED
  BY <1>1, <1>2, <1>3, MemoryIs

LEMMA CancelIsGood ==
  ASSUME NEW a, NEW s, Good(a, s)
  PROVE  LET b == [a EXCEPT !.cancel = TRUE]
         IN Good(b, s) /\ b.state = a.state /\ b.error = a.error /\ b.cancel
<1> DEFINE b == [a EXCEPT !.cancel = TRUE]
<1>1. /\ b \in Memory /\ SameAudio(a, b) /\ SameWorker(a, b) /\ SameGate(a, b) /\ SameCodec(a, b)
      /\ b.upFinished = a.upFinished /\ b.upFailed = a.upFailed
      /\ b.state = a.state /\ b.error = a.error /\ b.cancel
  BY CancelIs DEF Good
<1> HIDE DEF b
<1>2. CaptureInv(b) /\ CodecInv(b) /\ GateInv(b)
  BY <1>1 DEF Good, Core, CaptureInv, CodecInv, GateInv, SameWorker, SameGate, SameCodec
<1>3. TurnInv(b, s) /\ UploadInv(b)
  BY <1>1 DEF Good, Core, TurnInv, UploadInv, SameAudio, SameWorker
<1>4. QED
  BY <1>1, <1>2, <1>3 DEF Good, Core, b

LEMMA ProcessedIs ==
  ASSUME IInv, app.state = "PROCESSING"
  PROVE  Good(Processed, nvs) /\ Processed.state = "PROCESSING" /\ (app.error => Processed.error)
<1> DEFINE d == DrainRest(app)
           a == Polled(d)
           b == [a EXCEPT !.cancel = TRUE]
           c == CancelRoutine(b)
<1>1. Good(d, nvs) /\ d.state = "PROCESSING" /\ d.error = app.error
  BY AppGoes, DrainRestIs
<1>2. Processed = IF Event(app) = "pressed" THEN c ELSE a
  BY DEF Processed
<1> HIDE DEF d
<1>3. Good(a, nvs) /\ a.state = "PROCESSING" /\ a.error = app.error
  <2>1. a \in Memory /\ Same(d, a)
    BY <1>1, AppGoes, PolledIs DEF Good
  <2> HIDE DEF a
  <2>2. QED
    BY <1>1, <2>1, GoodSame DEF Same
<1> HIDE DEF a
<1>4. Good(b, nvs) /\ b.state = "PROCESSING" /\ b.error = app.error
  BY <1>3, CancelIsGood
<1> HIDE DEF b
<1>5. Good(c, nvs) /\ c.state = "PROCESSING" /\ (app.error => c.error)
  <2>1. c \in Memory /\ Quieter(b, c) /\ c.state = b.state
    BY <1>4, CancelRoutineIs DEF Good
  <2> HIDE DEF c
  <2>2. QED
    BY <1>4, <2>1, GoodQuieter DEF Quieter
<1>6. QED
  BY <1>2, <1>3, <1>5

LEMMA FollowUpIs ==
  ASSUME NEW a \in Memory, NEW v \in BOOLEAN
  PROVE  [a EXCEPT !.followUp = v] \in Memory /\ Same(a, [a EXCEPT !.followUp = v])
<1> DEFINE b == [a EXCEPT !.followUp = v]
<1>1. Rec(b)
  BY MemoryIs, Zenon DEF Rec
<1>2. Typed(b)
  BY MemoryIs DEF Rec, Typed, Fields
<1>3. Same(a, b)
  BY MemoryIs DEF Rec, Fields, Same, SameTurn, SameAudio, SameWorker, SameGate, SameCodec
<1>4. QED
  BY <1>1, <1>2, <1>3, MemoryIs

(* Before the transition to IDLE the speaker is turned off.                *)
LEMMA SilencedIs ==
  ASSUME NEW a \in Memory
  PROVE  LET b == SpeakerOff(a)
         IN /\ b \in Memory /\ SameTurn(a, b) /\ SameGate(a, b) /\ b.state = a.state
            /\ b.error = a.error /\ b.capture = a.capture /\ b.mic = a.mic /\ b.cue = a.cue
            /\ ~b.spk
<1> DEFINE b == SpeakerOff(a)
<1>1. Rec(b)
  BY MemoryIs, Zenon DEF Rec, SpeakerOff
<1>2. Typed(b)
  BY MemoryIs DEF Rec, Typed, Fields, SpeakerOff
<1>3. /\ SameTurn(a, b) /\ SameGate(a, b) /\ b.state = a.state
      /\ b.error = a.error /\ b.capture = a.capture /\ b.mic = a.mic /\ b.cue = a.cue /\ ~b.spk
  BY MemoryIs DEF Rec, Fields, SpeakerOff, SameTurn, SameAudio, SameWorker, SameGate
<1>4. QED
  BY <1>1, <1>2, <1>3, MemoryIs

LEMMA SilencedIsCore ==
  ASSUME NEW a, NEW s, Good(a, s)
  PROVE  /\ SpeakerOff(a) \in Memory /\ Core(SpeakerOff(a), s)
         /\ a.state # "PLAYING" => Good(SpeakerOff(a), s)
<1> DEFINE b == SpeakerOff(a)
<1>1. /\ b \in Memory /\ SameTurn(a, b) /\ SameGate(a, b) /\ b.state = a.state
      /\ b.capture = a.capture /\ b.mic = a.mic /\ b.cue = a.cue /\ ~b.spk
  BY SilencedIs DEF Good
<1> HIDE DEF b
<1>2. CaptureInv(b) /\ GateInv(b) /\ (a.state # "PLAYING" => CodecInv(b))
  BY <1>1 DEF Good, Core, CaptureInv, CodecInv, GateInv, SameTurn, SameWorker, SameGate
<1>3. TurnInv(b, s)
  BY <1>1 DEF Good, Core, TurnInv, SameTurn, SameWorker
<1>4. UploadInv(b)
  BY <1>1 DEF Good, Core, UploadInv, SameTurn, SameAudio, SameWorker
<1>5. QED
  BY <1>1, <1>2, <1>3, <1>4 DEF Good, Core, b

(* The way to IDLE is legal from PLAYING only.                             *)
LEMMA ToIdleIs ==
  ASSUME NEW a, NEW s, Good(a, s), a.state \in {"PROCESSING", "PLAYING"}
  PROVE  /\ Good(ToIdle(a), s) /\ (a.error => ToIdle(a).error)
         /\ a.state = "PLAYING" => ToIdle(a).cancel = a.cancel
         /\ a.state = "PROCESSING" => ToIdle(a).state = "PROCESSING"
<1> DEFINE i == [a EXCEPT !.ignoring = TRUE]
           b == SpeakerOff(i)
           c == EnterIdle(b, FALSE)
<1>1. i \in Memory /\ Same(a, i)
  BY IgnoringIs DEF Good
<1>2. ToIdle(a) = c
  BY DEF ToIdle
<1> HIDE DEF i
<1>3. Good(i, s) /\ i.state = a.state /\ i.error = a.error /\ i.cancel = a.cancel
  BY <1>1, GoodSame DEF Same, SameTurn
<1>4. /\ b \in Memory /\ Core(b, s) /\ b.state = a.state /\ b.error = a.error
      /\ b.cancel = a.cancel /\ (a.state # "PLAYING" => Good(b, s))
  <2>1. b \in Memory /\ Core(b, s) /\ (i.state # "PLAYING" => Good(b, s))
    BY <1>3, SilencedIsCore
  <2>2. b.state = i.state /\ b.error = i.error /\ SameTurn(i, b)
    BY <1>1, SilencedIs
  <2> HIDE DEF b
  <2>3. QED
    BY <1>3, <2>1, <2>2 DEF SameTurn
<1> HIDE DEF b
<1>5. CASE a.state = "PLAYING"
  <2>1. Good(c, s) /\ Quieter(b, c)
    BY <1>4, <1>5, IdleIsGood
  <2> HIDE DEF c
  <2>2. QED
    BY <1>2, <1>4, <1>5, <2>1 DEF Quieter, SameTurn
<1>6. CASE a.state = "PROCESSING"
  <2>1. c = b
    BY <1>4, <1>6, EnterIdleIs
  <2>2. QED
    BY <1>2, <1>4, <1>6, <2>1
<1>7. QED
  BY <1>5, <1>6

LEMMA TickProcessingKeeps ==
  ASSUME IInv, TickProcessing
  PROVE  IInv' /\ Kept
<1> DEFINE a == Processed
           r == CancelRoutine(a)
           f == [r EXCEPT !.followUp = FALSE]
           o == SpeakerOn(a)
           p == [o EXCEPT !.state = "PLAYING"]
<1>1. app.state = "PROCESSING"
  BY DEF TickProcessing, At
<1>2. Ticked(IF CancelComplete(a) THEN ToIdle(f)
             ELSE IF a.storageFailed \/ a.result = "FAILED" THEN EnterError(a)
             ELSE IF a.result = "CANCELLED" THEN ToIdle(a)
             ELSE IF a.started /\ ~a.cancel /\ a.cue = "none" /\ ~FeedbackPending(a)
               THEN Enter(o, "PLAYING")
             ELSE a)
  BY DEF TickProcessing
<1>3. Good(a, nvs) /\ a.state = "PROCESSING" /\ (app.error => a.error)
  BY <1>1, ProcessedIs
<1> HIDE DEF a
<1>4. Goes(a) /\ a \in Memory
  BY <1>1, <1>3, GoesUnlessPlaying DEF Good
<1>5. Goes(EnterError(a))
  BY <1>3, <1>4, GoodFails, ErrorGoes
<1>6. Goes(ToIdle(a))
  BY <1>1, <1>3, ToIdleIs, GoesUnlessPlaying
<1>7. Goes(ToIdle(f))
  <2>1. r \in Memory /\ Quieter(a, r) /\ r.state = a.state
    BY <1>4, CancelRoutineIs
  <2> HIDE DEF r
  <2>2. Good(r, nvs)
    BY <1>3, <2>1, GoodQuieter
  <2>3. f \in Memory /\ Same(r, f)
    BY <2>1, FollowUpIs
  <2> HIDE DEF f
  <2>4. Good(f, nvs) /\ f.state = "PROCESSING" /\ (app.error => f.error)
    BY <1>3, <2>1, <2>2, <2>3, GoodSame DEF Same, Quieter
  <2> HIDE DEF Goes
  <2>5. QED
    BY <1>1, <2>4, ToIdleIs, GoesUnlessPlaying
<1>8. ASSUME a.cue = "none" PROVE Goes(Enter(o, "PLAYING"))
  <2>1. Rec(o)
    BY <1>4, MemoryIs, Zenon DEF Rec, SpeakerOn
  <2>2. Typed(o)
    BY <1>4, MemoryIs DEF Rec, Typed, Fields, SpeakerOn
  <2>3. /\ SameTurn(a, o) /\ SameGate(a, o) /\ o.state = a.state /\ o.error = a.error
        /\ o.capture = a.capture /\ o.cue = a.cue /\ o.spk /\ ~o.mic
    BY <1>4, MemoryIs DEF Rec, Fields, SpeakerOn, SameTurn, SameAudio, SameWorker, SameGate
  <2>4. Enter(o, "PLAYING") = p
    BY <1>3, <2>3 DEF Enter, Legal
  <2> HIDE DEF o
  <2>5. o \in Memory
    BY <2>1, <2>2, MemoryIs
  <2>6. Rec(p)
    BY <2>5, MemoryIs, Zenon DEF Rec
  <2>7. Typed(p)
    BY <2>5, MemoryIs DEF Rec, Typed, Fields, States
  <2>8. /\ SameTurn(o, p) /\ SameGate(o, p) /\ SameCodec(o, p) /\ p.state = "PLAYING"
        /\ p.error = o.error
    BY <2>5, MemoryIs DEF Rec, Fields, SameTurn, SameAudio, SameWorker, SameGate, SameCodec
  <2> HIDE DEF p
  <2>9. CaptureInv(p) /\ CodecInv(p)
    BY <1>3, <1>8, <2>3, <2>8 DEF Good, Core, CaptureInv, CodecInv, SameCodec
  <2>10. GateInv(p)
    BY <1>3, <2>3, <2>8 DEF Good, Core, GateInv, SameTurn, SameWorker, SameGate, SameCodec
  <2>11. TurnInv(p, nvs)
    BY <1>3, <2>3, <2>8 DEF Good, Core, TurnInv, SameTurn, SameWorker
  <2>12. UploadInv(p)
    BY <1>3, <2>3, <2>8 DEF Good, Core, UploadInv, SameTurn, SameAudio, SameWorker
  <2>13. Good(p, nvs)
    BY <2>6, <2>7, <2>9, <2>10, <2>11, <2>12, MemoryIs DEF Good, Core
  <2>14. QED
    BY <1>1, <1>3, <2>3, <2>4, <2>8, <2>13, GoesUnlessPlaying
<1> HIDE DEF f, o
<1>9. PICK b : Goes(b) /\ Ticked(b)
  BY <1>2, <1>4, <1>5, <1>6, <1>7, <1>8
<1>10. QED
  BY <1>9, TickedKeeps

-----------------------------------------------------------------------------
(* The tick in PLAYING.                                                    *)
LEMMA PolledIsGood ==
  ASSUME NEW a, NEW s, Good(a, s), finger \in BOOLEAN
  PROVE  Good(Polled(a), s) /\ Same(a, Polled(a)) /\ Polled(a) \in Memory
<1>1. Polled(a) \in Memory /\ Same(a, Polled(a))
  BY PolledIs DEF Good
<1>2. QED
  BY <1>1, GoodSame

LEMMA PlaybackErrorGoes ==
  ASSUME NEW a, Good(a, nvs), a.state # "ERROR"
  PROVE  Goes(PlaybackError(a))
<1> DEFINE c == [a EXCEPT !.cancel = TRUE]
           b == SpeakerOff(c)
<1>1. Good(c, nvs) /\ c.state = a.state
  BY CancelIsGood
<1> HIDE DEF c
<1>2. b \in Memory /\ Failing(b, nvs)
  <2>1. Failing(c, nvs)
    BY <1>1, GoodFails
  <2>2. /\ b \in Memory /\ SameTurn(c, b) /\ SameGate(c, b) /\ b.state = c.state
        /\ b.capture = c.capture /\ b.cue = c.cue
    BY <1>1, SilencedIs DEF Good
  <2> HIDE DEF b
  <2>3. QED
    BY <2>1, <2>2 DEF Failing, GateInv, SameTurn, SameAudio, SameWorker, SameGate
<1>3. PlaybackError(a) = EnterError(b)
  BY DEF PlaybackError, c
<1> HIDE DEF b
<1>4. QED
  BY <1>2, <1>3, ErrorGoes

LEMMA TickPlayingEndsKeeps ==
  ASSUME IInv, TickPlayingEnds
  PROVE  IInv' /\ Kept
<1> DEFINE a == Polled(app)
           c == [a EXCEPT !.cancel = TRUE]
           f == [c EXCEPT !.followUp = FALSE]
<1>1. /\ app.state = "PLAYING"
      /\ \/ Ticked(ToIdle(f))
         \/ Ticked(PlaybackError(a))
         \/ app.result = "CANCELLED" /\ Ticked(ToIdle(a))
  BY DEF TickPlayingEnds, At
<1>2. Good(a, nvs) /\ a.state = "PLAYING" /\ a.error = app.error /\ a.result = app.result
  BY <1>1, AppGoes, PolledIsGood DEF Same, SameTurn, SameWorker
<1> HIDE DEF a
<1>3. Goes(PlaybackError(a))
  BY <1>2, PlaybackErrorGoes
<1>4. ASSUME app.result = "CANCELLED" PROVE Goes(ToIdle(a))
  BY <1>2, <1>4, ToIdleIs DEF Goes
<1>5. Good(c, nvs) /\ c.state = "PLAYING" /\ c.error = app.error /\ c.cancel
  BY <1>2, CancelIsGood
<1> HIDE DEF c
<1>6. Good(f, nvs) /\ f.state = "PLAYING" /\ f.error = app.error /\ f.cancel
  <2>1. f \in Memory /\ Same(c, f)
    BY <1>5, FollowUpIs DEF Good
  <2> HIDE DEF f
  <2>2. QED
    BY <1>5, <2>1, GoodSame DEF Same, SameTurn
<1> HIDE DEF f
<1>7. Goes(ToIdle(f))
  BY <1>6, ToIdleIs DEF Goes
<1>8. PICK b : Goes(b) /\ Ticked(b)
  BY <1>1, <1>3, <1>4, <1>7
<1>9. QED
  BY <1>8, TickedKeeps

LEMMA PlayedIs ==
  ASSUME NEW a, Good(a, nvs), a.state = "PLAYING"
  PROVE  /\ Good(Played(a), nvs) /\ Played(a).state = "IDLE"
         /\ SameTurn(a, Played(a)) /\ (a.error => Played(a).error)
<1> DEFINE f == [a EXCEPT !.followUp = FALSE]
           b == SpeakerOff(f)
           follow == a.followUp /\ a.fresh /\ ~a.cancel /\ ~a.storageFailed
           c == EnterIdle(b, follow)
<1>1. Played(a) = c /\ follow \in BOOLEAN
  <2>1. a.followUp \in BOOLEAN
    BY MemoryIs DEF Good, Typed
  <2>2. QED
    BY <2>1 DEF Played
<1>2. Good(f, nvs) /\ f.state = "PLAYING" /\ SameTurn(a, f) /\ f.error = a.error
  <2>1. f \in Memory /\ Same(a, f)
    BY FollowUpIs DEF Good
  <2> HIDE DEF f
  <2>2. QED
    BY <2>1, GoodSame DEF Same
<1> HIDE DEF f, follow
<1>3. b \in Memory /\ Core(b, nvs) /\ b.state = "PLAYING" /\ SameTurn(f, b) /\ b.error = f.error
  BY <1>2, SilencedIs, SilencedIsCore DEF Good
<1> HIDE DEF b
<1>4. Good(c, nvs) /\ c.state = "IDLE" /\ Quieter(b, c)
  BY <1>1, <1>3, IdleIsGood
<1> HIDE DEF c
<1>5. QED
  BY <1>1, <1>2, <1>3, <1>4 DEF Quieter, SameTurn, SameAudio, SameWorker

LEMMA TickPlayKeeps ==
  ASSUME IInv, TickPlay
  PROVE  IInv' /\ Kept
<1>1. /\ app.state = "PLAYING"
      /\ app.result \in {"WAITING", "READY"} /\ ~app.storageFailed
  BY DEF TickPlay, At
<1>2. PICK taken \in 0 .. app.aud, rejected \in BOOLEAN, drained \in BOOLEAN, online \in BOOLEAN :
        LET a == [Polled(app) EXCEPT !.aud = @ - taken]
        IN Ticked(IF rejected THEN PlaybackError(a)
                  ELSE IF a.result # "READY" \/ a.aud > 0 \/ ~drained \/ a.task THEN a
                  ELSE IF a.followUp /\ a.fresh /\ ~a.cancel THEN Answer(Played(a), online)
                  ELSE Played(a))
  BY DEF TickPlay
<1> DEFINE q == Polled(app)
           a == [q EXCEPT !.aud = @ - taken]
           p == Played(a)
           c == CaptureBegin(p, FALSE)
<1>3. Good(q, nvs) /\ Same(app, q) /\ q \in Memory
  BY AppGoes, PolledIsGood
<1>4. /\ Ticked(IF rejected THEN PlaybackError(a)
                ELSE IF a.result # "READY" \/ a.aud > 0 \/ ~drained \/ a.task THEN a
                ELSE IF a.followUp /\ a.fresh /\ ~a.cancel THEN Answer(p, online)
                ELSE p)
  BY <1>2
<1> HIDE DEF q
<1>5. q.aud \in 0 .. AudioCap /\ q.aud = app.aud /\ q.aud - taken \in 0 .. AudioCap
  <2>1. q.aud \in 0 .. AudioCap /\ q.aud = app.aud
    BY <1>3, MemoryIs DEF Typed, Same, SameTurn, SameAudio
  <2>2. QED
    BY <1>2, <2>1, CapAssumption
<1>6. /\ Good(a, nvs) /\ a.state = "PLAYING" /\ a.error = app.error /\ a.result = app.result
      /\ a.storageFailed = app.storageFailed /\ a.aud \in Nat
  <2>1. Rec(a)
    BY <1>3, MemoryIs, Zenon DEF Rec
  <2>2. Typed(a)
    BY <1>3, <1>5, MemoryIs DEF Rec, Typed, Fields
  <2>3. /\ SameWorker(q, a) /\ SameGate(q, a) /\ SameCodec(q, a)
        /\ a.state = q.state /\ a.error = q.error
        /\ a.upFinished = q.upFinished /\ a.upFailed = q.upFailed /\ a.cancel = q.cancel
        /\ a.ring = q.ring /\ a.over = q.over /\ a.up = q.up /\ a.aud = q.aud - taken
    BY <1>3, MemoryIs DEF Rec, Fields, SameWorker, SameGate, SameCodec
  <2> HIDE DEF a
  <2>4. CaptureInv(a) /\ CodecInv(a) /\ GateInv(a)
    BY <1>3, <2>3 DEF Good, Core, CaptureInv, CodecInv, GateInv, SameWorker, SameGate, SameCodec
  <2>5. TurnInv(a, nvs) /\ UploadInv(a)
    BY <1>3, <2>3 DEF Good, Core, TurnInv, UploadInv, SameWorker
  <2>6. a.aud \in Nat
    BY <1>5, <2>3
  <2>7. QED
    BY <1>1, <1>3, <2>1, <2>2, <2>3, <2>4, <2>5, <2>6, MemoryIs
       DEF Good, Core, Same, SameTurn, SameWorker
<1> HIDE DEF a
<1>7. Goes(a)
  BY <1>6 DEF Goes
<1>8. Goes(PlaybackError(a))
  BY <1>6, PlaybackErrorGoes
<1>9. Good(p, nvs) /\ p.state = "IDLE" /\ SameTurn(a, p) /\ (app.error => p.error) /\ p \in Memory
  BY <1>6, PlayedIs DEF Good
<1> HIDE DEF p
<1>10. ASSUME a.result = "READY", ~(a.aud > 0)
       PROVE  app.result = "READY" /\ p.aud = 0 /\ nvs = "none"
  <2>1. p.aud = 0
    BY <1>6, <1>9, <1>10 DEF SameTurn, SameAudio
  <2>2. QED
    BY <1>1, <1>6, <1>10, <2>1 DEF Good, Core, TurnInv
<1>11. ASSUME a.result = "READY", ~(a.aud > 0) PROVE Goes(p)
  BY <1>9, <1>10, <1>11 DEF Goes
<1>12. ASSUME a.result = "READY", ~(a.aud > 0) PROVE Goes(Answer(p, online))
  <2>1. ASSUME Eligible(p, online) PROVE Goes(c)
    <3>1. ~p.task /\ p.cue = "none"
      BY <2>1 DEF Eligible
    <3>2. Good(c, nvs) /\ c.state = "IDLE" /\ (p.error => c.error) /\ SameTurn(p, c)
      BY <1>9, <3>1, CaptureIsGood, CaptureBeginIs
    <3> HIDE DEF c
    <3>3. c.aud = 0
      BY <1>10, <1>12, <3>2 DEF SameTurn, SameAudio
    <3>4. QED
      BY <1>9, <1>10, <1>12, <3>2, <3>3 DEF Goes
  <2>2. Goes(EnterError(p))
    BY <1>9, GoodFails, ErrorGoes
  <2>3. QED
    BY <2>1, <2>2 DEF Answer
<1>13. PICK b : Goes(b) /\ Ticked(b)
  BY <1>4, <1>7, <1>8, <1>11, <1>12
<1>14. QED
  BY <1>13, TickedKeeps

-----------------------------------------------------------------------------
(* The tick in ERROR, and the tail of the loop.                            *)
LEMMA TickErrorKeeps ==
  ASSUME IInv, TickError
  PROVE  IInv' /\ Kept
<1> DEFINE a == Polled(app)
           r == [a EXCEPT !.ack = IF a.held THEN "no" ELSE "ready"]
           p == [a EXCEPT !.ack = "pressed"]
           i == EnterIdle(a, FALSE)
<1>1. app.state = "ERROR"
  BY DEF TickError, At
<1>2. Ticked(r) \/ Ticked(p) \/ Ticked(i) \/ Ticked(a)
  BY DEF TickError
<1>3. Good(a, nvs) /\ a \in Memory /\ a.state = "ERROR" /\ a.error = app.error
  BY <1>1, AppGoes, PolledIsGood DEF Same
<1> HIDE DEF a
<1>4. Goes(a)
  BY <1>1, <1>3, GoesUnlessPlaying
<1>5. Rec(r) /\ Rec(p)
  BY <1>3, MemoryIs, Zenon DEF Rec
<1>6. Typed(r)
  BY <1>3, MemoryIs DEF Rec, Typed, Fields
<1>7. Typed(p)
  BY <1>3, MemoryIs DEF Rec, Typed, Fields
<1>8. Same(a, r) /\ Same(a, p)
  BY <1>3, MemoryIs DEF Rec, Fields, Same, SameTurn, SameAudio, SameWorker, SameGate, SameCodec
<1> HIDE DEF r, p
<1>9. Goes(r) /\ Goes(p)
  BY <1>4, <1>5, <1>6, <1>7, <1>8, MemoryIs, SameGoes
<1>10. Goes(i)
  <2>1. Good(i, nvs) /\ Quieter(a, i)
    BY <1>3, IdleIsGood DEF Good
  <2> HIDE DEF i
  <2>2. QED
    BY <1>1, <1>3, <2>1, GoesUnlessPlaying DEF Quieter
<1> HIDE DEF i
<1>11. QED
  BY <1>2, <1>4, <1>9, <1>10, TickedKeeps

LEMMA TailKeeps ==
  ASSUME IInv, Tail
  PROVE  IInv' /\ Kept
<1> DEFINE a == IF Quiet(app) THEN ReleaseGate(app) ELSE app
<1>1. PICK confirms \in BOOLEAN :
        app' = [a EXCEPT !.confirmed = @ \/ confirms, !.loop = "feedback"]
  BY DEF Tail
<1> DEFINE b == [a EXCEPT !.confirmed = @ \/ confirms, !.loop = "feedback"]
<1>2. finger' = finger /\ nvs' = nvs /\ app' = b
  BY <1>1 DEF Tail
<1>3. Good(a, nvs) /\ a \in Memory /\ a.state = app.state /\ a.error = app.error
  <2> DEFINE r == ReleaseGate(app)
  <2>1. /\ r \in Memory /\ SameTurn(app, r) /\ SameCodec(app, r)
        /\ r.state = app.state /\ r.error = app.error
        /\ SameGate(app, r) \/ (~r.owned /\ r.activity = "idle")
    BY AppGoes, ReleaseGateIs
  <2> HIDE DEF r
  <2>2. CaptureInv(r) /\ CodecInv(r)
    BY <2>1 DEF IInv, Good, Core, CaptureInv, CodecInv, SameTurn, SameWorker, SameCodec
  <2>3. ASSUME Quiet(app) PROVE GateInv(r)
    BY <2>1, <2>3 DEF IInv, Good, Core, GateInv, Quiet, SameTurn, SameWorker, SameGate, SameCodec
  <2>4. TurnInv(r, nvs)
    BY <2>1 DEF IInv, Good, Core, TurnInv, SameTurn, SameWorker
  <2>5. UploadInv(r)
    BY <2>1 DEF IInv, Good, Core, UploadInv, SameTurn, SameAudio, SameWorker
  <2>6. Quiet(app) => Good(r, nvs)
    BY <2>1, <2>2, <2>3, <2>4, <2>5 DEF Good, Core
  <2>7. QED
    BY <2>1, <2>6, AppGoes DEF r
<1> HIDE DEF a
<1>4. Rec(b)
  BY <1>3, MemoryIs, Zenon DEF Rec
<1>5. Typed(b)
  BY <1>3, MemoryIs DEF Rec, Typed, Fields
<1>6. Same(a, b)
  BY <1>3, MemoryIs DEF Rec, Fields, Same, SameTurn, SameAudio, SameWorker, SameGate, SameCodec
<1> HIDE DEF b
<1>7. Good(b, nvs)
  BY <1>3, <1>4, <1>5, <1>6, MemoryIs, GoodSame
<1>8. Good(app, nvs)'
  BY <1>2, <1>7
<1>9. QED
  BY <1>2, <1>3, <1>6, <1>8 DEF IInv, Kept, Forgotten, ErrorKept, Same

-----------------------------------------------------------------------------
(* The worker never touches the codec, the gate and the state machine.     *)
SameMain(a, b) ==
  /\ SameGate(a, b) /\ SameCodec(a, b) /\ b.state = a.state /\ b.error = a.error
  /\ b.upFinished = a.upFinished /\ b.ring = a.ring /\ b.over = a.over

LEMMA WorkKeeps ==
  ASSUME IInv, NEW b \in Memory, NEW s \in {"none", "req", "turn"},
         app' = b, nvs' = s, finger' = finger,
         SameMain(app, b), b.task => app.task, TurnInv(b, s), UploadInv(b)
  PROVE  IInv' /\ Kept
<1>1. CaptureInv(b) /\ CodecInv(b) /\ GateInv(b)
  BY DEF IInv, Good, Core, CaptureInv, CodecInv, GateInv, SameMain, SameGate, SameCodec
<1>2. Good(b, s)
  BY <1>1 DEF Good, Core
<1>3. Good(app, nvs)'
  BY <1>2
<1>4. Kept
  BY DEF SameMain, Kept, Forgotten, ErrorKept
<1>5. QED
  BY <1>3, <1>4 DEF IInv

LEMMA UploadOpenKeeps ==
  ASSUME IInv, UploadOpen
  PROVE  IInv' /\ Kept
<1> DEFINE b == [app EXCEPT !.pc = "upload"]
           s == nvs
<1>1. /\ app.pc = "open"
      /\ app' = b /\ nvs' = s /\ finger' = finger
  BY DEF UploadOpen, Work
<1>2. Rec(b)
  BY AppGoes, MemoryIs, Zenon DEF Rec
<1>3. Typed(b)
  BY AppGoes, MemoryIs DEF Rec, Typed, Fields
<1>4. /\ SameMain(app, b)
      /\ b.task = app.task /\ b.pc = "upload" /\ b.result = app.result
      /\ b.storageFailed = app.storageFailed /\ b.upFailed = app.upFailed /\ b.up = app.up
  BY AppGoes, MemoryIs DEF Rec, Fields, SameMain, SameGate, SameCodec
<1>5. s \in {"none", "req", "turn"}
  BY DEF IInv
<1>6. app.task
  BY <1>1 DEF IInv, Good, Core, TurnInv
<1> HIDE DEF b
<1>7. TurnInv(b, s)
  BY <1>1, <1>4, <1>6 DEF IInv, Good, Core, TurnInv, SameMain
<1>8. UploadInv(b)
  BY <1>1, <1>4 DEF IInv, Good, Core, UploadInv, SameMain
<1> HIDE DEF s
<1>9. QED
  BY <1>1, <1>2, <1>3, <1>4, <1>5, <1>6, <1>7, <1>8, MemoryIs, WorkKeeps

LEMMA UploadSendKeeps ==
  ASSUME IInv, UploadSend
  PROVE  IInv' /\ Kept
<1> DEFINE b == [app EXCEPT !.up = @ - 1]
           s == nvs
<1>1. /\ app.pc = "upload" /\ app.up > 0
      /\ app' = b /\ nvs' = s /\ finger' = finger
  BY DEF UploadSend, Work
<1>2. Rec(b)
  BY AppGoes, MemoryIs, Zenon DEF Rec
<1>3. Typed(b)
  BY <1>1, AppGoes, MemoryIs, CapAssumption DEF Rec, Typed, Fields
<1>4. /\ SameMain(app, b)
      /\ b.task = app.task /\ b.pc = app.pc /\ b.result = app.result
      /\ b.storageFailed = app.storageFailed /\ b.upFailed = app.upFailed /\ b.up = app.up - 1
  BY AppGoes, MemoryIs DEF Rec, Fields, SameMain, SameGate, SameCodec
<1>5. s \in {"none", "req", "turn"}
  BY DEF IInv
<1>6. app.task
  BY <1>1 DEF IInv, Good, Core, TurnInv
<1> HIDE DEF b
<1>7. TurnInv(b, s)
  BY <1>1, <1>4, <1>6 DEF IInv, Good, Core, TurnInv, SameMain
<1>8. UploadInv(b)
  BY <1>1, <1>4 DEF IInv, Good, Core, UploadInv, SameMain
<1> HIDE DEF s
<1>9. QED
  BY <1>1, <1>2, <1>3, <1>4, <1>5, <1>6, <1>7, <1>8, MemoryIs, WorkKeeps

(* The body is ended when its end was announced and nothing is left of it. *)
LEMMA UploadCloseKeeps ==
  ASSUME IInv, UploadClose
  PROVE  IInv' /\ Kept
<1> DEFINE b == [app EXCEPT !.pc = "closing"]
           s == nvs
<1>1. /\ app.pc = "upload" /\ app.upFinished /\ app.up = 0 /\ ~app.upFailed
      /\ app' = b /\ nvs' = s /\ finger' = finger
  BY DEF UploadClose, Work, UploadEnds
<1>2. Rec(b)
  BY AppGoes, MemoryIs, Zenon DEF Rec
<1>3. Typed(b)
  BY AppGoes, MemoryIs DEF Rec, Typed, Fields
<1>4. /\ SameMain(app, b)
      /\ b.task = app.task /\ b.pc = "closing" /\ b.result = app.result
      /\ b.storageFailed = app.storageFailed /\ b.upFailed = app.upFailed /\ b.up = app.up
  BY AppGoes, MemoryIs DEF Rec, Fields, SameMain, SameGate, SameCodec
<1>5. s \in {"none", "req", "turn"}
  BY DEF IInv
<1>6. app.task
  BY <1>1 DEF IInv, Good, Core, TurnInv
<1> HIDE DEF b
<1>7. TurnInv(b, s)
  BY <1>1, <1>4, <1>6 DEF IInv, Good, Core, TurnInv, SameMain
<1>8. UploadInv(b)
  BY <1>1, <1>4 DEF IInv, Good, Core, UploadInv, SameMain
<1> HIDE DEF s
<1>9. QED
  BY <1>1, <1>2, <1>3, <1>4, <1>5, <1>6, <1>7, <1>8, MemoryIs, WorkKeeps

LEMMA UploadFailsKeeps ==
  ASSUME IInv, UploadFails
  PROVE  IInv' /\ Kept
<1> DEFINE b == [app EXCEPT !.upFailed = TRUE, !.result = "FAILED", !.pc = "exit"]
           s == nvs
<1>1. /\ app.pc \in {"open", "upload", "closing"}
      /\ app' = b /\ nvs' = s /\ finger' = finger
  BY DEF UploadFails, Work
<1>2. Rec(b)
  BY AppGoes, MemoryIs, Zenon DEF Rec
<1>3. Typed(b)
  BY AppGoes, MemoryIs DEF Rec, Typed, Fields
<1>4. /\ SameMain(app, b)
      /\ b.task = app.task /\ b.pc = "exit" /\ b.result = "FAILED"
      /\ b.storageFailed = app.storageFailed /\ b.upFailed /\ b.up = app.up
  BY AppGoes, MemoryIs DEF Rec, Fields, SameMain, SameGate, SameCodec
<1>5. s \in {"none", "req", "turn"}
  BY DEF IInv
<1>6. app.task
  BY <1>1 DEF IInv, Good, Core, TurnInv
<1> HIDE DEF b
<1>7. TurnInv(b, s)
  BY <1>1, <1>4, <1>6 DEF IInv, Good, Core, TurnInv, SameMain
<1>8. UploadInv(b)
  BY <1>1, <1>4 DEF IInv, Good, Core, UploadInv, SameMain
<1> HIDE DEF s
<1>9. QED
  BY <1>1, <1>2, <1>3, <1>4, <1>5, <1>6, <1>7, <1>8, MemoryIs, WorkKeeps

LEMMA UploadAcceptedKeeps ==
  ASSUME IInv, UploadAccepted
  PROVE  IInv' /\ Kept
<1>0. PICK saved \in BOOLEAN :
         /\ Work("closing", [app EXCEPT !.turnId = TRUE, !.storageFailed = @ \/ ~saved,
                                        !.pc = "client"])
                                /\ nvs' = IF saved THEN "turn" ELSE nvs
  BY DEF UploadAccepted
<1> DEFINE b == [app EXCEPT !.turnId = TRUE, !.storageFailed = @ \/ ~saved, !.pc = "client"]
           s == IF saved THEN "turn" ELSE nvs
<1>1. /\ app.pc = "closing"
      /\ app' = b /\ nvs' = s /\ finger' = finger
  BY <1>0 DEF UploadAccepted, Work
<1>2. Rec(b)
  BY AppGoes, MemoryIs, Zenon DEF Rec
<1>3. Typed(b)
  BY AppGoes, MemoryIs DEF Rec, Typed, Fields
<1>4. /\ SameMain(app, b)
      /\ b.task = app.task /\ b.pc = "client" /\ b.result = app.result
      /\ b.storageFailed = (app.storageFailed \/ ~saved) /\ b.upFailed = app.upFailed
      /\ b.up = app.up
  BY AppGoes, MemoryIs DEF Rec, Fields, SameMain, SameGate, SameCodec
<1>5. s \in {"none", "req", "turn"}
  BY DEF IInv
<1>6. app.task
  BY <1>1 DEF IInv, Good, Core, TurnInv
<1> HIDE DEF b
<1>7. TurnInv(b, s)
  BY <1>1, <1>4, <1>6 DEF IInv, Good, Core, TurnInv, SameMain
<1>8. UploadInv(b)
  BY <1>1, <1>4 DEF IInv, Good, Core, UploadInv, SameMain
<1> HIDE DEF s
<1>9. QED
  BY <1>1, <1>2, <1>3, <1>4, <1>5, <1>6, <1>7, <1>8, MemoryIs, WorkKeeps

LEMMA ClientPollKeeps ==
  ASSUME IInv, ClientPoll
  PROVE  IInv' /\ Kept
<1> DEFINE b == [app EXCEPT !.pc = "poll"]
           s == nvs
<1>1. /\ app.pc = "client"
      /\ app' = b /\ nvs' = s /\ finger' = finger
  BY DEF ClientPoll, Work
<1>2. Rec(b)
  BY AppGoes, MemoryIs, Zenon DEF Rec
<1>3. Typed(b)
  BY AppGoes, MemoryIs DEF Rec, Typed, Fields
<1>4. /\ SameMain(app, b)
      /\ b.task = app.task /\ b.pc = "poll" /\ b.result = app.result
      /\ b.storageFailed = app.storageFailed /\ b.upFailed = app.upFailed /\ b.up = app.up
  BY AppGoes, MemoryIs DEF Rec, Fields, SameMain, SameGate, SameCodec
<1>5. s \in {"none", "req", "turn"}
  BY DEF IInv
<1>6. app.task
  BY <1>1 DEF IInv, Good, Core, TurnInv
<1> HIDE DEF b
<1>7. TurnInv(b, s)
  BY <1>1, <1>4, <1>6 DEF IInv, Good, Core, TurnInv, SameMain
<1>8. UploadInv(b)
  BY <1>1, <1>4 DEF IInv, Good, Core, UploadInv, SameMain
<1> HIDE DEF s
<1>9. QED
  BY <1>1, <1>2, <1>3, <1>4, <1>5, <1>6, <1>7, <1>8, MemoryIs, WorkKeeps

LEMMA ClientWaitsKeeps ==
  ASSUME IInv, ClientWaits
  PROVE  IInv' /\ Kept
<1> DEFINE b == [app EXCEPT !.pc = "client"]
           s == nvs
<1>1. /\ app.pc = "poll"
      /\ app' = b /\ nvs' = s /\ finger' = finger
  BY DEF ClientWaits, Work
<1>2. Rec(b)
  BY AppGoes, MemoryIs, Zenon DEF Rec
<1>3. Typed(b)
  BY AppGoes, MemoryIs DEF Rec, Typed, Fields
<1>4. /\ SameMain(app, b)
      /\ b.task = app.task /\ b.pc = "client" /\ b.result = app.result
      /\ b.storageFailed = app.storageFailed /\ b.upFailed = app.upFailed /\ b.up = app.up
  BY AppGoes, MemoryIs DEF Rec, Fields, SameMain, SameGate, SameCodec
<1>5. s \in {"none", "req", "turn"}
  BY DEF IInv
<1>6. app.task
  BY <1>1 DEF IInv, Good, Core, TurnInv
<1> HIDE DEF b
<1>7. TurnInv(b, s)
  BY <1>1, <1>4, <1>6 DEF IInv, Good, Core, TurnInv, SameMain
<1>8. UploadInv(b)
  BY <1>1, <1>4 DEF IInv, Good, Core, UploadInv, SameMain
<1> HIDE DEF s
<1>9. QED
  BY <1>1, <1>2, <1>3, <1>4, <1>5, <1>6, <1>7, <1>8, MemoryIs, WorkKeeps

LEMMA ClientDownloadKeeps ==
  ASSUME IInv, ClientDownload
  PROVE  IInv' /\ Kept
<1>0. PICK early \in BOOLEAN, follow \in BOOLEAN :
         Work("poll", [app EXCEPT !.early = early, !.followUp = ~early /\ follow,
                                  !.pc = "download"])
  BY DEF ClientDownload
<1> DEFINE b == [app EXCEPT !.early = early, !.followUp = ~early /\ follow, !.pc = "download"]
           s == nvs
<1>1. /\ app.pc = "poll"
      /\ app' = b /\ nvs' = s /\ finger' = finger
  BY <1>0 DEF ClientDownload, Work
<1>2. Rec(b)
  BY AppGoes, MemoryIs, Zenon DEF Rec
<1>3. Typed(b)
  BY AppGoes, MemoryIs DEF Rec, Typed, Fields
<1>4. /\ SameMain(app, b)
      /\ b.task = app.task /\ b.pc = "download" /\ b.result = app.result
      /\ b.storageFailed = app.storageFailed /\ b.upFailed = app.upFailed /\ b.up = app.up
  BY AppGoes, MemoryIs DEF Rec, Fields, SameMain, SameGate, SameCodec
<1>5. s \in {"none", "req", "turn"}
  BY DEF IInv
<1>6. app.task
  BY <1>1 DEF IInv, Good, Core, TurnInv
<1> HIDE DEF b
<1>7. TurnInv(b, s)
  BY <1>1, <1>4, <1>6 DEF IInv, Good, Core, TurnInv, SameMain
<1>8. UploadInv(b)
  BY <1>1, <1>4 DEF IInv, Good, Core, UploadInv, SameMain
<1> HIDE DEF s
<1>9. QED
  BY <1>1, <1>2, <1>3, <1>4, <1>5, <1>6, <1>7, <1>8, MemoryIs, WorkKeeps

LEMMA DownloadChunkKeeps ==
  ASSUME IInv, DownloadChunk
  PROVE  IInv' /\ Kept
<1> DEFINE b == [app EXCEPT !.aud = @ + 1, !.started = TRUE]
           s == nvs
<1>1. /\ app.pc = "download" /\ app.aud < AudioCap
      /\ app' = b /\ nvs' = s /\ finger' = finger
  BY DEF DownloadChunk, Work
<1>2. Rec(b)
  BY AppGoes, MemoryIs, Zenon DEF Rec
<1>3. Typed(b)
  BY <1>1, AppGoes, MemoryIs, CapAssumption DEF Rec, Typed, Fields
<1>4. /\ SameMain(app, b)
      /\ b.task = app.task /\ b.pc = app.pc /\ b.result = app.result
      /\ b.storageFailed = app.storageFailed /\ b.upFailed = app.upFailed /\ b.up = app.up
  BY AppGoes, MemoryIs DEF Rec, Fields, SameMain, SameGate, SameCodec
<1>5. s \in {"none", "req", "turn"}
  BY DEF IInv
<1>6. app.task
  BY <1>1 DEF IInv, Good, Core, TurnInv
<1> HIDE DEF b
<1>7. TurnInv(b, s)
  BY <1>1, <1>4, <1>6 DEF IInv, Good, Core, TurnInv, SameMain
<1>8. UploadInv(b)
  BY <1>1, <1>4 DEF IInv, Good, Core, UploadInv, SameMain
<1> HIDE DEF s
<1>9. QED
  BY <1>1, <1>2, <1>3, <1>4, <1>5, <1>6, <1>7, <1>8, MemoryIs, WorkKeeps

LEMMA DownloadAgainKeeps ==
  ASSUME IInv, DownloadAgain
  PROVE  IInv' /\ Kept
<1> DEFINE b == [app EXCEPT !.pc = "client"]
           s == nvs
<1>1. /\ app.pc = "download"
      /\ app' = b /\ nvs' = s /\ finger' = finger
  BY DEF DownloadAgain, Work
<1>2. Rec(b)
  BY AppGoes, MemoryIs, Zenon DEF Rec
<1>3. Typed(b)
  BY AppGoes, MemoryIs DEF Rec, Typed, Fields
<1>4. /\ SameMain(app, b)
      /\ b.task = app.task /\ b.pc = "client" /\ b.result = app.result
      /\ b.storageFailed = app.storageFailed /\ b.upFailed = app.upFailed /\ b.up = app.up
  BY AppGoes, MemoryIs DEF Rec, Fields, SameMain, SameGate, SameCodec
<1>5. s \in {"none", "req", "turn"}
  BY DEF IInv
<1>6. app.task
  BY <1>1 DEF IInv, Good, Core, TurnInv
<1> HIDE DEF b
<1>7. TurnInv(b, s)
  BY <1>1, <1>4, <1>6 DEF IInv, Good, Core, TurnInv, SameMain
<1>8. UploadInv(b)
  BY <1>1, <1>4 DEF IInv, Good, Core, UploadInv, SameMain
<1> HIDE DEF s
<1>9. QED
  BY <1>1, <1>2, <1>3, <1>4, <1>5, <1>6, <1>7, <1>8, MemoryIs, WorkKeeps

LEMMA WorkerExitsKeeps ==
  ASSUME IInv, WorkerExits
  PROVE  IInv' /\ Kept
<1> DEFINE b == [app EXCEPT !.task = FALSE, !.pc = "off"]
<1>1. app.pc = "exit" /\ app' = b /\ nvs' = nvs /\ finger' = finger
  BY DEF WorkerExits, Work
<1>2. Rec(b)
  BY AppGoes, MemoryIs, Zenon DEF Rec
<1>3. Typed(b)
  BY AppGoes, MemoryIs DEF Rec, Typed, Fields
<1>4. /\ SameMain(app, b)
      /\ ~b.task /\ b.pc = "off" /\ b.result = app.result
      /\ b.storageFailed = app.storageFailed /\ b.upFailed = app.upFailed /\ b.up = app.up
  BY AppGoes, MemoryIs DEF Rec, Fields, SameMain, SameGate, SameCodec
<1> HIDE DEF b
<1>5. TurnInv(b, nvs)
  BY <1>1, <1>4 DEF IInv, Good, Core, TurnInv, SameMain
<1>6. UploadInv(b)
  BY <1>1, <1>4 DEF IInv, Good, Core, UploadInv, SameMain
<1>7. b \in Memory /\ nvs \in {"none", "req", "turn"}
  BY <1>2, <1>3, MemoryIs DEF IInv
<1>8. QED
  BY <1>1, <1>4, <1>5, <1>6, <1>7, WorkKeeps

(* A turn ends with a result other than WAITING; READY, and the ids in     *)
(* flash cleared, or storageFailed raised.                                 *)
LEMMA FinishKeeps ==
  ASSUME IInv, NEW a \in Memory, SameMain(app, a), app.pc \in {"client", "poll", "download"},
         NEW result \in {"READY", "FAILED", "CANCELLED"}, Finish(app.pc, a, result),
         a.task = app.task
  PROVE  IInv' /\ Kept
<1>1. PICK saved \in BOOLEAN :
        /\ Work(app.pc, [a EXCEPT !.req = FALSE, !.turnId = FALSE, !.storageFailed = @ \/ ~saved,
                                  !.result = result, !.pc = "exit"])
        /\ nvs' = IF saved THEN "none" ELSE nvs
  BY DEF Finish
<1> DEFINE b == [a EXCEPT !.req = FALSE, !.turnId = FALSE, !.storageFailed = @ \/ ~saved,
                          !.result = result, !.pc = "exit"]
           s == IF saved THEN "none" ELSE nvs
<1>2. app' = b /\ nvs' = s /\ finger' = finger
  BY <1>1 DEF Work
<1>3. Rec(b)
  BY MemoryIs, Zenon DEF Rec
<1>4. Typed(b)
  BY MemoryIs DEF Rec, Typed, Fields
<1>5. /\ SameMain(a, b) /\ b.task = a.task /\ b.pc = "exit" /\ b.result = result
      /\ b.storageFailed = (a.storageFailed \/ ~saved) /\ ~b.req
  BY MemoryIs DEF Rec, Fields, SameMain, SameGate, SameCodec
<1>6. s \in {"none", "req", "turn"} /\ (~b.storageFailed => s = "none")
  BY <1>5 DEF IInv
<1> HIDE DEF b, s
<1>7. SameMain(app, b)
  BY <1>5 DEF SameMain, SameGate, SameCodec
<1>8. app.task /\ app.state \notin {"BOOT", "RECORDING"}
  BY DEF IInv, Good, Core, TurnInv
<1>9. TurnInv(b, s)
  BY <1>5, <1>6, <1>7, <1>8 DEF TurnInv, SameMain
<1>10. UploadInv(b)
  BY <1>5, <1>7 DEF IInv, Good, Core, UploadInv, SameMain
<1>11. QED
  BY <1>2, <1>3, <1>4, <1>6, <1>7, <1>8, <1>9, <1>10, MemoryIs, WorkKeeps

LEMMA SameMainSelf == SameMain(app, app)
BY DEF SameMain, SameGate, SameCodec

LEMMA FinishesKeep ==
  ASSUME IInv, \/ ClientCancel \/ ClientFails \/ ClientCancelled \/ DownloadFails
  PROVE  IInv' /\ Kept
<1>1. PICK result \in {"READY", "FAILED", "CANCELLED"} :
        Finish(app.pc, app, result) /\ app.pc \in {"client", "poll", "download"}
  BY DEF ClientCancel, ClientFails, ClientCancelled, DownloadFails, Finish, Work
<1>2. QED
  BY <1>1, AppGoes, SameMainSelf, FinishKeeps

LEMMA ClientReadyKeeps ==
  ASSUME IInv, ClientReady
  PROVE  IInv' /\ Kept
<1>1. PICK follow \in BOOLEAN : Finish("poll", [app EXCEPT !.followUp = follow], "READY")
  BY DEF ClientReady
<1> DEFINE a == [app EXCEPT !.followUp = follow]
<1>2. app.pc = "poll" /\ Finish(app.pc, a, "READY")
  BY <1>1 DEF Finish, Work
<1>3. a \in Memory /\ Same(app, a)
  BY AppGoes, FollowUpIs
<1> HIDE DEF a
<1>4. SameMain(app, a) /\ a.task = app.task
  BY <1>3 DEF SameMain, Same, SameTurn, SameAudio, SameWorker
<1>5. QED
  BY <1>2, <1>3, <1>4, FinishKeeps

LEMMA ClientLookupKeeps ==
  ASSUME IInv, ClientLookup
  PROVE  IInv' /\ Kept
<1> DEFINE b == [app EXCEPT !.turnId = TRUE, !.pc = "client"]
           a == [app EXCEPT !.storageFailed = TRUE]
<1>1. /\ app.pc = "poll"
      /\ \/ app' = b /\ nvs' = "turn" /\ finger' = finger
         \/ Finish(app.pc, a, "FAILED")
  BY DEF ClientLookup, Work, Finish
<1>2. Rec(a) /\ Rec(b)
  BY AppGoes, MemoryIs, Zenon DEF Rec
<1>3. Typed(a)
  BY AppGoes, MemoryIs DEF Rec, Typed, Fields
<1>4. Typed(b)
  BY AppGoes, MemoryIs DEF Rec, Typed, Fields
<1>5. SameMain(app, a) /\ a.task = app.task
  BY AppGoes, MemoryIs DEF Rec, Fields, SameMain, SameGate, SameCodec
<1>6. /\ SameMain(app, b) /\ b.task = app.task /\ b.pc = "client" /\ b.result = app.result
      /\ b.storageFailed = app.storageFailed
  BY AppGoes, MemoryIs DEF Rec, Fields, SameMain, SameGate, SameCodec
<1> HIDE DEF a, b
<1>7. CASE Finish(app.pc, a, "FAILED")
  BY <1>1, <1>2, <1>3, <1>5, <1>7, MemoryIs, FinishKeeps
<1>8. CASE app' = b /\ nvs' = "turn" /\ finger' = finger
  <2>1. TurnInv(b, "turn")
    BY <1>1, <1>6 DEF IInv, Good, Core, TurnInv, SameMain
  <2>2. UploadInv(b)
    BY <1>6 DEF IInv, Good, Core, UploadInv, SameMain
  <2>3. QED
    BY <1>2, <1>4, <1>6, <1>8, <2>1, <2>2, MemoryIs, WorkKeeps
<1>9. QED
  BY <1>1, <1>7, <1>8

LEMMA DownloadDoneKeeps ==
  ASSUME IInv, DownloadDone
  PROVE  IInv' /\ Kept
<1> DEFINE b == [app EXCEPT !.downloaded = TRUE, !.pc = "client"]
<1>1. /\ app.pc = "download"
      /\ \/ app' = b /\ nvs' = nvs /\ finger' = finger
         \/ Finish(app.pc, app, "READY")
  BY DEF DownloadDone, Work, Finish
<1>2. Rec(b)
  BY AppGoes, MemoryIs, Zenon DEF Rec
<1>3. Typed(b)
  BY AppGoes, MemoryIs DEF Rec, Typed, Fields
<1>4. /\ SameMain(app, b) /\ b.task = app.task /\ b.pc = "client" /\ b.result = app.result
      /\ b.storageFailed = app.storageFailed
  BY AppGoes, MemoryIs DEF Rec, Fields, SameMain, SameGate, SameCodec
<1> HIDE DEF b
<1>5. CASE Finish(app.pc, app, "READY")
  BY <1>1, <1>5, AppGoes, SameMainSelf, FinishKeeps
<1>6. CASE app' = b /\ nvs' = nvs /\ finger' = finger
  <2>1. TurnInv(b, nvs)
    BY <1>1, <1>4 DEF IInv, Good, Core, TurnInv, SameMain
  <2>2. UploadInv(b)
    BY <1>4 DEF IInv, Good, Core, UploadInv, SameMain
  <2>3. b \in Memory /\ nvs \in {"none", "req", "turn"}
    BY <1>2, <1>3, MemoryIs DEF IInv
  <2>4. QED
    BY <1>4, <1>6, <2>1, <2>2, <2>3, WorkKeeps
<1>7. QED
  BY <1>1, <1>5, <1>6

-----------------------------------------------------------------------------
(* The surroundings.                                                       *)
LEMMA BootIs ==
  ASSUME NEW s \in {"none", "req", "turn"}
  PROVE  Good(Boot(s), s) /\ Boot(s).state = "BOOT"
<1>1. Rec(Boot(s))
  BY DEF Rec, Fields, Boot
<1>2. Typed(Boot(s))
  BY CapAssumption DEF Typed, Boot, States
<1>3. Boot(s).state = "BOOT"
  BY DEF Boot
<1>4. CaptureInv(Boot(s)) /\ CodecInv(Boot(s)) /\ GateInv(Boot(s))
  BY DEF Boot, CaptureInv, CodecInv, GateInv
<1>5. TurnInv(Boot(s), s) /\ UploadInv(Boot(s))
  BY DEF Boot, TurnInv, UploadInv
<1>6. QED
  BY <1>1, <1>2, <1>3, <1>4, <1>5, MemoryIs DEF Good, Core

LEMMA InitInv ==
  ASSUME Init
  PROVE  IInv
<1>1. Good(Boot("none"), "none")
  BY BootIs
<1>2. QED
  BY <1>1 DEF Init, IInv

LEMMA RebootKeeps ==
  ASSUME IInv, Reboot
  PROVE  IInv' /\ Kept
<1> DEFINE b == Boot(nvs)
<1>1. app' = b /\ nvs' = nvs /\ finger' = finger
  BY DEF Reboot
<1>2. Good(b, nvs) /\ b.state = "BOOT"
  BY BootIs DEF IInv
<1> HIDE DEF b
<1>3. Good(app, nvs)'
  BY <1>1, <1>2
<1>4. QED
  BY <1>1, <1>2, <1>3 DEF IInv, Kept, Forgotten, ErrorKept

(* OTA and flash storage take only a gate that nobody has.                 *)
LEMMA GateKeeps ==
  ASSUME IInv, GateClaim \/ GateReturn
  PROVE  IInv' /\ Kept
<1>1. PICK who \in {"idle", "ota", "storage"} :
        /\ app' = [app EXCEPT !.activity = who] /\ app.activity # "voice"
        /\ finger' = finger /\ nvs' = nvs
  BY DEF GateClaim, GateReturn
<1> DEFINE b == [app EXCEPT !.activity = who]
<1>2. Rec(b)
  BY AppGoes, MemoryIs, Zenon DEF Rec
<1>3. Typed(b)
  BY AppGoes, MemoryIs DEF Rec, Typed, Fields
<1>4. /\ SameTurn(app, b) /\ SameCodec(app, b) /\ b.state = app.state /\ b.error = app.error
      /\ b.owned = app.owned /\ b.activity = who
  BY AppGoes, MemoryIs DEF Rec, Fields, SameTurn, SameAudio, SameWorker, SameCodec
<1>5. app' = b
  BY <1>1
<1> HIDE DEF b
<1>6. CaptureInv(b) /\ CodecInv(b)
  BY <1>4 DEF IInv, Good, Core, CaptureInv, CodecInv, SameTurn, SameWorker, SameCodec
<1>7. GateInv(b)
  BY <1>1, <1>4 DEF IInv, Good, Core, GateInv, SameTurn, SameWorker, SameCodec
<1>8. TurnInv(b, nvs)
  BY <1>4 DEF IInv, Good, Core, TurnInv, SameTurn, SameWorker
<1>9. UploadInv(b)
  BY <1>4 DEF IInv, Good, Core, UploadInv, SameTurn, SameAudio, SameWorker
<1>10. Good(b, nvs)
  BY <1>2, <1>3, <1>6, <1>7, <1>8, <1>9, MemoryIs DEF Good, Core
<1>11. Good(app, nvs)'
  BY <1>1, <1>5, <1>10
<1>12. QED
  BY <1>1, <1>4, <1>5, <1>11 DEF IInv, Kept, Forgotten, ErrorKept

LEMMA RestKeeps ==
  ASSUME IInv, Finger \/ UNCHANGED vars
  PROVE  IInv' /\ Kept
<1>1. app' = app /\ nvs' = nvs /\ finger' \in BOOLEAN
  BY DEF IInv, Finger, vars
<1>2. Good(app, nvs)'
  BY <1>1 DEF IInv
<1>3. QED
  BY <1>1, <1>2 DEF IInv, Kept, Forgotten, ErrorKept

-----------------------------------------------------------------------------
LEMMA TickKeeps ==
  ASSUME IInv, Tick
  PROVE  IInv' /\ Kept
BY TickBootKeeps, TickIgnoreKeeps, TickDeferKeeps, TickIdleFeedbackKeeps, TickMonitorKeeps,
   TickPressKeeps, TickCaptureCancelKeeps, TickCaptureFailsKeeps, TickCueKeeps, TickWaitKeeps,
   TickSpeechKeeps, TickOverflowKeeps, TickUploadLostKeeps, TickRecordKeeps, TickProcessingKeeps,
   TickPlayingEndsKeeps, TickPlayKeeps, TickErrorKeeps
   DEF Tick

LEMMA WorkerKeeps ==
  ASSUME IInv, Worker
  PROVE  IInv' /\ Kept
BY UploadOpenKeeps, UploadSendKeeps, UploadCloseKeeps, UploadFailsKeeps, UploadAcceptedKeeps,
   ClientPollKeeps, ClientWaitsKeeps, ClientLookupKeeps, ClientDownloadKeeps, ClientReadyKeeps,
   DownloadChunkKeeps, DownloadDoneKeeps, DownloadAgainKeeps, WorkerExitsKeeps, FinishesKeep
   DEF Worker

LEMMA NextKeeps ==
  ASSUME IInv, [Next]_vars
  PROVE  IInv' /\ Kept
BY FeedbackKeeps, TickKeeps, TailKeeps, WorkerKeeps, GateKeeps, RebootKeeps, RestKeeps
   DEF Next, MainLoop

(* The inductive invariant holds in every reachable state.                 *)
THEOREM Invariance == Spec => []IInv
<1>1. IInv /\ [Next]_vars => IInv'
  BY NextKeeps
<1>2. QED
  BY InitInv, <1>1, PTL DEF Spec

(* The memory keeps its type; a turn that is worked on is in flash, has    *)
(* one worker, and its worker does not end without a result.               *)
THEOREM WorkerSound == Spec => []WorkerIsSound
<1>1. IInv => TypeOK
  BY DEF IInv, Good, TypeOK
<1>2. IInv => LiveTurnIsSaved
  BY DEF IInv, Good, Core, TurnInv, LiveTurnIsSaved
<1>3. IInv => NoSilentWorkerDeath
  BY DEF IInv, Good, Core, TurnInv, NoSilentWorkerDeath
<1>4. IInv => OneTurnAtATime
  BY DEF IInv, Good, Core, CaptureInv, TurnInv, OneTurnAtATime
<1>5. IInv => WorkerIsSound
  BY <1>1, <1>2, <1>3, <1>4 DEF WorkerIsSound
<1>6. QED
  BY <1>5, Invariance, PTL

(* In RECORDING the microphone hears and no cue plays; in PLAYING the      *)
(* speaker is on.                                                          *)
THEOREM Hears == Spec => []RecordingHears
<1>1. IInv => RecordingHears
  BY DEF IInv, Good, CodecInv, RecordingHears
<1>2. QED
  BY <1>1, Invariance, PTL

(* No turn, capture or cue is alive without the gate: neither OTA nor the  *)
(* cue cache's flash writes can cut it.                                    *)
THEOREM GateIsHeld == Spec => []GateHeld
<1>1. IInv => GateHeld
  BY DEF IInv, Good, Core, GateInv, GateHeld
<1>2. QED
  BY <1>1, Invariance, PTL

(* The body of an upload is ended only when all captured audio is in it.   *)
THEOREM UploadWhole == Spec => []UploadIsWhole
<1>1. IInv => UploadIsWhole
  BY DEF IInv, Good, Core, UploadInv, UploadIsWhole
<1>2. QED
  BY <1>1, Invariance, PTL

(* A reply that ended by itself was ready, heard to the end and its ids    *)
(* are cleared; an error waits until its signal starts.                    *)
THEOREM EndsKept == Spec => EndsAreKept
<1>1. IInv /\ [Next]_vars =>
        [app.state = "PLAYING" /\ app'.state = "IDLE" /\ ~app'.cancel /\ app.result # "CANCELLED"
           => app.result = "READY" /\ app'.aud = 0 /\ nvs = "none"]_vars
  BY NextKeeps DEF Kept, Forgotten
<1>2. IInv /\ [Next]_vars =>
        [app.error /\ ~app'.error => app'.cue = "error" \/ app'.state = "BOOT"]_vars
  BY NextKeeps DEF Kept, ErrorKept
<1>3. Spec => PlayedIsForgotten
  BY <1>1, Invariance, PTL DEF Spec, PlayedIsForgotten
<1>4. Spec => ErrorCueIsKept
  BY <1>2, Invariance, PTL DEF Spec, ErrorCueIsKept
<1>5. QED
  BY <1>3, <1>4, PTL DEF EndsAreKept
=============================================================================
