------------------------------ MODULE DeviceApp ------------------------------
(***************************************************************************)
(* The recorder's application (firmware/src/main.c): the main loop and its *)
(* state machine, the turn worker task that uploads a recording and        *)
(* fetches the reply, and what both share: the flags of app_t, the capture *)
(* ring, the two stream buffers, the saved ids and the activity gate.      *)
(*                                                                         *)
(* "app" is all the RAM of the program (app_t and the file's statics), so  *)
(* a reboot resets it whole; "nvs" is the saved turn and outlives it.  One *)
(* iteration of the main loop is three actions, in the code's order:       *)
(* feedback (the head of app_tick), the case of the state, and the tail of *)
(* voice_main_loop; the worker runs between any two of them.               *)
(***************************************************************************)
EXTENDS Naturals

CONSTANTS
  RingCap,    \* capacity of app.rb, in captured chunks
  UploadCap,  \* capacity of turn_upload_stream
  AudioCap,   \* capacity of turn_audio_stream
  HoldMode    \* voice_settings.button_mode = VOICE_BUTTON_HOLD

ASSUME CapAssumption == RingCap \in Nat \ {0} /\ UploadCap \in Nat \ {0} /\ AudioCap \in Nat \ {0}
ASSUME HoldAssumption == HoldMode \in BOOLEAN

VARIABLES
  app,     \* the program's RAM, see Memory
  finger,  \* the button's level
  nvs      \* saved ids: "none", "req" (request_id) or "turn" (turn_id too)

vars == <<app, finger, nvs>>

States == {"BOOT", "IDLE", "RECORDING", "PROCESSING", "PLAYING", "ERROR"}

Memory ==
  [ loop: {"feedback", "tick", "tail"},            \* next part of the main loop
    state: States,                                 \* app.sm
    \* button_driver and the ways to ignore it
    held: BOOLEAN, ignoring: BOOLEAN, ack: {"no", "ready", "pressed"},
    \* microphone and speaker; the wake-word monitor; the capture dialogue
    mic: BOOLEAN, spk: BOOLEAN, listening: BOOLEAN,
    capture: {"none", "cue", "wait"}, hold: BOOLEAN,
    \* voice_feedback_t and the cue that is playing
    routine: BOOLEAN, error: BOOLEAN, cue: {"none", "routine", "error"},
    stages: BOOLEAN, answering: BOOLEAN, deferred: BOOLEAN,
    \* the gate shared with OTA and flash storage
    activity: {"idle", "voice", "ota", "storage"}, owned: BOOLEAN, confirmed: BOOLEAN,
    \* turn flags shared by the main loop and the worker
    task: BOOLEAN, cancel: BOOLEAN, started: BOOLEAN, result: {"WAITING", "READY", "FAILED", "CANCELLED"},
    upFailed: BOOLEAN, upFinished: BOOLEAN, released: BOOLEAN, storageFailed: BOOLEAN,
    fresh: BOOLEAN, followUp: BOOLEAN,
    \* the worker's own state, and voice_settings.request_id
    pc: {"off", "open", "upload", "closing", "client", "poll", "download", "exit"},
    turnId: BOOLEAN, early: BOOLEAN, downloaded: BOOLEAN, req: BOOLEAN,
    \* audio on its way: the ring, and the streams to and from the worker
    ring: 0 .. RingCap, over: BOOLEAN, up: 0 .. UploadCap, aud: 0 .. AudioCap ]

Boot(saved) ==
  [ loop |-> "feedback", state |-> "BOOT", held |-> FALSE, ignoring |-> FALSE, ack |-> "no",
    mic |-> FALSE, spk |-> FALSE, listening |-> FALSE, capture |-> "none", hold |-> FALSE,
    routine |-> FALSE, error |-> FALSE, cue |-> "none", stages |-> FALSE,
    answering |-> FALSE, deferred |-> FALSE,
    activity |-> "voice", owned |-> TRUE, confirmed |-> FALSE,
    task |-> FALSE, cancel |-> FALSE, started |-> FALSE, result |-> "FAILED",
    upFailed |-> FALSE, upFinished |-> FALSE, released |-> FALSE, storageFailed |-> FALSE,
    fresh |-> FALSE, followUp |-> FALSE,
    pc |-> "off", turnId |-> FALSE, early |-> FALSE, downloaded |-> FALSE, req |-> saved # "none",
    ring |-> 0, over |-> FALSE, up |-> 0, aud |-> 0 ]

Init == app = Boot("none") /\ finger = FALSE /\ nvs = "none"

-----------------------------------------------------------------------------
(* Feedback: what is to be said, and when it may be.                       *)

FeedbackPending(a) == a.routine \/ a.error

(* feedback_request: an error has a slot of its own and silences a routine *)
(* cue; an event equal to the last one is ignored, which only ANSWERING    *)
(* can be, as every other event follows a different one.                   *)
Request(a, event) ==
  CASE event = "capture" -> [a EXCEPT !.routine = FALSE, !.stages = FALSE, !.answering = FALSE]
    [] event = "error" ->
         [a EXCEPT !.error = TRUE, !.routine = FALSE, !.stages = FALSE, !.answering = FALSE,
                   !.cue = IF @ = "routine" THEN "none" ELSE @,
                   !.spk = @ /\ a.cue # "routine"]
    [] event = "followup" -> [a EXCEPT !.routine = FALSE, !.stages = FALSE, !.answering = FALSE]
    [] event = "processing" -> [a EXCEPT !.routine = TRUE, !.stages = TRUE, !.answering = FALSE]
    [] event = "answering" ->
         IF a.answering THEN a ELSE [a EXCEPT !.routine = TRUE, !.stages = FALSE, !.answering = TRUE]
    [] event \in {"ready", "done", "cancelled"} ->
         [a EXCEPT !.routine = TRUE, !.stages = FALSE, !.answering = FALSE]

CancelRoutine(a) ==
  [a EXCEPT !.routine = FALSE, !.stages = FALSE,
            !.cue = IF @ = "routine" THEN "none" ELSE @, !.spk = @ /\ a.cue # "routine"]

CanClaim(a) == a.owned \/ a.activity = "idle"
Claim(a) == [a EXCEPT !.owned = TRUE, !.activity = "voice"]
ReleaseGate(a) ==
  IF a.owned /\ a.confirmed THEN [a EXCEPT !.owned = FALSE, !.activity = "idle"] ELSE a

(* The codec driver records or plays, never both.                          *)
MicOn(a) == IF a.spk THEN a ELSE [a EXCEPT !.mic = TRUE]
MicOff(a) == [a EXCEPT !.mic = FALSE]
SpeakerOn(a) == [a EXCEPT !.spk = TRUE, !.mic = FALSE]
SpeakerOff(a) == [a EXCEPT !.spk = FALSE]

(* wake_stop: the monitor, the listening cue and the capture dialogue end. *)
WakeStop(a) ==
  LET b == [a EXCEPT !.spk = @ /\ a.capture # "cue",
                     !.mic = @ /\ ~a.listening /\ a.capture = "none",
                     !.listening = FALSE, !.capture = "none"]
  IN IF a.capture # "none" THEN ReleaseGate(b) ELSE b

-----------------------------------------------------------------------------
(* state_machine_step and enter_state: an illegal transition does nothing. *)

Legal(from, to) ==
  \/ to = "ERROR" /\ from # "ERROR"
  \/ <<from, to>> \in {<<"BOOT", "IDLE">>, <<"BOOT", "PROCESSING">>, <<"IDLE", "RECORDING">>,
                       <<"RECORDING", "PROCESSING">>, <<"PROCESSING", "PLAYING">>,
                       <<"PLAYING", "IDLE">>, <<"ERROR", "IDLE">>}

EnterError(a) ==
  IF ~Legal(a.state, "ERROR") THEN a ELSE
  LET stopped == IF a.capture # "none" \/ a.listening THEN WakeStop(a) ELSE a
      told == [stopped EXCEPT !.state = "ERROR", !.mic = FALSE, !.spk = FALSE, !.cue = "none",
                              !.followUp = FALSE, !.ack = "no",
                              !.cancel = @ \/ a.task, !.upFailed = @ \/ a.task,
                              !.upFinished = @ \/ a.task]
  IN Request(told, "error")

EnterIdle(a, followup) ==
  IF ~Legal(a.state, "IDLE") THEN a ELSE
  LET event == IF a.state = "PLAYING"
                 THEN IF a.cancel \/ a.result = "CANCELLED" THEN "cancelled"
                      ELSE IF followup THEN "followup" ELSE "done"
                 ELSE IF a.state = "PROCESSING" THEN "cancelled" ELSE "ready"
  IN Request([a EXCEPT !.state = "IDLE", !.held = FALSE], event)

EnterProcessing(a) ==
  IF ~Legal(a.state, "PROCESSING") THEN a
  ELSE Request([a EXCEPT !.state = "PROCESSING"], "processing")

Enter(a, to) == IF Legal(a.state, to) THEN [a EXCEPT !.state = to] ELSE a

-----------------------------------------------------------------------------
(* The button: button_poll's event for the debounced level "finger".       *)

Event(a) ==
  IF finger /\ ~a.held THEN "pressed" ELSE IF ~finger /\ a.held THEN "released" ELSE "none"
Polled(a) == [a EXCEPT !.held = finger]

(* voice_wake_button_finish: what ends a capture started so.               *)
FinishEvent(a) == Event(a) = IF a.hold THEN "released" ELSE "pressed"

-----------------------------------------------------------------------------
(* Starting the worker, a capture and a recording.                         *)

(* start_turn_worker; the task picks up the saved turn_id when it resumes. *)
StartWorker(a, upload) ==
  [a EXCEPT !.aud = 0, !.up = 0, !.cancel = FALSE, !.started = FALSE, !.storageFailed = FALSE,
            !.upFailed = FALSE, !.upFinished = ~upload, !.released = FALSE, !.fresh = upload,
            !.followUp = FALSE, !.early = FALSE, !.downloaded = FALSE,
            !.result = "WAITING", !.task = TRUE,
            !.pc = IF upload THEN "open" ELSE "client",
            !.turnId = ~upload /\ nvs = "turn"]

(* capture_eligible; online: network, TLS, storage and delivery are ready. *)
Eligible(a, online) ==
  online /\ a.confirmed /\ a.activity # "ota" /\ ~a.task /\ a.cue = "none" /\ ~a.error

(* capture_begin once it is eligible and the gate could be claimed.        *)
CaptureBegin(a, manual) ==
  LET b == Request(CancelRoutine(Claim(a)), "capture")
  IN SpeakerOn([b EXCEPT !.listening = FALSE, !.mic = FALSE, !.capture = "cue",
                         !.hold = manual /\ HoldMode])

(* recording_start, then the pre-roll pushed to the emptied ring.          *)
RecordingBegin(a) ==
  LET b == MicOn(StartWorker([a EXCEPT !.req = TRUE, !.ring = 0, !.over = FALSE], TRUE))
  IN Enter([b EXCEPT !.capture = "none", !.ring = 1], "RECORDING")

(* recording_capture: what does not fit is lost and raises the flag.       *)
Capture(a, n) ==
  [a EXCEPT !.ring = IF a.ring + n > RingCap THEN RingCap ELSE a.ring + n,
            !.over = @ \/ a.ring + n > RingCap]

(* recording_drain: all that fits, nothing once the ring has overflowed.   *)
Drain(a) ==
  LET room == UploadCap - a.up
      n == IF a.over THEN 0 ELSE IF a.ring < room THEN a.ring ELSE room
  IN [a EXCEPT !.ring = @ - n, !.up = @ + n]

-----------------------------------------------------------------------------
(* The main loop.  A tick step leaves "loop" at "tail".                    *)

At(part, state) == app.loop = part /\ app.state = state
Ticked(a) == app' = [a EXCEPT !.loop = "tail"] /\ UNCHANGED <<finger, nvs>>

(* The head of app_tick: voice_feedback_stage, then feedback_service.  The *)
(* cue that plays ends when "ends" says so; the next one needs the gate.   *)
Stage(a, advanced) ==
  IF a.state # "PROCESSING" \/ a.cancel \/ a.result = "FAILED" \/ a.storageFailed THEN a
  ELSE IF a.started THEN Request(a, "answering")
  ELSE [a EXCEPT !.routine = @ \/ (advanced /\ a.stages)]

FeedbackTick(a, ends) ==
  IF a.cue # "none" /\ ends THEN [SpeakerOff(a) EXCEPT !.cue = "none"] ELSE a

FeedbackStart(a) ==
  LET next == IF a.error THEN "error" ELSE "routine"
  IN SpeakerOn([Claim(a) EXCEPT !.cue = next, ![next] = FALSE])

FeedbackService(a, ends) ==
  IF a.capture # "none" \/ a.state \in {"RECORDING", "PLAYING"} THEN a ELSE
  LET b == FeedbackTick(IF FeedbackPending(a) /\ a.listening THEN WakeStop(a) ELSE a, ends)
  IN IF b.cue = "none" /\ FeedbackPending(b) /\ ~b.listening /\ b.activity # "ota" /\ CanClaim(b)
       THEN FeedbackStart(b) ELSE b

FeedbackStep(advanced, ends) ==
  /\ app.loop = "feedback"
  /\ app' = [FeedbackService(Stage(app, advanced), ends) EXCEPT !.loop = "tick"]
  /\ UNCHANGED <<finger, nvs>>

Feedback == \E advanced, ends \in BOOLEAN : FeedbackStep(advanced, ends)

(* STATE_BOOT: a saved turn is resumed after APP_BOOT_TICKS.               *)
TickBoot ==
  /\ At("tick", "BOOT")
  /\ \/ Ticked(app)
     \/ ~app.req /\ Ticked(EnterIdle(app, FALSE))
     \/ app.req /\ Ticked(EnterProcessing(StartWorker(app, FALSE)))
     \/ app.req /\ Ticked(EnterError(app))

(* STATE_IDLE while the button that ended the last turn is still down.     *)
TickIgnore ==
  /\ At("tick", "IDLE") /\ app.ignoring
  /\ Ticked(IF finger THEN app
            ELSE [app EXCEPT !.ignoring = FALSE, !.held = FALSE,
                             !.deferred = @ /\ ~HoldMode])

(* STATE_IDLE: button_poll, then a press kept during an error's signal is  *)
(* taken when the signal is over.                                          *)
Terminal(a) == a.error \/ a.cue = "error"
Unheld(a) == [Polled(a) EXCEPT !.deferred = @ /\ ~(HoldMode /\ Event(a) = "released")]

TickDefer ==
  /\ At("tick", "IDLE") /\ ~app.ignoring
  /\ Event(app) = "pressed" /\ Terminal(app)
  /\ Ticked([Polled(app) EXCEPT !.deferred = TRUE])

PressTaken(a) == Event(a) = "pressed" \/ (~Terminal(a) /\ Unheld(a).deferred)
Idle(a) ==
  LET b == IF Terminal(a) THEN Unheld(a) ELSE [Unheld(a) EXCEPT !.deferred = FALSE]
  IN IF PressTaken(a) /\ a.capture = "none" THEN Request(CancelRoutine(b), "capture") ELSE b
AtIdle ==
  /\ At("tick", "IDLE") /\ ~app.ignoring
  /\ ~(Event(app) = "pressed" /\ Terminal(app))
QuietIdle == AtIdle /\ Idle(app).cue = "none" /\ ~FeedbackPending(Idle(app))

TickIdleFeedback == AtIdle /\ ~QuietIdle /\ Ticked(Idle(app))

(* wake_idle_tick without a capture: the monitor runs while it may, and a  *)
(* detected word begins a capture, or waits for the gate.                  *)
TickMonitor ==
  /\ QuietIdle /\ app.capture = "none" /\ ~PressTaken(app)
  /\ \E online, detected \in BOOLEAN :
       LET a == Idle(app)
           heard == MicOn([a EXCEPT !.listening = TRUE])
       IN Ticked(IF ~Eligible(a, online) THEN IF a.listening THEN WakeStop(a) ELSE a
                 ELSE IF detected /\ CanClaim(heard) THEN CaptureBegin(heard, FALSE) ELSE heard)

(* A press begins a capture; the gate held by storage postpones it.        *)
TickPress ==
  /\ QuietIdle /\ app.capture = "none" /\ PressTaken(app)
  /\ LET a == IF Idle(app).listening THEN WakeStop(Idle(app)) ELSE Idle(app)
     IN \/ Ticked([Request(WakeStop(a), "error") EXCEPT !.ignoring = TRUE])
        \/ \E online \in BOOLEAN :
             Ticked(IF ~Eligible(a, online) THEN EnterError(a)
                    ELSE IF CanClaim(a) THEN CaptureBegin(a, TRUE)
                    ELSE [a EXCEPT !.deferred = TRUE])

(* wake_idle_tick with a capture: it is cancelled by the button, by a lost *)
(* network, or by ten seconds without speech.                              *)
InCapture == QuietIdle /\ app.capture # "none"

TickCaptureCancel ==
  /\ InCapture
  /\ Ticked([Request(WakeStop(Idle(app)), "cancelled") EXCEPT !.ignoring = finger])

TickCaptureFails == InCapture /\ ~FinishEvent(app) /\ Ticked(EnterError(WakeStop(Idle(app))))

TickCueOverlapped ==  \* mutant: the speaker is still open when the microphone starts
  /\ InCapture /\ ~FinishEvent(app) /\ app.capture = "cue"
  /\ Ticked(MicOn([Idle(app) EXCEPT !.capture = "wait"]))

TickCue ==
  /\ InCapture /\ ~FinishEvent(app) /\ app.capture = "cue"
  /\ \/ Ticked(Idle(app))
     \/ Ticked(MicOn(SpeakerOff([Idle(app) EXCEPT !.capture = "wait"])))

TickWait == InCapture /\ ~FinishEvent(app) /\ app.capture = "wait" /\ Ticked(Idle(app))

(* Speech: begin_turn_request saves a new request_id before the worker     *)
(* starts; a save or a task creation that fails leaves the ERROR state.    *)
TickSpeech ==
  /\ InCapture /\ ~FinishEvent(app) /\ app.capture = "wait"
  /\ LET a == Idle(app)
         failed == [a EXCEPT !.req = TRUE]
     IN \/ ~a.task /\ app' = [RecordingBegin(a) EXCEPT !.loop = "tail"] /\ nvs' = "req"
        \/ app' = [EnterError(WakeStop(failed)) EXCEPT !.loop = "tail"] /\ nvs' \in {nvs, "req"}
  /\ UNCHANGED finger

(* STATE_RECORDING.                                                        *)
TickOverflow ==
  /\ At("tick", "RECORDING") /\ app.over
  /\ Ticked(EnterError(MicOff([app EXCEPT !.upFailed = TRUE, !.upFinished = TRUE,
                                          !.cancel = TRUE])))

UploadLost == app.result = "FAILED" /\ ~app.task

TickUploadLost ==
  /\ At("tick", "RECORDING") /\ ~app.over /\ UploadLost
  /\ Ticked(EnterError(MicOff(app)))

(* Capture, drain, then the end of speech, of the time, or of the press.   *)
TickRecord ==
  /\ At("tick", "RECORDING") /\ ~app.over /\ ~UploadLost
  /\ \E n \in 0 .. 2, silent, vadFailed \in BOOLEAN :
       LET a == Polled(Drain(Capture(app, n)))
           finishing == MicOff([a EXCEPT !.ignoring = finger, !.released = TRUE])
       IN Ticked(IF vadFailed THEN EnterError(MicOff(a))
                 ELSE IF ~silent /\ ~FinishEvent(app) THEN a
                 ELSE IF ~app.req \/ ~app.task THEN EnterError(finishing)
                 ELSE EnterProcessing(finishing))

DrainRestOnce(a) ==  \* mutant: finished after one attempt, ring empty or not
  IF ~a.released \/ a.upFinished THEN a ELSE [Drain(a) EXCEPT !.upFinished = TRUE]
DrainRestNever(a) == a  \* mutant: nothing is drained after the recording

(* STATE_PROCESSING: the rest of the ring, the button, then the result.    *)
DrainRest(a) ==
  IF ~a.released \/ a.upFinished THEN a
  ELSE LET b == Drain(a) IN [b EXCEPT !.upFinished = b.ring = 0]

Processed ==
  LET a == Polled(DrainRest(app))
  IN IF Event(app) = "pressed" THEN CancelRoutine([a EXCEPT !.cancel = TRUE]) ELSE a

(* voice_feedback_cancel_complete                                          *)
CancelComplete(a) == a.cancel /\ ~a.task /\ ~a.storageFailed

ToIdle(a) == EnterIdle(SpeakerOff([a EXCEPT !.ignoring = TRUE]), FALSE)

TickProcessing ==
  /\ At("tick", "PROCESSING")
  /\ LET a == Processed
     IN Ticked(IF CancelComplete(a) THEN ToIdle([CancelRoutine(a) EXCEPT !.followUp = FALSE])
               ELSE IF a.storageFailed \/ a.result = "FAILED" THEN EnterError(a)
               ELSE IF a.result = "CANCELLED" THEN ToIdle(a)
               ELSE IF a.started /\ ~a.cancel /\ a.cue = "none" /\ ~FeedbackPending(a)
                 THEN Enter(SpeakerOn(a), "PLAYING")
               ELSE a)

(* STATE_PLAYING: turn_playback_drain takes what the stream holds.         *)
PlaybackError(a) == EnterError(SpeakerOff([a EXCEPT !.cancel = TRUE]))

TickPlayingEnds ==
  /\ At("tick", "PLAYING")
  /\ LET a == Polled(app)
     IN \/ /\ Event(app) = "pressed"
           /\ Ticked(ToIdle([a EXCEPT !.cancel = TRUE, !.followUp = FALSE]))
        \/ /\ Event(app) # "pressed" /\ (app.result = "FAILED" \/ app.storageFailed)
           /\ Ticked(PlaybackError(a))
        \/ /\ Event(app) # "pressed" /\ app.result = "CANCELLED" /\ ~app.storageFailed
           /\ Ticked(ToIdle(a))

(* The end of the reply; a question goes on to listen for its answer.      *)
Played(a) ==
  LET follow == a.followUp /\ a.fresh /\ ~a.cancel /\ ~a.storageFailed
  IN EnterIdle(SpeakerOff([a EXCEPT !.followUp = FALSE]), follow)
Answer(a, online) ==
  IF Eligible(a, online) /\ CanClaim(a) THEN CaptureBegin(a, FALSE) ELSE EnterError(a)

TickPlay ==
  /\ At("tick", "PLAYING")
  /\ Event(app) # "pressed" /\ app.result \in {"WAITING", "READY"} /\ ~app.storageFailed
  /\ \E taken \in 0 .. app.aud, rejected, drained, online \in BOOLEAN :
       LET a == [Polled(app) EXCEPT !.aud = @ - taken]
       IN Ticked(IF rejected THEN PlaybackError(a)
                 ELSE IF a.result # "READY" \/ a.aud > 0 \/ ~drained \/ a.task THEN a
                 ELSE IF a.followUp /\ a.fresh /\ ~a.cancel THEN Answer(Played(a), online)
                 ELSE Played(a))

(* STATE_ERROR: a press and a release, once the button was seen up.        *)
TickError ==
  /\ At("tick", "ERROR")
  /\ LET a == Polled(app)
     IN Ticked(CASE app.ack = "no" -> [a EXCEPT !.ack = IF a.held THEN "no" ELSE "ready"]
                 [] app.ack # "no" /\ Event(app) = "pressed" -> [a EXCEPT !.ack = "pressed"]
                 [] app.ack = "pressed" /\ Event(app) = "released" /\ ~app.task -> EnterIdle(a, FALSE)
                 [] OTHER -> a)

QuietEarly(a) ==  \* mutant: a worker does not keep the gate
  a.state \in {"IDLE", "ERROR"} /\ a.capture = "none" /\ a.cue = "none" /\ ~FeedbackPending(a)

(* The tail of voice_main_loop: the gate goes back when all is quiet, and  *)
(* voice_ota_confirm_boot ends the trial of a fresh image.                 *)
Quiet(a) ==
  a.state \in {"IDLE", "ERROR"} /\ ~a.task /\ a.capture = "none" /\ a.cue = "none" /\ ~FeedbackPending(a)

Tail ==
  /\ app.loop = "tail"
  /\ \E confirms \in BOOLEAN :
       LET a == IF Quiet(app) THEN ReleaseGate(app) ELSE app
       IN app' = [a EXCEPT !.confirmed = @ \/ confirms, !.loop = "feedback"]
  /\ UNCHANGED <<finger, nvs>>

Tick ==
  \/ TickBoot \/ TickIgnore \/ TickDefer \/ TickIdleFeedback \/ TickMonitor \/ TickPress
  \/ TickCaptureCancel \/ TickCaptureFails \/ TickCue \/ TickWait \/ TickSpeech
  \/ TickOverflow \/ TickUploadLost \/ TickRecord \/ TickProcessing
  \/ TickPlayingEnds \/ TickPlay \/ TickError

MainLoop == Feedback \/ Tick \/ Tail

-----------------------------------------------------------------------------
(* The turn worker (turn_worker) and the client it drives, by what they do *)
(* to the shared state; the server's side of it is TurnClient's subject.   *)

Work(pc, a) == app.pc = pc /\ app' = a /\ UNCHANGED finger

(* upload_recording: the connection, then one chunk after the other; an    *)
(* error of either, or upload_failed raised by the main loop, ends the     *)
(* worker with FAILED and leaves the saved ids.  With nothing to send the  *)
(* worker waits for turn_upload_finished.                                  *)
UploadOpen == Work("open", [app EXCEPT !.pc = "upload"]) /\ UNCHANGED nvs

UploadSend == app.up > 0 /\ Work("upload", [app EXCEPT !.up = @ - 1]) /\ UNCHANGED nvs

UploadEnds(a) == a.upFinished /\ a.up = 0
UploadClose ==
  UploadEnds(app) /\ ~app.upFailed /\ Work("upload", [app EXCEPT !.pc = "closing"]) /\ UNCHANGED nvs

UploadFailsSilently ==  \* mutant: the worker exits without a result
  /\ app.pc \in {"open", "closing"} \/ (app.pc = "upload" /\ (app.up > 0 \/ app.upFailed))
  /\ Work(app.pc, [app EXCEPT !.upFailed = TRUE, !.pc = "exit"])
  /\ UNCHANGED nvs

UploadFails ==
  /\ app.pc \in {"open", "closing"} \/ (app.pc = "upload" /\ (app.up > 0 \/ app.upFailed))
  /\ Work(app.pc, [app EXCEPT !.upFailed = TRUE, !.result = "FAILED", !.pc = "exit"])
  /\ UNCHANGED nvs

(* 202: the turn id is kept in RAM even when it cannot be saved.           *)
UploadAccepted ==
  \E saved \in BOOLEAN :
    /\ Work("closing", [app EXCEPT !.turnId = TRUE, !.storageFailed = @ \/ ~saved, !.pc = "client"])
    /\ nvs' = IF saved THEN "turn" ELSE nvs

FinishUnreported(pc, a, result) ==  \* mutant: a failed turn_clear_ids is ignored
  \E saved \in BOOLEAN :
    /\ Work(pc, [a EXCEPT !.req = FALSE, !.turnId = FALSE, !.result = result, !.pc = "exit"])
    /\ nvs' = IF saved THEN "none" ELSE nvs

(* finish and turn_clear_ids, then the result for the main loop.           *)
Finish(pc, a, result) ==
  \E saved \in BOOLEAN :
    /\ Work(pc, [a EXCEPT !.req = FALSE, !.turnId = FALSE, !.storageFailed = @ \/ ~saved,
                          !.result = result, !.pc = "exit"])
    /\ nvs' = IF saved THEN "none" ELSE nvs

(* The loop of turn_worker looks at cancel_requested, then cancels or      *)
(* polls; a press that comes after the look does not stop the poll.        *)
ClientCancel == app.cancel /\ app.turnId /\ Finish("client", app, "CANCELLED")
ClientPoll ==
  ~(app.cancel /\ app.turnId) /\ Work("client", [app EXCEPT !.pc = "poll"]) /\ UNCHANGED nvs

(* voice_turn_client_tick: nothing yet; the deadline, an answer that makes *)
(* no sense or a failed turn; or a turn cancelled elsewhere.               *)
ClientWaits == Work("poll", [app EXCEPT !.pc = "client"]) /\ UNCHANGED nvs
ClientFails == Finish("poll", app, "FAILED")
ClientCancelled == app.turnId /\ Finish("poll", app, "CANCELLED")

(* A request without a turn id is looked up, and the id must be saved.     *)
ClientLookup ==
  /\ ~app.turnId
  /\ \/ Work("poll", [app EXCEPT !.turnId = TRUE, !.pc = "client"]) /\ nvs' = "turn"
     \/ Finish("poll", [app EXCEPT !.storageFailed = TRUE], "FAILED")

(* The reply is fetched once, early while it is synthesized or when ready. *)
ClientDownload ==
  /\ app.turnId /\ ~app.downloaded
  /\ \E early \in BOOLEAN, follow \in BOOLEAN :
       Work("poll", [app EXCEPT !.early = early, !.followUp = ~early /\ follow, !.pc = "download"])
  /\ UNCHANGED nvs

ClientReady ==
  /\ app.turnId /\ app.downloaded
  /\ \E follow \in BOOLEAN : Finish("poll", [app EXCEPT !.followUp = follow], "READY")

(* stream_pcm, stream_mp3_pcm: audio goes on while nobody cancels.         *)
DownloadChunk ==
  /\ ~app.cancel /\ app.aud < AudioCap
  /\ Work("download", [app EXCEPT !.aud = @ + 1, !.started = TRUE])
  /\ UNCHANGED nvs

DownloadDone ==
  /\ app.started /\ ~app.cancel
  /\ \/ app.early /\ Work("download", [app EXCEPT !.downloaded = TRUE, !.pc = "client"]) /\ UNCHANGED nvs
     \/ ~app.early /\ Finish("download", app, "READY")

DownloadFails == Finish("download", app, "FAILED")
DownloadAgain == (app.cancel \/ (~app.started /\ ~app.early)) /\ Work("download", [app EXCEPT !.pc = "client"]) /\ UNCHANGED nvs

WorkerExits == Work("exit", [app EXCEPT !.task = FALSE, !.pc = "off"]) /\ UNCHANGED nvs

Worker ==
  \/ UploadOpen \/ UploadSend \/ UploadClose \/ UploadFails \/ UploadAccepted
  \/ ClientCancel \/ ClientPoll \/ ClientWaits \/ ClientFails \/ ClientCancelled \/ ClientLookup
  \/ ClientDownload \/ ClientReady \/ DownloadChunk \/ DownloadDone \/ DownloadFails \/ DownloadAgain \/ WorkerExits

-----------------------------------------------------------------------------
(* The surroundings: a finger, the OTA task, the cue cache's flash writes, *)
(* and the end of power (or the restart into a new image).                 *)

Finger == finger' = ~finger /\ UNCHANGED <<app, nvs>>

GateClaim ==
  /\ app.activity = "idle" /\ app.confirmed
  /\ \E other \in {"ota", "storage"} : app' = [app EXCEPT !.activity = other]
  /\ UNCHANGED <<finger, nvs>>

GateReturn ==
  /\ app.activity \in {"ota", "storage"}
  /\ app' = [app EXCEPT !.activity = "idle"]
  /\ UNCHANGED <<finger, nvs>>

Reboot == app' = Boot(nvs) /\ UNCHANGED <<finger, nvs>>

Next == MainLoop \/ Worker \/ Finger \/ GateClaim \/ GateReturn \/ Reboot

Spec == Init /\ [][Next]_vars

(* The two tasks are scheduled.  A cue is cut after eight seconds          *)
(* (voice_listening_cue_tick), and a client that polls meets its deadline  *)
(* (voice_turn_client_tick), so neither goes on for ever.                  *)
CueEnds == \E advanced \in BOOLEAN : FeedbackStep(advanced, TRUE)
Fairness == WF_vars(MainLoop) /\ WF_vars(Worker) /\ SF_vars(CueEnds) /\ SF_vars(ClientFails)
FairSpec == Spec /\ Fairness

-----------------------------------------------------------------------------
TypeOK == app \in Memory /\ finger \in BOOLEAN /\ nvs \in {"none", "req", "turn"}

(* While the recorder records it hears, with no cue in the speaker, and    *)
(* while it plays the reply the speaker is on: the shared codec was handed *)
(* over in order by the cue, the capture, the monitor and the reply.       *)
RecordingHears ==
  /\ app.state = "RECORDING" => app.mic /\ ~app.spk
  /\ app.state = "PLAYING" => app.spk /\ ~app.mic

(* As long as a turn, a capture or a cue is alive anywhere in the program, *)
(* the application owns the gate, so that no OTA installation (and its     *)
(* restart) and no flash write of the cue cache can cut it.                *)
GateHeld ==
  app.state \in {"RECORDING", "PROCESSING", "PLAYING"} \/ app.task \/ app.capture # "none" \/ app.cue # "none"
    => app.owned /\ app.activity = "voice"

(* A turn whose worker still works on it has its id in flash: a reboot at  *)
(* any moment resumes it.                                                  *)
LiveTurnIsSaved ==
  app.pc \notin {"off", "exit"} => nvs # "none"

(* The worker ends the HTTP body only after every captured chunk went      *)
(* through the ring and the stream: an accepted recording has no hole, and *)
(* a recording that overflowed is never accepted.                          *)
UploadIsWhole ==
  app.pc = "closing" /\ ~app.upFailed => app.ring = 0 /\ app.up = 0 /\ ~app.over

(* A worker that is gone has told the main loop how the turn ended.        *)
NoSilentWorkerDeath ==
  app.state \in {"RECORDING", "PROCESSING", "PLAYING"} /\ ~app.task => app.result # "WAITING"

(* The worker of one turn is gone before the dialogue of the next begins,  *)
(* and a recording is uploaded by its own worker: neither the streams nor  *)
(* the saved ids are shared by two turns.                                  *)
OneTurnAtATime ==
  /\ app.capture # "none" => ~app.task
  /\ app.state = "RECORDING" => app.pc \in {"open", "upload", "exit", "off"}

(* The program's memory keeps its type, and the turn worker is one turn's, *)
(* known to the main loop and in flash as long as it works.                *)
WorkerIsSound == TypeOK /\ LiveTurnIsSaved /\ NoSilentWorkerDeath /\ OneTurnAtATime

(* A reply that ended by itself was ready and heard to the last chunk, and *)
(* its ids are gone from flash: a reboot does not play it again.           *)
PlayedIsForgotten ==
  [][app.state = "PLAYING" /\ app'.state = "IDLE" /\ ~app'.cancel /\ app.result # "CANCELLED"
       => app.result = "READY" /\ app'.aud = 0 /\ nvs = "none"]_vars

(* recorder-state-feedback.md: an error keeps its own slot until its cue   *)
(* starts, whatever is requested meanwhile.                                *)
ErrorCueIsKept ==
  [][app.error /\ ~app'.error => app'.cue = "error" \/ app'.state = "BOOT"]_vars

(* Neither a reply that was heard nor an error is forgotten half-way.      *)
EndsAreKept == PlayedIsForgotten /\ ErrorCueIsKept

(* A turn whose recording did not overflow leaves PROCESSING, for PLAYING  *)
(* or ERROR, unless it is cancelled, here or at the gateway.               *)
Cancelled == app.cancel \/ app.result = "CANCELLED"
ProcessingEnds ==
  (app.state = "PROCESSING" /\ ~app.over) ~> (app.state # "PROCESSING" \/ Cancelled)

(* main.c: an overflow of the ring stops the recording and shows ERROR.    *)
OverflowShowsError ==
  (app.state \in {"RECORDING", "PROCESSING"} /\ app.over /\ ~Cancelled)
    ~> (app.state \in {"ERROR", "BOOT"} \/ Cancelled)

(* main.c: a turn cancelled in PROCESSING is over when its worker is; the  *)
(* recorder goes back to IDLE.                                             *)
CancelledTurnEnds ==
  (app.state = "PROCESSING" /\ Cancelled) ~> app.state # "PROCESSING"
=============================================================================
