------------------------------ MODULE TurnClient ------------------------------
(***************************************************************************)
(* One recorder and the gateway across an unreliable network: the recorder *)
(* uploads a recording, follows the turn and fetches its reply             *)
(* (voice_turn_client.c, voice_turn_http.c and turn_worker of main.c).  A  *)
(* request or its answer may be lost, either side may restart, the saved   *)
(* ids may fail to be cleared.  The gateway is TurnService, which the      *)
(* gateway's own model (VoiceJobs) implements.                             *)
(***************************************************************************)
EXTENDS Naturals

CONSTANTS
  Requests,   \* request ids, one per recording
  Digests,    \* contents of a recording
  NoRequest, NoDigest

ASSUME NoRequestAssumption == NoRequest \notin Requests

VARIABLES
  phase, audio, played,  \* the gateway, see TurnService
  sent,                  \* requests whose whole body left the recorder
  nvs,                   \* voice_settings in flash: request_id and turn_id
  dev,                   \* the worker and its voice_turn_client_t
  starts                 \* downloads of a reply that reached the speaker's stream

gateway == <<phase, audio, played>>
vars == <<phase, audio, played, sent, nvs, dev, starts>>

Gateway == INSTANCE TurnService

Ids == Requests \union {NoRequest}
Results == {"WAITING", "READY", "FAILED", "CANCELLED"}

Client ==
  [ pc: {"off", "upload", "closing", "client", "download", "stream"},
    req: Ids, turn: Ids, result: Results,
    cancel: BOOLEAN,    \* turn_cancel_requested
    expired: BOOLEAN,   \* deadline_ms has passed
    pending: BOOLEAN, early: BOOLEAN, downloaded: BOOLEAN,
    started: BOOLEAN,   \* turn_audio_started
    refused: BOOLEAN ]  \* history: the worker ended with a cancellation that the gateway refused

Idle(result) ==
  [ pc |-> "off", req |-> NoRequest, turn |-> NoRequest, result |-> result, cancel |-> FALSE,
    expired |-> FALSE, pending |-> FALSE, early |-> FALSE, downloaded |-> FALSE,
    started |-> FALSE, refused |-> FALSE ]

NoIds == [req |-> NoRequest, turn |-> NoRequest]

Init ==
  /\ Gateway!Init
  /\ sent = {} /\ nvs = NoIds /\ dev = Idle("FAILED")
  /\ starts = [r \in Requests |-> 0]

-----------------------------------------------------------------------------
(* The gateway.  A body that was sent may be accepted at any later time,   *)
(* even after the recorder gave the connection up.                         *)

GatewayAccepts ==
  /\ \E r \in sent, d \in Digests : Gateway!Accept(r, d)
  /\ UNCHANGED <<sent, nvs, dev, starts>>

GatewayWorks ==
  /\ \E r \in Requests :
       Gateway!Work(r) \/ (\E outcome \in {"ready", "failed", "interrupted"} : Gateway!Finish(r, outcome))
  /\ UNCHANGED <<sent, nvs, dev, starts>>

(* The cancellation as the gateway carries it out: a turn that is neither  *)
(* accepted nor worked on stays as it is.                                  *)
GatewayCancels(r) ==
  IF phase[r] = "accepted" THEN Gateway!CancelAccepted(r)
  ELSE IF phase[r] = "working" THEN Gateway!Finish(r, "cancelled")
  ELSE UNCHANGED gateway

-----------------------------------------------------------------------------
(* A new recording: begin_turn_request and the worker's upload.            *)
Record ==
  /\ dev.pc = "off"
  /\ \E r \in Requests :
       /\ r \notin sent /\ nvs.req # r /\ phase[r] = "open"
       /\ nvs' = [req |-> r, turn |-> NoRequest]
       /\ dev' = [Idle("WAITING") EXCEPT !.pc = "upload", !.req = r]
  /\ UNCHANGED <<gateway, sent, starts>>

UploadSent ==
  /\ dev.pc = "upload"
  /\ sent' = sent \union {dev.req}
  /\ dev' = [dev EXCEPT !.pc = "closing"]
  /\ UNCHANGED <<gateway, nvs, starts>>

(* The connection breaks, before the body is whole or while its answer is  *)
(* awaited: the worker is over, the saved ids stay.                        *)
UploadBreaks ==
  /\ dev.pc \in {"upload", "closing"}
  /\ dev' = Idle("FAILED")
  /\ UNCHANGED <<gateway, sent, nvs, starts>>

(* 202; turn_save_id keeps the id in RAM even when it cannot be saved.     *)
UploadAnswered ==
  /\ dev.pc = "closing" /\ phase[dev.req] # "open"
  /\ \E saved \in BOOLEAN : nvs' = IF saved THEN [nvs EXCEPT !.turn = dev.req] ELSE nvs
  /\ dev' = [dev EXCEPT !.pc = "client", !.turn = dev.req]
  /\ UNCHANGED <<gateway, sent, starts>>

-----------------------------------------------------------------------------
(* The client's loop.                                                      *)

(* finish: the ids are cleared, in flash too unless that fails.            *)
End(client) ==
  /\ dev' = client
  /\ nvs' \in {nvs, NoIds}
  /\ UNCHANGED starts

Finish(result) == End(Idle(result))
FinishRefused == End([Idle("CANCELLED") EXCEPT !.refused = TRUE])

Continue(next) == dev' = next /\ UNCHANGED <<nvs, starts>>

Cancelling == dev.cancel /\ dev.turn # NoRequest
Ticking == dev.pc = "client" /\ ~Cancelling /\ ~dev.expired

DeadlineExpired ==  \* mutant: a result of its own that the main loop does not know
  /\ dev.pc = "client" /\ ~Cancelling /\ dev.expired
  /\ Finish("EXPIRED")
  /\ UNCHANGED <<gateway, sent>>

DeadlineOfPolls ==  \* mutant: a download that is retried has no deadline
  /\ dev.pc = "client" /\ ~Cancelling /\ dev.expired /\ ~dev.pending
  /\ Finish("FAILED")
  /\ UNCHANGED <<gateway, sent>>

CancelCallOnce ==  \* mutant: without an answer the turn is taken for cancelled
  /\ dev.pc = "client" /\ Cancelling
  /\ UNCHANGED gateway \/ GatewayCancels(dev.turn)
  /\ Finish("CANCELLED")
  /\ UNCHANGED sent

(* voice_turn_client_cancel.  Without an answer, or with a 5xx, it is      *)
(* asked again, though the gateway may have carried it out.  Every other   *)
(* answer ends the turn as cancelled: a refusal too (401, 404, 429 of the  *)
(* rate limiter), after which the gateway goes on.                         *)
CancelCall ==
  /\ dev.pc = "client" /\ Cancelling
  /\ \/ UNCHANGED gateway /\ Continue(dev)
     \/ UNCHANGED gateway /\ FinishRefused
     \/ GatewayCancels(dev.turn) /\ (Continue(dev) \/ Finish("CANCELLED"))
  /\ UNCHANGED sent

Deadline ==
  /\ dev.pc = "client" /\ ~Cancelling /\ dev.expired
  /\ Finish("FAILED")
  /\ UNCHANGED <<gateway, sent>>

(* No answer, or 5xx: retry_later.                                         *)
CallLost == Ticking /\ ~dev.pending /\ Continue(dev) /\ UNCHANGED <<gateway, sent>>

(* GET requests/<id>: 404 while the upload never reached the gateway.      *)
Lookup ==
  /\ Ticking /\ ~dev.pending /\ dev.turn = NoRequest
  /\ \/ /\ dev.req \in sent \/ phase[dev.req] # "open"
        /\ dev' = [dev EXCEPT !.turn = dev.req]
        /\ nvs' = [nvs EXCEPT !.turn = dev.req]
        /\ UNCHANGED starts
     \/ Finish("FAILED")
  /\ UNCHANGED <<gateway, sent>>

(* GET turns/<id>: what the status and the two stream flags say; a poll    *)
(* that is refused (4xx) ends the turn.                                    *)
Consumed(r) == played[r] /\ ~dev.downloaded
Fetch(early) == [dev EXCEPT !.early = early, !.pending = TRUE, !.pc = "download"]

PollPending ==
  /\ phase[dev.turn] \in {"open", "accepted", "working"}
  /\ \/ Continue(dev)
     \/ phase[dev.turn] = "working" /\ ~played[dev.turn] /\ ~dev.downloaded /\ Continue(Fetch(TRUE))

PollReady ==
  /\ phase[dev.turn] = "ready"
  /\ IF dev.downloaded THEN Finish("READY") ELSE Continue(Fetch(FALSE))

PollEnded ==
  \/ phase[dev.turn] \in {"open", "failed", "interrupted"} /\ Finish("FAILED")
  \/ phase[dev.turn] = "cancelled" /\ Finish("CANCELLED")

Poll ==
  /\ Ticking /\ ~dev.pending /\ dev.turn # NoRequest
  /\ IF Consumed(dev.turn) THEN Finish("FAILED") ELSE PollPending \/ PollReady \/ PollEnded \/ Finish("FAILED")
  /\ UNCHANGED <<gateway, sent>>

(* The download that had to be retried.                                    *)
DownloadAgain ==
  /\ Ticking /\ dev.pending
  /\ Continue([dev EXCEPT !.pc = "download"])
  /\ UNCHANGED <<gateway, sent>>

DownloadUnclaimed ==  \* mutant: the stream is not claimed, as with plain /audio
  /\ dev.pc = "download" /\ phase[dev.turn] \in {"working", "ready"}
  /\ UNCHANGED <<gateway, sent>>
  /\ Continue([dev EXCEPT !.pc = "stream"])

(* GET audio?stream=1.  The gateway claims the one stream before it        *)
(* answers, so that an answer that is lost forfeits the reply.  A cancel   *)
(* sends the client back to its loop; an early download is not retried.    *)
Back == [dev EXCEPT !.pc = "client", !.pending = dev.pending]
NotOpened ==
  IF dev.cancel THEN Continue(Back) ELSE IF dev.early THEN Finish("FAILED") ELSE Continue(Back)

DownloadLost == dev.pc = "download" /\ NotOpened /\ UNCHANGED <<gateway, sent>>

(* 4xx: the stream is consumed or not there, or the request is refused.    *)
DownloadRefused ==
  /\ dev.pc = "download"
  /\ IF dev.cancel THEN Continue(Back) ELSE Finish("FAILED")
  /\ UNCHANGED <<gateway, sent>>

DownloadOpened ==
  /\ dev.pc = "download" /\ Gateway!Play(dev.turn)
  /\ NotOpened \/ Continue([dev EXCEPT !.pc = "stream"])
  /\ UNCHANGED sent

(* The first audio of this download; what follows adds nothing here.       *)
StreamStarts ==
  /\ dev.pc = "stream" /\ ~dev.started /\ ~dev.cancel
  /\ dev' = [dev EXCEPT !.started = TRUE]
  /\ starts' = [starts EXCEPT ![dev.turn] = @ + 1]
  /\ UNCHANGED <<gateway, sent, nvs>>

(* The gateway ends the stream only when the turn is ready.                *)
StreamEnds ==
  /\ dev.pc = "stream" /\ dev.started /\ phase[dev.turn] = "ready" /\ ~dev.cancel
  /\ IF dev.early THEN Continue([dev EXCEPT !.pc = "client", !.pending = FALSE, !.downloaded = TRUE])
     ELSE Finish("READY")
  /\ UNCHANGED <<gateway, sent>>

(* A broken stream fails the turn; before the first audio a WAV reply that *)
(* was ready is asked for once more.  A cancel goes back to the loop.      *)
StreamBreaks ==
  /\ dev.pc = "stream"
  /\ IF dev.cancel THEN Continue(Back)
     ELSE Finish("FAILED") \/ (~dev.started /\ ~dev.early /\ Continue(Back))
  /\ UNCHANGED <<gateway, sent>>

-----------------------------------------------------------------------------
(* Around the worker: the button, the clock, the power.                    *)

Cancel == dev.pc # "off" /\ dev' = [dev EXCEPT !.cancel = TRUE] /\ UNCHANGED <<gateway, sent, nvs, starts>>

Expire ==
  /\ dev.pc \in {"client", "download", "stream"} /\ ~dev.expired
  /\ dev' = [dev EXCEPT !.expired = TRUE]
  /\ UNCHANGED <<gateway, sent, nvs, starts>>

(* STATE_BOOT: a saved request is resumed, from its turn_id if that was    *)
(* saved, else from a lookup.                                              *)
Reboot ==
  /\ dev' = IF nvs.req = NoRequest THEN Idle("FAILED")
            ELSE [Idle("WAITING") EXCEPT !.pc = "client", !.req = nvs.req, !.turn = nvs.turn]
  /\ UNCHANGED <<gateway, sent, nvs, starts>>

Worker ==
  \/ UploadSent \/ UploadBreaks \/ UploadAnswered
  \/ CancelCall \/ Deadline \/ CallLost \/ Lookup \/ Poll \/ DownloadAgain
  \/ DownloadLost \/ DownloadRefused \/ DownloadOpened \/ StreamStarts \/ StreamEnds \/ StreamBreaks

Next == GatewayAccepts \/ GatewayWorks \/ Record \/ Worker \/ Cancel \/ Expire \/ Reboot

Spec == Init /\ [][Next]_vars

(* Every call returns (TURN_HTTP_TIMEOUT_MS), so the worker goes on, and   *)
(* the clock reaches the deadline.                                         *)
Fairness == WF_vars(Worker) /\ WF_vars(Expire)
FairSpec == Spec /\ Fairness

-----------------------------------------------------------------------------
TypeOK ==
  /\ phase \in [Requests -> {"open", "accepted", "working"} \union Gateway!Outcome]
  /\ audio \in [Requests -> Digests \union {NoDigest}] /\ played \in [Requests -> BOOLEAN]
  /\ sent \subseteq Requests
  /\ nvs \in [req: Ids, turn: Ids] /\ dev \in Client
  /\ starts \in [Requests -> 0 .. 2]

(* A reply starts to play at most once, whatever is lost, retried,         *)
(* restarted or not cleared (docs/operations/streaming-reply.md: no prefix *)
(* is replayed after a lost connection or a reboot).                       *)
HeardOnce == \A r \in Requests : starts[r] <= 1

(* READY is reported of a reply that reached the speaker's stream, and of  *)
(* a turn that is ready at the gateway too: an early download waits for    *)
(* the final status.                                                       *)
ReadyIsHeard ==
  [][dev.pc # "off" /\ dev'.pc = "off" /\ dev'.result = "READY"
       => phase[dev.turn] = "ready" /\ starts[dev.turn] = 1]_vars

(* A turn the recorder reports as cancelled is not worked on any more,     *)
(* however many answers were lost before; but for a cancellation that the  *)
(* gateway refused, which is reported as cancelled all the same.           *)
CancelledIsOver ==
  [][dev.pc # "off" /\ dev'.pc = "off" /\ dev'.result = "CANCELLED" /\ ~dev'.refused
       => phase'[dev.turn] \notin {"accepted", "working"}]_vars

(* What is heard answers the recording made last: the saved ids belong     *)
(* together, also when the power went while they were written.             *)
HeardIsAsked == [][\A r \in Requests : starts'[r] # starts[r] => nvs.req = r]_vars

(* How the recorder says a turn ended, and what it plays, is what the      *)
(* gateway has of this recording.                                          *)
OutcomesAgree == ReadyIsHeard /\ CancelledIsOver /\ HeardIsAsked

(* A worker that nobody cancels ends, by its deadline at the latest,       *)
(* unless the recorder restarts over and over: each resumption starts a    *)
(* deadline of its own.                                                    *)
WorkerEnds == (dev.pc # "off" ~> dev.pc = "off" \/ Cancelling) \/ []<><<Reboot>>_vars
=============================================================================
