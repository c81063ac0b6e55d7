------------------------------ MODULE VoiceJobs ------------------------------
(***************************************************************************)
(* The gateway's recorder jobs: the durable table voice_jobs               *)
(* (jobs/store.py), the one worker that drains it (jobs/worker.py) and the *)
(* HTTP handlers that feed it and stream its replies (jobs/api.py).        *)
(*                                                                         *)
(* A request stands for the pair (device_id, request_id), the key of a     *)
(* row.  A store method is one SQLite transaction, and a handler's code    *)
(* between two awaits is one turn of the event loop: each is one action.   *)
(* What survives a restart (the rows and input.pcm) and what does not (the *)
(* asyncio.Queue, the handlers, the worker's child task) are kept apart.   *)
(***************************************************************************)
EXTENDS Integers, FiniteSets, SequencesExt

CONSTANTS
  Requests,       \* (device_id, request_id) pairs
  Digests,        \* audio bodies, told apart by their SHA-256
  NoDigest,       \* audio_sha256 IS NULL, or no input.pcm
  NoJob,          \* the worker has no turn in its hands
  MaxQueue,       \* max_queue of the store and of the worker
  MaxDuplicates,  \* bound: repeated uploads of one request in flight
  MaxRestarts     \* bound: ends of the process, by a crash or a shutdown

ASSUME RequestsAssumption == IsFiniteSet(Requests) /\ NoJob \notin Requests
ASSUME DigestsAssumption == NoDigest \notin Digests
ASSUME BoundsAssumption ==
  MaxQueue \in Nat \ {0} /\ MaxDuplicates \in Nat /\ MaxRestarts \in Nat

VARIABLES
  status,      \* row status, "none" when there is no row
  sha,         \* row audio_sha256
  createdAt,   \* row created_at, as the rank of its INSERT (0: no row)
  claimed,     \* row audio_stream_claimed
  file,        \* content of the turn's input.pcm in the archive
  up,          \* the worker is started and the handlers are served
  queue,       \* VoiceJobWorker.queue
  active,      \* key of VoiceJobWorker._active, or NoJob
  child,       \* the child task running the pipeline; "dead": the worker's own task failed
  killed,      \* cancel() was called on the child task
  owners,      \* upload handlers that hold is_new for the request
  duplicates,  \* upload handlers that read a repeated body of it
  stream,      \* the GET .../audio?stream=1 response of the request
  restarts,    \* ends of the process so far
  acked,       \* ghost: bodies answered with 202
  runs,        \* ghost: child tasks created for the request
  opened       \* ghost: streamed responses opened for the request

durable == <<status, sha, createdAt, claimed, file>>
process == <<queue, active, child, killed, owners, duplicates, stream>>
ghosts == <<acked, runs, opened>>
vars == <<durable, up, process, restarts, ghosts>>

Active == {"running", "transcribing", "thinking", "synthesizing"}
Terminal == {"ready", "failed", "interrupted", "cancelled"}
Open == {"none", "uploading", "upload_failed"}
Status == Open \cup {"queued"} \cup Active \cup Terminal

ChildState == {"idle", "dead", "returned", "raised", "cancelled"} \cup Active
StreamState == {"none", "open", "complete", "broken"}

Rows == {r \in Requests : status[r] # "none"}
QueuedRows == {r \in Requests : status[r] = "queued"}

TypeOK ==
  /\ status \in [Requests -> Status]
  /\ sha \in [Requests -> Digests \cup {NoDigest}]
  /\ createdAt \in [Requests -> Nat]
  /\ claimed \in [Requests -> BOOLEAN]
  /\ file \in [Requests -> Digests \cup {NoDigest}]
  /\ up \in BOOLEAN
  /\ queue \in Seq(Requests)
  /\ active \in Requests \cup {NoJob}
  /\ child \in ChildState
  /\ killed \in BOOLEAN
  /\ owners \in [Requests -> Nat]
  /\ duplicates \in [Requests -> Nat]
  /\ stream \in [Requests -> StreamState]
  /\ restarts \in Nat
  /\ acked \in [Requests -> SUBSET Digests]
  /\ runs \in [Requests -> Nat]
  /\ opened \in [Requests -> Nat]

Init ==
  /\ status = [r \in Requests |-> "none"]
  /\ sha = [r \in Requests |-> NoDigest]
  /\ createdAt = [r \in Requests |-> 0]
  /\ claimed = [r \in Requests |-> FALSE]
  /\ file = [r \in Requests |-> NoDigest]
  /\ up = FALSE
  /\ queue = << >>
  /\ active = NoJob
  /\ child = "idle"
  /\ killed = FALSE
  /\ owners = [r \in Requests |-> 0]
  /\ duplicates = [r \in Requests |-> 0]
  /\ stream = [r \in Requests |-> "none"]
  /\ restarts = 0
  /\ acked = [r \in Requests |-> {}]
  /\ runs = [r \in Requests |-> 0]
  /\ opened = [r \in Requests |-> 0]

-----------------------------------------------------------------------------
(* The process: start, orderly shutdown, crash.                            *)

(* store.queued(): the queued rows by created_at.                          *)
InCreationOrder(S) ==
  {q \in [1..Cardinality(S) -> S] :
     \A i, j \in 1..Cardinality(S) : i < j => createdAt[q[i]] < createdAt[q[j]]}

(* Mutant: a restart queues the turn again.                                *)
QueuedAgain(s) == IF s \in Active THEN "queued" ELSE s

(* The rows that recover_uploads and recover_after_restart rewrite.        *)
RecoveredUpload(s) == IF s = "uploading" THEN "upload_failed" ELSE s
Interrupted(s) == IF s \in Active THEN "interrupted" ELSE s

(* VoiceJobWorker.start in a fresh process.                                *)
Start ==
  /\ ~up
  /\ up' = TRUE
  /\ status' = [r \in Requests |-> Interrupted(RecoveredUpload(status[r]))]
  /\ queue' \in InCreationOrder({r \in Requests : status'[r] = "queued"})
  /\ UNCHANGED <<sha, createdAt, claimed, file, active, child, killed,
                 owners, duplicates, stream, restarts, ghosts>>

(* Nothing in memory outlives the process; open responses break off.       *)
LoseProcess ==
  /\ up' = FALSE
  /\ queue' = << >>
  /\ active' = NoJob
  /\ child' = "idle"
  /\ killed' = FALSE
  /\ owners' = [r \in Requests |-> 0]
  /\ duplicates' = [r \in Requests |-> 0]
  /\ stream' = [r \in Requests |-> IF stream[r] = "open" THEN "broken" ELSE stream[r]]
  /\ restarts' = restarts + 1

Crash ==
  /\ up /\ restarts < MaxRestarts
  /\ LoseProcess
  /\ UNCHANGED <<durable, ghosts>>

(* VoiceJobWorker.close: the worker's task is cancelled, its child with it, *)
(* and what was being processed is recorded as interrupted.                *)
Close ==
  /\ up /\ restarts < MaxRestarts
  /\ status' = [r \in Requests |-> Interrupted(status[r])]
  /\ LoseProcess
  /\ UNCHANGED <<sha, createdAt, claimed, file, ghosts>>

-----------------------------------------------------------------------------
(* POST /api/voice/turns: claim, read the body, settle.                    *)

(* claim_upload without a row: INSERT.                                     *)
ClaimNew(r) ==
  /\ up /\ status[r] = "none"
  /\ status' = [status EXCEPT ![r] = "uploading"]
  /\ createdAt' = [createdAt EXCEPT ![r] = Cardinality(Rows) + 1]
  /\ owners' = [owners EXCEPT ![r] = @ + 1]
  /\ UNCHANGED <<sha, claimed, file, up, queue, active, child, killed,
                 duplicates, stream, restarts, ghosts>>

(* Mutant: an interrupted turn is taken over.                              *)
TakesOverInterrupted(r) == status[r] \in {"upload_failed", "interrupted"}

(* The row's upload failed before it had a recording.                      *)
TakesOver(r) == status[r] = "upload_failed" /\ sha[r] = NoDigest

(* claim_upload of a row whose upload failed: the row is taken over.       *)
ClaimAgain(r) ==
  /\ up /\ TakesOver(r)
  /\ status' = [status EXCEPT ![r] = "uploading"]
  /\ owners' = [owners EXCEPT ![r] = @ + 1]
  /\ UNCHANGED <<sha, createdAt, claimed, file, up, queue, active, child, killed,
                 duplicates, stream, restarts, ghosts>>

(* claim_upload of a row past its upload: is_new is False.  A row that is  *)
(* still uploading refuses the request (upload_in_progress): no step.      *)
ClaimDuplicate(r) ==
  /\ up
  /\ status[r] \notin {"none", "uploading"}
  /\ ~ TakesOver(r)
  /\ duplicates[r] < MaxDuplicates
  /\ duplicates' = [duplicates EXCEPT ![r] = @ + 1]
  /\ UNCHANGED <<durable, up, queue, active, child, killed, owners, stream,
                 restarts, ghosts>>

(* mark_upload_failed, whose UPDATE spares rows that are not uploading.    *)
MarkUploadFailed(r) ==
  status' = IF status[r] = "uploading"
            THEN [status EXCEPT ![r] = "upload_failed"] ELSE status

(* The body was cut, too large or invalid; or complete_upload refused it:  *)
(* the row is not uploading (upload_not_owned) or the queue is full        *)
(* (agent_busy).  The row stays uploading, without a handler, when marking *)
(* it fails too or the handler is cancelled, which no clause catches.      *)
UploadFails(r) ==
  /\ up /\ owners[r] > 0
  /\ MarkUploadFailed(r) \/ UNCHANGED status
  /\ owners' = [owners EXCEPT ![r] = @ - 1]
  /\ UNCHANGED <<sha, createdAt, claimed, file, up, queue, active, child, killed,
                 duplicates, stream, restarts, ghosts>>

(* Mutant: the count is compared one off.                                  *)
QueueHasRoomForOneMore == Cardinality(QueuedRows) <= MaxQueue

(* complete_upload's test of the queued rows.                              *)
QueueHasRoom == Cardinality(QueuedRows) < MaxQueue

(* complete_upload moves the staged body to input.pcm before its UPDATE.   *)
(* If the UPDATE or the COMMIT fails, the transaction is rolled back and   *)
(* the handler marks the row failed, if it can; the moved file stays.      *)
CommitFails(r, d) ==
  /\ up /\ owners[r] > 0
  /\ status[r] = "uploading" /\ QueueHasRoom
  /\ file' = [file EXCEPT ![r] = d]
  /\ MarkUploadFailed(r) \/ UNCHANGED status
  /\ owners' = [owners EXCEPT ![r] = @ - 1]
  /\ UNCHANGED <<sha, createdAt, claimed, up, queue, active, child, killed,
                 duplicates, stream, restarts, ghosts>>

(* The process dies between the move and the COMMIT.                       *)
CrashInComplete(r, d) ==
  /\ up /\ restarts < MaxRestarts /\ owners[r] > 0
  /\ status[r] = "uploading" /\ QueueHasRoom
  /\ file' = [file EXCEPT ![r] = d]
  /\ LoseProcess
  /\ UNCHANGED <<status, sha, createdAt, claimed, ghosts>>

(* worker.enqueue: put_nowait, whose QueueFull the handler swallows.       *)
Enqueue(r) == queue' = IF Len(queue) < MaxQueue THEN Append(queue, r) ELSE queue

(* complete_upload, enqueue and the 202, with no await that yields.        *)
UploadCompletes(r, d) ==
  /\ up /\ owners[r] > 0
  /\ status[r] = "uploading" /\ QueueHasRoom
  /\ file' = [file EXCEPT ![r] = d]
  /\ status' = [status EXCEPT ![r] = "queued"]
  /\ sha' = [sha EXCEPT ![r] = d]
  /\ Enqueue(r)
  /\ owners' = [owners EXCEPT ![r] = @ - 1]
  /\ acked' = [acked EXCEPT ![r] = @ \cup {d}]
  /\ UNCHANGED <<createdAt, claimed, up, active, child, killed, duplicates,
                 stream, restarts, runs, opened>>

(* Mutant: any body of a known request is accepted.                        *)
AnyBody(r, d) == sha[r] # NoDigest

(* verify_duplicate compares the digests.                                  *)
SameBody(r, d) == sha[r] = d

(* verify_duplicate accepts the repeated body: 202 with the old turn.      *)
DuplicateVerified(r, d) ==
  /\ up /\ duplicates[r] > 0 /\ SameBody(r, d)
  /\ duplicates' = [duplicates EXCEPT ![r] = @ - 1]
  /\ acked' = [acked EXCEPT ![r] = @ \cup {d}]
  /\ UNCHANGED <<durable, up, queue, active, child, killed, owners, stream,
                 restarts, runs, opened>>

(* The repeated body is cut, invalid or another one: nothing is changed.   *)
DuplicateRejected(r) ==
  /\ up /\ duplicates[r] > 0
  /\ duplicates' = [duplicates EXCEPT ![r] = @ - 1]
  /\ UNCHANGED <<durable, up, queue, active, child, killed, owners, stream,
                 restarts, ghosts>>

-----------------------------------------------------------------------------
(* VoiceJobWorker._run and the child task it awaits.                       *)

(* queue.get() hands over a turn that is no longer queued: mark_running    *)
(* updates no row and the loop goes on.                                    *)
SkipTurn ==
  /\ up /\ child = "idle" /\ queue # << >>
  /\ status[Head(queue)] # "queued"
  /\ queue' = Tail(queue)
  /\ UNCHANGED <<durable, up, active, child, killed, owners, duplicates, stream,
                 restarts, ghosts>>

(* mark_running, and the child task is created.                            *)
TakeTurn ==
  /\ up /\ child = "idle" /\ queue # << >>
  /\ status[Head(queue)] = "queued"
  /\ queue' = Tail(queue)
  /\ active' = Head(queue)
  /\ child' = "running"
  /\ killed' = FALSE
  /\ status' = [status EXCEPT ![Head(queue)] = "running"]
  /\ runs' = [runs EXCEPT ![Head(queue)] = @ + 1]
  /\ UNCHANGED <<sha, createdAt, claimed, file, up, owners, duplicates, stream,
                 restarts, acked, opened>>

(* mark_running fails, or the reading of the row it marked: the error      *)
(* leaves the loop, nothing restarts it, and the turn is lost to the queue. *)
WorkerDiesTaking ==
  /\ up /\ child = "idle" /\ queue # << >>
  /\ queue' = Tail(queue)
  /\ child' = "dead"
  /\ \/ UNCHANGED status
     \/ /\ status[Head(queue)] = "queued"
        /\ status' = [status EXCEPT ![Head(queue)] = "running"]
  /\ UNCHANGED <<sha, createdAt, claimed, file, up, active, killed, owners,
                 duplicates, stream, restarts, ghosts>>

(* Mutant: the pipeline reports a stage the table does not know.           *)
NextStageUnknown(s) == CASE s = "running" -> "transcribing"
                         [] s = "transcribing" -> "thinking"
                         [] s = "thinking" -> "speaking"

NextStage(s) == CASE s = "running" -> "transcribing"
                  [] s = "transcribing" -> "thinking"
                  [] s = "thinking" -> "synthesizing"

(* set_progress, which leaves a row that is no longer active alone.        *)
SetProgress(r, s) ==
  status' = IF status[r] \in Active THEN [status EXCEPT ![r] = s] ELSE status

(* The pipeline reports its next stage.  A cancelled task cannot: its next *)
(* step raises CancelledError.                                             *)
ChildProgress ==
  /\ up /\ child \in {"running", "transcribing", "thinking"} /\ ~killed
  /\ child' = NextStage(child)
  /\ SetProgress(active, NextStage(child))
  /\ UNCHANGED <<sha, createdAt, claimed, file, up, queue, active, killed, owners,
                 duplicates, stream, restarts, ghosts>>

(* The child task is done: with the path of a reply once it synthesized    *)
(* one, with an exception, or cancelled.                                   *)
ChildEnds(result) ==
  /\ up /\ child \in Active
  /\ \/ result = "returned" /\ child = "synthesizing" /\ ~killed
     \/ result = "raised"
     \/ result = "cancelled" /\ killed
  /\ child' = result
  /\ UNCHANGED <<durable, up, queue, active, killed, owners, duplicates, stream,
                 restarts, ghosts>>

(* Mutant: finish knows one stage only.                                    *)
FinishSynthesized(r, s) ==
  status' = IF status[r] = "synthesizing" THEN [status EXCEPT ![r] = s] ELSE status

(* store.finish, which leaves a row that is no longer active alone.        *)
FinishRow(r, s) ==
  status' = IF status[r] \in Active THEN [status EXCEPT ![r] = s] ELSE status

(* The worker resumes after `await current`: a reply that is valid, one    *)
(* that is not (tts_failed), an exception, or a cancelled child.           *)
WorkerFinishes(outcome) ==
  /\ up /\ \/ child = "returned" /\ outcome \in {"ready", "failed"}
           \/ child = "raised" /\ outcome = "failed"
           \/ child = "cancelled" /\ outcome = "interrupted"
  /\ FinishRow(active, outcome)
  /\ active' = NoJob
  /\ child' = "idle"
  /\ killed' = FALSE
  /\ UNCHANGED <<sha, createdAt, claimed, file, up, queue, owners, duplicates,
                 stream, restarts, ghosts>>

(* finish fails where an error or a cancellation is being recorded: the    *)
(* row keeps its status and the loop is left.                              *)
WorkerDiesFinishing ==
  /\ up /\ child \in {"returned", "raised", "cancelled"}
  /\ active' = NoJob
  /\ child' = "dead"
  /\ killed' = FALSE
  /\ UNCHANGED <<durable, up, queue, owners, duplicates, stream, restarts, ghosts>>

-----------------------------------------------------------------------------
(* POST .../cancel and GET .../audio?stream=1.                             *)

(* store.cancel, then worker.cancel; cancelling a finished task is a no-op. *)
CancelTurn(r) ==
  /\ up /\ status[r] \in Active \cup {"queued"}
  /\ status' = [status EXCEPT ![r] = "cancelled"]
  /\ killed' = (killed \/ (active = r /\ child \in Active))
  /\ UNCHANGED <<sha, createdAt, claimed, file, up, queue, active, child, owners,
                 duplicates, stream, restarts, ghosts>>

(* The WHERE clause of claim_audio_stream.                                 *)
StreamClaimable(r) == ~claimed[r] /\ status[r] \in {"synthesizing", "ready"}

(* claim_audio_stream commits before the first byte of the response.       *)
ClaimAudioStream(r) ==
  /\ up /\ StreamClaimable(r)
  /\ claimed' = [claimed EXCEPT ![r] = TRUE]
  /\ stream' = [stream EXCEPT ![r] = "open"]
  /\ opened' = [opened EXCEPT ![r] = @ + 1]
  /\ UNCHANGED <<status, sha, createdAt, file, up, queue, active, child, killed,
                 owners, duplicates, restarts, acked, runs>>

(* chunks() sends the rest of a reply that became ready.                   *)
StreamCompletes(r) ==
  /\ up /\ stream[r] = "open" /\ status[r] = "ready"
  /\ stream' = [stream EXCEPT ![r] = "complete"]
  /\ UNCHANGED <<durable, up, queue, active, child, killed, owners, duplicates,
                 restarts, ghosts>>

(* chunks() stops: the turn ended otherwise, 180 s passed, the device left. *)
StreamBreaks(r) ==
  /\ up /\ stream[r] = "open"
  /\ stream' = [stream EXCEPT ![r] = "broken"]
  /\ UNCHANGED <<durable, up, queue, active, child, killed, owners, duplicates,
                 restarts, ghosts>>

-----------------------------------------------------------------------------
UploadStep(r) ==
  \/ ClaimNew(r) \/ ClaimAgain(r) \/ ClaimDuplicate(r)
  \/ UploadFails(r) \/ DuplicateRejected(r)
  \/ \E d \in Digests :
       \/ UploadCompletes(r, d) \/ DuplicateVerified(r, d)
       \/ CommitFails(r, d) \/ CrashInComplete(r, d)

WorkerStep ==
  \/ SkipTurn \/ TakeTurn \/ ChildProgress \/ WorkerDiesTaking \/ WorkerDiesFinishing
  \/ \E result \in {"returned", "raised", "cancelled"} : ChildEnds(result)
  \/ \E outcome \in {"ready", "failed", "interrupted"} : WorkerFinishes(outcome)

DeviceStep(r) ==
  CancelTurn(r) \/ ClaimAudioStream(r) \/ StreamCompletes(r) \/ StreamBreaks(r)

Next ==
  \/ Start \/ Crash \/ Close
  \/ WorkerStep
  \/ \E r \in Requests : UploadStep(r) \/ DeviceStep(r)

Spec == Init /\ [][Next]_vars

(* Docker restarts the process (restart: unless-stopped); the worker's loop *)
(* runs; the pipeline has a deadline (asyncio.timeout) so its task ends.   *)
(* Uploads, cancellations and streams depend on the device: no fairness.   *)
Fairness ==
  /\ WF_vars(Start)
  /\ WF_vars(SkipTurn \/ TakeTurn)
  /\ WF_vars(\E result \in {"returned", "raised", "cancelled"} : ChildEnds(result))
  /\ WF_vars(\E outcome \in {"ready", "failed", "interrupted"} : WorkerFinishes(outcome))

FairSpec == Spec /\ Fairness
-----------------------------------------------------------------------------
(* Properties.                                                             *)

(* A 202 is a promise about the body it answered: whatever was retried or  *)
(* crashed between, the row keeps that body's digest, input.pcm holds that *)
(* body, and the row never falls back to an upload (complete_upload moves  *)
(* the file before it commits; verify_duplicate answers from the row).     *)
AckedAudioIsTheTurn ==
  \A r \in Requests : \A d \in acked[r] :
    sha[r] = d /\ file[r] = d /\ status[r] \notin Open

(* The agent sees a turn at most once, across retried uploads, restarts    *)
(* with the row still queued, and shutdowns (mark_running, recovery).      *)
ProcessedAtMostOnce == \A r \in Requests : runs[r] <= 1

(* An upload has one live handler at most, and only while its row is       *)
(* uploading: a handler never settles an upload that another one took over *)
(* or completed (upload_not_owned), across retries and restarts.           *)
UploadHasOneOwner ==
  \A r \in Requests :
    owners[r] <= 1 /\ (owners[r] > 0 => up /\ status[r] = "uploading")

(* While the worker lives, a row shown as being processed is the one it    *)
(* holds (a worker that a database error ended leaves its row); a turn the *)
(* worker holds was cancelled at most, never finished behind its back; and *)
(* a live child of a cancelled turn has been told to stop.                 *)
WorkerOwnsActiveRow ==
  /\ \A r \in Requests : up /\ child # "dead" /\ status[r] \in Active => active = r
  /\ active # NoJob => status[active] \in Active \cup {"cancelled"}
  /\ active # NoJob /\ child \in Active => (killed <=> status[active] = "cancelled")

(* The queued rows fit the asyncio.Queue, so that put_nowait in start()    *)
(* never raises and the gateway can always come back after a crash.        *)
RecoveredQueueFits == Cardinality(QueuedRows) <= MaxQueue

(* The streamed reply is opened at most once per request in the lifetime   *)
(* of the archive, and only a ready turn was streamed to its end.          *)
StreamedAtMostOnce ==
  \A r \in Requests :
    /\ opened[r] <= 1
    /\ stream[r] = "complete" => status[r] = "ready" /\ claimed[r]

(* A turn is processed and streamed at most once.                          *)
TurnsOnce == ProcessedAtMostOnce /\ StreamedAtMostOnce

(* Rows, handlers, queue and worker agree, so that a restart can take over. *)
QueueAndWorker == UploadHasOneOwner /\ WorkerOwnsActiveRow /\ RecoveredQueueFits

(* What a recorder was told last stays true: a final status is never       *)
(* rewritten by a late finish, a cancellation or a recovery.               *)
FinalStatusIsFinal ==
  [][\A r \in Requests : status[r] \in Terminal => status'[r] = status[r]]_vars

(* A turn in the worker's queue or in its hands ends, restarts included,   *)
(* unless a failing database ends the worker itself (worker.py:74, 99, 107). *)
ScheduledTurnEnds ==
  \A r \in Requests :
    (r \in ToSet(queue) \/ active = r) ~> (status[r] \in Terminal \/ child = "dead")

(* VoiceJobs implements TurnService.                                       *)
Phase(s) == CASE s \in Open -> "open"
              [] s = "queued" -> "accepted"
              [] s \in Active -> "working"
              [] s \in Terminal -> s

Service == INSTANCE TurnService WITH
  phase <- [r \in Requests |-> Phase(status[r])], audio <- sha, played <- claimed

ImplementsTurnService == Service!Spec
=============================================================================
