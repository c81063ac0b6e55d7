------------------------------ MODULE AliceQueue ------------------------------
(***************************************************************************)
(* The Alice skill of the gateway: webhook deliveries of one owner's       *)
(* utterances (api.py, dialogue.py), the durable store of events, draft,   *)
(* jobs and replies (store.py) and the worker that processes the jobs      *)
(* (worker.py).  The platform repeats a delivery that got no answer in     *)
(* time, deliveries overlap, a store call may outlive its webhook, the     *)
(* database may be busy, and the gateway may restart at any point.         *)
(*                                                                         *)
(* A text is the sequence of the events whose utterances it joins.  What a *)
(* job's text is turned into is the processor's business; here a job ends  *)
(* done, failed or in need of a review.                                    *)
(***************************************************************************)
EXTENDS Integers, Sequences, FiniteSets, SequencesExt

CONSTANTS
  NEvents,        \* events 1 .. NEvents: (skill, session, message) keys in the order they are said
  Utterances,     \* what may be said
  Slots,          \* webhook requests in progress at a time
  MaxRepeats,     \* deliveries beyond each event's first
  MaxQueuedJobs,  \* MAX_QUEUED_JOBS
  DraftMax,       \* DRAFT_MAX_CHARS, in fragments
  Pages,          \* parts that a long reply is read in
  Outcomes        \* how the processor may end a job

ASSUME BoundsAssumption ==
  /\ NEvents \in Nat /\ MaxRepeats \in Nat /\ MaxQueuedJobs \in Nat \ {0}
  /\ DraftMax \in Nat /\ Pages \in Nat \ {0}

ASSUME OutcomesAssumption == Outcomes \subseteq {"done", "needs_review", "failed"}

\* "idea" stands for every utterance that is no command of the skill.
ASSUME UtterancesAssumption ==
  Utterances \subseteq {"idea", "start", "finish", "cancel", "scrap", "yes", "no", "status", "next"}

VARIABLES
  said,        \* the utterance of each event, Unsaid before its first delivery
  repeats,     \* deliveries that repeated an event
  handler,     \* the webhook requests in progress
  events,      \* table events: the action and the reply each key was accepted with
  frozen,      \* table webhook_replies
  draft,       \* table drafts; asked: a cancellation of it was asked for, nothing was added since
  confirming,  \* table draft_confirmations
  jobs,        \* table jobs, in the order of created_at
  cursor,      \* table reply_cursors
  worker,      \* the job the worker has claimed, Free or Dead
  replied,     \* history: the answers given to each event, error codes aside
  discarded    \* history: the events whose text was discarded with a draft

store == <<events, frozen, draft, confirming, jobs, cursor, discarded>>
vars == <<said, repeats, handler, worker, replied, store>>

Events == 1 .. NEvents
Unsaid == "unsaid"
Free == 0
Dead == -1

NoDraft == [open |-> FALSE, text |-> <<>>, asked |-> FALSE]
Statuses == {"queued", "running", "done", "failed", "needs_review"}
JobType == [event: Events, text: Seq(Events), status: Statuses, pages: 0 .. Pages]

(* A reply is a fixed sentence, or a part of what a job answered.          *)
Say(sentence) == [kind |-> sentence, job |-> 0, page |-> 0]
Part(i, page) == [kind |-> "part", job |-> i, page |-> page]
Nothing == Say("nothing")
Rejections == {Say("full"), Say("overflow"), Say("conflict")}

Idle == [key |-> 0, action |-> "none", reply |-> Nothing, pc |-> "idle"]

Init ==
  /\ said = [k \in Events |-> Unsaid] /\ repeats = 0
  /\ handler = [s \in Slots |-> Idle]
  /\ events = [k \in Events |-> [action |-> "none", reply |-> Nothing]]
  /\ frozen = [k \in Events |-> Nothing]
  /\ draft = NoDraft /\ confirming = FALSE /\ jobs = <<>> /\ cursor = [job |-> 0, page |-> 1]
  /\ worker = Free
  /\ replied = [k \in Events |-> {}] /\ discarded = {}

Accepted(k) == events[k].action # "none"
JobsWith(status) == {i \in DOMAIN jobs : jobs[i].status = status}
JobsOf(k) == {i \in DOMAIN jobs : jobs[i].event = k}
Newest(S) == CHOOSE i \in S : \A j \in S : j <= i
Oldest(S) == CHOOSE i \in S : \A j \in S : i <= j

-----------------------------------------------------------------------------
(* route_utterance: the action is chosen from the draft as it is now.      *)

Action(u) ==
  IF draft.open
  THEN CASE u = "yes" /\ confirming -> "confirm_cancel"
         [] u = "no" /\ confirming -> "decline_cancel"
         [] u = "finish" -> "finish_draft"
         [] u \in {"cancel", "scrap"} -> "cancel_request"
         [] u = "start" -> "resume_draft"
         [] OTHER -> "append_draft"
  ELSE CASE u = "start" -> "start_draft"
         [] u = "finish" -> "finish_draft"
         [] u = "scrap" \/ (u = "cancel" /\ confirming) -> "cancel_draft"
         [] u = "cancel" -> "noop"
         [] u = "status" -> "status"
         [] u = "next" -> "next_reply"
         [] OTHER -> "new_idea"

PageOf(i) == IF cursor.job = i THEN cursor.page ELSE 1

StatusReply ==
  LET ended == {i \in DOMAIN jobs : jobs[i].status \in {"done", "failed", "needs_review"}}
  IN  IF JobsWith("queued") \union JobsWith("running") # {} THEN Say("pending")
      ELSE IF ended = {} THEN Say("empty")
      ELSE IF jobs[Newest(ended)].status = "done" THEN Part(Newest(ended), PageOf(Newest(ended)))
      ELSE Say(jobs[Newest(ended)].status)

(* The reply the router proposes; the store may replace it.                *)
Proposed(action) ==
  CASE action \in {"new_idea", "finish_draft"} -> Say("accepted")
    [] action \in {"confirm_cancel", "cancel_draft"} -> Say("cancelled")
    [] action = "status" -> StatusReply
    [] OTHER -> Say(action)

(* A delivery of an event: the next one said, or one said before.          *)
Deliver(s, k, u) ==
  /\ handler[s] = Idle
  /\ \A j \in Events : j < k => said[j] # Unsaid
  /\ said[k] \in {Unsaid, u}
  /\ said' = [said EXCEPT ![k] = u]
  /\ repeats' = IF said[k] = Unsaid THEN repeats ELSE repeats + 1
  /\ repeats' <= MaxRepeats
  /\ handler' = [handler EXCEPT ![s] =
       [key |-> k, action |-> Action(u), reply |-> Proposed(Action(u)), pc |-> "accept"]]
  /\ UNCHANGED <<worker, replied, store>>

-----------------------------------------------------------------------------
(* AliceStore.accept: one transaction, on a thread of its own.             *)

Answer(s, reply) ==
  /\ handler' = [handler EXCEPT ![s] = Idle]
  /\ replied' = [replied EXCEPT ![handler[s].key] = @ \union {reply}]

(* A webhook that already answered 503 has nobody left to tell.            *)
AcceptReturns(s, reply) ==
  IF handler[s].pc = "late" THEN handler' = [handler EXCEPT ![s] = Idle] /\ UNCHANGED replied
  ELSE IF handler[s].action \in {"new_idea", "finish_draft"} /\ reply \notin Rejections
       THEN handler' = [handler EXCEPT ![s].pc = "wait", ![s].reply = reply] /\ UNCHANGED replied
       ELSE Answer(s, reply)

Record(s, reply) ==
  /\ events' = [events EXCEPT ![handler[s].key] = [action |-> handler[s].action, reply |-> reply]]
  /\ AcceptReturns(s, reply)

Reject(s, why) == AcceptReturns(s, Say(why)) /\ UNCHANGED store

QueueFull == Cardinality(JobsWith("queued")) >= MaxQueuedJobs

CreateJob(k, text) ==
  jobs' = Append(jobs, [event |-> k, text |-> text, status |-> "queued", pages |-> 0])

NewIdea(s) ==
  IF QueueFull THEN Reject(s, "full")
  ELSE /\ CreateJob(handler[s].key, <<handler[s].key>>)
       /\ Record(s, handler[s].reply)
       /\ UNCHANGED <<frozen, draft, confirming, cursor, discarded>>

AppendDraftAsked(s) ==  \* mutant: the question whether to cancel stays open
  IF ~draft.open THEN Reject(s, "conflict")
  ELSE IF Len(draft.text) >= DraftMax THEN Reject(s, "overflow")
  ELSE /\ draft' = [draft EXCEPT !.text = Append(@, handler[s].key), !.asked = FALSE]
       /\ Record(s, handler[s].reply)
       /\ UNCHANGED <<frozen, confirming, jobs, cursor, discarded>>

AppendDraft(s) ==
  IF ~draft.open THEN Reject(s, "conflict")
  ELSE IF Len(draft.text) >= DraftMax THEN Reject(s, "overflow")
  ELSE /\ draft' = [draft EXCEPT !.text = Append(@, handler[s].key), !.asked = FALSE]
       /\ confirming' = FALSE
       /\ Record(s, handler[s].reply)
       /\ UNCHANGED <<frozen, jobs, cursor, discarded>>

StartDraft(s) ==
  /\ draft' = IF draft.open THEN draft ELSE [NoDraft EXCEPT !.open = TRUE]
  /\ Record(s, IF draft.open THEN Say("resume_draft") ELSE handler[s].reply)
  /\ UNCHANGED <<frozen, confirming, jobs, cursor, discarded>>

ResumeDraft(s) ==
  /\ Record(s, IF draft.open THEN handler[s].reply ELSE Say("no_draft"))
  /\ UNCHANGED <<frozen, draft, confirming, jobs, cursor, discarded>>

RequestCancel(s) ==
  /\ confirming' = (draft.open \/ confirming)
  /\ draft' = [draft EXCEPT !.asked = draft.open]
  /\ Record(s, IF draft.open THEN handler[s].reply ELSE Say("noop"))
  /\ UNCHANGED <<frozen, jobs, cursor, discarded>>

DropDraft == draft' = NoDraft /\ confirming' = FALSE /\ discarded' = discarded \union ToSet(draft.text)

ConfirmCancel(s) ==
  /\ IF confirming THEN DropDraft ELSE UNCHANGED <<draft, confirming, discarded>>
  /\ Record(s, IF confirming THEN handler[s].reply ELSE Say("not_asked"))
  /\ UNCHANGED <<frozen, jobs, cursor>>

DeclineCancel(s) ==
  /\ confirming' = FALSE
  /\ draft' = [draft EXCEPT !.asked = FALSE]
  /\ Record(s, handler[s].reply)
  /\ UNCHANGED <<frozen, jobs, cursor, discarded>>

CancelDraft(s) == DropDraft /\ Record(s, handler[s].reply) /\ UNCHANGED <<frozen, jobs, cursor>>

(* The part after the one read last, of the newest job that is done.       *)
NextReply(s) ==
  LET done == JobsWith("done")
      i == Newest(done)
      more == done # {} /\ PageOf(i) < jobs[i].pages
  IN  /\ cursor' = IF more THEN [job |-> i, page |-> PageOf(i) + 1] ELSE cursor
      /\ Record(s, IF done = {} THEN Say("no_reply") ELSE IF more THEN Part(i, PageOf(i) + 1) ELSE Say("end"))
      /\ UNCHANGED <<frozen, draft, confirming, jobs, discarded>>

FinishDraftOpen(s) ==  \* mutant: the draft stays open
  IF ~draft.open \/ draft.text = <<>>
  THEN /\ draft' = NoDraft /\ Record(s, handler[s].reply)
       /\ UNCHANGED <<frozen, confirming, jobs, cursor, discarded>>
  ELSE IF QueueFull THEN Reject(s, "full")
  ELSE /\ CreateJob(handler[s].key, draft.text)
       /\ Record(s, handler[s].reply)
       /\ UNCHANGED <<frozen, draft, confirming, cursor, discarded>>

(* A draft without text, or none at all, leaves the proposed reply as it   *)
(* is; the confirmation that may be pending stays.                         *)
FinishDraft(s) ==
  IF ~draft.open \/ draft.text = <<>>
  THEN /\ draft' = NoDraft /\ Record(s, handler[s].reply)
       /\ UNCHANGED <<frozen, confirming, jobs, cursor, discarded>>
  ELSE IF QueueFull THEN Reject(s, "full")
  ELSE /\ CreateJob(handler[s].key, draft.text)
       /\ draft' = NoDraft
       /\ Record(s, handler[s].reply)
       /\ UNCHANGED <<frozen, confirming, cursor, discarded>>

JustReply(s) ==
  /\ handler[s].action \in {"noop", "status"}
  /\ Record(s, handler[s].reply)
  /\ UNCHANGED <<frozen, draft, confirming, jobs, cursor, discarded>>

ApplyEvent(s) ==
  \/ handler[s].action = "new_idea" /\ NewIdea(s)
  \/ handler[s].action = "append_draft" /\ AppendDraft(s)
  \/ handler[s].action = "start_draft" /\ StartDraft(s)
  \/ handler[s].action = "resume_draft" /\ ResumeDraft(s)
  \/ handler[s].action = "cancel_request" /\ RequestCancel(s)
  \/ handler[s].action = "confirm_cancel" /\ ConfirmCancel(s)
  \/ handler[s].action = "decline_cancel" /\ DeclineCancel(s)
  \/ handler[s].action = "cancel_draft" /\ CancelDraft(s)
  \/ handler[s].action = "next_reply" /\ NextReply(s)
  \/ handler[s].action = "finish_draft" /\ FinishDraft(s)
  \/ JustReply(s)

AcceptUnchecked(s) ==  \* mutant: the key is not looked up
  /\ handler[s].pc \in {"accept", "late"}
  /\ ApplyEvent(s)
  /\ UNCHANGED <<said, repeats, worker>>

(* The key's stored reply answers a repeated event; the hash of its        *)
(* payload covers the action it was routed to.                             *)
Accept(s) ==
  /\ handler[s].pc \in {"accept", "late"}
  /\ LET stored == events[handler[s].key]
     IN  IF ~Accepted(handler[s].key) THEN ApplyEvent(s)
         ELSE IF stored.action = handler[s].action THEN AcceptReturns(s, stored.reply) /\ UNCHANGED store
         ELSE Reject(s, "conflict")
  /\ UNCHANGED <<said, repeats, worker>>

(* The budget is used up: 503, while the store's thread goes on.           *)
AcceptTimesOut(s) ==
  /\ handler[s].pc = "accept"
  /\ handler' = [handler EXCEPT ![s].pc = "late"]
  /\ UNCHANGED <<said, repeats, worker, replied, store>>

-----------------------------------------------------------------------------
(* resolve_webhook_reply: wait for the event's own job until the deadline, *)
(* then freeze the one answer of the event.                                *)

Ending(i) == IF jobs[i].status = "done" THEN Part(i, 1) ELSE Say(jobs[i].status)

Freeze(s, reply) ==
  /\ frozen' = [frozen EXCEPT ![handler[s].key] = reply]
  /\ Answer(s, reply)
  /\ UNCHANGED <<events, draft, confirming, jobs, cursor, discarded>>

ResolveNewest(s) ==  \* mutant: the newest job answers
  /\ handler[s].pc = "wait"
  /\ IF frozen[handler[s].key] # Nothing
     THEN Answer(s, frozen[handler[s].key]) /\ UNCHANGED store
     ELSE LET i == Newest(DOMAIN jobs)
          IN  Freeze(s, IF jobs = <<>> \/ jobs[i].status \in {"queued", "running"} THEN handler[s].reply ELSE Ending(i))
  /\ UNCHANGED <<said, repeats, worker>>

Resolve(s) ==
  /\ handler[s].pc = "wait"
  /\ LET own == JobsOf(handler[s].key)
     IN  IF frozen[handler[s].key] # Nothing
         THEN Answer(s, frozen[handler[s].key]) /\ UNCHANGED store
         ELSE IF own = {} THEN Freeze(s, handler[s].reply)
         ELSE \E i \in own : Freeze(s, IF jobs[i].status \in {"queued", "running"} THEN handler[s].reply ELSE Ending(i))
  /\ UNCHANGED <<said, repeats, worker>>

(* The database stays busy beyond its timeout: 500, nothing is written.    *)
WebhookFails(s) ==
  /\ handler[s].pc \in {"accept", "late", "wait"}
  /\ handler' = [handler EXCEPT ![s] = Idle]
  /\ UNCHANGED <<said, repeats, worker, replied, store>>

-----------------------------------------------------------------------------
(* The worker.                                                             *)

SetStatus(i, status, pages) ==
  /\ jobs' = [jobs EXCEPT ![i].status = status, ![i].pages = pages]
  /\ UNCHANGED <<said, repeats, handler, replied, events, frozen, draft, confirming, cursor, discarded>>

ClaimNewest ==  \* mutant: no ORDER BY
  /\ worker = Free /\ JobsWith("queued") # {}
  /\ worker' = Newest(JobsWith("queued"))
  /\ SetStatus(worker', "running", 0)

Claim ==
  /\ worker = Free /\ JobsWith("queued") # {}
  /\ worker' = Oldest(JobsWith("queued"))
  /\ SetStatus(worker', "running", 0)

Complete ==
  /\ worker \in DOMAIN jobs
  /\ \E outcome \in Outcomes, pages \in 1 .. Pages :
       SetStatus(worker, outcome, IF outcome = "done" THEN pages ELSE 0)
  /\ worker' = Free

(* A database error in claim_next, complete or fail ends the worker's task.*)
WorkerDies ==
  /\ worker # Dead
  /\ worker' = Dead
  /\ UNCHANGED <<said, repeats, handler, replied, store>>

RestartForgetful ==  \* mutant: running jobs are not recovered
  /\ handler' = [s \in Slots |-> Idle] /\ worker' = Free
  /\ UNCHANGED <<said, repeats, replied, store>>

(* The gateway stops, or crashes, and starts: recover_running.             *)
Restart ==
  /\ handler' = [s \in Slots |-> Idle] /\ worker' = Free
  /\ jobs' = [i \in DOMAIN jobs |->
       IF jobs[i].status = "running" THEN [jobs[i] EXCEPT !.status = "queued"] ELSE jobs[i]]
  /\ UNCHANGED <<said, repeats, replied, events, frozen, draft, confirming, cursor, discarded>>

Next ==
  \/ \E s \in Slots :
       \/ \E k \in Events, u \in Utterances : Deliver(s, k, u)
       \/ Accept(s) \/ AcceptTimesOut(s) \/ Resolve(s) \/ WebhookFails(s)
  \/ Claim \/ Complete \/ WorkerDies \/ Restart

Spec == Init /\ [][Next]_vars

(* The worker's loop goes on (claims at the latest after 5 s) and every    *)
(* job has a deadline (180 s).                                             *)
FairSpec == Spec /\ WF_vars(Claim) /\ WF_vars(Complete)

-----------------------------------------------------------------------------
Actions == {"none", "new_idea", "append_draft", "start_draft", "resume_draft", "cancel_request", "confirm_cancel",
            "decline_cancel", "cancel_draft", "next_reply", "finish_draft", "noop", "status"}
Sentences == Actions \union Statuses
               \union {"nothing", "accepted", "cancelled", "no_draft", "not_asked", "no_reply", "end",
                       "pending", "empty", "full", "overflow", "conflict", "part"}
Reply == [kind: Sentences, job: 0 .. NEvents, page: 0 .. Pages]

TypeOK ==
  /\ said \in [Events -> Utterances \union {Unsaid}] /\ repeats \in 0 .. MaxRepeats
  /\ handler \in [Slots -> [key: 0 .. NEvents, action: Actions, reply: Reply,
                            pc: {"idle", "accept", "late", "wait"}]]
  /\ events \in [Events -> [action: Actions, reply: Reply]] /\ frozen \in [Events -> Reply]
  /\ draft \in [open: BOOLEAN, text: Seq(Events), asked: BOOLEAN] /\ Len(draft.text) <= DraftMax
  /\ confirming \in BOOLEAN
  /\ jobs \in Seq(JobType)
  /\ cursor \in [job: 0 .. NEvents, page: 1 .. Pages] /\ worker \in Dead .. Len(jobs)
  /\ replied \in [Events -> SUBSET Reply]
  /\ discarded \subseteq Events

(* The store keeps its type, and an event makes at most one job, however   *)
(* often and however concurrently it is delivered (store.py: no duplicated *)
(* work).                                                                  *)
OneJobPerEvent == TypeOK /\ \A k \in Events : Cardinality(JobsOf(k)) <= 1

(* What was accepted is in exactly one place: in the open draft, in one    *)
(* job, or among what a cancellation discarded (nothing is lost or         *)
(* doubled by finish, overflow, a full queue or a restart).                *)
Text(i) == IF i = 0 THEN draft.text ELSE jobs[i].text
Copies(k) ==
  {p \in (0 .. Len(jobs)) \X (1 .. DraftMax + 1) : p[2] <= Len(Text(p[1])) /\ Text(p[1])[p[2]] = k}

NothingLost ==
  \A k \in Events :
    Cardinality(Copies(k)) + (IF k \in discarded THEN 1 ELSE 0)
      = IF events[k].action \in {"new_idea", "append_draft"} THEN 1 ELSE 0

(* Deliveries that are not rejected get the same answer, whatever the      *)
(* job did between them (docs/alice-skill.md: the first answer is kept).   *)
RepliesFrozen == \A k \in Events : Cardinality(replied[k] \ Rejections) <= 1

(* A webhook that reports how an idea or a draft ended reports of the job  *)
(* this event made, and truly.                                             *)
OwnResult ==
  \A k \in Events : events[k].action \in {"new_idea", "finish_draft"} =>
    \A reply \in replied[k] \ (Rejections \union {Say("accepted")}) :
      \E i \in JobsOf(k) : reply = Ending(i)

(* An event has one answer, and it is true.                                *)
OneAnswer == RepliesFrozen /\ OwnResult

(* Jobs end in the order they were accepted in, also across restarts: they *)
(* share one conversation.                                                 *)
EndInOrder ==
  \A i, j \in DOMAIN jobs :
    i < j /\ jobs[i].status = "queued" => jobs[j].status = "queued"

(* An accepted job ends, unless the worker is dead for good or the gateway *)
(* restarts for ever.                                                      *)
JobsEnd ==
  \/ \A i \in Events :
       i \in DOMAIN jobs ~> i \in DOMAIN jobs /\ jobs[i].status \notin {"queued", "running"}
  \/ <>[](worker = Dead) \/ []<><<Restart>>_vars

(* What was dictated is thrown away only by the answer to a question asked *)
(* after the last of it was said, as long as webhooks do not overlap.      *)
DiscardIsAnswered == [][discarded' # discarded => draft.asked]_vars

-----------------------------------------------------------------------------
(* docs/alice-skill.md: a cancellation needs a confirmation; a draft goes  *)
(* away without a job only if it was asked whether to cancel this draft.   *)
CancelIsConfirmed ==
  [][draft.open /\ ~draft'.open =>
       draft.asked \/ \E k \in Events : ~Accepted(k) /\ events'[k].action = "finish_draft"]_vars
=============================================================================
