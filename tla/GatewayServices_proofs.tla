----------------------- MODULE GatewayServices_proofs -----------------------
(***************************************************************************)
(* Proofs about the gateway beside its voice jobs and text turns: the      *)
(* conversations of the Alice skill (AliceQueue), for any number of        *)
(* events, webhooks in progress, repeated deliveries, queued jobs and      *)
(* pages; the talk that recorder and Alice share (AgentSessions), for any  *)
(* number of turns, new talks, failures and restarts; and the spoken cues  *)
(* (CueGenerations, CueCache), for any sets, cues, attempts and faults.    *)
(***************************************************************************)
EXTENDS GatewayServices, FiniteSetTheorems, WellFoundedInduction, TLAPS

USE DEF Free, Dead

(* The greatest of some positions of a sequence.                           *)
LEMMA Greatest ==
  ASSUME NEW n \in Nat, NEW S \in SUBSET (1 .. n), S # {}
  PROVE  \E x \in S : \A y \in S : y <= x
<1> DEFINE above(x) == x .. n
           T == {above(x) : x \in S}
<1>1. IsWellFoundedOn(StrictSubsetOrdering(1 .. n), FiniteSubsetsOf(1 .. n))
  BY FS_StrictSubsetOrderingWellFounded
<1>2. FiniteSubsetsOf(1 .. n) = SUBSET (1 .. n)
  <2>1. IsFiniteSet(1 .. n)
    BY FS_Interval
  <2>2. QED
    BY <2>1, FS_FiniteSubsetsOfFinite
<1>3. \A x \in S : above(x) \in SUBSET (1 .. n)
  OBVIOUS
<1>4. T \subseteq SUBSET (1 .. n) /\ T # {}
  BY <1>3
<1> HIDE DEF T
<1>5. PICK t \in T : \A u \in T : <<u, t>> \notin StrictSubsetOrdering(1 .. n)
  BY <1>1, <1>2, <1>4, WFMin, ZenonT(60)
<1>6. PICK x \in S : t = above(x)
  BY DEF T
<1>7. ASSUME NEW y \in S PROVE y <= x
  <2>1. <<above(y), above(x)>> \notin StrictSubsetOrdering(1 .. n)
    BY <1>5, <1>6 DEF T
  <2>2. ~(above(y) \subseteq above(x) /\ above(y) # above(x))
    BY <1>3, <2>1 DEF StrictSubsetOrdering
  <2>3. y > x => above(y) \subseteq above(x) /\ x \in above(x) /\ x \notin above(y)
    OBVIOUS
  <2>4. QED
    BY <2>2, <2>3
<1>8. QED
  BY <1>7

(* The least of them is the greatest counted from the end.                 *)
LEMMA Smallest ==
  ASSUME NEW n \in Nat, NEW S \in SUBSET (1 .. n), S # {}
  PROVE  \E x \in S : \A y \in S : x <= y
<1> DEFINE T == {n + 1 - x : x \in S}
<1>1. \A x \in S : n + 1 - x \in 1 .. n
  OBVIOUS
<1>2. PICK t \in T : \A u \in T : u <= t
  <2>1. T \in SUBSET (1 .. n) /\ T # {}
    BY <1>1
  <2> HIDE DEF T
  <2>2. QED
    BY <2>1, Greatest
<1>3. PICK x \in S : t = n + 1 - x
  OBVIOUS
<1>4. \A y \in S : n + 1 - y <= n + 1 - x
  BY <1>2, <1>3
<1>5. QED
  BY <1>4

LEMMA NewestIsGreatest ==
  ASSUME NEW n \in Nat, NEW S \in SUBSET (1 .. n), S # {}
  PROVE  Newest(S) \in S /\ \A y \in S : y <= Newest(S)
BY Greatest DEF Newest

LEMMA OldestIsSmallest ==
  ASSUME NEW n \in Nat, NEW S \in SUBSET (1 .. n), S # {}
  PROVE  Oldest(S) \in S /\ \A y \in S : Oldest(S) <= y
BY Smallest DEF Oldest

-----------------------------------------------------------------------------
(* The steps of Next, with those of Accept named one by one: a repeated    *)
(* event, a rejection, or the first acceptance by one of the actions.      *)
Repeats(s) ==
  /\ handler[s].pc \in {"accept", "late"} /\ Accepted(handler[s].key)
  /\ events[handler[s].key].action = handler[s].action
  /\ AcceptReturns(s, events[handler[s].key].reply)
  /\ UNCHANGED <<said, repeats, worker, store>>
Rejects(s) ==
  /\ handler[s].pc \in {"accept", "late"}
  /\ \E reply \in Rejections : AcceptReturns(s, reply)
  /\ UNCHANGED <<said, repeats, worker, store>>
Applies(s, action, Effect) ==
  /\ handler[s].pc \in {"accept", "late"} /\ ~Accepted(handler[s].key)
  /\ handler[s].action = action /\ Effect
  /\ UNCHANGED <<said, repeats, worker>>

LEMMA NextCases ==
  ASSUME [Next]_vars
  PROVE  \/ \E s \in Slots, k \in Events, u \in Utterances : Deliver(s, k, u)
         \/ \E s \in Slots : Repeats(s)
         \/ \E s \in Slots : Rejects(s)
         \/ \E s \in Slots : Applies(s, "new_idea", NewIdea(s))
         \/ \E s \in Slots : Applies(s, "append_draft", AppendDraft(s))
         \/ \E s \in Slots : Applies(s, "start_draft", StartDraft(s))
         \/ \E s \in Slots : Applies(s, "resume_draft", ResumeDraft(s))
         \/ \E s \in Slots : Applies(s, "cancel_request", RequestCancel(s))
         \/ \E s \in Slots : Applies(s, "confirm_cancel", ConfirmCancel(s))
         \/ \E s \in Slots : Applies(s, "decline_cancel", DeclineCancel(s))
         \/ \E s \in Slots : Applies(s, "cancel_draft", CancelDraft(s))
         \/ \E s \in Slots : Applies(s, "next_reply", NextReply(s))
         \/ \E s \in Slots : Applies(s, "finish_draft", FinishDraft(s))
         \/ \E s \in Slots : Applies(s, handler[s].action, JustReply(s))
         \/ \E s \in Slots : AcceptTimesOut(s)
         \/ \E s \in Slots : Resolve(s)
         \/ \E s \in Slots : WebhookFails(s)
         \/ Claim
         \/ Complete
         \/ WorkerDies
         \/ Restart
         \/ UNCHANGED vars
<1>1. ASSUME NEW s \in Slots, Accept(s)
      PROVE  \/ Repeats(s) \/ Rejects(s)
             \/ Applies(s, "new_idea", NewIdea(s))
             \/ Applies(s, "append_draft", AppendDraft(s))
             \/ Applies(s, "start_draft", StartDraft(s))
             \/ Applies(s, "resume_draft", ResumeDraft(s))
             \/ Applies(s, "cancel_request", RequestCancel(s))
             \/ Applies(s, "confirm_cancel", ConfirmCancel(s))
             \/ Applies(s, "decline_cancel", DeclineCancel(s))
             \/ Applies(s, "cancel_draft", CancelDraft(s))
             \/ Applies(s, "next_reply", NextReply(s))
             \/ Applies(s, "finish_draft", FinishDraft(s))
             \/ Applies(s, handler[s].action, JustReply(s))
  <2>1. CASE ~Accepted(handler[s].key)
    BY <1>1, <2>1 DEF Accept, ApplyEvent, Applies
  <2>2. CASE Accepted(handler[s].key)
    BY <1>1, <2>2 DEF Accept, Repeats, Rejects, Reject, Rejections
  <2>3. QED
    BY <2>1, <2>2
<1>2. QED
  BY <1>1 DEF Next
-----------------------------------------------------------------------------
(* The inductive invariant, in parts.                                      *)
JobActions == {"new_idea", "finish_draft"}
TextActions == {"new_idea", "append_draft"}
Ended == {"done", "failed", "needs_review"}
Said(r) == r = Say("accepted")

(* A job is of an accepted event of its own.                               *)
JobsInv ==
  /\ \A i \in DOMAIN jobs : events[jobs[i].event].action \in JobActions
  /\ \A i, j \in DOMAIN jobs : jobs[i].event = jobs[j].event => i = j

(* One job at most is running, the one the worker has unless it died, and  *)
(* whatever is behind an unended job is queued.                            *)
WorkerInv ==
  /\ \A i \in DOMAIN jobs : jobs[i].status = "running" => worker \in {i, Dead}
  /\ worker \in DOMAIN jobs => jobs[worker].status = "running"
  /\ \A i, j \in DOMAIN jobs :
       i < j /\ jobs[i].status \in {"queued", "running"} => jobs[j].status = "queued"

(* A webhook in progress has an event; one that makes jobs is told that it *)
(* was accepted, and waits for a job of its own event only.                *)
HandlerInv ==
  /\ \A s \in Slots : handler[s].pc # "idle" =>
       /\ handler[s].key \in Events /\ handler[s].action # "none"
       /\ handler[s].action \in JobActions => Said(handler[s].reply)
  /\ \A s \in Slots : handler[s].pc = "wait" => events[handler[s].key].action \in JobActions
                                                /\ Said(handler[s].reply)
  /\ \A k \in Events : events[k].action \in JobActions => Said(events[k].reply)

(* What an event was answered, rejections aside: the frozen reply of a     *)
(* job's event, the stored one of any other.  A frozen reply tells of the  *)
(* event's own job, and of its end.                                        *)
AnswerInv ==
  /\ \A k \in Events : \A r \in replied[k] \ Rejections :
       \/ events[k].action \in JobActions /\ r = frozen[k] /\ r # Nothing
       \/ events[k].action \notin JobActions /\ Accepted(k) /\ r = events[k].reply
  /\ \A k \in Events : frozen[k] \notin {Nothing, Say("accepted")} =>
       \E i \in JobsOf(k) : jobs[i].status \in Ended /\ frozen[k] = Ending(i)

(* A fragment that was accepted is in one place and nothing else is.       *)
InDraft(n, k) == n \in DOMAIN draft.text /\ draft.text[n] = k
InJob(i, n, k) == i \in DOMAIN jobs /\ n \in DOMAIN jobs[i].text /\ jobs[i].text[n] = k
TextInv ==
  /\ draft.open \/ draft.text = <<>>
  /\ \A i \in DOMAIN jobs : Len(jobs[i].text) <= DraftMax + 1
  /\ \A k \in Events, n \in Nat : InDraft(n, k) =>
       /\ events[k].action \in TextActions /\ k \notin discarded
       /\ \A m \in Nat : InDraft(m, k) => n = m
       /\ \A i, m \in Nat : ~InJob(i, m, k)
  /\ \A k \in Events, i, n \in Nat : InJob(i, n, k) =>
       /\ events[k].action \in TextActions /\ k \notin discarded
       /\ \A j, m \in Nat : InJob(j, m, k) => i = j /\ n = m
  /\ \A k \in discarded : events[k].action \in TextActions
  /\ \A k \in Events : events[k].action \in TextActions =>
       \/ k \in discarded
       \/ \E n \in Nat : InDraft(n, k)
       \/ \E i, n \in Nat : InJob(i, n, k)

(* Text that is there while a confirmation is awaited was there when the   *)
(* question was asked.                                                     *)
AskedInv == confirming /\ draft.text # <<>> => draft.asked

IInv == TypeOK /\ JobsInv /\ WorkerInv /\ HandlerInv /\ AnswerInv /\ TextInv /\ AskedInv

-----------------------------------------------------------------------------
(* Types.                                                                  *)

LEMMA JobTypes ==
  ASSUME TypeOK
  PROVE  /\ Len(jobs) \in Nat /\ DOMAIN jobs = 1 .. Len(jobs)
         /\ \A i \in DOMAIN jobs :
              /\ jobs[i] \in JobType
              /\ jobs[i].event \in Events /\ jobs[i].text \in Seq(Events)
              /\ jobs[i].status \in Statuses /\ jobs[i].pages \in 0 .. Pages
<1>1. jobs \in Seq(JobType)
  BY DEF TypeOK
<1>2. \A i \in DOMAIN jobs : jobs[i] \in JobType
  BY <1>1
<1>3. QED
  BY <1>1, <1>2 DEF JobType

(* There are at most as many jobs as events.                               *)
LEMMA JobsFit ==
  ASSUME TypeOK, JobsInv
  PROVE  Len(jobs) \in 0 .. NEvents
<1> DEFINE owner == [i \in 1 .. Len(jobs) |-> jobs[i].event]
<1>1. Len(jobs) \in Nat /\ DOMAIN jobs = 1 .. Len(jobs) /\ NEvents \in Nat
  BY JobTypes, BoundsAssumption
<1>2. \A i \in DOMAIN jobs : jobs[i].event \in 1 .. NEvents
  BY JobTypes DEF Events
<1>3. owner \in [1 .. Len(jobs) -> 1 .. NEvents]
  BY <1>1, <1>2
<1>4. IsFiniteSet(1 .. Len(jobs)) /\ Cardinality(1 .. Len(jobs)) = Len(jobs)
  <2>1. 1 \in Int /\ Len(jobs) \in Int /\ Len(jobs) \in Nat
    BY <1>1
  <2>2. IsFiniteSet(1 .. Len(jobs)) /\ Cardinality(1 .. Len(jobs)) = IF 1 > Len(jobs) THEN 0 ELSE Len(jobs) - 1 + 1
    BY <2>1, FS_Interval, Zenon
  <2>3. QED
    BY <2>1, <2>2
<1>5. IsFiniteSet(1 .. NEvents) /\ Cardinality(1 .. NEvents) = NEvents
  <2>1. 1 \in Int /\ NEvents \in Int /\ NEvents \in Nat
    BY <1>1
  <2>2. IsFiniteSet(1 .. NEvents) /\ Cardinality(1 .. NEvents) = IF 1 > NEvents THEN 0 ELSE NEvents - 1 + 1
    BY <2>1, FS_Interval, Zenon
  <2>3. QED
    BY <2>1, <2>2
<1>6. \A x, y \in 1 .. Len(jobs) : owner[x] = owner[y] => x = y
  BY <1>1 DEF JobsInv
<1> HIDE DEF owner
<1>7. ~(Cardinality(1 .. NEvents) < Cardinality(1 .. Len(jobs)))
  <2>1. SUFFICES ASSUME Cardinality(1 .. NEvents) < Cardinality(1 .. Len(jobs)) PROVE FALSE
    OBVIOUS
  <2>2. \E x, y \in 1 .. Len(jobs) : x # y /\ owner[x] = owner[y]
    BY <2>1, <1>3, <1>4, <1>5, FS_PigeonHole, Zenon
  <2>3. QED
    BY <2>2, <1>6
<1>8. QED
  BY <1>1, <1>4, <1>5, <1>7

LEMMA SayType ==
  ASSUME NEW x \in Sentences
  PROVE  Say(x) \in Reply
BY BoundsAssumption DEF Say, Reply

LEMMA PartType ==
  ASSUME NEW i \in 1 .. NEvents, NEW page \in 1 .. Pages
  PROVE  Part(i, page) \in Reply
BY BoundsAssumption DEF Part, Reply, Sentences

LEMMA PageType ==
  ASSUME TypeOK, NEW i
  PROVE  PageOf(i) \in 1 .. Pages
BY BoundsAssumption DEF TypeOK, PageOf

LEMMA EndingType ==
  ASSUME TypeOK, JobsInv, NEW i \in DOMAIN jobs
  PROVE  Ending(i) \in Reply
<1>1. i \in 1 .. NEvents
  BY JobsFit, JobTypes, BoundsAssumption
<1>2. 1 \in 1 .. Pages
  BY BoundsAssumption
<1>3. Part(i, 1) \in Reply
  BY <1>1, <1>2, PartType
<1>4. Say(jobs[i].status) \in Reply
  BY SayType, JobTypes DEF Sentences
<1>5. QED
  BY <1>3, <1>4 DEF Ending

LEMMA StatusReplyType ==
  ASSUME TypeOK, JobsInv
  PROVE  StatusReply \in Reply
<1> DEFINE ended == {i \in DOMAIN jobs : jobs[i].status \in {"done", "failed", "needs_review"}}
<1>1. Say("pending") \in Reply /\ Say("empty") \in Reply
  BY SayType DEF Sentences
<1>2. CASE ended # {}
  <2>1. ended \in SUBSET (1 .. Len(jobs)) /\ Len(jobs) \in Nat
    BY JobTypes
  <2>2. Newest(ended) \in DOMAIN jobs
    BY <1>2, <2>1, NewestIsGreatest
  <2>3. Newest(ended) \in 1 .. NEvents
    BY <2>2, JobsFit, JobTypes, BoundsAssumption
  <2>4. Part(Newest(ended), PageOf(Newest(ended))) \in Reply
    BY <2>3, PageType, PartType
  <2>5. Say(jobs[Newest(ended)].status) \in Reply
    BY <2>2, SayType, JobTypes DEF Sentences
  <2>6. QED
    BY <1>1, <2>4, <2>5 DEF StatusReply
<1>3. QED
  BY <1>1, <1>2 DEF StatusReply

(* The router's action is one of the eleven; the ones that make jobs are   *)
(* answered with "accepted".                                               *)
LEMMA Routed ==
  ASSUME TypeOK, JobsInv, NEW u \in Utterances
  PROVE  /\ Action(u) \in Actions /\ Action(u) # "none"
         /\ Proposed(Action(u)) \in Reply
         /\ Action(u) \in JobActions => Said(Proposed(Action(u)))
<1>1. Action(u) \in Actions /\ Action(u) # "none"
  BY DEF Action, Actions
<1>2. StatusReply \in Reply
  BY StatusReplyType
<1>3. Say("accepted") \in Reply /\ Say("cancelled") \in Reply /\ Say(Action(u)) \in Reply
  BY <1>1, SayType DEF Sentences
<1>4. Proposed(Action(u)) \in Reply
  BY <1>2, <1>3 DEF Proposed
<1>5. QED
  BY <1>1, <1>4 DEF Proposed, JobActions, Said

LEMMA IdleType ==
  /\ Idle \in [key: 0 .. NEvents, action: Actions, reply: Reply, pc: {"idle", "accept", "late", "wait"}]
  /\ Nothing \in Reply /\ Rejections \subseteq Reply
<1>1. Nothing \in Reply /\ Rejections \subseteq Reply
  BY SayType DEF Nothing, Rejections, Sentences
<1>2. QED
  BY <1>1, BoundsAssumption DEF Idle, Actions

(* A job that changes its status and its pages stays a job.                *)
LEMMA JobsExcept ==
  ASSUME TypeOK, NEW i \in DOMAIN jobs, NEW status \in Statuses, NEW pages \in 0 .. Pages
  PROVE  /\ [jobs EXCEPT ![i].status = status, ![i].pages = pages] \in Seq(JobType)
         /\ Len([jobs EXCEPT ![i].status = status, ![i].pages = pages]) = Len(jobs)
<1> DEFINE job == [jobs[i] EXCEPT !.status = status, !.pages = pages]
<1>1. job \in JobType
  BY JobTypes DEF JobType
<1>2. [jobs EXCEPT ![i].status = status, ![i].pages = pages] = [jobs EXCEPT ![i] = job]
  BY JobTypes
<1>3. jobs \in Seq(JobType)
  BY DEF TypeOK
<1> HIDE DEF job
<1>4. QED
  BY <1>1, <1>2, <1>3

DraftType == [open: BOOLEAN, text: Seq(Events), asked: BOOLEAN]
LEMMA NoDraftType ==
  /\ NoDraft \in DraftType /\ [NoDraft EXCEPT !.open = TRUE] \in DraftType
  /\ Len(NoDraft.text) <= DraftMax /\ Len([NoDraft EXCEPT !.open = TRUE].text) <= DraftMax
<1>1. <<>> \in Seq(Events) /\ Len(<<>>) = 0 /\ 0 <= DraftMax
  BY BoundsAssumption
<1>2. QED
  BY <1>1 DEF NoDraft, DraftType

HandlerType == [key: 0 .. NEvents, action: Actions, reply: Reply, pc: {"idle", "accept", "late", "wait"}]

(* What the answer to a webhook changes has its type.                      *)
LEMMA ReturnTypes ==
  ASSUME TypeOK, HandlerInv, NEW s \in Slots, handler[s].pc # "idle",
         NEW reply \in Reply, AcceptReturns(s, reply)
  PROVE  handler' \in [Slots -> HandlerType] /\ replied' \in [Events -> SUBSET Reply]
<1>1. handler[s].key \in Events
  BY DEF HandlerInv
<1>2. handler \in [Slots -> HandlerType] /\ Idle \in HandlerType /\ replied \in [Events -> SUBSET Reply]
  BY IdleType DEF TypeOK, HandlerType
<1>3. CASE handler' = [handler EXCEPT ![s] = Idle] /\ UNCHANGED replied
  BY <1>2, <1>3
<1>4. CASE handler' = [handler EXCEPT ![s].pc = "wait", ![s].reply = reply] /\ UNCHANGED replied
  BY <1>2, <1>4 DEF HandlerType
<1>5. CASE Answer(s, reply)
  BY <1>1, <1>2, <1>5 DEF Answer
<1>6. QED
  BY <1>3, <1>4, <1>5 DEF AcceptReturns

(* So has what an accepted event changes.                                  *)
LEMMA RecordTypes ==
  ASSUME TypeOK, HandlerInv, NEW s \in Slots, handler[s].pc # "idle",
         NEW reply \in Reply, Record(s, reply)
  PROVE  /\ handler' \in [Slots -> HandlerType] /\ replied' \in [Events -> SUBSET Reply]
         /\ events' \in [Events -> [action: Actions, reply: Reply]]
<1>1. handler[s].action \in Actions
  BY DEF TypeOK
<1>2. QED
  BY <1>1, ReturnTypes DEF Record, TypeOK

(* Every step keeps the types.                                             *)
LEMMA TypeOKStep ==
  ASSUME TypeOK, JobsInv, HandlerInv, [Next]_vars
  PROVE  TypeOK'
<1>1. ASSUME NEW s \in Slots, NEW k \in Events, NEW u \in Utterances, Deliver(s, k,
   u) PROVE TypeOK'
  <2>1. Action(u) \in Actions /\ Proposed(Action(u)) \in Reply
    BY Routed
  <2>2. handler' \in [Slots -> HandlerType]
    BY <1>1, <2>1 DEF Deliver, TypeOK, HandlerType, Events
  <2>3. said' \in [Events -> Utterances \union {Unsaid}] /\ repeats' \in 0 .. MaxRepeats
    BY <1>1, BoundsAssumption DEF Deliver, TypeOK
  <2>4. QED
    BY <1>1, <2>2, <2>3 DEF Deliver, TypeOK, HandlerType, store
<1>2. ASSUME NEW s \in Slots, Repeats(s) PROVE TypeOK'
  <2>1. events[handler[s].key].reply \in Reply
    BY <1>2 DEF Repeats, TypeOK, HandlerInv
  <2>2. handler' \in [Slots -> HandlerType] /\ replied' \in [Events -> SUBSET Reply]
    BY <1>2, <2>1, ReturnTypes DEF Repeats
  <2>3. QED
    BY <1>2, <2>2 DEF Repeats, TypeOK, HandlerType, store
<1>3. ASSUME NEW s \in Slots, Rejects(s) PROVE TypeOK'
  <2>1. handler' \in [Slots -> HandlerType] /\ replied' \in [Events -> SUBSET Reply]
    BY <1>3, IdleType, ReturnTypes DEF Rejects
  <2>2. QED
    BY <1>3, <2>1 DEF Rejects, TypeOK, HandlerType, store
<1>4. ASSUME NEW s \in Slots, Applies(s, "new_idea", NewIdea(s)) PROVE TypeOK'
  <2>1. handler[s].key \in Events /\ handler[s].reply \in Reply /\ handler[s].pc # "idle"
    BY <1>4 DEF Applies, TypeOK, HandlerInv
  <2>2. CASE QueueFull
    <3>1. Rejects(s)
      BY <1>4, <2>2 DEF Applies, NewIdea, Reject, Rejects, Rejections, store
    <3>2. QED
      BY <3>1, <1>3
  <2>3. CASE ~(QueueFull) /\ CreateJob(handler[s].key, <<handler[s].key>>)
     /\ Record(s, handler[s].reply)
    <3>1. handler' \in [Slots -> HandlerType] /\ replied' \in [Events -> SUBSET Reply]
        /\ events' \in [Events -> [action: Actions, reply: Reply]]
      BY <2>1, <2>3, RecordTypes
    <3>2. jobs' \in Seq(JobType) /\ worker \in Dead .. Len(jobs')
      <4>1. [event |-> handler[s].key, text |-> <<handler[s].key>>, status |-> "queued", pages |-> 0] \in JobType
        BY <2>1, BoundsAssumption DEF JobType, Statuses, TypeOK
      <4>2. QED
        BY <2>3, <4>1 DEF CreateJob, TypeOK
    <3>3. draft' \in DraftType /\ Len(draft'.text) <= DraftMax
      <4>1. CASE draft' = draft
        BY <4>1 DEF TypeOK, DraftType
      <4>2. CASE draft' = NoDraft
        BY <4>2, NoDraftType
      <4>3. QED
        BY <1>4, <2>2, <2>3, <4>1, <4>2 DEF Applies, NewIdea
    <3>4. QED
      BY <1>4, <2>2, <2>3, <3>1, <3>2, <3>3 DEF Applies, NewIdea, TypeOK, HandlerType,
         DraftType
  <2>4. QED
    BY <1>4, <2>2, <2>3 DEF Applies, NewIdea
<1>5. ASSUME NEW s \in Slots, Applies(s, "append_draft", AppendDraft(s))
      PROVE  TypeOK'
  <2>1. handler[s].key \in Events /\ handler[s].reply \in Reply /\ handler[s].pc # "idle"
    BY <1>5 DEF Applies, TypeOK, HandlerInv
  <2>2. CASE draft.open /\ Len(draft.text) < DraftMax
    <3>1. Record(s, handler[s].reply) /\ draft' = [draft EXCEPT !.text = Append(@, handler[s].key), !.asked = FALSE]
      BY <1>5, <2>2, BoundsAssumption DEF Applies, AppendDraft, TypeOK
    <3>2. handler' \in [Slots -> HandlerType] /\ replied' \in [Events -> SUBSET Reply]
        /\ events' \in [Events -> [action: Actions, reply: Reply]]
      BY <2>1, <3>1, RecordTypes
    <3>3. draft' \in DraftType /\ Len(draft'.text) <= DraftMax
      <4>1. draft.text \in Seq(Events) /\ draft \in DraftType
        BY DEF TypeOK, DraftType
      <4>2. Append(draft.text, handler[s].key) \in Seq(Events) /\ Len(Append(draft.text, handler[s].key)) <= DraftMax
        BY <2>1, <2>2, <4>1, BoundsAssumption
      <4>3. QED
        BY <3>1, <4>1, <4>2 DEF DraftType
    <3>4. QED
      <4>1. ~(Len(draft.text) >= DraftMax)
        BY <2>2, BoundsAssumption DEF TypeOK
      <4>2. QED
        BY <1>5, <2>2, <3>2, <3>3, <4>1 DEF Applies, AppendDraft, TypeOK, HandlerType,
           DraftType
  <2>3. CASE ~(draft.open /\ Len(draft.text) < DraftMax)
    <3>1. Rejects(s)
      BY <1>5, <2>3, BoundsAssumption DEF Applies, AppendDraft, Reject, Rejects,
         Rejections, TypeOK, store
    <3>2. QED
      BY <3>1, <1>3
  <2>4. QED
    BY <2>2, <2>3
<1>6. ASSUME NEW s \in Slots, Applies(s, "start_draft", StartDraft(s)) PROVE TypeOK'
  <2>1. handler[s].key \in Events /\ handler[s].reply \in Reply /\ handler[s].pc # "idle"
    BY <1>6 DEF Applies, TypeOK, HandlerInv
  <2>2. \E reply \in Reply : Record(s, reply)
    BY <1>6, <2>1, SayType DEF Applies, StartDraft, Sentences, Actions
  <2>3. handler' \in [Slots -> HandlerType] /\ replied' \in [Events -> SUBSET Reply]
        /\ events' \in [Events -> [action: Actions, reply: Reply]]
    BY <2>1, <2>2, RecordTypes
  <2>4. draft' \in DraftType /\ Len(draft'.text) <= DraftMax
    BY <1>6, <2>1, NoDraftType DEF Applies, StartDraft, TypeOK, DraftType
  <2>5. QED
    BY <1>6, <2>3, <2>4 DEF Applies, StartDraft, TypeOK, HandlerType, DraftType
<1>7. ASSUME NEW s \in Slots, Applies(s, "resume_draft", ResumeDraft(s))
      PROVE  TypeOK'
  <2>1. handler[s].key \in Events /\ handler[s].reply \in Reply /\ handler[s].pc # "idle"
    BY <1>7 DEF Applies, TypeOK, HandlerInv
  <2>2. \E reply \in Reply : Record(s, reply)
    BY <1>7, <2>1, SayType DEF Applies, ResumeDraft, Sentences, Actions
  <2>3. handler' \in [Slots -> HandlerType] /\ replied' \in [Events -> SUBSET Reply]
        /\ events' \in [Events -> [action: Actions, reply: Reply]]
    BY <2>1, <2>2, RecordTypes
  <2>4. draft' \in DraftType /\ Len(draft'.text) <= DraftMax
    BY <1>7, <2>1, NoDraftType DEF Applies, ResumeDraft, TypeOK, DraftType
  <2>5. QED
    BY <1>7, <2>3, <2>4 DEF Applies, ResumeDraft, TypeOK, HandlerType, DraftType
<1>8. ASSUME NEW s \in Slots, Applies(s, "cancel_request", RequestCancel(s))
      PROVE  TypeOK'
  <2>1. handler[s].key \in Events /\ handler[s].reply \in Reply /\ handler[s].pc # "idle"
    BY <1>8 DEF Applies, TypeOK, HandlerInv
  <2>2. \E reply \in Reply : Record(s, reply)
    BY <1>8, <2>1, SayType DEF Applies, RequestCancel, Sentences, Actions
  <2>3. handler' \in [Slots -> HandlerType] /\ replied' \in [Events -> SUBSET Reply]
        /\ events' \in [Events -> [action: Actions, reply: Reply]]
    BY <2>1, <2>2, RecordTypes
  <2>4. draft' \in DraftType /\ Len(draft'.text) <= DraftMax
    BY <1>8, <2>1, NoDraftType DEF Applies, RequestCancel, TypeOK, DraftType
  <2>5. QED
    BY <1>8, <2>3, <2>4 DEF Applies, RequestCancel, TypeOK, HandlerType, DraftType
<1>9. ASSUME NEW s \in Slots, Applies(s, "confirm_cancel", ConfirmCancel(s))
      PROVE  TypeOK'
  <2>1. handler[s].key \in Events /\ handler[s].reply \in Reply /\ handler[s].pc # "idle"
    BY <1>9 DEF Applies, TypeOK, HandlerInv
  <2>2. \E reply \in Reply : Record(s, reply)
    BY <1>9, <2>1, SayType DEF Applies, ConfirmCancel, Sentences, Actions
  <2>3. handler' \in [Slots -> HandlerType] /\ replied' \in [Events -> SUBSET Reply]
        /\ events' \in [Events -> [action: Actions, reply: Reply]]
    BY <2>1, <2>2, RecordTypes
  <2>4. draft' \in DraftType /\ Len(draft'.text) <= DraftMax
    BY <1>9, <2>1, NoDraftType DEF Applies, ConfirmCancel, TypeOK, DraftType,
       DropDraft
  <2>5. discarded' \subseteq Events
    BY <1>9 DEF Applies, ConfirmCancel, DropDraft, TypeOK, ToSet
  <2>6. QED
    BY <1>9, <2>3, <2>4, <2>5 DEF Applies, ConfirmCancel, DropDraft, TypeOK,
       HandlerType, DraftType
<1>10. ASSUME NEW s \in Slots, Applies(s, "decline_cancel", DeclineCancel(s))
      PROVE  TypeOK'
  <2>1. handler[s].key \in Events /\ handler[s].reply \in Reply /\ handler[s].pc # "idle"
    BY <1>10 DEF Applies, TypeOK, HandlerInv
  <2>2. \E reply \in Reply : Record(s, reply)
    BY <1>10, <2>1, SayType DEF Applies, DeclineCancel, Sentences, Actions
  <2>3. handler' \in [Slots -> HandlerType] /\ replied' \in [Events -> SUBSET Reply]
        /\ events' \in [Events -> [action: Actions, reply: Reply]]
    BY <2>1, <2>2, RecordTypes
  <2>4. draft' \in DraftType /\ Len(draft'.text) <= DraftMax
    BY <1>10, <2>1, NoDraftType DEF Applies, DeclineCancel, TypeOK, DraftType
  <2>5. QED
    BY <1>10, <2>3, <2>4 DEF Applies, DeclineCancel, TypeOK, HandlerType, DraftType
<1>11. ASSUME NEW s \in Slots, Applies(s, "cancel_draft", CancelDraft(s))
      PROVE  TypeOK'
  <2>1. handler[s].key \in Events /\ handler[s].reply \in Reply /\ handler[s].pc # "idle"
    BY <1>11 DEF Applies, TypeOK, HandlerInv
  <2>2. \E reply \in Reply : Record(s, reply)
    BY <1>11, <2>1, SayType DEF Applies, CancelDraft, Sentences, Actions
  <2>3. handler' \in [Slots -> HandlerType] /\ replied' \in [Events -> SUBSET Reply]
        /\ events' \in [Events -> [action: Actions, reply: Reply]]
    BY <2>1, <2>2, RecordTypes
  <2>4. draft' \in DraftType /\ Len(draft'.text) <= DraftMax
    BY <1>11, <2>1, NoDraftType DEF Applies, CancelDraft, TypeOK, DraftType, DropDraft
  <2>5. discarded' \subseteq Events
    BY <1>11 DEF Applies, CancelDraft, DropDraft, TypeOK, ToSet
  <2>6. QED
    BY <1>11, <2>3, <2>4, <2>5 DEF Applies, CancelDraft, DropDraft, TypeOK,
       HandlerType, DraftType
<1>12. ASSUME NEW s \in Slots, Applies(s, "next_reply", NextReply(s)) PROVE TypeOK'
  <2>1. handler[s].key \in Events /\ handler[s].reply \in Reply /\ handler[s].pc # "idle"
    BY <1>12 DEF Applies, TypeOK, HandlerInv
  <2> DEFINE done == JobsWith("done")
               i == Newest(done)
  <2>3. done # {} => i \in DOMAIN jobs /\ i \in 1 .. NEvents
    <3>1. done \in SUBSET (1 .. Len(jobs)) /\ Len(jobs) \in Nat
      BY JobTypes DEF JobsWith
    <3>2. done # {} => i \in done
      BY <3>1, NewestIsGreatest
    <3>3. QED
      BY <3>1, <3>2, JobTypes, JobsFit, BoundsAssumption
  <2>4. done # {} /\ PageOf(i) < jobs[i].pages => PageOf(i) + 1 \in 1 .. Pages
    BY <2>3, JobTypes, PageType, BoundsAssumption
  <2>5. Say("no_reply") \in Reply /\ Say("end") \in Reply
    BY SayType DEF Sentences
  <2>6. done # {} /\ PageOf(i) < jobs[i].pages => Part(i, PageOf(i) + 1) \in Reply
    BY <2>3, <2>4, PartType
  <2>7. \E reply \in Reply : Record(s, reply)
    BY <1>12, <2>5, <2>6 DEF Applies, NextReply
  <2>8. handler' \in [Slots -> HandlerType] /\ replied' \in [Events -> SUBSET Reply]
        /\ events' \in [Events -> [action: Actions, reply: Reply]]
    BY <2>1, <2>7, RecordTypes
  <2>9. cursor' \in [job: 0 .. NEvents, page: 1 .. Pages]
    BY <1>12, <2>3, <2>4, BoundsAssumption DEF Applies, NextReply, TypeOK
  <2>10. QED
    BY <1>12, <2>8, <2>9 DEF Applies, NextReply, TypeOK, HandlerType
<1>13. ASSUME NEW s \in Slots, Applies(s, "finish_draft", FinishDraft(s))
      PROVE  TypeOK'
  <2>1. handler[s].key \in Events /\ handler[s].reply \in Reply /\ handler[s].pc # "idle"
    BY <1>13 DEF Applies, TypeOK, HandlerInv
  <2>2. CASE draft.open /\ draft.text # <<>> /\ QueueFull
    <3>1. Rejects(s)
      BY <1>13, <2>2 DEF Applies, FinishDraft, Reject, Rejects, Rejections, store
    <3>2. QED
      BY <3>1, <1>3
  <2>3. CASE ~(draft.open /\ draft.text # <<>> /\ QueueFull)
     /\ CreateJob(handler[s].key, draft.text) /\ Record(s, handler[s].reply)
    <3>1. handler' \in [Slots -> HandlerType] /\ replied' \in [Events -> SUBSET Reply]
        /\ events' \in [Events -> [action: Actions, reply: Reply]]
      BY <2>1, <2>3, RecordTypes
    <3>2. jobs' \in Seq(JobType) /\ worker \in Dead .. Len(jobs')
      <4>1. [event |-> handler[s].key, text |-> draft.text, status |-> "queued", pages |-> 0] \in JobType
        BY <2>1, BoundsAssumption DEF JobType, Statuses, TypeOK
      <4>2. QED
        BY <2>3, <4>1 DEF CreateJob, TypeOK
    <3>3. draft' \in DraftType /\ Len(draft'.text) <= DraftMax
      <4>1. CASE draft' = draft
        BY <4>1 DEF TypeOK, DraftType
      <4>2. CASE draft' = NoDraft
        BY <4>2, NoDraftType
      <4>3. QED
        BY <1>13, <2>2, <2>3, <4>1, <4>2 DEF Applies, FinishDraft
    <3>4. QED
      BY <1>13, <2>2, <2>3, <3>1, <3>2, <3>3 DEF Applies, FinishDraft, TypeOK,
         HandlerType, DraftType
  <2>4. CASE ~draft.open \/ draft.text = <<>>
    <3>1. draft' = NoDraft /\ Record(s, handler[s].reply)
      BY <1>13, <2>4 DEF Applies, FinishDraft
    <3>2. handler' \in [Slots -> HandlerType] /\ replied' \in [Events -> SUBSET Reply]
        /\ events' \in [Events -> [action: Actions, reply: Reply]]
      BY <2>1, <3>1, RecordTypes
    <3>3. draft' \in DraftType /\ Len(draft'.text) <= DraftMax
      BY <3>1, NoDraftType
    <3>4. QED
      BY <1>13, <2>4, <3>2, <3>3 DEF Applies, FinishDraft, TypeOK, HandlerType,
         DraftType
  <2>5. QED
    BY <1>13, <2>2, <2>3, <2>4 DEF Applies, FinishDraft
<1>14. ASSUME NEW s \in Slots, Applies(s, handler[s].action, JustReply(s))
      PROVE  TypeOK'
  <2>1. handler[s].key \in Events /\ handler[s].reply \in Reply /\ handler[s].pc # "idle"
    BY <1>14 DEF Applies, TypeOK, HandlerInv
  <2>2. \E reply \in Reply : Record(s, reply)
    BY <1>14, <2>1, SayType DEF Applies, JustReply, Sentences, Actions
  <2>3. handler' \in [Slots -> HandlerType] /\ replied' \in [Events -> SUBSET Reply]
        /\ events' \in [Events -> [action: Actions, reply: Reply]]
    BY <2>1, <2>2, RecordTypes
  <2>4. draft' \in DraftType /\ Len(draft'.text) <= DraftMax
    BY <1>14, <2>1, NoDraftType DEF Applies, JustReply, TypeOK, DraftType
  <2>5. QED
    BY <1>14, <2>3, <2>4 DEF Applies, JustReply, TypeOK, HandlerType, DraftType
<1>15. ASSUME NEW s \in Slots, AcceptTimesOut(s) PROVE TypeOK'
  <2>1. handler \in [Slots -> HandlerType]
    BY DEF TypeOK, HandlerType
  <2>2. handler' \in [Slots -> HandlerType]
    BY <1>15, <2>1 DEF AcceptTimesOut, HandlerType
  <2>3. QED
    BY <1>15, <2>2 DEF AcceptTimesOut, TypeOK, HandlerType, store
<1>16. ASSUME NEW s \in Slots, Resolve(s) PROVE TypeOK'
  <2>1. handler[s].key \in Events
    BY <1>16 DEF Resolve, HandlerInv
  <2>2. \E reply \in Reply : Answer(s, reply) /\ frozen' \in [Events -> Reply]
    <3>1. CASE frozen[handler[s].key] # Nothing
      BY <1>16, <2>1, <3>1 DEF Resolve, TypeOK, store
    <3>2. CASE frozen[handler[s].key] = Nothing /\ JobsOf(handler[s].key) = {}
      BY <1>16, <2>1, <3>2 DEF Resolve, Freeze, TypeOK
    <3>3. ASSUME frozen[handler[s].key] = Nothing, NEW i \in JobsOf(handler[s].key),
                 Freeze(s, IF jobs[i].status \in {"queued", "running"} THEN handler[s].reply ELSE Ending(i))
          PROVE  \E reply \in Reply : Answer(s, reply) /\ frozen' \in [Events -> Reply]
      <4>1. Ending(i) \in Reply
        BY EndingType DEF JobsOf
      <4>2. handler[s].reply \in Reply
        BY DEF TypeOK
      <4>3. QED
        BY <2>1, <3>3, <4>1, <4>2 DEF Freeze, TypeOK
    <3>4. QED
      BY <1>16, <3>1, <3>2, <3>3 DEF Resolve
  <2>3. handler' \in [Slots -> HandlerType] /\ replied' \in [Events -> SUBSET Reply]
    BY <2>1, <2>2, IdleType DEF Answer, TypeOK, HandlerType
  <2>4. QED
    BY <1>16, <2>2, <2>3 DEF Resolve, Freeze, TypeOK, HandlerType, store
<1>17. ASSUME NEW s \in Slots, WebhookFails(s) PROVE TypeOK'
  <2>1. handler' \in [Slots -> HandlerType]
    BY <1>17, IdleType DEF WebhookFails, TypeOK, HandlerType
  <2>2. QED
    BY <1>17, <2>1 DEF WebhookFails, TypeOK, HandlerType, store
<1>18. CASE Claim
  <2>1. JobsWith("queued") \in SUBSET (1 .. Len(jobs)) /\ Len(jobs) \in Nat
    BY JobTypes DEF JobsWith
  <2>2. worker' \in DOMAIN jobs
    <3>1. worker' \in JobsWith("queued")
      BY <1>18, <2>1, OldestIsSmallest DEF Claim
    <3>2. QED
      BY <3>1 DEF JobsWith
  <2>3. jobs' = [jobs EXCEPT ![worker'].status = "running", ![worker'].pages = 0]
    BY <1>18 DEF Claim, SetStatus
  <2>4. jobs' \in Seq(JobType) /\ worker' \in Dead .. Len(jobs')
    <3>1. "running" \in Statuses /\ 0 \in 0 .. Pages
      BY BoundsAssumption DEF Statuses
    <3>2. jobs' \in Seq(JobType) /\ Len(jobs') = Len(jobs)
      BY <2>2, <2>3, <3>1, JobsExcept
    <3>3. QED
      BY <2>2, <3>2, JobTypes
  <2>5. QED
    BY <1>18, <2>4 DEF Claim, SetStatus, TypeOK
<1>19. CASE Complete
  <2>1. PICK outcome \in Outcomes, pages \in 0 .. Pages :
          jobs' = [jobs EXCEPT ![worker].status = outcome, ![worker].pages = pages]
    <3>1. PICK outcome \in Outcomes, pages \in 1 .. Pages :
            SetStatus(worker, outcome, IF outcome = "done" THEN pages ELSE 0)
      BY <1>19 DEF Complete
    <3>2. (IF outcome = "done" THEN pages ELSE 0) \in 0 .. Pages
      BY BoundsAssumption
    <3>3. QED
      BY <3>1, <3>2 DEF SetStatus
  <2>2. outcome \in Statuses
    BY OutcomesAssumption DEF Statuses
  <2>3. jobs' \in Seq(JobType) /\ worker' \in Dead .. Len(jobs')
    <3>1. jobs' \in Seq(JobType) /\ Len(jobs') = Len(jobs)
      BY <1>19, <2>1, <2>2, JobsExcept DEF Complete
    <3>2. QED
      BY <1>19, <3>1, JobTypes DEF Complete
  <2>4. QED
    BY <1>19, <2>3 DEF Complete, SetStatus, TypeOK
<1>20. CASE WorkerDies
  <2>1. Len(jobs) \in Nat
    BY JobTypes
  <2>2. QED
    BY <1>20, <2>1 DEF WorkerDies, TypeOK, store
<1>21. CASE Restart
  <2>1. jobs' \in Seq(JobType) /\ 0 \in Dead .. Len(jobs')
    <3>1. \A i \in DOMAIN jobs : jobs'[i] \in JobType
      BY <1>21, JobTypes DEF Restart, JobType, Statuses
    <3>2. jobs' \in [1 .. Len(jobs) -> JobType]
      BY <1>21, <3>1, JobTypes DEF Restart
    <3>3. QED
      BY <3>2, JobTypes
  <2>2. handler' \in [Slots -> HandlerType]
    BY <1>21, IdleType DEF Restart, HandlerType
  <2>3. QED
    BY <1>21, <2>1, <2>2 DEF Restart, TypeOK, HandlerType
<1>22. CASE UNCHANGED vars
  BY <1>22 DEF vars, store, TypeOK
<1>23. QED
  BY <1>1, <1>2, <1>3, <1>4, <1>5, <1>6, <1>7, <1>8, <1>9, <1>10, <1>11, <1>12,
     <1>13, <1>14, <1>15, <1>16, <1>17, <1>18, <1>19, <1>20, <1>21, <1>22, NextCases

-----------------------------------------------------------------------------
(* What steps do to the jobs.                                              *)
LEMMA JobsAppend ==
  ASSUME TypeOK, NEW job, jobs' = Append(jobs, job)
  PROVE  /\ DOMAIN jobs' = 1 .. Len(jobs) + 1 /\ jobs'[Len(jobs) + 1] = job
         /\ \A i \in DOMAIN jobs : i \in DOMAIN jobs' /\ jobs'[i] = jobs[i]
         /\ \A i \in DOMAIN jobs' : i \in DOMAIN jobs \/ i = Len(jobs) + 1
<1>1. jobs \in Seq(JobType) /\ DOMAIN jobs = 1 .. Len(jobs) /\ Len(jobs) \in Nat
  BY JobTypes DEF TypeOK
<1>2. QED
  BY <1>1

(* A status that changes leaves the job's event and its text.              *)
LEMMA JobsSame ==
  ASSUME TypeOK, NEW i \in DOMAIN jobs, NEW status, NEW pages, SetStatus(i, status, pages)
  PROVE  /\ DOMAIN jobs' = DOMAIN jobs /\ Len(jobs') = Len(jobs)
         /\ jobs'[i].status = status /\ jobs'[i].pages = pages
         /\ \A j \in DOMAIN jobs : /\ jobs'[j].event = jobs[j].event /\ jobs'[j].text = jobs[j].text
                                   /\ j # i => jobs'[j] = jobs[j]
<1>1. jobs \in Seq(JobType) /\ \A j \in DOMAIN jobs : jobs[j] \in JobType
  BY JobTypes DEF TypeOK
<1>2. jobs' = [jobs EXCEPT ![i].status = status, ![i].pages = pages]
  BY DEF SetStatus
<1>3. /\ DOMAIN jobs' = DOMAIN jobs /\ Len(jobs') = Len(jobs)
      /\ \A j \in DOMAIN jobs : j # i => jobs'[j] = jobs[j]
      /\ jobs'[i] = [jobs[i] EXCEPT !.status = status, !.pages = pages]
  BY <1>1, <1>2
<1>4. QED
  BY <1>1, <1>3 DEF JobType

LEMMA ClaimedJob ==
  ASSUME TypeOK, Claim
  PROVE  /\ worker = Free /\ worker' \in DOMAIN jobs /\ jobs[worker'].status = "queued"
         /\ \A i \in DOMAIN jobs : jobs[i].status = "queued" => worker' <= i
         /\ SetStatus(worker', "running", 0)
<1>1. JobsWith("queued") \in SUBSET (1 .. Len(jobs)) /\ Len(jobs) \in Nat
  BY JobTypes DEF JobsWith
<1>2. worker' \in JobsWith("queued") /\ \A i \in JobsWith("queued") : worker' <= i
  BY <1>1, OldestIsSmallest DEF Claim
<1>3. QED
  BY <1>2 DEF Claim, JobsWith

LEMMA CompletedJob ==
  ASSUME TypeOK, Complete
  PROVE  /\ worker \in DOMAIN jobs /\ worker' = Free
         /\ \E status \in Ended, pages \in Nat : SetStatus(worker, status, pages)
<1>1. PICK outcome \in Outcomes, pages \in 1 .. Pages :
        SetStatus(worker, outcome, IF outcome = "done" THEN pages ELSE 0)
  BY DEF Complete
<1>2. outcome \in Ended /\ (IF outcome = "done" THEN pages ELSE 0) \in Nat
  BY OutcomesAssumption DEF Ended
<1>3. QED
  BY <1>1, <1>2 DEF Complete

LEMMA RestartedJobs ==
  ASSUME TypeOK, Restart
  PROVE  /\ DOMAIN jobs' = DOMAIN jobs /\ Len(jobs') = Len(jobs)
         /\ \A j \in DOMAIN jobs :
              /\ jobs'[j].event = jobs[j].event /\ jobs'[j].text = jobs[j].text
              /\ jobs[j].status = "running" => jobs'[j].status = "queued"
              /\ jobs[j].status # "running" => jobs'[j] = jobs[j]
<1>1. \A j \in DOMAIN jobs : jobs[j] \in JobType /\ Len(jobs) \in Nat /\ DOMAIN jobs = 1 .. Len(jobs)
  BY JobTypes
<1>2. jobs' = [i \in DOMAIN jobs |->
       IF jobs[i].status = "running" THEN [jobs[i] EXCEPT !.status = "queued"] ELSE jobs[i]]
  BY DEF Restart
<1>3. Len(jobs') = Len(jobs)
  BY <1>2, JobTypes
<1>4. QED
  BY <1>1, <1>2, <1>3 DEF JobType


(* What accept does to a webhook, its event and its answer: it returns the *)
(* stored reply, refuses, or records the event.                            *)
Records(s) ==
  /\ handler[s].pc \in {"accept", "late"} /\ events[handler[s].key].action = "none"
  /\ \E reply \in Reply :
       Record(s, reply) /\ (handler[s].action \in JobActions => reply = handler[s].reply)
  /\ jobs' = jobs \/ (handler[s].action \in JobActions /\ \E text : CreateJob(handler[s].key, text))
  /\ UNCHANGED <<frozen, said, repeats, worker>>

LEMMA Recorded ==
  ASSUME TypeOK, HandlerInv, NEW s \in Slots,
         NEW action, NEW Effect, Applies(s, action, Effect),
         NEW reply \in Reply, Record(s, reply), UNCHANGED frozen,
         action \in JobActions => reply = handler[s].reply,
         jobs' = jobs \/ (action \in JobActions /\ \E text : CreateJob(handler[s].key, text))
  PROVE  Records(s)
BY DEF Applies, Records, Accepted

LEMMA AppliesRecords ==
  ASSUME TypeOK, JobsInv, HandlerInv, [Next]_vars
  PROVE  \/ \E s \in Slots, k \in Events, u \in Utterances : Deliver(s, k, u)
         \/ \E s \in Slots : Repeats(s) \/ Rejects(s) \/ Records(s)
         \/ \E s \in Slots : AcceptTimesOut(s) \/ Resolve(s) \/ WebhookFails(s)
         \/ Claim \/ Complete \/ WorkerDies \/ Restart \/ UNCHANGED vars
<1> DEFINE Goal(s) == Repeats(s) \/ Rejects(s) \/ Records(s)
<1>1. ASSUME NEW s \in Slots, Applies(s, "new_idea", NewIdea(s)) PROVE Goal(s)
  <2>1. handler[s].reply \in Reply
    BY DEF TypeOK
  <2>2. ASSUME Record(s, handler[s].reply), UNCHANGED frozen,
               jobs' = jobs \/ ("new_idea" \in JobActions /\ \E text : CreateJob(handler[s].key, text))
        PROVE  Records(s)
    BY <1>1, <2>1, <2>2, Recorded
  <2>3. ASSUME NEW why, why \in {"full", "overflow", "conflict"}, Reject(s, why) PROVE Rejects(s)
    BY <1>1, <2>3 DEF Applies, Reject, Rejects, Rejections, store
  <2>4. QED
    BY <1>1, <2>2, <2>3 DEF Applies, NewIdea, JobActions
<1>2. ASSUME NEW s \in Slots, Applies(s, "append_draft", AppendDraft(s)) PROVE Goal(s)
  <2>1. handler[s].reply \in Reply
    BY DEF TypeOK
  <2>2. ASSUME Record(s, handler[s].reply), UNCHANGED frozen,
               jobs' = jobs \/ ("append_draft" \in JobActions /\ \E text : CreateJob(handler[s].key, text))
        PROVE  Records(s)
    BY <1>2, <2>1, <2>2, Recorded
  <2>3. ASSUME NEW why, why \in {"full", "overflow", "conflict"}, Reject(s, why) PROVE Rejects(s)
    BY <1>2, <2>3 DEF Applies, Reject, Rejects, Rejections, store
  <2>4. QED
    BY <1>2, <2>2, <2>3 DEF Applies, AppendDraft, JobActions
<1>3. ASSUME NEW s \in Slots, Applies(s, "start_draft", StartDraft(s)) PROVE Goal(s)
  <2>1. PICK reply : Record(s, reply) /\ reply \in Reply
    BY <1>3, SayType DEF Applies, StartDraft, TypeOK, Sentences, Actions
  <2>2. UNCHANGED <<frozen, jobs>>
    BY <1>3 DEF Applies, StartDraft
  <2>3. QED
    BY <1>3, <2>1, <2>2, Recorded DEF JobActions
<1>4. ASSUME NEW s \in Slots, Applies(s, "resume_draft", ResumeDraft(s)) PROVE Goal(s)
  <2>1. PICK reply : Record(s, reply) /\ reply \in Reply
    BY <1>4, SayType DEF Applies, ResumeDraft, TypeOK, Sentences, Actions
  <2>2. UNCHANGED <<frozen, jobs>>
    BY <1>4 DEF Applies, ResumeDraft
  <2>3. QED
    BY <1>4, <2>1, <2>2, Recorded DEF JobActions
<1>5. ASSUME NEW s \in Slots, Applies(s, "cancel_request", RequestCancel(s)) PROVE Goal(s)
  <2>1. PICK reply : Record(s, reply) /\ reply \in Reply
    BY <1>5, SayType DEF Applies, RequestCancel, TypeOK, Sentences, Actions
  <2>2. UNCHANGED <<frozen, jobs>>
    BY <1>5 DEF Applies, RequestCancel
  <2>3. QED
    BY <1>5, <2>1, <2>2, Recorded DEF JobActions
<1>6. ASSUME NEW s \in Slots, Applies(s, "confirm_cancel", ConfirmCancel(s)) PROVE Goal(s)
  <2>1. PICK reply : Record(s, reply) /\ reply \in Reply
    BY <1>6, SayType DEF Applies, ConfirmCancel, TypeOK, Sentences, Actions
  <2>2. UNCHANGED <<frozen, jobs>>
    BY <1>6 DEF Applies, ConfirmCancel
  <2>3. QED
    BY <1>6, <2>1, <2>2, Recorded DEF JobActions
<1>7. ASSUME NEW s \in Slots, Applies(s, "decline_cancel", DeclineCancel(s)) PROVE Goal(s)
  <2>1. PICK reply : Record(s, reply) /\ reply \in Reply
    BY <1>7, SayType DEF Applies, DeclineCancel, TypeOK, Sentences, Actions
  <2>2. UNCHANGED <<frozen, jobs>>
    BY <1>7 DEF Applies, DeclineCancel
  <2>3. QED
    BY <1>7, <2>1, <2>2, Recorded DEF JobActions
<1>8. ASSUME NEW s \in Slots, Applies(s, "cancel_draft", CancelDraft(s)) PROVE Goal(s)
  <2>1. PICK reply : Record(s, reply) /\ reply \in Reply
    BY <1>8, SayType DEF Applies, CancelDraft, TypeOK, Sentences, Actions
  <2>2. UNCHANGED <<frozen, jobs>>
    BY <1>8 DEF Applies, CancelDraft
  <2>3. QED
    BY <1>8, <2>1, <2>2, Recorded DEF JobActions
<1>9. ASSUME NEW s \in Slots, Applies(s, "next_reply", NextReply(s)) PROVE Goal(s)
  <2> DEFINE done == JobsWith("done")
             i == Newest(done)
  <2>1. done # {} => i \in DOMAIN jobs /\ i \in 1 .. NEvents
    <3>1. done \in SUBSET (1 .. Len(jobs)) /\ Len(jobs) \in Nat
      BY JobTypes DEF JobsWith
    <3>2. done # {} => i \in done
      BY <3>1, NewestIsGreatest
    <3>3. QED
      BY <3>1, <3>2, JobTypes, JobsFit, BoundsAssumption
  <2>2. done # {} /\ PageOf(i) < jobs[i].pages => PageOf(i) + 1 \in 1 .. Pages
    BY <2>1, JobTypes, PageType, BoundsAssumption
  <2>3. Say("no_reply") \in Reply /\ Say("end") \in Reply
    BY SayType DEF Sentences
  <2>4. done # {} /\ PageOf(i) < jobs[i].pages => Part(i, PageOf(i) + 1) \in Reply
    BY <2>1, <2>2, PartType
  <2>5. PICK reply \in Reply : Record(s, reply)
    BY <1>9, <2>3, <2>4 DEF Applies, NextReply
  <2>6. UNCHANGED <<frozen, jobs>>
    BY <1>9 DEF Applies, NextReply
  <2>7. QED
    BY <1>9, <2>5, <2>6, Recorded DEF JobActions
<1>10. ASSUME NEW s \in Slots, Applies(s, "finish_draft", FinishDraft(s)) PROVE Goal(s)
  <2>1. handler[s].reply \in Reply
    BY DEF TypeOK
  <2>2. ASSUME Record(s, handler[s].reply), UNCHANGED frozen,
               jobs' = jobs \/ ("finish_draft" \in JobActions /\ \E text : CreateJob(handler[s].key, text))
        PROVE  Records(s)
    BY <1>10, <2>1, <2>2, Recorded
  <2>3. ASSUME NEW why, why \in {"full", "overflow", "conflict"}, Reject(s, why) PROVE Rejects(s)
    BY <1>10, <2>3 DEF Applies, Reject, Rejects, Rejections, store
  <2>4. QED
    BY <1>10, <2>2, <2>3 DEF Applies, FinishDraft, JobActions
<1>11. ASSUME NEW s \in Slots, Applies(s, handler[s].action, JustReply(s)) PROVE Goal(s)
  <2>1. handler[s].reply \in Reply
    BY DEF TypeOK
  <2>2. QED
    BY <1>11, <2>1, Recorded DEF Applies, JustReply
<1>12. QED
  BY NextCases, <1>1, <1>2, <1>3, <1>4, <1>5, <1>6, <1>7, <1>8, <1>9, <1>10, <1>11

(* What the answer to a webhook changes.                                   *)
LEMMA Returned ==
  ASSUME TypeOK, HandlerInv, NEW s \in Slots, handler[s].pc # "idle",
         NEW reply, AcceptReturns(s, reply)
  PROVE  /\ \A t \in Slots : t # s => handler'[t] = handler[t]
         /\ \/ handler'[s] = Idle
            \/ /\ handler'[s].pc = "wait" /\ handler'[s].key = handler[s].key
               /\ handler'[s].action = handler[s].action /\ handler'[s].reply = reply
               /\ handler[s].action \in JobActions /\ reply \notin Rejections
         /\ \/ replied' = replied
            \/ /\ replied' = [replied EXCEPT ![handler[s].key] = @ \union {reply}]
               /\ handler[s].action \notin JobActions \/ reply \in Rejections
<1>1. handler \in [Slots -> HandlerType]
  BY DEF TypeOK, HandlerType
<1>2. handler[s] \in HandlerType
  BY <1>1
<1>3. CASE handler' = [handler EXCEPT ![s] = Idle]
  BY <1>1, <1>3 DEF AcceptReturns, Answer, JobActions
<1>4. CASE /\ handler[s].action \in JobActions /\ reply \notin Rejections
           /\ handler' = [handler EXCEPT ![s].pc = "wait", ![s].reply = reply] /\ UNCHANGED replied
  BY <1>1, <1>2, <1>4 DEF HandlerType
<1>5. QED
  BY <1>3, <1>4 DEF AcceptReturns, Answer, JobActions

(* An accepted event keeps its action and its reply; the one accepted now  *)
(* gets those of its webhook.                                              *)
LEMMA EventRecorded ==
  ASSUME TypeOK, HandlerInv, NEW s \in Slots, handler[s].pc # "idle",
         events[handler[s].key].action = "none", NEW reply, Record(s, reply)
  PROVE  /\ handler[s].key \in Events
         /\ \A k \in Events : k # handler[s].key => events'[k] = events[k]
         /\ events'[handler[s].key].action = handler[s].action
         /\ events'[handler[s].key].reply = reply
         /\ \A k \in Events : events[k].action # "none" => events'[k] = events[k]
<1>1. events \in [Events -> [action: Actions, reply: Reply]] /\ handler[s].key \in Events
  BY DEF TypeOK, HandlerInv
<1>2. QED
  BY <1>1 DEF Record

(* Only a first acceptance makes a job, and the event is then accepted.    *)
LEMMA JobsStep ==
  ASSUME TypeOK, JobsInv, HandlerInv, [Next]_vars
  PROVE  JobsInv'
<1>1. ASSUME NEW s \in Slots, NEW k \in Events, NEW u \in Utterances, Deliver(s, k,
   u) PROVE JobsInv'
  <2>1. UNCHANGED <<jobs, events>>
    BY <1>1 DEF Deliver, store
  <2>2. QED
    BY <2>1 DEF JobsInv
<1>2. ASSUME NEW s \in Slots, Repeats(s) PROVE JobsInv'
  <2>1. UNCHANGED <<jobs, events>>
    BY <1>2 DEF Repeats, store
  <2>2. QED
    BY <2>1 DEF JobsInv
<1>3. ASSUME NEW s \in Slots, Rejects(s) PROVE JobsInv'
  <2>1. UNCHANGED <<jobs, events>>
    BY <1>3 DEF Rejects, store
  <2>2. QED
    BY <2>1 DEF JobsInv
<1>4. ASSUME NEW s \in Slots, Records(s) PROVE JobsInv'
  <2> DEFINE key == handler[s].key
  <2>1. /\ handler[s].pc # "idle" /\ events[key].action = "none" /\ \E reply : Record(s, reply)
        /\ UNCHANGED jobs \/ (handler[s].action \in JobActions /\ \E text : CreateJob(key, text))
    BY <1>4 DEF Records
  <2>2. /\ key \in Events /\ events'[key].action = handler[s].action
        /\ \A k \in Events : events[k].action # "none" => events'[k] = events[k]
    BY <2>1, EventRecorded
  <2>3. \A i \in DOMAIN jobs : /\ jobs[i].event # key
                               /\ events'[jobs[i].event].action \in JobActions
    BY <2>1, <2>2, JobTypes DEF JobsInv, JobActions
  <2>4. CASE UNCHANGED jobs
    BY <2>3, <2>4 DEF JobsInv
  <2>5. ASSUME NEW text, CreateJob(key, text), handler[s].action \in JobActions
        PROVE  JobsInv'
    BY <2>2, <2>3, <2>5, JobsAppend, JobTypes DEF CreateJob, JobsInv
  <2>6. QED
    BY <2>1, <2>4, <2>5
<1>5. ASSUME NEW s \in Slots, AcceptTimesOut(s) PROVE JobsInv'
  <2>1. UNCHANGED <<jobs, events>>
    BY <1>5 DEF AcceptTimesOut, store
  <2>2. QED
    BY <2>1 DEF JobsInv
<1>6. ASSUME NEW s \in Slots, Resolve(s) PROVE JobsInv'
  <2>1. UNCHANGED <<jobs, events>>
    BY <1>6 DEF Resolve, Freeze, store
  <2>2. QED
    BY <2>1 DEF JobsInv
<1>7. ASSUME NEW s \in Slots, WebhookFails(s) PROVE JobsInv'
  <2>1. UNCHANGED <<jobs, events>>
    BY <1>7 DEF WebhookFails, store
  <2>2. QED
    BY <2>1 DEF JobsInv
<1>8. CASE Claim
  <2>1. worker' \in DOMAIN jobs /\ SetStatus(worker', "running", 0)
    BY <1>8, ClaimedJob
  <2>2. /\ DOMAIN jobs' = DOMAIN jobs /\ UNCHANGED events
        /\ \A j \in DOMAIN jobs : jobs'[j].event = jobs[j].event
    BY <2>1, JobsSame DEF SetStatus
  <2>3. QED
    BY <2>2 DEF JobsInv
<1>9. CASE Complete
  <2>1. PICK status \in Ended, pages \in Nat : SetStatus(worker, status, pages)
    BY <1>9, CompletedJob
  <2>2. worker \in DOMAIN jobs
    BY <1>9, CompletedJob
  <2>3. /\ DOMAIN jobs' = DOMAIN jobs /\ UNCHANGED events
        /\ \A j \in DOMAIN jobs : jobs'[j].event = jobs[j].event
    BY <2>1, <2>2, JobsSame DEF SetStatus
  <2>4. QED
    BY <2>3 DEF JobsInv
<1>10. CASE WorkerDies
  <2>1. UNCHANGED <<jobs, events>>
    BY <1>10 DEF WorkerDies, store
  <2>2. QED
    BY <2>1 DEF JobsInv
<1>11. CASE Restart
  BY <1>11, RestartedJobs DEF JobsInv, Restart
<1>12. CASE UNCHANGED vars
  <2>1. UNCHANGED <<jobs, events>>
    BY <1>12 DEF vars, store
  <2>2. QED
    BY <2>1 DEF JobsInv
<1>13. QED
  BY <1>1, <1>2, <1>3, <1>4, <1>5, <1>6, <1>7, <1>8, <1>9, <1>10, <1>11, <1>12,
     AppliesRecords

(* The worker takes the oldest job, and a restart queues it again.         *)
LEMMA WorkerStep ==
  ASSUME TypeOK, JobsInv, HandlerInv, WorkerInv, [Next]_vars
  PROVE  WorkerInv'
<1>1. ASSUME NEW s \in Slots, NEW k \in Events, NEW u \in Utterances, Deliver(s, k,
   u) PROVE WorkerInv'
  <2>1. UNCHANGED <<jobs, worker>>
    BY <1>1 DEF Deliver, store
  <2>2. QED
    BY <2>1 DEF WorkerInv
<1>2. ASSUME NEW s \in Slots, Repeats(s) PROVE WorkerInv'
  <2>1. UNCHANGED <<jobs, worker>>
    BY <1>2 DEF Repeats, store
  <2>2. QED
    BY <2>1 DEF WorkerInv
<1>3. ASSUME NEW s \in Slots, Rejects(s) PROVE WorkerInv'
  <2>1. UNCHANGED <<jobs, worker>>
    BY <1>3 DEF Rejects, store
  <2>2. QED
    BY <2>1 DEF WorkerInv
<1>4. ASSUME NEW s \in Slots, Records(s) PROVE WorkerInv'
  <2>1. /\ UNCHANGED worker
        /\ UNCHANGED jobs \/ \E text : CreateJob(handler[s].key, text)
    BY <1>4 DEF Records
  <2>2. CASE UNCHANGED jobs
    BY <2>1, <2>2 DEF WorkerInv
  <2>3. ASSUME NEW text, CreateJob(handler[s].key, text) PROVE WorkerInv'
    <3>1. worker' = worker /\ worker # Len(jobs) + 1
      BY <2>1, JobTypes DEF TypeOK
    <3>2. jobs'[Len(jobs) + 1].status = "queued"
      BY <2>3, JobsAppend DEF CreateJob
    <3>3. QED
      BY <2>3, <3>1, <3>2, JobsAppend, JobTypes DEF CreateJob, WorkerInv
  <2>4. QED
    BY <2>1, <2>2, <2>3
<1>5. ASSUME NEW s \in Slots, AcceptTimesOut(s) PROVE WorkerInv'
  <2>1. UNCHANGED <<jobs, worker>>
    BY <1>5 DEF AcceptTimesOut, store
  <2>2. QED
    BY <2>1 DEF WorkerInv
<1>6. ASSUME NEW s \in Slots, Resolve(s) PROVE WorkerInv'
  <2>1. UNCHANGED <<jobs, worker>>
    BY <1>6 DEF Resolve, Freeze, store
  <2>2. QED
    BY <2>1 DEF WorkerInv
<1>7. ASSUME NEW s \in Slots, WebhookFails(s) PROVE WorkerInv'
  <2>1. UNCHANGED <<jobs, worker>>
    BY <1>7 DEF WebhookFails, store
  <2>2. QED
    BY <2>1 DEF WorkerInv
<1>8. CASE Claim
  <2>1. /\ worker = Free /\ worker' \in DOMAIN jobs /\ jobs[worker'].status = "queued"
        /\ \A i \in DOMAIN jobs : jobs[i].status = "queued" => worker' <= i
        /\ SetStatus(worker', "running", 0)
    BY <1>8, ClaimedJob
  <2>2. /\ DOMAIN jobs' = DOMAIN jobs /\ jobs'[worker'].status = "running"
        /\ \A j \in DOMAIN jobs : j # worker' => jobs'[j] = jobs[j]
    BY <2>1, JobsSame
  <2>3. \A i \in DOMAIN jobs : jobs[i].status # "running"
    BY <2>1, JobTypes DEF WorkerInv
  <2>4. QED
    BY <2>1, <2>2, <2>3, JobTypes DEF WorkerInv
<1>9. CASE Complete
  <2>1. worker \in DOMAIN jobs /\ worker' = Free
    BY <1>9, CompletedJob
  <2>2. PICK status \in Ended, pages \in Nat : SetStatus(worker, status, pages)
    BY <1>9, CompletedJob
  <2>3. /\ DOMAIN jobs' = DOMAIN jobs /\ jobs'[worker].status \in Ended
        /\ \A j \in DOMAIN jobs : j # worker => jobs'[j] = jobs[j]
    BY <2>1, <2>2, JobsSame
  <2>4. 0 \notin DOMAIN jobs /\ worker # Dead
    BY <2>1, JobTypes
  <2>5. QED
    BY <2>1, <2>3, <2>4, JobTypes DEF WorkerInv, Ended
<1>10. CASE WorkerDies
  <2>1. Dead \notin DOMAIN jobs
    BY JobTypes
  <2>2. QED
    BY <1>10, <2>1 DEF WorkerDies, store, WorkerInv
<1>11. CASE Restart
  <2>1. worker' = Free /\ 0 \notin DOMAIN jobs
    BY <1>11, JobTypes DEF Restart
  <2>2. QED
    BY <1>11, <2>1, RestartedJobs, JobTypes DEF WorkerInv
<1>12. CASE UNCHANGED vars
  <2>1. UNCHANGED <<jobs, worker>>
    BY <1>12 DEF vars, store
  <2>2. QED
    BY <2>1 DEF WorkerInv
<1>13. QED
  BY <1>1, <1>2, <1>3, <1>4, <1>5, <1>6, <1>7, <1>8, <1>9, <1>10, <1>11, <1>12,
     AppliesRecords

(* The end of a job is final, and a job keeps its event and its text.      *)
LEMMA EndsStay ==
  ASSUME TypeOK, JobsInv, HandlerInv, WorkerInv, [Next]_vars
  PROVE  \A i \in DOMAIN jobs :
           /\ i \in DOMAIN jobs' /\ jobs'[i].event = jobs[i].event
           /\ jobs[i].status \in Ended => jobs'[i] = jobs[i]
<1> DEFINE Goal == \A i \in DOMAIN jobs :
                     /\ i \in DOMAIN jobs' /\ jobs'[i].event = jobs[i].event
                     /\ jobs[i].status \in Ended => jobs'[i] = jobs[i]
<1>1. CASE UNCHANGED jobs
  BY <1>1
<1>2. ASSUME NEW s \in Slots, Records(s) PROVE Goal
  BY <1>2, JobsAppend DEF Records, CreateJob
<1>3. CASE Claim
  BY <1>3, ClaimedJob, JobsSame DEF Ended
<1>4. CASE Complete
  <2>1. worker \in DOMAIN jobs /\ jobs[worker].status = "running"
    BY <1>4, CompletedJob DEF WorkerInv
  <2>2. PICK status \in Ended, pages \in Nat : SetStatus(worker, status, pages)
    BY <1>4, CompletedJob
  <2>3. QED
    BY <2>1, <2>2, JobsSame DEF Ended
<1>5. CASE Restart
  BY <1>5, RestartedJobs DEF Ended
<1>6. QED
  BY <1>1, <1>2, <1>3, <1>4, <1>5, AppliesRecords
     DEF Deliver, Repeats, Rejects, AcceptTimesOut, Resolve, Freeze, WebhookFails, WorkerDies, store, vars

(* A webhook waits only after its event was accepted.                      *)
LEMMA HandlerStep ==
  ASSUME TypeOK, JobsInv, HandlerInv, [Next]_vars
  PROVE  HandlerInv'
<1>1. ASSUME NEW s \in Slots, NEW k \in Events, NEW u \in Utterances, Deliver(s, k,
   u) PROVE HandlerInv'
  <2>1. Action(u) # "none" /\ (Action(u) \in JobActions => Said(Proposed(Action(u))))
    BY Routed
  <2>2. /\ \A t \in Slots : t # s => handler'[t] = handler[t]
        /\ handler'[s] = [key |-> k, action |-> Action(u), reply |-> Proposed(Action(u)), pc |-> "accept"]
    BY <1>1 DEF Deliver, TypeOK
  <2>3. UNCHANGED events
    BY <1>1 DEF Deliver, store
  <2>4. QED
    BY <2>1, <2>2, <2>3 DEF HandlerInv
<1>2. ASSUME NEW s \in Slots, Repeats(s) PROVE HandlerInv'
  <2>1. /\ AcceptReturns(s, events[handler[s].key].reply) /\ handler[s].pc # "idle" /\ UNCHANGED events
        /\ events[handler[s].key].action = handler[s].action
    BY <1>2 DEF Repeats, store
  <2>2. QED
    BY <2>1, Returned DEF HandlerInv, Idle
<1>3. ASSUME NEW s \in Slots, Rejects(s) PROVE HandlerInv'
  <2>1. PICK reply \in Rejections : AcceptReturns(s, reply)
    BY <1>3 DEF Rejects
  <2>2. handler[s].pc # "idle" /\ UNCHANGED events
    BY <1>3 DEF Rejects, store
  <2>3. QED
    BY <2>1, <2>2, Returned DEF HandlerInv, Idle
<1>4. ASSUME NEW s \in Slots, Records(s) PROVE HandlerInv'
  <2>1. PICK reply \in Reply : Record(s, reply) /\ (handler[s].action \in JobActions => reply = handler[s].reply)
    BY <1>4 DEF Records
  <2>2. handler[s].pc # "idle" /\ events[handler[s].key].action = "none" /\ AcceptReturns(s, reply)
    BY <1>4, <2>1 DEF Records, Record
  <2>3. handler[s].action \in JobActions => Said(reply)
    BY <2>1, <2>2 DEF HandlerInv
  <2>4. \A k \in Events : events'[k].action \in JobActions => Said(events'[k].reply)
    BY <2>1, <2>2, <2>3, EventRecorded DEF HandlerInv
  <2>5. \A k \in Events : events[k].action \in JobActions => events'[k].action \in JobActions
    BY <2>1, <2>2, EventRecorded DEF JobActions
  <2>6. \A t \in Slots : handler'[t].pc # "idle" =>
          /\ handler'[t].key \in Events /\ handler'[t].action # "none"
          /\ handler'[t].action \in JobActions => Said(handler'[t].reply)
    BY <2>1, <2>2, <2>3, Returned DEF HandlerInv, Idle
  <2>7. \A t \in Slots : handler'[t].pc = "wait" =>
          events'[handler'[t].key].action \in JobActions /\ Said(handler'[t].reply)
    BY <2>1, <2>2, <2>3, <2>5, Returned, EventRecorded DEF HandlerInv, Idle
  <2>8. QED
    BY <2>4, <2>6, <2>7 DEF HandlerInv
<1>5. ASSUME NEW s \in Slots, AcceptTimesOut(s) PROVE HandlerInv'
  <2>1. /\ \A t \in Slots : t # s => handler'[t] = handler[t]
        /\ handler'[s] = [handler[s] EXCEPT !.pc = "late"] /\ handler[s] \in HandlerType
    BY <1>5 DEF AcceptTimesOut, TypeOK, HandlerType
  <2>2. UNCHANGED events
    BY <1>5 DEF AcceptTimesOut, store
  <2>3. QED
    BY <1>5, <2>1, <2>2 DEF HandlerInv, AcceptTimesOut, HandlerType
<1>6. ASSUME NEW s \in Slots, Resolve(s) PROVE HandlerInv'
  <2>1. /\ \A t \in Slots : t # s => handler'[t] = handler[t]
        /\ handler'[s] = Idle
    BY <1>6 DEF Resolve, Freeze, Answer, TypeOK
  <2>2. UNCHANGED events
    BY <1>6 DEF Resolve, Freeze, Answer, store
  <2>3. QED
    BY <1>6, <2>1, <2>2 DEF HandlerInv, Idle
<1>7. ASSUME NEW s \in Slots, WebhookFails(s) PROVE HandlerInv'
  <2>1. /\ \A t \in Slots : t # s => handler'[t] = handler[t]
        /\ handler'[s] = Idle
    BY <1>7 DEF WebhookFails, TypeOK
  <2>2. UNCHANGED events
    BY <1>7 DEF WebhookFails, store
  <2>3. QED
    BY <1>7, <2>1, <2>2 DEF HandlerInv, Idle
<1>8. CASE Claim
  <2>1. UNCHANGED <<handler, events>>
    BY <1>8 DEF Claim, SetStatus
  <2>2. QED
    BY <2>1 DEF HandlerInv
<1>9. CASE Complete
  <2>1. UNCHANGED <<handler, events>>
    BY <1>9 DEF Complete, SetStatus
  <2>2. QED
    BY <2>1 DEF HandlerInv
<1>10. CASE WorkerDies
  <2>1. UNCHANGED <<handler, events>>
    BY <1>10 DEF WorkerDies, store
  <2>2. QED
    BY <2>1 DEF HandlerInv
<1>11. CASE Restart
  <2>1. \A t \in Slots : handler'[t].pc = "idle"
    BY <1>11 DEF Restart, Idle
  <2>2. QED
    BY <1>11, <2>1 DEF Restart, HandlerInv
<1>12. CASE UNCHANGED vars
  <2>1. UNCHANGED <<handler, events>>
    BY <1>12 DEF vars, store
  <2>2. QED
    BY <2>1 DEF HandlerInv
<1>13. QED
  BY <1>1, <1>2, <1>3, <1>4, <1>5, <1>6, <1>7, <1>8, <1>9, <1>10, <1>11, <1>12,
     AppliesRecords

(* A frozen reply stays true: the job it tells of has ended.               *)
LEMMA FrozenStays ==
  ASSUME TypeOK, JobsInv, HandlerInv, WorkerInv, AnswerInv, [Next]_vars,
         NEW k \in Events, frozen'[k] = frozen[k], frozen[k] \notin {Nothing, Say("accepted")}
  PROVE  \E i \in JobsOf(k)' : jobs'[i].status \in Ended /\ frozen'[k] = Ending(i)'
<1>1. PICK i \in JobsOf(k) : jobs[i].status \in Ended /\ frozen[k] = Ending(i)
  BY DEF AnswerInv
<1>2. i \in DOMAIN jobs /\ jobs[i].event = k
  BY <1>1 DEF JobsOf
<1>3. i \in DOMAIN jobs' /\ jobs'[i] = jobs[i]
  BY <1>1, <1>2, EndsStay
<1>4. Ending(i)' = Ending(i)
  BY <1>3 DEF Ending
<1>5. i \in JobsOf(k)'
  BY <1>2, <1>3 DEF JobsOf
<1>6. QED
  BY <1>1, <1>3, <1>4, <1>5

(* A step that freezes nothing and answers an event with its stored reply  *)
(* only, if it makes no job, keeps the answers as they should be.          *)
LEMMA AnswersStored ==
  ASSUME TypeOK, JobsInv, HandlerInv, WorkerInv, AnswerInv, [Next]_vars, UNCHANGED frozen,
         \A k \in Events : events[k].action # "none" => events'[k] = events[k],
         \A k \in Events : \A r \in replied'[k] \ Rejections :
           \/ r \in replied[k]
           \/ events'[k].action \notin JobActions \union {"none"} /\ r = events'[k].reply
  PROVE  AnswerInv'
<1>1. ASSUME NEW k \in Events, NEW r \in replied'[k] \ Rejections
      PROVE  \/ events'[k].action \in JobActions /\ r = frozen'[k] /\ r # Nothing
             \/ events'[k].action \notin JobActions /\ events'[k].action # "none" /\ r = events'[k].reply
  <2>1. CASE r \in replied[k]
    <3>1. events[k].action # "none"
      BY <1>1, <2>1 DEF AnswerInv, Accepted, JobActions
    <3>2. QED
      BY <1>1, <2>1, <3>1 DEF AnswerInv, Accepted
  <2>2. CASE events'[k].action \notin JobActions \union {"none"} /\ r = events'[k].reply
    BY <2>2
  <2>3. QED
    BY <1>1, <2>1, <2>2
<1>2. ASSUME NEW k \in Events, frozen'[k] \notin {Nothing, Say("accepted")}
      PROVE  \E i \in JobsOf(k)' : jobs'[i].status \in Ended /\ frozen'[k] = Ending(i)'
  BY <1>2, FrozenStays
<1>3. QED
  BY <1>1, <1>2 DEF AnswerInv, Accepted

(* An answer that was given is the one every later delivery gets.          *)
LEMMA AnswerStep ==
  ASSUME TypeOK, JobsInv, HandlerInv, WorkerInv, AnswerInv, [Next]_vars
  PROVE  AnswerInv'
<1>1. ASSUME NEW s \in Slots, NEW k \in Events, NEW u \in Utterances, Deliver(s, k,
   u) PROVE AnswerInv'
  <2>1. UNCHANGED <<frozen, events, replied>>
    BY <1>1 DEF Deliver, store
  <2>2. QED
    BY <2>1, AnswersStored
<1>2. ASSUME NEW s \in Slots, Repeats(s) PROVE AnswerInv'
  <2> DEFINE key == handler[s].key
             reply == events[key].reply
  <2>1. /\ AcceptReturns(s, reply) /\ handler[s].pc # "idle"
        /\ events[key].action = handler[s].action /\ events[key].action # "none"
    BY <1>2 DEF Repeats, Accepted
  <2>2. UNCHANGED <<frozen, events>>
    BY <1>2 DEF Repeats, store
  <2>3. \A k \in Events : \A r \in replied'[k] \ Rejections :
          \/ r \in replied[k]
          \/ k = key /\ r = reply /\ handler[s].action \notin JobActions
    BY <2>1, Returned DEF TypeOK
  <2>4. QED
    BY <2>1, <2>2, <2>3, AnswersStored
<1>3. ASSUME NEW s \in Slots, Rejects(s) PROVE AnswerInv'
  <2>1. PICK reply \in Rejections : AcceptReturns(s, reply)
    BY <1>3 DEF Rejects
  <2>2. handler[s].pc # "idle" /\ UNCHANGED <<frozen, events>>
    BY <1>3 DEF Rejects, store
  <2>3. \A k \in Events : \A r \in replied'[k] \ Rejections : r \in replied[k]
    <3>1. replied' = replied \/ replied' = [replied EXCEPT ![handler[s].key] = @ \union {reply}]
      BY <2>1, <2>2, Returned
    <3>2. \A k \in Events : replied'[k] \subseteq replied[k] \union {reply}
      BY <3>1 DEF TypeOK
    <3>3. QED
      BY <2>1, <3>2
  <2>4. QED
    BY <2>2, <2>3, AnswersStored
<1>4. ASSUME NEW s \in Slots, Records(s) PROVE AnswerInv'
  <2> DEFINE key == handler[s].key
  <2>1. PICK reply \in Reply : Record(s, reply)
    BY <1>4 DEF Records
  <2>2. /\ handler[s].pc # "idle" /\ events[key].action = "none" /\ AcceptReturns(s, reply)
        /\ UNCHANGED frozen
    BY <1>4, <2>1 DEF Records, Record
  <2>3. \A k \in Events : \A r \in replied'[k] \ Rejections :
          \/ r \in replied[k]
          \/ k = key /\ r = reply /\ handler[s].action \notin JobActions
    <3>1. \/ replied' = replied
          \/ /\ replied' = [replied EXCEPT ![key] = @ \union {reply}]
             /\ handler[s].action \notin JobActions \/ reply \in Rejections
      BY <2>2, Returned
    <3>2. QED
      BY <3>1 DEF TypeOK
  <2>4. handler[s].action # "none"
    BY <2>2 DEF HandlerInv
  <2>5. \A k \in Events : \A r \in replied'[k] \ Rejections :
          \/ r \in replied[k]
          \/ events'[k].action \notin JobActions \union {"none"} /\ r = events'[k].reply
    BY <2>1, <2>2, <2>3, <2>4, EventRecorded
  <2>6. \A k \in Events : events[k].action # "none" => events'[k] = events[k]
    BY <2>1, <2>2, EventRecorded
  <2>7. QED
    BY <2>2, <2>5, <2>6, AnswersStored
<1>5. ASSUME NEW s \in Slots, AcceptTimesOut(s) PROVE AnswerInv'
  <2>1. UNCHANGED <<frozen, events, replied>>
    BY <1>5 DEF AcceptTimesOut, store
  <2>2. QED
    BY <2>1, AnswersStored
<1>6. ASSUME NEW s \in Slots, Resolve(s) PROVE AnswerInv'
  <2> DEFINE key == handler[s].key
             own == JobsOf(key)
  <2>1. /\ handler[s].pc = "wait" /\ key \in Events /\ events[key].action \in JobActions
        /\ handler[s].reply = Say("accepted")
    BY <1>6 DEF Resolve, HandlerInv, Said
  <2>2. CASE frozen[key] # Nothing
    <3>1. /\ replied' = [replied EXCEPT ![key] = @ \union {frozen[key]}]
          /\ UNCHANGED <<frozen, events, jobs>>
      BY <1>6, <2>2 DEF Resolve, Answer, store
    <3>2. \A k \in Events : \A r \in replied'[k] :
            r \in replied[k] \/ (k = key /\ r = frozen[key])
      BY <3>1 DEF TypeOK
    <3>3. ASSUME NEW k \in Events, NEW r \in replied'[k] \ Rejections
          PROVE  \/ events'[k].action \in JobActions /\ r = frozen'[k] /\ r # Nothing
                 \/ events'[k].action \notin JobActions /\ events'[k].action # "none" /\ r = events'[k].reply
      BY <2>1, <2>2, <3>1, <3>2, <3>3 DEF AnswerInv, Accepted
    <3>4. QED
      BY <3>1, <3>3, FrozenStays DEF AnswerInv, Accepted
  <2>3. CASE frozen[key] = Nothing
    <3>1. PICK reply :
            /\ Freeze(s, reply)
            /\ \/ reply = Say("accepted")
               \/ \E i \in own : jobs[i].status \notin {"queued", "running"} /\ reply = Ending(i)
      BY <1>6, <2>1, <2>3 DEF Resolve
    <3>2. /\ replied' = [replied EXCEPT ![key] = @ \union {reply}] /\ frozen' = [frozen EXCEPT ![key] = reply]
          /\ UNCHANGED <<events, jobs>>
      BY <3>1 DEF Freeze, Answer
    <3>3. reply # Say("accepted") => \E i \in own : jobs[i].status \in Ended /\ reply = Ending(i)
      BY <3>1, JobTypes DEF JobsOf, Statuses, Ended
    <3>4. reply # Nothing
      <4>1. Say("accepted") # Nothing
        BY DEF Say, Nothing
      <4>2. ASSUME NEW i, jobs[i].status \in Ended PROVE Ending(i) # Nothing
        BY <4>2 DEF Ending, Ended, Say, Part, Nothing
      <4>3. QED
        BY <3>3, <4>1, <4>2
    <3>5. /\ frozen'[key] = reply /\ \A k \in Events : k # key => frozen'[k] = frozen[k]
          /\ \A k \in Events : \A r \in replied'[k] :
               r \in replied[k] \/ (k = key /\ r = reply)
      BY <2>1, <3>2 DEF TypeOK
    <3>6. \A r \in replied[key] : r \in Rejections
      BY <2>1, <2>3 DEF AnswerInv
    <3>7. ASSUME NEW k \in Events, NEW r \in replied'[k] \ Rejections
          PROVE  \/ events'[k].action \in JobActions /\ r = frozen'[k] /\ r # Nothing
                 \/ events'[k].action \notin JobActions /\ events'[k].action # "none" /\ r = events'[k].reply
      <4>1. CASE k = key
        BY <2>1, <3>2, <3>4, <3>5, <3>6, <3>7, <4>1
      <4>2. CASE k # key
        BY <3>2, <3>5, <3>7, <4>2 DEF AnswerInv, Accepted
      <4>3. QED
        BY <4>1, <4>2
    <3>8. ASSUME NEW k \in Events, frozen'[k] \notin {Nothing, Say("accepted")}
          PROVE  \E i \in JobsOf(k)' : jobs'[i].status \in Ended /\ frozen'[k] = Ending(i)'
      <4>1. CASE k = key
        BY <3>2, <3>3, <3>5, <3>8, <4>1 DEF JobsOf, Ending
      <4>2. CASE k # key
        BY <3>5, <3>8, <4>2, FrozenStays
      <4>3. QED
        BY <4>1, <4>2
    <3>9. QED
      BY <3>7, <3>8 DEF AnswerInv, Accepted
  <2>4. QED
    BY <2>2, <2>3
<1>7. ASSUME NEW s \in Slots, WebhookFails(s) PROVE AnswerInv'
  <2>1. UNCHANGED <<frozen, events, replied>>
    BY <1>7 DEF WebhookFails, store
  <2>2. QED
    BY <2>1, AnswersStored
<1>8. CASE Claim
  <2>1. UNCHANGED <<frozen, events, replied>>
    BY <1>8 DEF Claim, SetStatus
  <2>2. QED
    BY <2>1, AnswersStored
<1>9. CASE Complete
  <2>1. UNCHANGED <<frozen, events, replied>>
    BY <1>9 DEF Complete, SetStatus
  <2>2. QED
    BY <2>1, AnswersStored
<1>10. CASE WorkerDies
  <2>1. UNCHANGED <<frozen, events, replied>>
    BY <1>10 DEF WorkerDies, store
  <2>2. QED
    BY <2>1, AnswersStored
<1>11. CASE Restart
  <2>1. UNCHANGED <<frozen, events, replied>>
    BY <1>11 DEF Restart
  <2>2. QED
    BY <2>1, AnswersStored
<1>12. CASE UNCHANGED vars
  <2>1. UNCHANGED <<frozen, events, replied>>
    BY <1>12 DEF vars, store
  <2>2. QED
    BY <2>1, AnswersStored
<1>13. QED
  BY <1>1, <1>2, <1>3, <1>4, <1>5, <1>6, <1>7, <1>8, <1>9, <1>10, <1>11, <1>12,
     AppliesRecords

(* An event that is not accepted has no text anywhere.                     *)
LEMMA NewKey ==
  ASSUME HandlerInv, TextInv, NEW s \in Slots, NEW action, NEW Effect, Applies(s, action, Effect)
  PROVE  /\ handler[s].key \in Events /\ handler[s].key \notin discarded
         /\ \A n \in Nat : ~InDraft(n, handler[s].key)
         /\ \A i, n \in Nat : ~InJob(i, n, handler[s].key)
<1> DEFINE key == handler[s].key
<1>1. key \in Events /\ events[key].action \notin TextActions
  BY DEF Applies, HandlerInv, Accepted, TextActions
<1>2. QED
  BY <1>1 DEF TextInv

(* A step that moves no text keeps every fragment where it is.             *)
LEMMA TextSame ==
  ASSUME TypeOK, TextInv, draft'.text = draft.text, draft'.open \/ draft'.text = <<>>,
         DOMAIN jobs' = DOMAIN jobs, \A i \in DOMAIN jobs : jobs'[i].text = jobs[i].text,
         UNCHANGED discarded,
         \A k \in Events : events'[k].action \in TextActions <=> events[k].action \in TextActions
  PROVE  TextInv'
<1>1. \A n, k : InDraft(n, k)' <=> InDraft(n, k)
  BY DEF InDraft
<1>2. \A i, n, k : InJob(i, n, k)' <=> InJob(i, n, k)
  BY DEF InJob
<1>3. discarded \subseteq Events
  BY DEF TypeOK
<1>4. QED
  BY <1>1, <1>2, <1>3 DEF TextInv

(* The draft's text becomes a job's.                                       *)
LEMMA TextFinished ==
  ASSUME TypeOK, TextInv, NEW k \in Events, CreateJob(k, draft.text), draft'.text = <<>>,
         UNCHANGED discarded,
         \A j \in Events : events'[j].action \in TextActions <=> events[j].action \in TextActions
  PROVE  TextInv'
<1>1. /\ DOMAIN jobs' = 1 .. Len(jobs) + 1 /\ jobs'[Len(jobs) + 1].text = draft.text
      /\ \A i \in DOMAIN jobs : i \in DOMAIN jobs' /\ jobs'[i] = jobs[i]
      /\ \A i \in DOMAIN jobs' : i \in DOMAIN jobs \/ i = Len(jobs) + 1
  BY JobsAppend DEF CreateJob
<1>2. Len(jobs) \in Nat /\ DOMAIN jobs = 1 .. Len(jobs) /\ Len(jobs) + 1 \notin DOMAIN jobs
  BY JobTypes
<1>3. \A n, j : ~InDraft(n, j)'
  BY DEF InDraft
<1>4. \A i, n, j : InJob(i, n, j)' <=> (InJob(i, n, j) \/ (i = Len(jobs) + 1 /\ InDraft(n, j)))
  BY <1>1, <1>2 DEF InJob, InDraft
<1>5. \A i \in DOMAIN jobs' : Len(jobs'[i].text) <= DraftMax + 1
  <2>1. \A i \in DOMAIN jobs : Len(jobs[i].text) <= DraftMax + 1
    BY DEF TextInv
  <2>2. Len(draft.text) \in Nat /\ Len(draft.text) <= DraftMax
    BY DEF TypeOK
  <2>3. QED
    BY <1>1, <2>1, <2>2, BoundsAssumption
<1>6. discarded \subseteq Events /\ Len(jobs) + 1 \in Nat /\ \A n, j : ~InJob(Len(jobs) + 1, n, j)
  BY <1>2 DEF TypeOK, InJob
<1>7. QED
  BY <1>3, <1>4, <1>5, <1>6 DEF TextInv

(* A new idea is the text of a job of its own.                             *)
LEMMA TextNewIdea ==
  ASSUME TypeOK, TextInv, NEW key \in Events, CreateJob(key, <<key>>), UNCHANGED <<draft, discarded>>,
         key \notin discarded, \A n \in Nat : ~InDraft(n, key), \A i, n \in Nat : ~InJob(i, n, key),
         events'[key].action \in TextActions,
         \A j \in Events : j # key =>
           (events'[j].action \in TextActions <=> events[j].action \in TextActions)
  PROVE  TextInv'
<1>1. /\ DOMAIN jobs' = 1 .. Len(jobs) + 1 /\ jobs'[Len(jobs) + 1].text = <<key>>
      /\ \A i \in DOMAIN jobs : i \in DOMAIN jobs' /\ jobs'[i] = jobs[i]
      /\ \A i \in DOMAIN jobs' : i \in DOMAIN jobs \/ i = Len(jobs) + 1
  BY JobsAppend DEF CreateJob
<1>2. Len(jobs) \in Nat /\ DOMAIN jobs = 1 .. Len(jobs) /\ Len(jobs) + 1 \notin DOMAIN jobs
  BY JobTypes
<1>3. \A n, j : InDraft(n, j)' <=> InDraft(n, j)
  BY DEF InDraft
<1>4. \A i, n, j : InJob(i, n, j)' <=> (InJob(i, n, j) \/ (i = Len(jobs) + 1 /\ n = 1 /\ j = key))
  BY <1>1, <1>2 DEF InJob
<1>5. \A i \in DOMAIN jobs' : Len(jobs'[i].text) <= DraftMax + 1
  <2>1. \A i \in DOMAIN jobs : Len(jobs[i].text) <= DraftMax + 1
    BY DEF TextInv
  <2>2. Len(<<key>>) = 1 /\ 1 <= DraftMax + 1
    BY BoundsAssumption
  <2>3. Len(jobs'[Len(jobs) + 1].text) = 1
    BY <1>1, <2>2
  <2>4. QED
    BY <1>1, <2>1, <2>2, <2>3
<1>6. discarded \subseteq Events /\ Len(jobs) + 1 \in Nat /\ \A n, j : ~InJob(Len(jobs) + 1, n, j)
  BY <1>2 DEF TypeOK, InJob
<1>7. QED
  BY <1>3, <1>4, <1>5, <1>6 DEF TextInv

(* A fragment is added to the open draft.                                  *)
LEMMA TextAppended ==
  ASSUME TypeOK, TextInv, NEW key \in Events, draft'.text = Append(draft.text, key), draft'.open,
         UNCHANGED <<jobs, discarded>>,
         key \notin discarded, \A n \in Nat : ~InDraft(n, key), \A i, n \in Nat : ~InJob(i, n, key),
         events'[key].action \in TextActions,
         \A j \in Events : j # key =>
           (events'[j].action \in TextActions <=> events[j].action \in TextActions)
  PROVE  TextInv'
<1> DEFINE end == Len(draft.text) + 1
<1>1. draft.text \in Seq(Events) /\ end \in Nat /\ end \notin DOMAIN draft.text
  BY DEF TypeOK
<1>2. \A n, j : InDraft(n, j)' <=> (InDraft(n, j) \/ (n = end /\ j = key))
  BY <1>1 DEF InDraft
<1>3. \A i, n, j : InJob(i, n, j)' <=> InJob(i, n, j)
  BY DEF InJob
<1>4. discarded \subseteq Events /\ \A j : ~InDraft(end, j)
  BY <1>1 DEF TypeOK, InDraft
<1> HIDE DEF end
<1>5. QED
  BY <1>1, <1>2, <1>3, <1>4 DEF TextInv

(* A cancelled draft's fragments are discarded.                            *)
LEMMA TextDropped ==
  ASSUME TypeOK, TextInv, DropDraft, UNCHANGED jobs,
         \A j \in Events : events'[j].action \in TextActions <=> events[j].action \in TextActions
  PROVE  TextInv'
<1>1. draft'.text = <<>>
  BY DEF DropDraft, NoDraft
<1>2. \A n, j : ~InDraft(n, j)'
  BY <1>1 DEF InDraft
<1>3. \A i, n, j : InJob(i, n, j)' <=> InJob(i, n, j)
  BY DEF InJob
<1>4. draft.text \in Seq(Events) /\ discarded \subseteq Events
  BY DEF TypeOK
<1>5. \A k : k \in discarded' <=> k \in discarded \/ \E n \in Nat : InDraft(n, k)
  BY <1>4 DEF DropDraft, ToSet, InDraft
<1>6. \A n, k : InDraft(n, k) => k \in Events
  BY <1>4 DEF InDraft
<1>7. QED
  BY <1>1, <1>2, <1>3, <1>4, <1>5, <1>6 DEF TextInv

(* What recording an event does to the events with text.                   *)
LEMMA TextRecorded ==
  ASSUME TypeOK, HandlerInv, NEW s \in Slots, NEW action, NEW Effect, Applies(s, action, Effect),
         NEW reply, Record(s, reply)
  PROVE  /\ action \notin TextActions =>
              \A k \in Events : events'[k].action \in TextActions <=> events[k].action \in TextActions
         /\ events'[handler[s].key].action = action
         /\ \A k \in Events : k # handler[s].key =>
              (events'[k].action \in TextActions <=> events[k].action \in TextActions)
<1>1. /\ handler[s].pc # "idle" /\ handler[s].action = action
      /\ events[handler[s].key].action = "none"
  BY DEF Applies, Accepted
<1>2. /\ handler[s].key \in Events
      /\ \A k \in Events : k # handler[s].key => events'[k] = events[k]
      /\ events'[handler[s].key].action = handler[s].action
  BY <1>1, EventRecorded
<1>3. QED
  BY <1>1, <1>2 DEF TextActions

(* No step loses or doubles a fragment.                                     *)
LEMMA TextStep ==
  ASSUME TypeOK, HandlerInv, TextInv, [Next]_vars
  PROVE  TextInv'
<1>1. ASSUME NEW s \in Slots, NEW k \in Events, NEW u \in Utterances, Deliver(s, k,
   u) PROVE TextInv'
  <2>1. UNCHANGED <<draft, jobs, discarded, events>>
    BY <1>1 DEF Deliver, store
  <2>2. draft'.open \/ draft'.text = <<>>
    BY <2>1 DEF TextInv
  <2>3. QED
    BY <2>1, <2>2, TextSame
<1>2. ASSUME NEW s \in Slots, Repeats(s) PROVE TextInv'
  <2>1. UNCHANGED <<draft, jobs, discarded, events>>
    BY <1>2 DEF Repeats, store
  <2>2. draft'.open \/ draft'.text = <<>>
    BY <2>1 DEF TextInv
  <2>3. QED
    BY <2>1, <2>2, TextSame
<1>3. ASSUME NEW s \in Slots, Rejects(s) PROVE TextInv'
  <2>1. UNCHANGED <<draft, jobs, discarded, events>>
    BY <1>3 DEF Rejects, store
  <2>2. draft'.open \/ draft'.text = <<>>
    BY <2>1 DEF TextInv
  <2>3. QED
    BY <2>1, <2>2, TextSame
<1>4. ASSUME NEW s \in Slots, Applies(s, "new_idea", NewIdea(s)) PROVE TextInv'
  <2>1. CASE UNCHANGED store
    <3>1. draft'.open \/ draft'.text = <<>>
      BY <2>1 DEF TextInv, store
    <3>2. QED
      BY <2>1, <3>1, TextSame DEF store
  <2>2. CASE CreateJob(handler[s].key, <<handler[s].key>>) /\ Record(s,
     handler[s].reply)
             /\ UNCHANGED <<draft, discarded>>
    BY <1>4, <2>2, NewKey, TextRecorded, TextNewIdea DEF TextActions
  <2>3. QED
    BY <1>4, <2>1, <2>2 DEF Applies, NewIdea, Reject
<1>5. ASSUME NEW s \in Slots, Applies(s, "append_draft", AppendDraft(s))
      PROVE  TextInv'
  <2>1. CASE UNCHANGED store
    <3>1. draft'.open \/ draft'.text = <<>>
      BY <2>1 DEF TextInv, store
    <3>2. QED
      BY <2>1, <3>1, TextSame DEF store
  <2>2. CASE /\ draft' = [draft EXCEPT !.text = Append(@, handler[s].key), !.asked = FALSE]
             /\ draft.open /\ Record(s, handler[s].reply) /\ UNCHANGED <<jobs, discarded>>
    <3>1. draft'.text = Append(draft.text, handler[s].key) /\ draft'.open
      BY <2>2 DEF TypeOK
    <3>2. QED
      BY <1>5, <2>2, <3>1, NewKey, TextRecorded, TextAppended DEF TextActions
  <2>3. QED
    BY <1>5, <2>1, <2>2 DEF Applies, AppendDraft, Reject
<1>6. ASSUME NEW s \in Slots, Applies(s, "start_draft", StartDraft(s))
      PROVE  TextInv'
  <2>1. PICK reply : Record(s, reply)
    BY <1>6 DEF Applies, StartDraft
  <2>2. "start_draft" \notin TextActions
    BY DEF TextActions
  <2>3. \A k \in Events : events'[k].action \in TextActions <=> events[k].action \in TextActions
    BY <1>6, <2>1, <2>2, TextRecorded
  <2>4. draft'.text = draft.text /\ (draft'.open \/ draft'.text = <<>>)
    BY <1>6 DEF Applies, StartDraft, TypeOK, NoDraft, TextInv
  <2>5. UNCHANGED <<jobs, discarded>>
    BY <1>6 DEF Applies, StartDraft
  <2>6. QED
    BY <2>3, <2>4, <2>5, TextSame
<1>7. ASSUME NEW s \in Slots, Applies(s, "resume_draft", ResumeDraft(s))
      PROVE  TextInv'
  <2>1. PICK reply : Record(s, reply)
    BY <1>7 DEF Applies, ResumeDraft
  <2>2. "resume_draft" \notin TextActions
    BY DEF TextActions
  <2>3. \A k \in Events : events'[k].action \in TextActions <=> events[k].action \in TextActions
    BY <1>7, <2>1, <2>2, TextRecorded
  <2>4. draft'.text = draft.text /\ (draft'.open \/ draft'.text = <<>>)
    BY <1>7 DEF Applies, ResumeDraft, TypeOK, NoDraft, TextInv
  <2>5. UNCHANGED <<jobs, discarded>>
    BY <1>7 DEF Applies, ResumeDraft
  <2>6. QED
    BY <2>3, <2>4, <2>5, TextSame
<1>8. ASSUME NEW s \in Slots, Applies(s, "cancel_request", RequestCancel(s))
      PROVE  TextInv'
  <2>1. PICK reply : Record(s, reply)
    BY <1>8 DEF Applies, RequestCancel
  <2>2. "cancel_request" \notin TextActions
    BY DEF TextActions
  <2>3. \A k \in Events : events'[k].action \in TextActions <=> events[k].action \in TextActions
    BY <1>8, <2>1, <2>2, TextRecorded
  <2>4. draft'.text = draft.text /\ (draft'.open \/ draft'.text = <<>>)
    BY <1>8 DEF Applies, RequestCancel, TypeOK, NoDraft, TextInv
  <2>5. UNCHANGED <<jobs, discarded>>
    BY <1>8 DEF Applies, RequestCancel
  <2>6. QED
    BY <2>3, <2>4, <2>5, TextSame
<1>9. ASSUME NEW s \in Slots, Applies(s, "confirm_cancel", ConfirmCancel(s))
      PROVE  TextInv'
  <2>1. PICK reply : Record(s, reply)
    BY <1>9 DEF Applies, ConfirmCancel
  <2>2. "confirm_cancel" \notin TextActions
    BY DEF TextActions
  <2>3. \A k \in Events : events'[k].action \in TextActions <=> events[k].action \in TextActions
    BY <1>9, <2>1, <2>2, TextRecorded
  <2>4. CASE DropDraft
    BY <1>9, <2>3, <2>4, TextDropped DEF Applies, ConfirmCancel
  <2>5. CASE UNCHANGED <<draft, discarded>>
    <3>1. draft'.open \/ draft'.text = <<>>
      BY <2>5 DEF TextInv
    <3>2. QED
      BY <1>9, <2>3, <2>5, <3>1, TextSame DEF Applies, ConfirmCancel
  <2>6. QED
    BY <1>9, <2>4, <2>5 DEF Applies, ConfirmCancel
<1>10. ASSUME NEW s \in Slots, Applies(s, "decline_cancel", DeclineCancel(s))
      PROVE  TextInv'
  <2>1. PICK reply : Record(s, reply)
    BY <1>10 DEF Applies, DeclineCancel
  <2>2. "decline_cancel" \notin TextActions
    BY DEF TextActions
  <2>3. \A k \in Events : events'[k].action \in TextActions <=> events[k].action \in TextActions
    BY <1>10, <2>1, <2>2, TextRecorded
  <2>4. draft'.text = draft.text /\ (draft'.open \/ draft'.text = <<>>)
    BY <1>10 DEF Applies, DeclineCancel, TypeOK, NoDraft, TextInv
  <2>5. UNCHANGED <<jobs, discarded>>
    BY <1>10 DEF Applies, DeclineCancel
  <2>6. QED
    BY <2>3, <2>4, <2>5, TextSame
<1>11. ASSUME NEW s \in Slots, Applies(s, "cancel_draft", CancelDraft(s))
      PROVE  TextInv'
  <2>1. PICK reply : Record(s, reply)
    BY <1>11 DEF Applies, CancelDraft
  <2>2. "cancel_draft" \notin TextActions
    BY DEF TextActions
  <2>3. \A k \in Events : events'[k].action \in TextActions <=> events[k].action \in TextActions
    BY <1>11, <2>1, <2>2, TextRecorded
  <2>4. CASE DropDraft
    BY <1>11, <2>3, <2>4, TextDropped DEF Applies, CancelDraft
  <2>5. CASE UNCHANGED <<draft, discarded>>
    <3>1. draft'.open \/ draft'.text = <<>>
      BY <2>5 DEF TextInv
    <3>2. QED
      BY <1>11, <2>3, <2>5, <3>1, TextSame DEF Applies, CancelDraft
  <2>6. QED
    BY <1>11, <2>4, <2>5 DEF Applies, CancelDraft
<1>12. ASSUME NEW s \in Slots, Applies(s, "next_reply", NextReply(s)) PROVE TextInv'
  <2>1. PICK reply : Record(s, reply)
    BY <1>12 DEF Applies, NextReply
  <2>2. "next_reply" \notin TextActions
    BY DEF TextActions
  <2>3. \A k \in Events : events'[k].action \in TextActions <=> events[k].action \in TextActions
    BY <1>12, <2>1, <2>2, TextRecorded
  <2>4. draft'.text = draft.text /\ (draft'.open \/ draft'.text = <<>>)
    BY <1>12 DEF Applies, NextReply, TypeOK, NoDraft, TextInv
  <2>5. UNCHANGED <<jobs, discarded>>
    BY <1>12 DEF Applies, NextReply
  <2>6. QED
    BY <2>3, <2>4, <2>5, TextSame
<1>13. ASSUME NEW s \in Slots, Applies(s, "finish_draft", FinishDraft(s))
      PROVE  TextInv'
  <2>1. CASE UNCHANGED store
    <3>1. draft'.open \/ draft'.text = <<>>
      BY <2>1 DEF TextInv, store
    <3>2. QED
      BY <2>1, <3>1, TextSame DEF store
  <2>2. CASE /\ ~draft.open \/ draft.text = <<>>
             /\ draft' = NoDraft /\ Record(s, handler[s].reply) /\ UNCHANGED <<jobs, discarded>>
    <3>1. draft'.text = draft.text /\ draft'.text = <<>>
      BY <2>2 DEF NoDraft, TextInv
    <3>2. \A k \in Events : events'[k].action \in TextActions <=> events[k].action \in TextActions
      BY <1>13, <2>2, TextRecorded DEF TextActions
    <3>3. QED
      BY <2>2, <3>1, <3>2, TextSame
  <2>3. CASE /\ CreateJob(handler[s].key, draft.text) /\ draft' = NoDraft
             /\ Record(s, handler[s].reply) /\ UNCHANGED discarded
    <3>1. draft'.text = <<>>
      BY <2>3 DEF NoDraft
    <3>2. \A k \in Events : events'[k].action \in TextActions <=> events[k].action \in TextActions
      BY <1>13, <2>3, TextRecorded DEF TextActions
    <3>3. QED
      BY <1>13, <2>3, <3>1, <3>2, NewKey, TextFinished
  <2>4. QED
    BY <1>13, <2>1, <2>2, <2>3 DEF Applies, FinishDraft, Reject
<1>14. ASSUME NEW s \in Slots, Applies(s, handler[s].action, JustReply(s))
      PROVE  TextInv'
  <2>1. PICK reply : Record(s, reply)
    BY <1>14 DEF Applies, JustReply
  <2>2. handler[s].action \notin TextActions
    BY <1>14 DEF Applies, JustReply, TextActions
  <2>3. \A k \in Events : events'[k].action \in TextActions <=> events[k].action \in TextActions
    BY <1>14, <2>1, <2>2, TextRecorded
  <2>4. draft'.text = draft.text /\ (draft'.open \/ draft'.text = <<>>)
    BY <1>14 DEF Applies, JustReply, TypeOK, NoDraft, TextInv
  <2>5. UNCHANGED <<jobs, discarded>>
    BY <1>14 DEF Applies, JustReply
  <2>6. QED
    BY <2>3, <2>4, <2>5, TextSame
<1>15. ASSUME NEW s \in Slots, AcceptTimesOut(s) PROVE TextInv'
  <2>1. UNCHANGED <<draft, jobs, discarded, events>>
    BY <1>15 DEF AcceptTimesOut, store
  <2>2. draft'.open \/ draft'.text = <<>>
    BY <2>1 DEF TextInv
  <2>3. QED
    BY <2>1, <2>2, TextSame
<1>16. ASSUME NEW s \in Slots, Resolve(s) PROVE TextInv'
  <2>1. UNCHANGED <<draft, jobs, discarded, events>>
    BY <1>16 DEF Resolve, Freeze, store
  <2>2. draft'.open \/ draft'.text = <<>>
    BY <2>1 DEF TextInv
  <2>3. QED
    BY <2>1, <2>2, TextSame
<1>17. ASSUME NEW s \in Slots, WebhookFails(s) PROVE TextInv'
  <2>1. UNCHANGED <<draft, jobs, discarded, events>>
    BY <1>17 DEF WebhookFails, store
  <2>2. draft'.open \/ draft'.text = <<>>
    BY <2>1 DEF TextInv
  <2>3. QED
    BY <2>1, <2>2, TextSame
<1>18. CASE Claim
  <2>1. DOMAIN jobs' = DOMAIN jobs /\ \A i \in DOMAIN jobs : jobs'[i].text = jobs[i].text
    BY <1>18, ClaimedJob, JobsSame
  <2>2. UNCHANGED <<draft, discarded, events>>
    BY <1>18 DEF Claim, SetStatus
  <2>3. draft'.open \/ draft'.text = <<>>
    BY <2>2 DEF TextInv
  <2>4. QED
    BY <2>1, <2>2, <2>3, TextSame
<1>19. CASE Complete
  <2>1. DOMAIN jobs' = DOMAIN jobs /\ \A i \in DOMAIN jobs : jobs'[i].text = jobs[i].text
    BY <1>19, CompletedJob, JobsSame
  <2>2. UNCHANGED <<draft, discarded, events>>
    BY <1>19 DEF Complete, SetStatus
  <2>3. draft'.open \/ draft'.text = <<>>
    BY <2>2 DEF TextInv
  <2>4. QED
    BY <2>1, <2>2, <2>3, TextSame
<1>20. CASE WorkerDies
  <2>1. UNCHANGED <<draft, jobs, discarded, events>>
    BY <1>20 DEF WorkerDies, store
  <2>2. draft'.open \/ draft'.text = <<>>
    BY <2>1 DEF TextInv
  <2>3. QED
    BY <2>1, <2>2, TextSame
<1>21. CASE Restart
  <2>1. DOMAIN jobs' = DOMAIN jobs /\ \A i \in DOMAIN jobs : jobs'[i].text = jobs[i].text
    BY <1>21, RestartedJobs
  <2>2. UNCHANGED <<draft, discarded, events>>
    BY <1>21 DEF Restart
  <2>3. draft'.open \/ draft'.text = <<>>
    BY <2>2 DEF TextInv
  <2>4. QED
    BY <2>1, <2>2, <2>3, TextSame
<1>22. CASE UNCHANGED vars
  <2>1. UNCHANGED <<draft, jobs, discarded, events>>
    BY <1>22 DEF vars, store
  <2>2. draft'.open \/ draft'.text = <<>>
    BY <2>1 DEF TextInv
  <2>3. QED
    BY <2>1, <2>2, TextSame
<1>23. QED
  BY <1>1, <1>2, <1>3, <1>4, <1>5, <1>6, <1>7, <1>8, <1>9, <1>10, <1>11, <1>12,
     <1>13, <1>14, <1>15, <1>16, <1>17, <1>18, <1>19, <1>20, <1>21, <1>22, NextCases

(* Text that is added while a confirmation is awaited ends the waiting.     *)
LEMMA AskedStep ==
  ASSUME TypeOK, TextInv, AskedInv, [Next]_vars
  PROVE  AskedInv'
<1>1. ASSUME NEW s \in Slots, NEW k \in Events, NEW u \in Utterances, Deliver(s, k,
   u) PROVE AskedInv'
  BY <1>1 DEF Deliver, store, AskedInv
<1>2. ASSUME NEW s \in Slots, Repeats(s) PROVE AskedInv'
  BY <1>2 DEF Repeats, store, AskedInv
<1>3. ASSUME NEW s \in Slots, Rejects(s) PROVE AskedInv'
  BY <1>3 DEF Rejects, store, AskedInv
<1>4. ASSUME NEW s \in Slots, Applies(s, "new_idea", NewIdea(s)) PROVE AskedInv'
  BY <1>4 DEF Applies, NewIdea, Reject, store, AskedInv
<1>5. ASSUME NEW s \in Slots, Applies(s, "append_draft", AppendDraft(s))
      PROVE  AskedInv'
  BY <1>5 DEF Applies, AppendDraft, Reject, store, AskedInv, TypeOK, TextInv, NoDraft
<1>6. ASSUME NEW s \in Slots, Applies(s, "start_draft", StartDraft(s))
      PROVE  AskedInv'
  BY <1>6 DEF Applies, StartDraft, AskedInv, TypeOK, TextInv, NoDraft
<1>7. ASSUME NEW s \in Slots, Applies(s, "resume_draft", ResumeDraft(s))
      PROVE  AskedInv'
  BY <1>7 DEF Applies, ResumeDraft, AskedInv
<1>8. ASSUME NEW s \in Slots, Applies(s, "cancel_request", RequestCancel(s))
      PROVE  AskedInv'
  BY <1>8 DEF Applies, RequestCancel, AskedInv, TypeOK, TextInv, NoDraft
<1>9. ASSUME NEW s \in Slots, Applies(s, "confirm_cancel", ConfirmCancel(s))
      PROVE  AskedInv'
  BY <1>9 DEF Applies, ConfirmCancel, DropDraft, AskedInv, TypeOK, TextInv, NoDraft
<1>10. ASSUME NEW s \in Slots, Applies(s, "decline_cancel", DeclineCancel(s))
      PROVE  AskedInv'
  BY <1>10 DEF Applies, DeclineCancel, AskedInv, TypeOK, TextInv, NoDraft
<1>11. ASSUME NEW s \in Slots, Applies(s, "cancel_draft", CancelDraft(s))
      PROVE  AskedInv'
  BY <1>11 DEF Applies, CancelDraft, DropDraft, AskedInv, TypeOK, TextInv, NoDraft
<1>12. ASSUME NEW s \in Slots, Applies(s, "next_reply", NextReply(s))
      PROVE  AskedInv'
  BY <1>12 DEF Applies, NextReply, AskedInv
<1>13. ASSUME NEW s \in Slots, Applies(s, "finish_draft", FinishDraft(s))
      PROVE  AskedInv'
  <2>1. CASE draft' = NoDraft
    BY <2>1 DEF NoDraft, AskedInv
  <2>2. CASE UNCHANGED <<draft, confirming>>
    BY <2>2 DEF AskedInv
  <2>3. QED
    BY <1>13, <2>1, <2>2 DEF Applies, FinishDraft, Reject, store
<1>14. ASSUME NEW s \in Slots, Applies(s, handler[s].action, JustReply(s))
      PROVE  AskedInv'
  BY <1>14 DEF Applies, JustReply, AskedInv
<1>15. ASSUME NEW s \in Slots, AcceptTimesOut(s) PROVE AskedInv'
  BY <1>15 DEF AcceptTimesOut, store, AskedInv
<1>16. ASSUME NEW s \in Slots, Resolve(s) PROVE AskedInv'
  BY <1>16 DEF Resolve, Freeze, store, AskedInv
<1>17. ASSUME NEW s \in Slots, WebhookFails(s) PROVE AskedInv'
  BY <1>17 DEF WebhookFails, store, AskedInv
<1>18. CASE Claim
  BY <1>18 DEF Claim, SetStatus, AskedInv
<1>19. CASE Complete
  BY <1>19 DEF Complete, SetStatus, AskedInv
<1>20. CASE WorkerDies
  BY <1>20 DEF WorkerDies, store, AskedInv
<1>21. CASE Restart
  BY <1>21 DEF Restart, AskedInv
<1>22. CASE UNCHANGED vars
  BY <1>22 DEF vars, store, AskedInv
<1>23. QED
  BY <1>1, <1>2, <1>3, <1>4, <1>5, <1>6, <1>7, <1>8, <1>9, <1>10, <1>11, <1>12,
     <1>13, <1>14, <1>15, <1>16, <1>17, <1>18, <1>19, <1>20, <1>21, <1>22, NextCases

-----------------------------------------------------------------------------
LEMMA InitInv == Init => IInv
<1> SUFFICES ASSUME Init PROVE IInv
  OBVIOUS
<1>1. Nothing \in Reply /\ "none" \in Actions
  BY SayType DEF Nothing, Sentences, Actions
<1>2. /\ Idle \in HandlerType /\ Idle.pc = "idle" /\ NoDraft \in DraftType
      /\ NoDraft.text = <<>> /\ Len(NoDraft.text) <= DraftMax
  BY IdleType, NoDraftType DEF HandlerType, Idle, NoDraft
<1>3. TypeOK
  <2>1. [action |-> "none", reply |-> Nothing] \in [action: Actions, reply: Reply]
    BY <1>1
  <2>2. repeats \in 0 .. MaxRepeats /\ cursor \in [job: 0 .. NEvents, page: 1 .. Pages]
    BY BoundsAssumption DEF Init
  <2>3. jobs \in Seq(JobType) /\ worker \in Dead .. Len(jobs)
    BY DEF Init
  <2>4. draft \in DraftType /\ Len(draft.text) <= DraftMax
    BY <1>2 DEF Init
  <2>5. handler \in [Slots -> HandlerType]
    BY <1>2 DEF Init
  <2>6. QED
    BY <1>1, <2>1, <2>2, <2>3, <2>4, <2>5 DEF Init, TypeOK, DraftType, HandlerType
<1>4. DOMAIN jobs = {}
  BY DEF Init
<1>5. JobsInv /\ WorkerInv
  BY <1>4 DEF JobsInv, WorkerInv
<1>6. \A k \in Events : events[k].action = "none" /\ frozen[k] = Nothing /\ replied[k] = {}
  BY DEF Init
<1>7. HandlerInv
  BY <1>2, <1>6 DEF Init, HandlerInv, JobActions
<1>8. AnswerInv
  BY <1>6 DEF AnswerInv
<1>9. TextInv
  <2>1. draft.text = <<>> /\ discarded = {}
    BY <1>2 DEF Init
  <2>2. (\A n, k : ~InDraft(n, k)) /\ \A i, n, k : ~InJob(i, n, k)
    BY <1>4, <2>1 DEF InDraft, InJob
  <2>3. QED
    BY <1>4, <1>6, <2>1, <2>2 DEF TextInv, TextActions
<1>10. AskedInv
  BY DEF Init, AskedInv
<1>11. QED
  BY <1>3, <1>5, <1>7, <1>8, <1>9, <1>10 DEF IInv

(* The inductive invariant holds in every reachable state.                 *)
THEOREM Invariance == Spec => []IInv
<1>1. IInv /\ [Next]_vars => IInv'
  BY TypeOKStep, JobsStep, WorkerStep, HandlerStep, AnswerStep, TextStep, AskedStep DEF IInv
<1>2. QED
  BY InitInv, <1>1, PTL DEF Spec

(* A set whose elements are all the same has one at most.                  *)
LEMMA AtMostOne ==
  ASSUME NEW S, \A x, y \in S : x = y
  PROVE  Cardinality(S) <= 1
<1>1. CASE S = {}
  BY <1>1, FS_EmptySet
<1>2. CASE S # {}
  <2>1. PICK x \in S : S = {x}
    BY <1>2
  <2>2. QED
    BY <2>1, FS_Singleton
<1>3. QED
  BY <1>1, <1>2

(* However often and however concurrently an event is delivered, and       *)
(* whenever the gateway restarts, the store has at most one job of it.     *)
THEOREM OneJob == Spec => []OneJobPerEvent
<1>1. IInv => OneJobPerEvent
  <2> SUFFICES ASSUME IInv, NEW k \in Events PROVE Cardinality(JobsOf(k)) <= 1
    BY DEF OneJobPerEvent, IInv
  <2>1. \A i, j \in JobsOf(k) : i = j
    BY DEF IInv, JobsInv, JobsOf
  <2>2. QED
    BY <2>1, AtMostOne
<1>2. QED
  BY <1>1, Invariance, PTL

(* Where the copies of a fragment are.                                     *)
LEMMA CopiesAre ==
  ASSUME TypeOK, TextInv, NEW k \in Events
  PROVE  \A p : p \in Copies(k) <=>
           \E i \in Nat, n \in Nat : p = <<i, n>> /\ ((i = 0 /\ InDraft(n, k)) \/ InJob(i, n, k))
<1>1. Len(jobs) \in Nat /\ DOMAIN jobs = 1 .. Len(jobs) /\ DraftMax \in Nat
  BY JobTypes, BoundsAssumption
<1>2. /\ draft.text \in Seq(Events) /\ Len(draft.text) \in Nat
      /\ DOMAIN draft.text = 1 .. Len(draft.text) /\ Len(draft.text) <= DraftMax
  BY DEF TypeOK
<1>3. \A i \in DOMAIN jobs : /\ Len(jobs[i].text) \in Nat /\ Len(jobs[i].text) <= DraftMax + 1
                             /\ DOMAIN jobs[i].text = 1 .. Len(jobs[i].text)
  BY JobTypes DEF TextInv
<1>4. ASSUME NEW i \in 0 .. Len(jobs), NEW n \in 1 .. DraftMax + 1
      PROVE  (n <= Len(Text(i)) /\ Text(i)[n] = k) <=> ((i = 0 /\ InDraft(n, k)) \/ InJob(i, n, k))
  <2>1. CASE i = 0
    BY <1>1, <1>2, <2>1 DEF Text, InDraft, InJob
  <2>2. CASE i # 0
    BY <1>1, <1>3, <2>2 DEF Text, InJob
  <2>3. QED
    BY <2>1, <2>2
<1>5. ASSUME NEW i \in Nat, NEW n \in Nat, (i = 0 /\ InDraft(n, k)) \/ InJob(i, n, k)
      PROVE  i \in 0 .. Len(jobs) /\ n \in 1 .. DraftMax + 1
  <2>1. CASE i = 0 /\ InDraft(n, k)
    BY <1>1, <1>2, <2>1 DEF InDraft
  <2>2. CASE InJob(i, n, k)
    BY <1>1, <1>3, <2>2 DEF InJob
  <2>3. QED
    BY <1>5, <2>1, <2>2
<1>6. ASSUME NEW p \in Copies(k)
      PROVE  \E i \in Nat, n \in Nat : p = <<i, n>> /\ ((i = 0 /\ InDraft(n, k)) \/ InJob(i, n, k))
  <2>1. PICK i \in 0 .. Len(jobs), n \in 1 .. DraftMax + 1 : p = <<i, n>>
    BY DEF Copies
  <2>2. n <= Len(Text(i)) /\ Text(i)[n] = k
    BY <2>1 DEF Copies
  <2>3. QED
    BY <1>1, <1>4, <2>1, <2>2
<1>7. ASSUME NEW i \in Nat, NEW n \in Nat, (i = 0 /\ InDraft(n, k)) \/ InJob(i, n, k)
      PROVE  <<i, n>> \in Copies(k)
  <2>1. i \in 0 .. Len(jobs) /\ n \in 1 .. DraftMax + 1
    BY <1>5, <1>7
  <2>2. n <= Len(Text(i)) /\ Text(i)[n] = k
    BY <1>4, <1>7, <2>1
  <2>3. QED
    BY <2>1, <2>2 DEF Copies
<1>8. QED
  BY <1>6, <1>7

(* What was accepted is in one place: the draft, one job, or among what a  *)
(* cancellation discarded.                                                 *)
THEOREM TextIsKept == Spec => []NothingLost
<1>1. IInv => NothingLost
  <2> SUFFICES ASSUME IInv, NEW k \in Events
               PROVE  Cardinality(Copies(k)) + (IF k \in discarded THEN 1 ELSE 0)
                        = IF events[k].action \in {"new_idea", "append_draft"} THEN 1 ELSE 0
    BY DEF NothingLost
  <2> DEFINE At(i, n) == (i = 0 /\ InDraft(n, k)) \/ InJob(i, n, k)
  <2>1. \A p : p \in Copies(k) <=> \E i \in Nat, n \in Nat : p = <<i, n>> /\ At(i, n)
    BY CopiesAre DEF IInv
  <2>2. TextInv
    BY DEF IInv
  <2>3. \A i, n : InDraft(n, k) => ~InJob(0, n, k)
    BY JobTypes DEF InJob, IInv
  <2>4. CASE \E i \in Nat, n \in Nat : At(i, n)
    <3>1. PICK i \in Nat, n \in Nat : At(i, n)
      BY <2>4
    <3>2. events[k].action \in TextActions /\ k \notin discarded
      BY <2>2, <3>1 DEF TextInv
    <3>3. \A j, m \in Nat : At(j, m) => j = i /\ m = n
      BY <2>2, <3>1 DEF TextInv
    <3>4. Copies(k) = {<<i, n>>}
      BY <2>1, <3>1, <3>3
    <3>5. Cardinality(Copies(k)) = 1
      BY <3>4, FS_Singleton
    <3>6. QED
      BY <3>2, <3>5 DEF TextActions
  <2>5. CASE ~\E i \in Nat, n \in Nat : At(i, n)
    <3>1. Copies(k) = {}
      BY <2>1, <2>5
    <3>2. Cardinality(Copies(k)) = 0
      BY <3>1, FS_EmptySet
    <3>3. k \in discarded <=> events[k].action \in TextActions
      <4>1. (\A n \in Nat : ~InDraft(n, k)) /\ \A i, n \in Nat : ~InJob(i, n, k)
        BY <2>5
      <4>2. QED
        BY <2>2, <4>1 DEF TextInv
    <3>4. QED
      BY <3>2, <3>3 DEF TextActions
  <2>6. QED
    BY <2>4, <2>5
<1>2. QED
  BY <1>1, Invariance, PTL

(* Every delivery of an event that is not rejected gets one and the same   *)
(* answer, and an answer of how a job ended is of the event's own job, and *)
(* of the end it came to.                                                  *)
THEOREM AnswerIsOne == Spec => []OneAnswer
<1>1. IInv => RepliesFrozen
  <2> SUFFICES ASSUME IInv, NEW k \in Events PROVE Cardinality(replied[k] \ Rejections) <= 1
    BY DEF RepliesFrozen
  <2>1. \A x, y \in replied[k] \ Rejections : x = y
    BY DEF IInv, AnswerInv
  <2>2. QED
    BY <2>1, AtMostOne
<1>2. IInv => OwnResult
  <2> SUFFICES ASSUME IInv, NEW k \in Events, events[k].action \in JobActions,
                      NEW reply \in replied[k] \ (Rejections \union {Say("accepted")})
               PROVE  \E i \in JobsOf(k) : reply = Ending(i)
    BY DEF OwnResult, JobActions
  <2>1. reply = frozen[k] /\ frozen[k] \notin {Nothing, Say("accepted")}
    BY DEF IInv, AnswerInv
  <2>2. QED
    BY <2>1 DEF IInv, AnswerInv
<1>3. QED
  BY <1>1, <1>2, Invariance, PTL DEF OneAnswer

(* Jobs end in the order in which they were accepted, also across a death  *)
(* of the worker and a restart.                                            *)
THEOREM JobsEndInOrder == Spec => []EndInOrder
<1>1. IInv => EndInOrder
  BY DEF IInv, WorkerInv, EndInOrder
<1>2. QED
  BY <1>1, Invariance, PTL

(* With one webhook at a time, a draft found closed when its cancellation  *)
(* was routed is still empty when the store carries it out.                *)
CancelInv ==
  \A s \in Slots : handler[s].pc \in {"accept", "late"} /\ handler[s].action = "cancel_draft"
                     => draft.text = <<>>

LEMMA CancelStep ==
  ASSUME \A s, t \in Slots : s = t, IInv, CancelInv, [Next]_vars
  PROVE  CancelInv'
<1>1. ASSUME NEW s \in Slots, NEW k \in Events, NEW u \in Utterances, Deliver(s, k,
   u) PROVE CancelInv'
  <2>1. Action(u) = "cancel_draft" => ~draft.open
    BY DEF Action
  <2>2. handler'[s].action = Action(u) /\ UNCHANGED draft
    BY <1>1 DEF Deliver, store, IInv, TypeOK
  <2>3. QED
    BY <2>1, <2>2 DEF CancelInv, IInv, TextInv
<1>2. ASSUME NEW s \in Slots, Repeats(s) \/ Rejects(s) \/ Records(s)
      PROVE  CancelInv'
  <2>1. PICK reply : AcceptReturns(s, reply)
    BY <1>2 DEF Repeats, Rejects, Records, Record
  <2>2. handler[s].pc # "idle" /\ TypeOK /\ HandlerInv
    BY <1>2 DEF Repeats, Rejects, Records, IInv
  <2>3. handler'[s] = Idle \/ handler'[s].pc = "wait"
    BY <2>1, <2>2, Returned
  <2>4. QED
    BY <2>3 DEF CancelInv, Idle
<1>3. ASSUME NEW s \in Slots, AcceptTimesOut(s) PROVE CancelInv'
  <2>1. handler'[s] = [handler[s] EXCEPT !.pc = "late"] /\ handler[s] \in HandlerType
    BY <1>3 DEF AcceptTimesOut, IInv, TypeOK, HandlerType
  <2>2. handler'[s].action = handler[s].action /\ handler[s].pc = "accept" /\ UNCHANGED draft
    BY <1>3, <2>1 DEF AcceptTimesOut, store, HandlerType
  <2>3. QED
    BY <2>2 DEF CancelInv
<1>4. ASSUME NEW s \in Slots, Resolve(s) PROVE CancelInv'
  <2>1. handler'[s] = Idle
    BY <1>4 DEF Resolve, Freeze, Answer, IInv, TypeOK
  <2>2. QED
    BY <2>1 DEF CancelInv, Idle
<1>5. ASSUME NEW s \in Slots, WebhookFails(s) PROVE CancelInv'
  <2>1. handler'[s] = Idle
    BY <1>5 DEF WebhookFails, IInv, TypeOK
  <2>2. QED
    BY <2>1 DEF CancelInv, Idle
<1>6. CASE Claim \/ Complete \/ WorkerDies \/ UNCHANGED vars
  <2>1. UNCHANGED <<handler, draft>>
    BY <1>6 DEF Claim, Complete, SetStatus, WorkerDies, store, vars
  <2>2. QED
    BY <2>1 DEF CancelInv
<1>7. CASE Restart
  BY <1>7 DEF Restart, CancelInv, Idle
<1>8. QED
  BY <1>1, <1>2, <1>3, <1>4, <1>5, <1>6, <1>7, AppliesRecords DEF IInv

(* While webhooks do not overlap, what was dictated is thrown away only by *)
(* the answer to a question that was asked after the last of it was said.  *)
THEOREM DiscardedAfterAnswer ==
  ASSUME \A s, t \in Slots : s = t
  PROVE  Spec => DiscardIsAnswered
<1>1. Init => CancelInv
  BY DEF Init, CancelInv, Idle
<1>2. IInv /\ CancelInv /\ [Next]_vars => CancelInv'
  BY CancelStep
<1>3. IInv /\ CancelInv /\ [Next]_vars => [discarded' # discarded => draft.asked]_vars
  <2> SUFFICES ASSUME IInv, CancelInv, [Next]_vars, discarded' # discarded PROVE draft.asked
    OBVIOUS
  <2>1. \/ \E s \in Slots : Applies(s, "confirm_cancel", ConfirmCancel(s))
        \/ \E s \in Slots : Applies(s, "cancel_draft", CancelDraft(s))
    BY NextCases
       DEF Deliver, Repeats, Rejects, Applies, NewIdea, AppendDraft, StartDraft, ResumeDraft, RequestCancel,
           DeclineCancel, NextReply, FinishDraft, JustReply, Reject, AcceptTimesOut, Resolve, Freeze,
           WebhookFails, Claim, Complete, SetStatus, WorkerDies, Restart, store, vars
  <2>2. DropDraft /\ (confirming \/ \E s \in Slots : Applies(s, "cancel_draft", CancelDraft(s)))
    BY <2>1 DEF Applies, ConfirmCancel, CancelDraft
  <2>3. draft.text # <<>>
    BY <2>2 DEF DropDraft, ToSet
  <2>4. confirming
    BY <2>2, <2>3 DEF CancelInv, Applies
  <2>5. QED
    BY <2>3, <2>4 DEF IInv, AskedInv
<1>4. QED
  BY <1>1, <1>2, <1>3, Invariance, PTL DEF Spec, DiscardIsAnswered

-----------------------------------------------------------------------------
(* The talk.  A question is as deep as turns have asked before it, at      *)
(* most; a row's history is that of its generation; and the recorder has   *)
(* listened less often than the question that waits is deep, so that it    *)
(* may listen once more after a question that its own turn has just asked. *)
Sayings == [asks : BOOLEAN, resolves : BOOLEAN]
Rows == [generation : 0 .. MaxTalkEvents + 1, saved : BOOLEAN, committed : BOOLEAN, said : Sayings]
QStatuses == {"none", "pending", "answered", "superseded", "expired", "reset"}
Questions == [depth : Nat, status : QStatuses]
Pendings == [turn : Sessions!Turns \cup {0}, depth : Nat]

TalkTypes ==
  /\ generation \in 1 .. talkEvents + 1 /\ talkEvents \in 0 .. MaxTalkEvents
  /\ results \in [Sessions!Turns -> Rows]
  /\ questions \in [Sessions!Turns -> Questions]
  /\ context \in [Sessions!Turns -> [saved : BOOLEAN, pending : Pendings]]
  /\ proposal \in [Sessions!Turns -> [saved : BOOLEAN, said : Sayings]]
  /\ receipt \in [Sessions!Turns -> {"none", "done", "review"}]
  /\ turn \in [Sessions!Turns -> {"new", "queued", "done", "lost"}]
  /\ answer \in [said : Sayings, generation : Nat]
  /\ history \in [Sessions!Turns -> Nat]
  /\ listening \in [times : Nat, skewed : BOOLEAN]

(* One turn has the lock; a turn of the recorder is told its question in   *)
(* the one run that it has.                                                *)
Unasked(t) ==
  questions[t].status # "none" => turn[t] \in {"done", "lost"} \/ (current = t /\ step = "record")
TurnsInv ==
  /\ current \in Sessions!Turns \cup {0} /\ (current = 0) = (step = "idle")
  /\ current # 0 => turn[current] = "queued"
  /\ \A t \in Sessions!Recorder : Unasked(t)

RowsInv == \A t \in Sessions!Turns : results[t].generation # 0 => history[t] = results[t].generation

OneWaits == \A t, u \in Sessions!Turns : questions[t].status = "pending" /\ questions[u].status = "pending" => t = u

Told(q) == {t \in Sessions!Turns : q[t].status # "none"}
DepthsInv ==
  \A t \in Sessions!Turns : /\ questions[t].depth <= Cardinality(Told(questions))
                            /\ context[t].pending.depth <= Cardinality(Told(questions))

(* In the run that asked, the recorder has not yet listened.               *)
Room(t) == IF step = "record" /\ current = t /\ t \in Sessions!Recorder THEN 1 ELSE 0
ListensInv ==
  ~listening.skewed =>
    /\ listening.times <= Listens
    /\ (\A t \in Sessions!Turns : questions[t].status # "pending") => listening.times = 0
    /\ \A t \in Sessions!Turns : questions[t].status = "pending" =>
         listening.times + Room(t) <= questions[t].depth

TalkInv == TalkTypes /\ TurnsInv /\ RowsInv /\ OneWaits /\ DepthsInv /\ ListensInv

LEMMA TurnsAre ==
  /\ NRecorder \in Nat /\ NAlice \in Nat /\ MaxTalkEvents \in Nat /\ Listens \in Nat \ {0}
  /\ Sessions!Turns = 1 .. NRecorder + NAlice /\ 0 \notin Sessions!Turns
  /\ Sessions!Recorder \subseteq Sessions!Turns /\ Sessions!Alice = Sessions!Turns \ Sessions!Recorder
  /\ Sessions!NoTurn = 0
<1>1. /\ NRecorder \in Nat /\ NAlice \in Nat /\ MaxTalkEvents \in Nat /\ Listens \in Nat \ {0}
  BY GatewayAssumption DEF Sessions!SessionsAssumption
<1>2. /\ Sessions!Recorder = 1 .. NRecorder /\ Sessions!Alice = NRecorder + 1 .. NRecorder + NAlice
      /\ Sessions!Turns = Sessions!Recorder \cup Sessions!Alice
  BY DEF Sessions!Recorder, Sessions!Alice, Sessions!Turns
<1> QED BY <1>1, <1>2 DEF Sessions!NoTurn

(* How many turns have told a question.                                    *)
LEMMA ToldCounts ==
  ASSUME NEW q
  PROVE  /\ IsFiniteSet(Told(q)) /\ Cardinality(Told(q)) \in 0 .. NRecorder + NAlice
         /\ \A r : Told(r) \subseteq Told(q) => Cardinality(Told(r)) <= Cardinality(Told(q))
         /\ \A r, t : t \in Sessions!Turns /\ t \notin Told(r) /\ Told(q) = Told(r) \cup {t}
                        => Cardinality(Told(q)) = Cardinality(Told(r)) + 1
<1>1. IsFiniteSet(Sessions!Turns) /\ Cardinality(Sessions!Turns) = NRecorder + NAlice
  <2>1. NRecorder + NAlice \in Nat /\ 1 \in Int
    BY TurnsAre
  <2> DEFINE n == NRecorder + NAlice
  <2> HIDE DEF n
  <2>2. IsFiniteSet(1 .. n) /\ Cardinality(1 .. n) = n
    <3>1. n \in Nat /\ n \in Int
      BY <2>1 DEF n
    <3>2. IsFiniteSet(1 .. n) /\ Cardinality(1 .. n) = IF 1 > n THEN 0 ELSE n - 1 + 1
      BY <3>1, FS_Interval
    <3> QED BY <3>1, <3>2
  <2> QED BY <2>2, TurnsAre DEF n
<1>2. ASSUME NEW r PROVE IsFiniteSet(Told(r)) /\ Cardinality(Told(r)) \in Nat
  <2>1. Told(r) \subseteq Sessions!Turns
    BY DEF Told
  <2> QED BY <1>1, <2>1, FS_Subset, FS_CardinalityType
<1>3. Cardinality(Told(q)) <= NRecorder + NAlice
  <2>1. Told(q) \subseteq Sessions!Turns
    BY DEF Told
  <2> QED BY <1>1, <2>1, FS_Subset
<1>4. ASSUME NEW r, Told(r) \subseteq Told(q) PROVE Cardinality(Told(r)) <= Cardinality(Told(q))
  BY <1>2, <1>4, FS_Subset
<1>5. ASSUME NEW r, NEW t, t \notin Told(r), Told(q) = Told(r) \cup {t}
      PROVE  Cardinality(Told(q)) = Cardinality(Told(r)) + 1
  BY <1>2, <1>5, FS_AddElement
<1> QED BY <1>2, <1>3, <1>4, <1>5, TurnsAre

(* The question that waits, if there is one.                               *)
LEMMA PendingIs ==
  ASSUME TalkTypes
  PROVE  /\ Sessions!Pending \in Pendings
         /\ Sessions!Pending.turn # 0 =>
              /\ questions[Sessions!Pending.turn].status = "pending"
              /\ Sessions!Pending.depth = questions[Sessions!Pending.turn].depth
         /\ Sessions!Pending.turn = 0 =>
              /\ Sessions!Pending.depth = 0
              /\ \A t \in Sessions!Turns : questions[t].status # "pending"
<1>1. CASE Sessions!Asked = {}
  <2>1. Sessions!Pending = [turn |-> 0, depth |-> 0]
    BY <1>1, TurnsAre DEF Sessions!Pending, Sessions!NoQuestion
  <2> QED BY <1>1, <2>1 DEF Pendings, Sessions!Asked
<1>2. CASE Sessions!Asked # {}
  <2>1. PICK t \in Sessions!Asked : Sessions!Pending = [turn |-> t, depth |-> questions[t].depth]
    BY <1>2 DEF Sessions!Pending
  <2>2. t \in Sessions!Turns /\ questions[t].status = "pending"
    BY <2>1 DEF Sessions!Asked
  <2> QED BY <2>1, <2>2, TurnsAre DEF Pendings, TalkTypes, Questions
<1> QED BY <1>1, <1>2

(* What apply makes of the journal of questions.                           *)
Asks == questions[current].status = "none" /\ receipt[current] # "review" /\ answer.said.asks

LEMMA AppliedIs ==
  ASSUME TalkTypes, TurnsInv, Sessions!Apply
  PROVE  /\ current \in Sessions!Turns /\ step' = "record"
         /\ questions' \in [Sessions!Turns -> Questions]
         /\ \A t \in Sessions!Turns \ (IF Asks THEN {current} ELSE {}) :
              /\ questions'[t].depth = questions[t].depth
              /\ questions[t].status # "pending" => questions'[t].status = questions[t].status
              /\ questions[t].status = "pending" =>
                   questions'[t].status \in {"pending", "answered", "superseded"}
              /\ Asks => questions'[t].status # "pending"
         /\ Asks => /\ questions'[current].status = "pending"
                    /\ questions'[current].depth = context[current].pending.depth + 1
<1>1. current \in Sessions!Turns /\ step' = "record"
  BY TurnsAre DEF Sessions!Apply, TurnsInv
<1> DEFINE pending == context[current].pending
           closed == Sessions!Resolved(questions, pending)
<1>2. pending \in Pendings
  BY <1>1 DEF TalkTypes
<1>3. /\ closed \in [Sessions!Turns -> Questions]
      /\ \A t \in Sessions!Turns :
           /\ closed[t].depth = questions[t].depth
           /\ questions[t].status # "pending" => closed[t].status = questions[t].status
           /\ questions[t].status = "pending" => closed[t].status \in {"pending", "answered"}
  <2> DEFINE p == pending.turn
             q == [questions EXCEPT ![p] = [questions[p] EXCEPT !.status = "answered"]]
  <2>1. closed = questions \/ (closed = q /\ questions[p].status = "pending")
    BY DEF Sessions!Resolved
  <2>2. questions \in [Sessions!Turns -> Questions] /\ p \in Sessions!Turns \cup {0}
    BY <1>2 DEF TalkTypes, Pendings
  <2> HIDE DEF closed, p
  <2>3. CASE closed = questions
    BY <2>2, <2>3
  <2>4. CASE closed = q /\ p = 0
    <3>1. q = questions
      BY <2>2, <2>4, TurnsAre
    <3> QED BY <2>2, <2>4, <3>1
  <2>5. CASE closed = q /\ p \in Sessions!Turns /\ questions[p].status = "pending"
    <3>1. [questions[p] EXCEPT !.status = "answered"] \in Questions
      BY <2>2, <2>5 DEF Questions, QStatuses
    <3> QED BY <2>2, <2>5, <3>1 DEF Questions
  <2> QED BY <2>1, <2>2, <2>3, <2>4, <2>5
<1>4. /\ Sessions!Superseded(closed) \in [Sessions!Turns -> Questions]
      /\ \A t \in Sessions!Turns :
           /\ Sessions!Superseded(closed)[t].depth = questions[t].depth
           /\ questions[t].status # "pending" => Sessions!Superseded(closed)[t].status = questions[t].status
           /\ questions[t].status = "pending" =>
                Sessions!Superseded(closed)[t].status \in {"answered", "superseded"}
  <2> HIDE DEF closed
  <2> QED BY <1>3 DEF Questions, QStatuses, Sessions!Superseded
<1>5. /\ receipt[current] = "review" => questions' = questions
      /\ receipt[current] # "review" => questions' = Sessions!Applied
  BY DEF Sessions!Apply
<1>6. CASE ~Asks
  <2>1. questions' = questions \/ questions' = closed
    BY <1>5, <1>6 DEF Sessions!Applied, Asks
  <2> HIDE DEF closed
  <2> QED BY <1>1, <1>3, <1>6, <2>1 DEF TalkTypes, Questions
<1>7. CASE Asks
  <2>1. questions' = [Sessions!Superseded(closed) EXCEPT
                        ![current] = [depth |-> pending.depth + 1, status |-> "pending"]]
    BY <1>5, <1>7 DEF Sessions!Applied, Asks, Sessions!Depth
  <2>2. [depth |-> pending.depth + 1, status |-> "pending"] \in Questions
    BY <1>2 DEF Pendings, Questions, QStatuses
  <2> HIDE DEF closed
  <2>3. questions[current].status = "none"
    BY <1>7 DEF Asks
  <2> QED BY <1>1, <1>4, <1>7, <2>1, <2>2, <2>3
<1> QED BY <1>6, <1>7, <1>1

LEMMA TalkInit == Sessions!Init => TalkInv
<1> SUFFICES ASSUME Sessions!Init PROVE TalkInv
  OBVIOUS
<1> USE TurnsAre DEF Sessions!Init
<1>1. /\ Sessions!NoRow \in Rows /\ Sessions!NoRow.generation = 0 /\ Sessions!Silence \in Sayings
      /\ [depth |-> 0, status |-> "none"] \in Questions
      /\ Sessions!NoQuestion \in Pendings /\ Sessions!NoQuestion.depth = 0
      /\ Sessions!NoAnswer \in [said : Sayings, generation : Nat]
      /\ Sessions!Heard = [times |-> 0, skewed |-> FALSE]
  BY DEF Sessions!NoRow, Sessions!Silence, Sessions!NoQuestion, Sessions!NoAnswer, Sessions!Heard,
         Rows, Sayings, Questions, QStatuses, Pendings
<1>2. TalkTypes
  <2>1. generation \in 1 .. talkEvents + 1 /\ talkEvents \in 0 .. MaxTalkEvents
    OBVIOUS
  <2>2. /\ results \in [Sessions!Turns -> Rows] /\ questions \in [Sessions!Turns -> Questions]
        /\ history \in [Sessions!Turns -> Nat]
        /\ receipt \in [Sessions!Turns -> {"none", "done", "review"}]
        /\ turn \in [Sessions!Turns -> {"new", "queued", "done", "lost"}]
        /\ answer \in [said : Sayings, generation : Nat]
        /\ listening \in [times : Nat, skewed : BOOLEAN]
    BY <1>1
  <2>3. /\ context \in [Sessions!Turns -> [saved : BOOLEAN, pending : Pendings]]
        /\ proposal \in [Sessions!Turns -> [saved : BOOLEAN, said : Sayings]]
    BY <1>1
  <2> QED BY <2>1, <2>2, <2>3 DEF TalkTypes
<1>3. TurnsInv /\ OneWaits
  BY DEF TurnsInv, Unasked, OneWaits
<1>4. RowsInv
  BY <1>1 DEF RowsInv
<1>5. DepthsInv
  <2>1. Cardinality(Told(questions)) >= 0
    BY ToldCounts
  <2> QED BY <1>1, <2>1 DEF DepthsInv
<1>6. ListensInv
  BY <1>1 DEF ListensInv
<1> QED BY <1>2, <1>3, <1>4, <1>5, <1>6 DEF TalkInv

LEMMA RowsAre ==
  ASSUME NEW r \in Rows, NEW words \in Sayings, NEW g \in 0 .. MaxTalkEvents + 1
  PROVE  /\ [r EXCEPT !.committed = TRUE] \in Rows /\ [r EXCEPT !.committed = TRUE].generation = r.generation
         /\ [r EXCEPT !.saved = TRUE, !.said = words] \in Rows
         /\ [r EXCEPT !.saved = TRUE, !.said = words].generation = r.generation
         /\ [r EXCEPT !.generation = g] \in Rows /\ [r EXCEPT !.generation = g].generation = g
  BY DEF Rows

LEMMA QuestionsAre ==
  ASSUME NEW q \in Questions, NEW s \in QStatuses
  PROVE  /\ [q EXCEPT !.status = s] \in Questions /\ [q EXCEPT !.status = s].status = s
         /\ [q EXCEPT !.status = s].depth = q.depth
  BY DEF Questions

(* Every variable keeps its type.                                          *)
LEMMA TalkTypesStep ==
  ASSUME TalkInv, Sessions!Next
  PROVE  TalkTypes'
<1> USE TurnsAre
<1>t. TalkTypes /\ TurnsInv
  BY DEF TalkInv
<1>c. /\ Sessions!NoRow \in Rows /\ Sessions!Silence \in Sayings
      /\ Sessions!NoAnswer \in [said : Sayings, generation : Nat]
      /\ Sessions!Heard \in [times : Nat, skewed : BOOLEAN]
  BY DEF Sessions!NoRow, Sessions!Silence, Sessions!NoAnswer, Sessions!Heard, Rows, Sayings
<1>g. generation \in 0 .. MaxTalkEvents + 1 /\ generation \in Nat /\ generation >= 1
  BY <1>t DEF TalkTypes
<1>e. ASSUME Sessions!Goes, generation' \in {generation, generation + 1}
      PROVE  generation' \in 1 .. talkEvents' + 1 /\ talkEvents' \in 0 .. MaxTalkEvents
  BY <1>t, <1>e DEF TalkTypes, Sessions!Goes
<1>1. ASSUME NEW t \in Sessions!Turns, Sessions!Say(t) \/ Sessions!Take(t) PROVE TalkTypes'
  <2>1. turn' \in [Sessions!Turns -> {"new", "queued", "done", "lost"}]
    <3>1. turn' = turn \/ turn' = [turn EXCEPT ![t] = "queued"]
      BY <1>1 DEF Sessions!Say, Sessions!Take
    <3> QED BY <1>t, <3>1 DEF TalkTypes
  <2>2. UNCHANGED <<generation, results, questions, context, proposal, receipt, answer, history, listening, talkEvents>>
    BY <1>1 DEF Sessions!Say, Sessions!Take
  <2> QED BY <1>t, <2>1, <2>2 DEF TalkTypes
<1>2. CASE Sessions!SaveContext
  <2>1. current \in Sessions!Turns
    BY <1>2, <1>t DEF TurnsInv, Sessions!SaveContext
  <2>2. [saved |-> TRUE, pending |-> Sessions!Pending] \in [saved : BOOLEAN, pending : Pendings]
    BY <1>t, PendingIs
  <2>3. context' \in [Sessions!Turns -> [saved : BOOLEAN, pending : Pendings]]
    BY <1>2, <1>t, <2>1, <2>2 DEF Sessions!SaveContext, TalkTypes
  <2>4. proposal[current].said \in Sayings
    BY <1>t, <2>1 DEF TalkTypes
  <2>5. answer' \in [said : Sayings, generation : Nat]
    BY <1>2, <1>t, <2>4 DEF Sessions!SaveContext, TalkTypes
  <2> QED BY <1>2, <1>t, <2>3, <2>5 DEF Sessions!SaveContext, TalkTypes
<1>3. CASE Sessions!Begin
  <2>1. current \in Sessions!Turns
    BY <1>3, <1>t DEF TurnsInv, Sessions!Begin
  <2>2. results[current].said \in Sayings
    BY <1>t, <2>1 DEF TalkTypes, Rows
  <2>3. answer' \in [said : Sayings, generation : Nat]
    BY <1>3, <1>g, <1>c, <2>2 DEF Sessions!Begin
  <2> DEFINE row == [Sessions!NoRow EXCEPT !.generation = generation]
  <2>4. row \in Rows
    BY <1>c, <1>g, RowsAre
  <2>5. \/ results' = results /\ history' = history
        \/ results' = [results EXCEPT ![current] = row] /\ history' = [history EXCEPT ![current] = generation]
    BY <1>3 DEF Sessions!Begin
  <2> HIDE DEF row
  <2>6. results' \in [Sessions!Turns -> Rows] /\ history' \in [Sessions!Turns -> Nat]
    <3>1. results \in [Sessions!Turns -> Rows] /\ history \in [Sessions!Turns -> Nat]
      BY <1>t DEF TalkTypes
    <3>2. CASE results' = results /\ history' = history
      BY <3>1, <3>2
    <3>3. CASE results' = [results EXCEPT ![current] = row] /\ history' = [history EXCEPT ![current] = generation]
      BY <1>g, <2>1, <2>4, <3>1, <3>3
    <3> QED BY <2>5, <3>2, <3>3
  <2> QED BY <1>3, <1>t, <2>3, <2>6 DEF Sessions!Begin, TalkTypes
<1>4. ASSUME NEW words \in Sayings, Sessions!Model(words) PROVE TalkTypes'
  <2>1. current \in Sessions!Turns
    BY <1>4, <1>t DEF TurnsInv, Sessions!Model
  <2>2. answer' \in [said : Sayings, generation : Nat]
    BY <1>4, <1>t DEF Sessions!Model, TalkTypes
  <2>3. results' \in [Sessions!Turns -> Rows]
    <3>1. \/ results' = results
          \/ results' = [results EXCEPT ![current].saved = TRUE, ![current].said = words]
      BY <1>4 DEF Sessions!Model
    <3>2. results \in [Sessions!Turns -> Rows] /\ results[current] \in Rows
      BY <1>t, <2>1 DEF TalkTypes
    <3>3. [results[current] EXCEPT !.saved = TRUE, !.said = words] \in Rows
      BY <1>g, <1>4, <3>2, RowsAre
    <3> QED BY <2>1, <3>1, <3>2, <3>3
  <2> QED BY <1>4, <1>t, <2>2, <2>3 DEF Sessions!Model, TalkTypes
<1>5. CASE Sessions!Propose
  <2>1. [saved |-> TRUE, said |-> answer.said] \in [saved : BOOLEAN, said : Sayings]
    BY <1>t DEF TalkTypes
  <2>2. /\ proposal' = [proposal EXCEPT ![current] = [saved |-> TRUE, said |-> answer.said]]
        /\ UNCHANGED <<generation, results, questions, context, receipt, turn, answer, history, listening, talkEvents>>
    BY <1>5 DEF Sessions!Propose
  <2>3. proposal \in [Sessions!Turns -> [saved : BOOLEAN, said : Sayings]]
    BY <1>t DEF TalkTypes
  <2>4. proposal' \in [Sessions!Turns -> [saved : BOOLEAN, said : Sayings]]
    BY <2>1, <2>2, <2>3
  <2> QED BY <1>t, <2>2, <2>4 DEF TalkTypes
<1>6. CASE Sessions!Publish
  <2>1. receipt \in [Sessions!Turns -> {"none", "done", "review"}]
    BY <1>t DEF TalkTypes
  <2>2. PICK r \in {"done", "review"} : receipt' = [receipt EXCEPT ![current] = r]
    BY <1>6 DEF Sessions!Publish
  <2>3. receipt' \in [Sessions!Turns -> {"none", "done", "review"}]
    BY <2>1, <2>2
  <2>4. UNCHANGED <<generation, results, questions, context, proposal, turn, answer, history, listening, talkEvents>>
    BY <1>6 DEF Sessions!Publish
  <2> QED BY <1>t, <2>3, <2>4 DEF TalkTypes
<1>7. CASE Sessions!Apply
  <2>1. questions' \in [Sessions!Turns -> Questions]
    BY <1>7, <1>t, AppliedIs
  <2>2. listening' \in [times : Nat, skewed : BOOLEAN]
    <3>1. \/ listening' = Sessions!Heard
          \/ \E s \in BOOLEAN : listening' = [listening EXCEPT !.skewed = s]
      <4>1. (listening.skewed \/ (answer.said.asks /\ context[current].pending # Sessions!Pending)) \in BOOLEAN
        OBVIOUS
      <4> QED BY <1>7, <4>1 DEF Sessions!Apply
    <3> QED BY <1>t, <1>c, <3>1 DEF TalkTypes
  <2> QED BY <1>7, <1>t, <2>1, <2>2 DEF Sessions!Apply, TalkTypes
<1>8. CASE Sessions!Record
  <2>1. current \in Sessions!Turns
    BY <1>8, <1>t DEF TurnsInv, Sessions!Record
  <2>2. results' \in [Sessions!Turns -> Rows]
    <3>1. results' = results \/ results' = [results EXCEPT ![current].committed = TRUE]
      BY <1>8 DEF Sessions!Record
    <3>2. results \in [Sessions!Turns -> Rows] /\ results[current] \in Rows
      BY <1>t, <2>1 DEF TalkTypes
    <3>3. [results[current] EXCEPT !.committed = TRUE] \in Rows
      BY <1>g, <1>c, <3>2, RowsAre
    <3> QED BY <2>1, <3>1, <3>2, <3>3
  <2>3. listening' \in [times : Nat, skewed : BOOLEAN]
    <3>1. listening \in [times : Nat, skewed : BOOLEAN]
      BY <1>t DEF TalkTypes
    <3>2. [listening EXCEPT !.times = @ + 1] \in [times : Nat, skewed : BOOLEAN]
      BY <3>1
    <3>3. \/ listening' = listening \/ listening' = Sessions!Heard
          \/ listening' = [listening EXCEPT !.times = @ + 1]
      BY <1>8 DEF Sessions!Record
    <3> QED BY <1>c, <3>1, <3>2, <3>3
  <2>4. answer' \in [said : Sayings, generation : Nat] /\ turn' = [turn EXCEPT ![current] = "done"]
        /\ UNCHANGED <<generation, questions, context, proposal, receipt, history, talkEvents>>
    BY <1>8, <1>c DEF Sessions!Record
  <2>5. turn' \in [Sessions!Turns -> {"new", "queued", "done", "lost"}]
    <3>1. turn \in [Sessions!Turns -> {"new", "queued", "done", "lost"}]
      BY <1>t DEF TalkTypes
    <3> QED BY <2>4, <3>1
  <2>6. results' \in [Sessions!Turns -> Rows]
    BY <2>2
  <2> QED BY <1>t, <2>3, <2>4, <2>5, <2>6 DEF TalkTypes
<1>9. CASE Sessions!NewTalk
  <2>1. Sessions!Reset \in [Sessions!Turns -> Questions]
    BY <1>t, SMTT(30) DEF TalkTypes, Sessions!Reset, Questions, QStatuses
  <2>2. generation' \in 1 .. talkEvents' + 1 /\ talkEvents' \in 0 .. MaxTalkEvents
    BY <1>9, <1>e DEF Sessions!NewTalk
  <2> QED BY <1>9, <1>t, <1>c, <2>1, <2>2 DEF Sessions!NewTalk, TalkTypes
<1>10. CASE Sessions!NewTalkHalf
  <2>1. generation' \in 1 .. talkEvents' + 1 /\ talkEvents' \in 0 .. MaxTalkEvents
    BY <1>10, <1>e DEF Sessions!NewTalkHalf
  <2> QED BY <1>10, <1>t, <1>c, <2>1 DEF Sessions!NewTalkHalf, TalkTypes
<1>11. CASE Sessions!Expire
  <2>1. questions' \in [Sessions!Turns -> Questions]
    <3>1. questions \in [Sessions!Turns -> Questions]
      BY <1>t DEF TalkTypes
    <3>2. \A t \in Sessions!Turns : [questions[t] EXCEPT !.status = "expired"] \in Questions
      BY <3>1, QuestionsAre DEF QStatuses
    <3>3. \A t \in Sessions!Turns :
            questions'[t] = questions[t] \/ questions'[t] = [questions[t] EXCEPT !.status = "expired"]
      BY <1>11 DEF Sessions!Expire
    <3>4. questions' = [t \in Sessions!Turns |-> questions'[t]]
      BY <1>11 DEF Sessions!Expire
    <3> QED BY <3>1, <3>2, <3>3, <3>4
  <2>2. generation' \in 1 .. talkEvents' + 1 /\ talkEvents' \in 0 .. MaxTalkEvents
    BY <1>11, <1>e DEF Sessions!Expire
  <2> QED BY <1>11, <1>t, <1>c, <2>1, <2>2 DEF Sessions!Expire, TalkTypes
<1>12. CASE Sessions!Fail
  <2>1. current \in Sessions!Turns
    BY <1>12, <1>t DEF TurnsInv, Sessions!Fail
  <2>2. receipt' = receipt \/ receipt' = [receipt EXCEPT ![current] = "done"]
    BY <1>12 DEF Sessions!Fail
  <2>3. generation' \in 1 .. talkEvents' + 1 /\ talkEvents' \in 0 .. MaxTalkEvents
    BY <1>12, <1>e DEF Sessions!Fail
  <2>4. /\ turn \in [Sessions!Turns -> {"new", "queued", "done", "lost"}]
        /\ receipt \in [Sessions!Turns -> {"none", "done", "review"}]
    BY <1>t DEF TalkTypes
  <2>5. /\ receipt' \in [Sessions!Turns -> {"none", "done", "review"}]
        /\ turn' \in [Sessions!Turns -> {"new", "queued", "done", "lost"}]
    BY <1>12, <2>1, <2>2, <2>4 DEF Sessions!Fail
  <2> QED BY <1>12, <1>t, <1>c, <2>3, <2>5 DEF Sessions!Fail, TalkTypes
<1>13. CASE Sessions!Restart
  <2>1. turn' \in [Sessions!Turns -> {"new", "queued", "done", "lost"}]
    BY <1>13, <1>t DEF Sessions!Restart, TalkTypes
  <2>2. generation' \in 1 .. talkEvents' + 1 /\ talkEvents' \in 0 .. MaxTalkEvents
    BY <1>13, <1>e DEF Sessions!Restart
  <2>3. listening' \in [times : Nat, skewed : BOOLEAN]
    BY <1>13, <1>t, <1>c DEF Sessions!Restart, TalkTypes
  <2> QED BY <1>13, <1>t, <1>c, <2>1, <2>2, <2>3 DEF Sessions!Restart, TalkTypes
<1>14. ASSUME NEW asks \in BOOLEAN, NEW resolves \in BOOLEAN PROVE [asks |-> asks, resolves |-> resolves] \in Sayings
  BY DEF Sayings
<1> QED BY <1>1, <1>2, <1>3, <1>4, <1>5, <1>6, <1>7, <1>8, <1>9, <1>10, <1>11, <1>12, <1>13, <1>14
           DEF Sessions!Next

LEMMA TalkTurnsStep ==
  ASSUME TalkInv, Sessions!Next
  PROVE  TurnsInv'
<1> USE TurnsAre
<1>t. TurnsInv /\ turn \in [Sessions!Turns -> {"new", "queued", "done", "lost"}]
      /\ questions \in [Sessions!Turns -> Questions]
  BY DEF TalkInv, TalkTypes
<1>1. ASSUME NEW t \in Sessions!Turns, Sessions!Say(t) \/ Sessions!Take(t) PROVE TurnsInv'
  BY <1>t, <1>1 DEF TurnsInv, Unasked, Sessions!Say, Sessions!Take
<1>2. CASE Sessions!SaveContext
  BY <1>t, <1>2 DEF TurnsInv, Unasked, Sessions!SaveContext
<1>3. CASE Sessions!Begin
  BY <1>t, <1>3 DEF TurnsInv, Unasked, Sessions!Begin
<1>4. ASSUME NEW words, Sessions!Model(words) PROVE TurnsInv'
  BY <1>t, <1>4 DEF TurnsInv, Unasked, Sessions!Model
<1>5. CASE Sessions!Propose
  BY <1>t, <1>5 DEF TurnsInv, Unasked, Sessions!Propose
<1>6. CASE Sessions!Publish
  BY <1>t, <1>6 DEF TurnsInv, Unasked, Sessions!Publish
<1>7. CASE Sessions!Apply
  <2>1. /\ current \in Sessions!Turns /\ step' = "record"
        /\ \A t \in Sessions!Turns : t # current /\ questions[t].status = "none" => questions'[t].status = "none"
    BY <1>7, AppliedIs DEF TalkInv
  <2>2. UNCHANGED <<turn, current>>
    BY <1>7 DEF Sessions!Apply
  <2>3. \A t \in Sessions!Recorder : Unasked(t)'
    BY <1>t, <2>1, <2>2, <1>7 DEF TurnsInv, Unasked, Sessions!Apply
  <2> QED BY <1>t, <2>1, <2>2, <2>3, <1>7 DEF TurnsInv, Sessions!Apply
<1>8. CASE Sessions!Record
  <2>1. current \in Sessions!Turns
    BY <1>t, <1>8 DEF TurnsInv, Sessions!Record
  <2> QED BY <1>t, <1>8, <2>1 DEF TurnsInv, Unasked, Sessions!Record
<1>9. CASE Sessions!NewTalk
  <2>1. \A t \in Sessions!Turns : questions[t].status = "none" => questions'[t].status = "none"
    BY <1>9 DEF Sessions!NewTalk, Sessions!Reset
  <2> QED BY <1>t, <1>9, <2>1 DEF TurnsInv, Unasked, Sessions!NewTalk
<1>10. CASE Sessions!NewTalkHalf
  <2>1. \A t \in Sessions!Recorder : current # t
    BY <1>t, <1>10 DEF TurnsInv, Sessions!NewTalkHalf, Sessions!Busy
  <2> QED BY <1>t, <1>10, <2>1 DEF TurnsInv, Unasked, Sessions!NewTalkHalf
<1>11. CASE Sessions!Expire
  <2>1. \A t \in Sessions!Turns : questions[t].status = "none" => questions'[t].status = "none"
    BY <1>11 DEF Sessions!Expire, Sessions!Asked
  <2> QED BY <1>t, <1>11, <2>1 DEF TurnsInv, Unasked, Sessions!Expire
<1>12. CASE Sessions!Fail
  BY <1>t, <1>12 DEF TurnsInv, Unasked, Sessions!Fail
<1>13. CASE Sessions!Restart
  <2>1. /\ \A t \in Sessions!Turns : turn[t] \in {"done", "lost"} => turn'[t] \in {"done", "lost"}
        /\ current \in Sessions!Recorder => turn'[current] = "lost"
    BY <1>t, <1>13 DEF Sessions!Restart
  <2> QED BY <1>t, <1>13, <2>1 DEF TurnsInv, Unasked, Sessions!Restart
<1> QED BY <1>1, <1>2, <1>3, <1>4, <1>5, <1>6, <1>7, <1>8, <1>9, <1>10, <1>11, <1>12, <1>13 DEF Sessions!Next

(* The row of a turn and the generation of the history that its answer was *)
(* given with change together.                                             *)
LEMMA RowsStep ==
  ASSUME TalkInv, Sessions!Next
  PROVE  RowsInv'
<1> USE TurnsAre
<1>t. /\ RowsInv /\ results \in [Sessions!Turns -> Rows] /\ history \in [Sessions!Turns -> Nat]
      /\ TurnsInv /\ generation \in 0 .. MaxTalkEvents + 1
  BY DEF TalkInv, TalkTypes
<1>1. CASE Sessions!Begin
  <2>1. current \in Sessions!Turns
    BY <1>t, <1>1 DEF TurnsInv, Sessions!Begin
  <2> DEFINE row == [Sessions!NoRow EXCEPT !.generation = generation]
  <2>2. row.generation = generation
    BY DEF Sessions!NoRow
  <2>3. \/ results' = results /\ history' = history
        \/ results' = [results EXCEPT ![current] = row] /\ history' = [history EXCEPT ![current] = generation]
    BY <1>1 DEF Sessions!Begin
  <2> HIDE DEF row
  <2> QED BY <1>t, <2>1, <2>2, <2>3 DEF RowsInv
<1>2. ASSUME NEW words \in Sayings, Sessions!Model(words) PROVE RowsInv'
  <2>1. current \in Sessions!Turns /\ history' = history
    BY <1>t, <1>2 DEF TurnsInv, Sessions!Model
  <2> DEFINE row == [results[current] EXCEPT !.saved = TRUE, !.said = words]
  <2>2. row.generation = results[current].generation
    BY <1>t, <2>1, RowsAre, <1>2
  <2>3. results' = results \/ results' = [results EXCEPT ![current] = row]
    BY <1>2, <1>t, <2>1 DEF Sessions!Model
  <2> HIDE DEF row
  <2> QED BY <1>t, <2>1, <2>2, <2>3 DEF RowsInv
<1>3. CASE Sessions!Record
  <2>1. current \in Sessions!Turns /\ history' = history
    BY <1>t, <1>3 DEF TurnsInv, Sessions!Record
  <2> DEFINE row == [results[current] EXCEPT !.committed = TRUE]
  <2>2. row.generation = results[current].generation
    BY <1>t, <2>1 DEF Rows
  <2>3. results' = results \/ results' = [results EXCEPT ![current] = row]
    BY <1>3, <1>t, <2>1 DEF Sessions!Record
  <2> HIDE DEF row
  <2> QED BY <1>t, <2>1, <2>2, <2>3 DEF RowsInv
<1>4. ASSUME UNCHANGED <<results, history>> PROVE RowsInv'
  BY <1>4, <1>t DEF RowsInv
<1>5. ASSUME NEW asks \in BOOLEAN, NEW resolves \in BOOLEAN PROVE [asks |-> asks, resolves |-> resolves] \in Sayings
  BY DEF Sayings
<1> QED BY <1>1, <1>2, <1>3, <1>4, <1>5 DEF Sessions!Next, Sessions!Say, Sessions!Take, Sessions!SaveContext,
           Sessions!Propose, Sessions!Publish, Sessions!Apply, Sessions!Fail, Sessions!Expire, Sessions!Restart,
           Sessions!NewTalk, Sessions!NewTalkHalf

(* Only apply tells a question; all that else happens to one is that it no *)
(* longer waits.                                                           *)
LEMMA QuestionsWait ==
  ASSUME TalkInv, Sessions!Next, ~Sessions!Apply
  PROVE  \A t \in Sessions!Turns :
           /\ questions'[t].depth = questions[t].depth
           /\ questions[t].status # "pending" => questions'[t] = questions[t]
           /\ questions[t].status = "pending" => questions'[t].status \in {"pending", "reset", "expired"}
<1>t. questions \in [Sessions!Turns -> Questions]
  BY DEF TalkInv, TalkTypes
<1>1. CASE questions' = questions
  BY <1>1
<1>2. CASE Sessions!NewTalk \/ Sessions!Expire
  <2>1. ASSUME NEW t \in Sessions!Turns
        PROVE  \/ questions'[t] = questions[t]
               \/ /\ questions[t].status = "pending"
                  /\ \E s \in {"reset", "expired"} : questions'[t] = [questions[t] EXCEPT !.status = s]
    BY <1>2 DEF Sessions!NewTalk, Sessions!Reset, Sessions!Expire, Sessions!Asked
  <2>2. ASSUME NEW t \in Sessions!Turns, NEW s \in {"reset", "expired"}
        PROVE  /\ [questions[t] EXCEPT !.status = s].depth = questions[t].depth
               /\ [questions[t] EXCEPT !.status = s].status = s
    <3>1. questions[t] \in Questions /\ s \in QStatuses
      BY <1>t DEF QStatuses
    <3> QED BY <3>1, QuestionsAre
  <2>3. ASSUME NEW t \in Sessions!Turns
        PROVE  /\ questions'[t].depth = questions[t].depth
               /\ questions[t].status # "pending" => questions'[t] = questions[t]
               /\ questions[t].status = "pending" => questions'[t].status \in {"pending", "reset", "expired"}
    <3>1. CASE questions'[t] = questions[t]
      BY <3>1
    <3>2. CASE questions[t].status = "pending"
               /\ \E s \in {"reset", "expired"} : questions'[t] = [questions[t] EXCEPT !.status = s]
      <4>1. PICK s \in {"reset", "expired"} : questions'[t] = [questions[t] EXCEPT !.status = s]
        BY <3>2
      <4>2. questions'[t].depth = questions[t].depth /\ questions'[t].status = s
        BY <2>2, <4>1
      <4> QED BY <3>2, <4>2
    <3> QED BY <2>1, <3>1, <3>2
  <2> QED BY <2>3
<1> QED BY <1>1, <1>2 DEF Sessions!Next, Sessions!Say, Sessions!Take, Sessions!SaveContext, Sessions!Begin,
           Sessions!Model, Sessions!Propose, Sessions!Publish, Sessions!Record, Sessions!Fail, Sessions!Restart,
           Sessions!NewTalkHalf

(* What is told of a question stands, and one at most waits.               *)
LEMMA QuestionsStep ==
  ASSUME TalkInv, Sessions!Next
  PROVE  /\ OneWaits'
         /\ \A t \in Sessions!Turns : questions[t].status # "none" =>
              /\ questions'[t].depth = questions[t].depth
              /\ questions[t].status # "pending" => questions'[t] = questions[t]
              /\ questions'[t].status # "none"
<1>t. questions \in [Sessions!Turns -> Questions] /\ OneWaits /\ TalkTypes /\ TurnsInv
  BY DEF TalkInv, TalkTypes
<1>1. CASE Sessions!Apply
  <2>1. /\ current \in Sessions!Turns /\ questions' \in [Sessions!Turns -> Questions]
        /\ \A t \in Sessions!Turns \ (IF Asks THEN {current} ELSE {}) :
              /\ questions'[t].depth = questions[t].depth
              /\ questions[t].status # "pending" => questions'[t].status = questions[t].status
              /\ questions[t].status = "pending" =>
                   questions'[t].status \in {"pending", "answered", "superseded"}
              /\ Asks => questions'[t].status # "pending"
    BY <1>1, <1>t, AppliedIs
  <2>2. OneWaits'
    BY <1>t, <2>1 DEF OneWaits
  <2>3. ASSUME NEW t \in Sessions!Turns, questions[t].status # "none"
        PROVE  /\ questions'[t].depth = questions[t].depth
               /\ questions[t].status # "pending" => questions'[t] = questions[t]
               /\ questions'[t].status # "none"
    <3>1. t \in Sessions!Turns \ (IF Asks THEN {current} ELSE {})
      BY <2>3 DEF Asks
    <3>2. /\ questions'[t].depth = questions[t].depth
          /\ questions[t].status # "pending" => questions'[t].status = questions[t].status
          /\ questions'[t].status # "none"
      BY <2>1, <2>3, <3>1
    <3>3. questions[t] \in Questions /\ questions'[t] \in Questions
      BY <1>t, <2>1
    <3> QED BY <3>2, <3>3 DEF Questions
  <2> QED BY <2>2, <2>3
<1>2. CASE ~Sessions!Apply
  BY <1>2, <1>t, QuestionsWait DEF OneWaits
<1> QED BY <1>1, <1>2

(* A question is one deeper than that which waited when its turn began.    *)
LEMMA DepthsStep ==
  ASSUME TalkInv, Sessions!Next
  PROVE  DepthsInv'
<1> USE TurnsAre
<1>t. /\ TalkTypes /\ TurnsInv /\ DepthsInv
      /\ questions \in [Sessions!Turns -> Questions]
      /\ context \in [Sessions!Turns -> [saved : BOOLEAN, pending : Pendings]]
  BY DEF TalkInv, TalkTypes
<1>c. /\ Cardinality(Told(questions)) \in Nat /\ Cardinality(Told(questions)') \in Nat
      /\ Cardinality(Told(questions)) <= Cardinality(Told(questions)')
  <2>1. Told(questions) \subseteq Told(questions')
    BY QuestionsStep DEF Told
  <2>2. Told(questions)' = Told(questions')
    BY DEF Told
  <2> QED BY <2>1, <2>2, ToldCounts
<1>1. CASE Sessions!Apply
  <2>1. /\ current \in Sessions!Turns /\ context' = context
        /\ \A t \in Sessions!Turns \ (IF Asks THEN {current} ELSE {}) :
              /\ questions'[t].depth = questions[t].depth
              /\ questions[t].status # "pending" => questions'[t].status = questions[t].status
              /\ questions[t].status = "pending" => questions'[t].status # "none"
        /\ Asks => /\ questions'[current].status = "pending"
                   /\ questions'[current].depth = context[current].pending.depth + 1
    BY <1>1, <1>t, AppliedIs DEF Sessions!Apply
  <2>2. CASE Asks
    <3>1. Told(questions)' = Told(questions) \cup {current} /\ current \notin Told(questions)
      BY <2>1, <2>2 DEF Told, Asks
    <3>2. Cardinality(Told(questions)') = Cardinality(Told(questions)) + 1
      <4>1. Told(questions)' = Told(questions')
        BY DEF Told
      <4> QED BY <2>1, <3>1, <4>1, ToldCounts
    <3> DEFINE n == Cardinality(Told(questions))
    <3>3. n \in Nat /\ \A t \in Sessions!Turns :
            /\ questions[t].depth \in Nat /\ questions[t].depth <= n
            /\ context[t].pending.depth \in Nat /\ context[t].pending.depth <= n
      BY <1>t, <1>c DEF DepthsInv, Questions, Pendings
    <3>4. Cardinality(Told(questions)') = n + 1
      BY <3>2
    <3> HIDE DEF n
    <3>5. \A t \in Sessions!Turns : questions'[t].depth <= n + 1 /\ context'[t].pending.depth <= n + 1
      BY <2>1, <2>2, <3>3
    <3> QED BY <3>4, <3>5 DEF DepthsInv
  <2>3. CASE ~Asks
    <3>1. \A t \in Sessions!Turns :
            /\ questions[t].depth \in Nat /\ context[t].pending.depth \in Nat
            /\ questions'[t].depth = questions[t].depth /\ context'[t] = context[t]
      BY <1>t, <2>1, <2>3 DEF Questions, Pendings
    <3> QED BY <1>t, <1>c, <3>1 DEF DepthsInv
  <2> QED BY <2>2, <2>3
<1>2. CASE ~Sessions!Apply
  <2>1. \A t \in Sessions!Turns : questions'[t].depth = questions[t].depth /\ questions[t].depth \in Nat
                                   /\ context[t].pending.depth \in Nat
    BY <1>2, <1>t, QuestionsWait DEF Questions, Pendings
  <2>2. CASE context' = context
    BY <1>t, <1>c, <2>1, <2>2 DEF DepthsInv
  <2>3. CASE Sessions!SaveContext
    <3>1. current \in Sessions!Turns
      BY <1>t, <2>3 DEF TurnsInv, Sessions!SaveContext
    <3>2. Sessions!Pending.depth \in Nat /\ Sessions!Pending.depth <= Cardinality(Told(questions))
      <4>1. Sessions!Pending \in Pendings
        BY <1>t, PendingIs
      <4>2. CASE Sessions!Pending.turn = 0
        BY <1>t, <1>c, <4>2, PendingIs
      <4>3. CASE Sessions!Pending.turn \in Sessions!Turns
        <5>1. Sessions!Pending.depth = questions[Sessions!Pending.turn].depth
          BY <1>t, <4>3, PendingIs
        <5> QED BY <1>t, <2>1, <4>3, <5>1 DEF DepthsInv
      <4> QED BY <4>1, <4>2, <4>3 DEF Pendings
    <3>3. \/ context' = context
          \/ context' = [context EXCEPT ![current] = [saved |-> TRUE, pending |-> Sessions!Pending]]
      BY <2>3 DEF Sessions!SaveContext
    <3> DEFINE p == Sessions!Pending
    <3>4. \A t \in Sessions!Turns :
            context'[t].pending.depth = context[t].pending.depth \/ context'[t].pending.depth = p.depth
      <4>1. context' = context \/ context' = [context EXCEPT ![current] = [saved |-> TRUE, pending |-> p]]
        BY <3>3
      <4>2. context \in [Sessions!Turns -> [saved : BOOLEAN, pending : Pendings]]
        BY <1>t
      <4> HIDE DEF p
      <4>3. CASE context' = context
        BY <4>3
      <4>4. CASE context' = [context EXCEPT ![current] = [saved |-> TRUE, pending |-> p]]
        BY <3>1, <4>2, <4>4
      <4> QED BY <4>1, <4>3, <4>4
    <3> DEFINE n == Cardinality(Told(questions))
               m == Cardinality(Told(questions)')
               d == Sessions!Pending.depth
    <3>5. /\ n \in Nat /\ m \in Nat /\ n <= m /\ d \in Nat /\ d <= n
          /\ \A t \in Sessions!Turns : /\ questions[t].depth <= n /\ questions[t].depth \in Nat
                                       /\ context[t].pending.depth <= n /\ context[t].pending.depth \in Nat
                                       /\ questions'[t].depth = questions[t].depth
                                       /\ context'[t].pending.depth = context[t].pending.depth
                                            \/ context'[t].pending.depth = d
      BY <1>t, <1>c, <2>1, <3>2, <3>4 DEF DepthsInv
    <3>6. DepthsInv' <=> \A t \in Sessions!Turns : questions'[t].depth <= m /\ context'[t].pending.depth <= m
      BY DEF DepthsInv
    <3> HIDE DEF n, m, d
    <3> QED BY <3>5, <3>6, SMTT(30)
  <2> QED BY <1>2, <2>2, <2>3 DEF Sessions!Next, Sessions!Say, Sessions!Take, Sessions!Begin,
           Sessions!Model, Sessions!Propose, Sessions!Publish, Sessions!Record, Sessions!Fail, Sessions!Restart,
           Sessions!NewTalk, Sessions!NewTalkHalf, Sessions!Expire
<1> QED BY <1>1, <1>2

(* How often the recorder has listened: each question that its turns ask   *)
(* is one deeper than the one that waited, which it had listened after no  *)
(* more often than that is deep.                                           *)
LEMMA ListensStep ==
  ASSUME TalkInv, Sessions!Next
  PROVE  ListensInv'
<1> USE TurnsAre
<1>t. /\ TalkTypes /\ TurnsInv /\ OneWaits /\ ListensInv
      /\ questions \in [Sessions!Turns -> Questions]
      /\ listening \in [times : Nat, skewed : BOOLEAN]
      /\ listening.times \in Nat /\ \A t \in Sessions!Turns : questions[t].depth \in Nat
  BY DEF TalkInv, TalkTypes, Questions
<1>r. /\ \A t : Room(t) \in {0, 1} /\ (Room(t) = 1 <=> step = "record" /\ current = t /\ t \in Sessions!Recorder)
      /\ \A t : Room(t)' \in {0, 1} /\ (Room(t)' = 1 <=> step' = "record" /\ current' = t /\ t \in Sessions!Recorder)
  BY DEF Room
<1>h. Sessions!Heard.times = 0
  BY DEF Sessions!Heard
<1>1. CASE /\ questions' = questions /\ listening' = listening
           /\ step' # "record" \/ (step' = step /\ current' = current)
  <2>1. \A t : Room(t)' <= Room(t)
    BY <1>1, <1>r
  <2> HIDE DEF Room
  <2>2. \A t \in Sessions!Turns : listening.times + Room(t)' <= listening.times + Room(t)
    BY <1>t, <1>r, <2>1
  <2>3. \A t \in Sessions!Turns : listening.times + Room(t) <= questions[t].depth
                                    => listening.times + Room(t)' <= questions[t].depth
    BY <1>t, <1>r, <2>1
  <2> QED BY <1>1, <1>t, <2>3 DEF ListensInv
<1>2. CASE /\ listening' = Sessions!Heard /\ \A t \in Sessions!Turns : questions'[t].status # "pending"
  BY <1>2, <1>h DEF ListensInv
<1>3. CASE questions' = questions /\ listening' = Sessions!Heard /\ step' # "record"
  <2>1. \A t : Room(t)' = 0
    BY <1>3, <1>r
  <2> HIDE DEF Room
  <2> QED BY <1>3, <1>h, <1>t, <2>1 DEF ListensInv
<1>4. CASE Sessions!Apply
  <2>1. /\ current \in Sessions!Turns /\ step = "apply" /\ step' = "record" /\ current' = current
        /\ \A t \in Sessions!Turns \ (IF Asks THEN {current} ELSE {}) :
              /\ questions'[t].depth = questions[t].depth
              /\ questions[t].status # "pending" => questions'[t].status = questions[t].status
              /\ Asks => questions'[t].status # "pending"
        /\ Asks => questions'[current].depth = context[current].pending.depth + 1
    BY <1>4, <1>t, AppliedIs DEF Sessions!Apply
  <2>2. CASE \A t \in Sessions!Turns : questions'[t].status # "pending"
    <3>1. listening' = Sessions!Heard
      BY <1>4, <2>2 DEF Sessions!Apply
    <3> QED BY <1>2, <2>2, <3>1
  <2>3. ASSUME ~ \A t \in Sessions!Turns : questions'[t].status # "pending", ~listening'.skewed
        PROVE  /\ listening'.times = listening.times /\ ~listening.skewed
               /\ answer.said.asks => context[current].pending = Sessions!Pending
    <3> DEFINE skewed == listening.skewed \/ (answer.said.asks /\ context[current].pending # Sessions!Pending)
    <3>1. listening' = [listening EXCEPT !.skewed = skewed]
      BY <1>4, <2>3 DEF Sessions!Apply
    <3>2. listening'.times = listening.times /\ listening'.skewed = skewed
      <4> HIDE DEF skewed
      <4> QED BY <1>t, <3>1
    <3> QED BY <2>3, <3>2
  <2>4. ASSUME ~ \A t \in Sessions!Turns : questions'[t].status # "pending", ~listening'.skewed,
               NEW t \in Sessions!Turns, questions'[t].status = "pending"
        PROVE  listening'.times + Room(t)' <= questions'[t].depth
    <3>1. CASE Asks
      <4>1. t = current
        BY <2>1, <2>4, <3>1
      <4>2. questions'[t].depth = Sessions!Pending.depth + 1
        BY <2>1, <2>3, <2>4, <3>1, <4>1 DEF Asks
      <4>3. listening.times <= Sessions!Pending.depth /\ Sessions!Pending.depth \in Nat
        <5>1. CASE Sessions!Pending.turn = 0
          BY <1>t, <2>3, <2>4, <5>1, PendingIs DEF ListensInv
        <5>2. CASE Sessions!Pending.turn # 0
          <6> DEFINE p == Sessions!Pending.turn
          <6>1. p \in Sessions!Turns /\ questions[p].status = "pending" /\ Sessions!Pending.depth = questions[p].depth
            BY <1>t, <5>2, PendingIs DEF Pendings
          <6> HIDE DEF p
          <6>2. listening.times + Room(p) <= questions[p].depth /\ questions[p].depth \in Nat
            BY <1>t, <2>3, <2>4, <6>1 DEF ListensInv
          <6> HIDE DEF Room
          <6>3. Room(p) \in {0, 1}
            BY <1>r
          <6> QED BY <1>t, <6>1, <6>2, <6>3
        <5> QED BY <5>1, <5>2
      <4>4. listening'.times = listening.times /\ Room(t)' \in {0, 1}
        BY <1>r, <2>3, <2>4
      <4> HIDE DEF Room
      <4> QED BY <1>t, <4>2, <4>3, <4>4
    <3>2. CASE ~Asks
      <4>1. questions'[t].depth = questions[t].depth /\ questions[t].status = "pending"
        BY <2>1, <2>4, <3>2
      <4>2. Room(t) = 0
        BY <1>r, <2>1
      <4>3. Room(t)' = 0
        <5>1. CASE t \in Sessions!Recorder /\ t = current
          BY <1>t, <2>1, <4>1, <5>1 DEF TurnsInv, Unasked
        <5> QED BY <1>r, <2>1, <5>1
      <4>4. listening.times + Room(t) <= questions[t].depth
        BY <1>t, <2>3, <2>4, <4>1 DEF ListensInv
      <4> HIDE DEF Room
      <4> QED BY <2>3, <2>4, <4>1, <4>2, <4>3, <4>4
    <3> QED BY <3>1, <3>2
  <2>5. ASSUME ~ \A t \in Sessions!Turns : questions'[t].status # "pending", ~listening'.skewed
        PROVE  listening'.times <= Listens
    BY <1>t, <2>3, <2>5 DEF ListensInv
  <2> QED BY <2>2, <2>4, <2>5 DEF ListensInv
<1>5. CASE Sessions!Record
  <2>1. current \in Sessions!Turns /\ step = "record" /\ step' # "record" /\ questions' = questions
    BY <1>5, <1>t DEF TurnsInv, Sessions!Record
  <2>2. CASE current \in Sessions!Recorder /\ Sessions!ListensAgain
    <3>1. listening' = [listening EXCEPT !.times = @ + 1]
      BY <1>5, <2>2 DEF Sessions!Record
    <3>2. listening'.times = listening.times + 1 /\ listening'.skewed = listening.skewed
      BY <1>t, <3>1
    <3>3. questions[current].status = "pending" /\ questions[current].depth <= Listens
      BY <2>2 DEF Sessions!ListensAgain
    <3>4. Room(current) = 1 /\ \A t : Room(t)' = 0
      BY <1>r, <2>1, <2>2
    <3>5. ~listening.skewed => listening.times + 1 <= questions[current].depth
      BY <1>t, <2>1, <3>3, <3>4 DEF ListensInv
    <3>6. \A t \in Sessions!Turns : questions[t].status = "pending" => t = current
      BY <1>t, <2>1, <3>3 DEF OneWaits
    <3>7. ~listening.skewed => listening.times + 1 <= Listens
      BY <1>t, <2>1, <3>3, <3>5
    <3> HIDE DEF Room
    <3>8. ~listening.skewed => \A t \in Sessions!Turns : questions'[t].status = "pending" =>
                                  listening'.times + Room(t)' <= questions'[t].depth
      BY <1>t, <2>1, <3>2, <3>4, <3>5, <3>6
    <3>9. questions'[current].status = "pending"
      BY <2>1, <3>3
    <3> QED BY <2>1, <3>2, <3>7, <3>8, <3>9 DEF ListensInv
  <2>3. CASE ~(current \in Sessions!Recorder /\ Sessions!ListensAgain)
    BY <1>1, <1>3, <1>5, <2>1, <2>3 DEF Sessions!Record
  <2> QED BY <2>2, <2>3
<1>6. CASE Sessions!NewTalk \/ Sessions!Expire
  <2>1. \A t \in Sessions!Turns : questions'[t].status # "pending"
    <3>1. ASSUME NEW t \in Sessions!Turns
          PROVE  \/ questions'[t] = questions[t] /\ questions[t].status # "pending"
                 \/ \E s \in {"reset", "expired"} : questions'[t] = [questions[t] EXCEPT !.status = s]
      BY <1>6 DEF Sessions!NewTalk, Sessions!Reset, Sessions!Expire, Sessions!Asked
    <3>2. ASSUME NEW t \in Sessions!Turns, NEW s \in {"reset", "expired"}
          PROVE  [questions[t] EXCEPT !.status = s].status = s
      <4>1. questions[t] \in Questions /\ s \in QStatuses
        BY <1>t DEF QStatuses
      <4> QED BY <4>1, QuestionsAre
    <3>3. ASSUME NEW t \in Sessions!Turns PROVE questions'[t].status # "pending"
      <4>1. CASE \E s \in {"reset", "expired"} : questions'[t] = [questions[t] EXCEPT !.status = s]
        <5>1. PICK s \in {"reset", "expired"} : questions'[t] = [questions[t] EXCEPT !.status = s]
          BY <4>1
        <5>2. questions'[t].status = s
          BY <3>2, <5>1
        <5> QED BY <5>2
      <4> QED BY <3>1, <4>1
    <3> QED BY <3>3
  <2> QED BY <1>2, <1>6, <2>1 DEF Sessions!NewTalk, Sessions!Expire
<1>7. CASE Sessions!NewTalkHalf \/ Sessions!Fail \/ Sessions!Restart
  BY <1>1, <1>3, <1>7 DEF Sessions!NewTalkHalf, Sessions!Fail, Sessions!Restart
<1>8. ASSUME NEW t \in Sessions!Turns, Sessions!Say(t) \/ Sessions!Take(t) PROVE ListensInv'
  BY <1>1, <1>8 DEF Sessions!Say, Sessions!Take
<1>9. CASE Sessions!SaveContext \/ Sessions!Begin \/ Sessions!Propose \/ Sessions!Publish
  BY <1>1, <1>9 DEF Sessions!SaveContext, Sessions!Begin, Sessions!Propose, Sessions!Publish
<1>10. ASSUME NEW words, Sessions!Model(words) PROVE ListensInv'
  BY <1>1, <1>10 DEF Sessions!Model
<1> QED BY <1>4, <1>5, <1>6, <1>7, <1>8, <1>9, <1>10 DEF Sessions!Next

LEMMA TalkStep ==
  ASSUME TalkInv, [Sessions!Next]_(Sessions!sessionVars)
  PROVE  TalkInv'
<1>1. CASE Sessions!Next
  BY <1>1, TalkTypesStep, TalkTurnsStep, RowsStep, QuestionsStep, DepthsStep, ListensStep DEF TalkInv
<1>2. CASE UNCHANGED Sessions!sessionVars
  BY <1>2 DEF Sessions!sessionVars, TalkInv, TalkTypes, TurnsInv, Unasked, RowsInv, OneWaits, DepthsInv, Told,
              ListensInv, Room
<1> QED BY <1>1, <1>2

(* What the invariant says of the talk.                                    *)
LEMMA TalkSays ==
  ASSUME TalkInv
  PROVE  Sessions!TypeOK /\ Sessions!OneQuestion /\ Sessions!HistoryIsOfThisTalk /\ Sessions!ListensEnd
<1> USE TurnsAre
<1>t. TalkTypes /\ TurnsInv /\ RowsInv /\ OneWaits /\ DepthsInv /\ ListensInv
  BY DEF TalkInv
<1>1. Sessions!TypeOK
  <2>1. \A t \in Sessions!Turns :
          /\ questions[t].depth \in 0 .. NRecorder + NAlice
          /\ questions[t].status \in QStatuses
          /\ context[t].pending.turn \in Sessions!Turns \cup {0}
          /\ receipt[t] \in {"none", "done", "review"} /\ turn[t] \in {"new", "queued", "done", "lost"}
    <3>1. Cardinality(Told(questions)) \in 0 .. NRecorder + NAlice
      BY ToldCounts
    <3>2. ASSUME NEW t \in Sessions!Turns
          PROVE  /\ questions[t] \in Questions /\ context[t].pending \in Pendings
                 /\ receipt[t] \in {"none", "done", "review"} /\ turn[t] \in {"new", "queued", "done", "lost"}
                 /\ questions[t].depth <= Cardinality(Told(questions))
      BY <1>t DEF TalkTypes, DepthsInv
    <3> DEFINE n == Cardinality(Told(questions))
    <3>3. n \in 0 .. NRecorder + NAlice /\ \A t \in Sessions!Turns : questions[t].depth <= n
      BY <3>1, <3>2
    <3> HIDE DEF n
    <3>4. \A t \in Sessions!Turns : questions[t].depth \in 0 .. NRecorder + NAlice
      BY <3>2, <3>3 DEF Questions
    <3> QED BY <3>2, <3>4 DEF Questions, Pendings
  <2>2. /\ generation \in 1 .. MaxTalkEvents + 1
        /\ current \in Sessions!Turns \cup {0} /\ (current = 0) = (step = "idle")
    BY <1>t DEF TalkTypes, TurnsInv
  <2>3. results \in [Sessions!Turns -> [generation : 0 .. MaxTalkEvents + 1, saved : BOOLEAN, committed : BOOLEAN,
                                        said : [asks : BOOLEAN, resolves : BOOLEAN]]]
    BY <1>t DEF TalkTypes, Rows, Sayings
  <2> QED BY <2>1, <2>2, <2>3 DEF Sessions!TypeOK, QStatuses
<1>2. Sessions!OneQuestion
  <2>1. Sessions!Asked = {} \/ \E t : Sessions!Asked = {t}
    <3>1. \A t, u \in Sessions!Asked : t = u
      BY <1>t DEF OneWaits, Sessions!Asked
    <3>2. CASE Sessions!Asked # {}
      <4>1. PICK t : t \in Sessions!Asked
        BY <3>2
      <4>2. Sessions!Asked = {t}
        BY <3>1, <4>1
      <4> QED BY <4>2
    <3> QED BY <3>2
  <2>2. Cardinality(Sessions!Asked) <= 1
    <3>1. CASE Sessions!Asked = {}
      <4>1. Cardinality(Sessions!Asked) = 0
        BY <3>1, FS_EmptySet
      <4> QED BY <4>1
    <3>2. CASE \E t : Sessions!Asked = {t}
      <4>1. PICK t : Sessions!Asked = {t}
        BY <3>2
      <4>2. Cardinality({t}) = 1
        BY FS_Singleton
      <4>3. Cardinality(Sessions!Asked) = 1
        BY <4>1, <4>2
      <4> QED BY <4>3
    <3> QED BY <2>1, <3>1, <3>2
  <2>3. Sessions!OneQuestion = (Cardinality(Sessions!Asked) <= 1)
    BY DEF Sessions!OneQuestion, Sessions!Cardinality, Cardinality
  <2> QED BY <2>2, <2>3
<1>3. Sessions!HistoryIsOfThisTalk
  BY <1>t DEF Sessions!HistoryIsOfThisTalk, RowsInv, TalkTypes
<1>4. Sessions!ListensEnd
  BY <1>t DEF Sessions!ListensEnd, ListensInv
<1> QED BY <1>1, <1>2, <1>3, <1>4

(* A talk of any number of turns, new talks, failures and restarts: every  *)
(* committed result of this talk was given with the history of this talk,  *)
(* one question waits at most, a question that was told is told once, and  *)
(* the recorder never listens more often in a row than Listens.            *)
THEOREM TalkKept == Sessions!Spec => SessionsKept
<1>1. Sessions!Init => TalkInv
  BY TalkInit
<1>2. TalkInv /\ [Sessions!Next]_(Sessions!sessionVars) => TalkInv'
  BY TalkStep
<1>3. TalkInv => Sessions!TypeOK /\ Sessions!OneQuestion /\ Sessions!HistoryIsOfThisTalk /\ Sessions!ListensEnd
  BY TalkSays
<1> DEFINE Stand == \A t \in Sessions!Turns : questions[t].status # "none" =>
                      /\ questions'[t].depth = questions[t].depth
                      /\ questions[t].status # "pending" => questions'[t] = questions[t]
<1>4. TalkInv /\ [Sessions!Next]_(Sessions!sessionVars) => [Stand]_(Sessions!sessionVars)
  BY QuestionsStep
<1> QED
  <2> HIDE DEF Stand
  <2>1. Sessions!Spec => [](Sessions!TypeOK /\ Sessions!OneQuestion /\ Sessions!HistoryIsOfThisTalk /\ Sessions!ListensEnd)
                         /\ [][Stand]_(Sessions!sessionVars)
    BY <1>1, <1>2, <1>3, <1>4, PTL DEF Sessions!Spec
  <2> QED BY <2>1 DEF SessionsKept, Sessions!QuestionsStand, Stand

(* Some positions have a least one, and some numbers below a bound a       *)
(* greatest one.                                                           *)
LEMMA LeastPosition ==
  ASSUME NEW n \in Nat, NEW S \in SUBSET (1 .. n), S # {}
  PROVE  \E x \in S : \A y \in S : x <= y
<1> DEFINE T == {n + 1 - x : x \in S}
<1>1. T \in SUBSET (1 .. n) /\ T # {}
  <2>1. \A x \in S : n + 1 - x \in 1 .. n
    OBVIOUS
  <2>2. PICK x : x \in S
    OBVIOUS
  <2> QED BY <2>1, <2>2
<1>2. PICK t \in T : \A u \in T : u <= t
  <2> HIDE DEF T
  <2> QED BY <1>1, Greatest
<1>3. PICK x \in S : t = n + 1 - x
  BY <1>2
<1>4. ASSUME NEW y \in S PROVE x <= y
  <2>1. n + 1 - y <= n + 1 - x
    BY <1>2, <1>3
  <2> QED BY <1>3, <2>1
<1> QED BY <1>4

LEMMA GreatestBelow ==
  ASSUME NEW n \in Nat, NEW S \in SUBSET (0 .. n), S # {}
  PROVE  \E x \in S : \A y \in S : y <= x
<1> DEFINE T == {x + 1 : x \in S}
<1>1. T \in SUBSET (1 .. n + 1) /\ T # {} /\ n + 1 \in Nat
  <2>1. n + 1 \in Nat /\ \A x \in S : x + 1 \in 1 .. n + 1
    OBVIOUS
  <2>2. PICK x : x \in S
    OBVIOUS
  <2> QED BY <2>1, <2>2
<1>2. PICK t \in T : \A u \in T : u <= t
  <2> HIDE DEF T
  <2> QED BY <1>1, Greatest
<1>3. PICK x \in S : t = x + 1
  BY <1>2
<1>4. ASSUME NEW y \in S PROVE y <= x
  <2>1. y + 1 <= x + 1
    BY <1>2, <1>3
  <2> QED BY <1>3, <2>1
<1> QED BY <1>4

-----------------------------------------------------------------------------
(* One cue of the cache.  The repair goes on only while the audio verifies *)
(* and the purchase only while it does not; what is served is what lies    *)
(* there, unwrapped.                                                       *)
CacheInv ==
  /\ Cache!TypeOK
  /\ \A f \in meta : f.audio \in Audio
  /\ IF cueStep = "served" THEN served = Cache!Bare(pcm.audio) ELSE served = Cache!Nothing
  /\ cueStep \in {"intend", "replace", "confirm"} => Cache!Verified
  /\ cueStep = "replace" => Cache!Repaired \in meta
  /\ cueStep = "confirm" => ~pcm.wrapped
  /\ cueStep \in {"buy", "audio"} => ~Cache!Verified
  /\ cueStep \in {"audio", "meta"} => bought \in Audio
  /\ cueStep = "meta" => pcm = Cache!Bare(bought)

LEMMA FilesAre ==
  /\ NoAudio \notin Audio
  /\ \A a \in Audio \cup {NoAudio} :
       /\ Cache!Bare(a) \in Cache!Files /\ Cache!Bare(a).audio = a /\ ~Cache!Bare(a).wrapped
       /\ Cache!Wrapped(a) \in Cache!Files /\ Cache!Wrapped(a).audio = a /\ Cache!Wrapped(a).wrapped
  /\ \A f \in Cache!Files : f.audio \in Audio \cup {NoAudio} /\ (~f.wrapped => f = Cache!Bare(f.audio))
  /\ Cache!Nothing \in Cache!Files /\ Cache!Nothing = Cache!Bare(NoAudio)
BY GatewayAssumption DEF Cache!CacheAssumption, Cache!Files, Cache!Bare, Cache!Wrapped, Cache!Nothing

LEMMA CacheInit == Cache!Init => CacheInv
BY FilesAre DEF Cache!Init, CacheInv, Cache!TypeOK, Cache!Verified

LEMMA CacheStep ==
  ASSUME CacheInv, Cache!Next
  PROVE  CacheInv' /\ (Cache!Verified => Cache!Verified' /\ pcm'.audio = pcm.audio)
<1> USE FilesAre
<1>t. /\ pcm \in Cache!Files /\ meta \subseteq Cache!Files /\ \A f \in meta : f.audio \in Audio
      /\ served \in Cache!Files /\ bought \in Audio \cup {NoAudio}
      /\ Cache!Repaired = Cache!Bare(pcm.audio)
      /\ Cache!Verified => pcm.audio \in Audio /\ pcm \in meta
  BY DEF CacheInv, Cache!TypeOK, Cache!Repaired, Cache!Verified
<1>n. \A a \in Audio : Cache!Bare(a) # Cache!Nothing /\ Cache!Bare(a).audio = a
  OBVIOUS
<1> USE DEF CacheInv, Cache!TypeOK
<1>1. CASE Cache!Load
  BY <1>1, <1>t DEF Cache!Load, Cache!Verified, Cache!Repaired
<1>2. CASE Cache!Intend
  BY <1>2, <1>t, <1>n DEF Cache!Intend, Cache!Verified, Cache!Repaired
<1>3. CASE Cache!Replace
  <2>1. pcm.audio \in Audio /\ pcm' = Cache!Bare(pcm.audio) /\ pcm' \in meta' /\ pcm' # Cache!Nothing
    BY <1>3, <1>t, <1>n DEF Cache!Replace
  <2> QED BY <1>3, <1>t, <2>1 DEF Cache!Replace, Cache!Verified
<1>4. CASE Cache!Confirm
  BY <1>4, <1>t, <1>n DEF Cache!Confirm, Cache!Verified
<1>5. CASE Cache!Deferred
  <2>1. /\ Cache!Verified /\ pcm.audio \in Audio /\ pcm' \in {pcm, Cache!Bare(pcm.audio)} /\ pcm' \in meta'
        /\ pcm' # Cache!Nothing /\ pcm'.audio = pcm.audio
        /\ meta' \in {meta, {pcm, Cache!Bare(pcm.audio)}, {pcm}}
    BY <1>5, <1>t, <1>n DEF Cache!Deferred, Cache!Verified
  <2> QED BY <1>5, <1>t, <2>1 DEF Cache!Deferred, Cache!Verified
<1>6. CASE Cache!Serve
  BY <1>6, <1>t, <1>n DEF Cache!Serve, Cache!Publish, Cache!Verified
<1>7. CASE Cache!Buy
  BY <1>7, <1>t DEF Cache!Buy, Cache!Verified
<1>8. CASE Cache!WriteAudio
  BY <1>8, <1>t, <1>n DEF Cache!WriteAudio, Cache!Verified
<1>9. CASE Cache!WriteMeta
  BY <1>9, <1>t, <1>n DEF Cache!WriteMeta, Cache!Publish, Cache!Verified
<1>10. CASE Cache!Fails
  BY <1>10, <1>t DEF Cache!Fails, Cache!Verified
<1>11. CASE Cache!Killed
  BY <1>11, <1>t DEF Cache!Killed, Cache!Verified
<1> QED BY <1>1, <1>2, <1>3, <1>4, <1>5, <1>6, <1>7, <1>8, <1>9, <1>10, <1>11 DEF Cache!Next

-----------------------------------------------------------------------------
(* The sets of cues.  Every set that the process knows lies whole on disk, *)
(* the one that it works on is not there before it is published; and no    *)
(* cue was paid for more often than the disk has attempts of this set.     *)
Folders == [name : Profiles, sound : BOOLEAN, made : Nat]
Counters == [name : Profiles \cup {NoSet}, attempts : 0 .. MaxAttempts, later : BOOLEAN]

FoldersInv ==
  /\ folders \subseteq Folders /\ IsFiniteSet(folders)
  /\ \E n \in Nat : \A f \in folders : f.made <= n
  /\ \A f, g \in folders : f.name = g.name => f = g

SetTypes ==
  /\ pointer \in Profiles \cup {NoSet} /\ active \in Profiles \cup {NoSet} /\ profile \in Profiles
  /\ generations \subseteq Profiles /\ staging \in [Profiles -> SUBSET Sets!Cues]
  /\ attempts \in 0 .. MaxAttempts /\ retry \in Counters
  /\ ready \subseteq Sets!Cues /\ later \in BOOLEAN
  /\ paid \in [Sets!Cues -> Nat]
  /\ pc \in {"rest", "folder", "cues", "bought", "point", "settle", "prune", "dead"}

KnownInv ==
  /\ active # NoSet => active \in generations
  /\ \A s \in generations : Sets!Sound(s)
  /\ pc \in {"cues", "bought"} => profile \notin generations /\ \A f \in folders : f.name # profile
  /\ pc \in {"point", "settle"} => profile \in generations
  /\ pc = "bought" => ready # Sets!Cues

Counted == IF retry.name = profile THEN retry.attempts ELSE 0
Buys == IF pc = "folder" THEN Sets!Cues ELSE IF pc = "cues" THEN Sets!Cues \ ready
        ELSE IF pc = "bought" THEN Sets!Cues \ (ready \cup {Sets!Missing}) ELSE {}
PaidInv ==
  /\ pc \in {"folder", "cues", "bought", "point", "settle"} => active # profile
  /\ pc # "dead" /\ active # profile => attempts = Counted
  /\ \A c \in Sets!Cues : paid[c] <= Counted
  /\ \A c \in Buys : paid[c] < Counted

SetsInv == FoldersInv /\ SetTypes /\ KnownInv /\ PaidInv

LEMMA SetsAre ==
  /\ Profiles # {} /\ NoSet \notin Profiles
  /\ NCues \in Nat \ {0} /\ MaxAttempts \in Nat \ {0} /\ Retained \in Nat /\ Retained >= 2
  /\ Sets!Cues = 1 .. NCues
BY GatewayAssumption DEF Sets!GenerationsAssumption, Sets!Cues

(* The cue that is bought next is one of the set.                          *)
LEMMA MissingIs ==
  ASSUME ready # Sets!Cues, ready \subseteq Sets!Cues
  PROVE  Sets!Missing \in Sets!Cues \ ready
<1>1. Sets!Cues \ ready \in SUBSET (1 .. NCues) /\ Sets!Cues \ ready # {} /\ NCues \in Nat
  BY SetsAre
<1>2. \E x \in Sets!Cues \ ready : \A y \in Sets!Cues \ ready : x <= y
  BY <1>1, LeastPosition
<1> QED BY <1>2 DEF Sets!Missing

(* A new folder is the newest.                                             *)
LEMMA PublishedIs ==
  ASSUME FoldersInv, profile \in Profiles
  PROVE  /\ Sets!Now \in Nat /\ \A f \in folders : f.made <= Sets!Now
         /\ Sets!Published = folders \cup {[name |-> profile, sound |-> TRUE, made |-> Sets!Now]}
<1> DEFINE S == {0} \cup {f.made : f \in folders}
<1>1. PICK n \in Nat : \A f \in folders : f.made <= n
  BY DEF FoldersInv
<1>2. S \in SUBSET (0 .. n) /\ S # {}
  <2>1. \A f \in folders : f.made \in 0 .. n
    BY <1>1 DEF FoldersInv, Folders
  <2>2. 0 \in 0 .. n
    OBVIOUS
  <2> QED BY <2>1, <2>2
<1>3. Sets!Now = 1 + Sets!Max(S)
  BY DEF Sets!Now
<1>4. \A f \in folders : f.made \in S
  OBVIOUS
<1> HIDE DEF S
<1>5. Sets!Max(S) \in S /\ \A x \in S : x <= Sets!Max(S)
  <2>1. \E x \in S : \A y \in S : x >= y
    <3>1. PICK x \in S : \A y \in S : y <= x
      BY <1>2, GreatestBelow
    <3>2. \A y \in S : x >= y
      BY <1>2, <3>1
    <3> QED BY <3>2
  <2>2. Sets!Max(S) = CHOOSE x \in S : \A y \in S : x >= y
    BY DEF Sets!Max
  <2>3. Sets!Max(S) \in S /\ \A y \in S : Sets!Max(S) >= y
    BY <2>1, <2>2
  <2>4. \A y \in S : y <= Sets!Max(S)
    BY <1>2, <2>3
  <2> QED BY <2>3, <2>4
<1>6. Sets!Max(S) \in 0 .. n
  BY <1>2, <1>5
<1>7. \A f \in folders : f.made <= 1 + Sets!Max(S)
  <2>1. \A f \in folders : f.made \in 0 .. n /\ f.made <= Sets!Max(S)
    BY <1>2, <1>4, <1>5
  <2> QED BY <1>6, <2>1
<1> QED BY <1>3, <1>6, <1>7 DEF Sets!Published

(* While there are no more sets than are loaded, every one of them is.     *)
LEMMA AllAreNewest ==
  ASSUME FoldersInv, Cardinality(folders) <= Retained
  PROVE  Sets!Newest = folders
<1>1. ASSUME NEW f \in folders
      PROVE  Sets!Cardinality(Sets!Newer(f, folders)) < Retained
  <2>1. f.made \in Nat /\ IsFiniteSet(folders)
    BY DEF FoldersInv, Folders
  <2>2. Sets!Newer(f, folders) \subseteq folders \ {f}
    BY <2>1 DEF Sets!Newer
  <2>3. IsFiniteSet(folders \ {f}) /\ Cardinality(folders \ {f}) = Cardinality(folders) - 1
    BY <2>1, FS_RemoveElement
  <2>4. /\ Cardinality(Sets!Newer(f, folders)) <= Cardinality(folders \ {f})
        /\ IsFiniteSet(Sets!Newer(f, folders))
    BY <2>2, <2>3, FS_Subset
  <2>5. Cardinality(Sets!Newer(f, folders)) \in Nat /\ Cardinality(folders) \in Nat
    BY <2>1, <2>4, FS_CardinalityType
  <2>6. Cardinality(Sets!Newer(f, folders)) < Retained
    BY <2>3, <2>4, <2>5, SetsAre
  <2>7. Sets!Cardinality(Sets!Newer(f, folders)) = Cardinality(Sets!Newer(f, folders))
    BY DEF Sets!Cardinality, Cardinality
  <2> QED BY <2>6, <2>7
<1> QED BY <1>1 DEF Sets!Newest

LEMMA SetsInit == Sets!Init => SetsInv
<1> SUFFICES ASSUME Sets!Init PROVE SetsInv
  OBVIOUS
<1> USE SetsAre DEF Sets!Init
<1>1. FoldersInv
  <2>1. IsFiniteSet(folders)
    BY FS_EmptySet
  <2> QED BY <2>1 DEF FoldersInv
<1>2. SetTypes
  <2>1. profile \in Profiles
    OBVIOUS
  <2>2. retry \in Counters
    BY DEF Sets!NoRetry, Counters
  <2>3. attempts \in 0 .. MaxAttempts /\ staging \in [Profiles -> SUBSET Sets!Cues] /\ paid \in [Sets!Cues -> Nat]
    OBVIOUS
  <2>4. /\ pointer = NoSet /\ active = NoSet /\ generations = {} /\ later = FALSE /\ pc = "rest" /\ ready = {}
    OBVIOUS
  <2> QED BY <2>1, <2>2, <2>3, <2>4 DEF SetTypes
<1>3. KnownInv
  BY DEF KnownInv
<1>4. PaidInv
  BY DEF PaidInv, Counted, Buys, Sets!NoRetry
<1> QED BY <1>1, <1>2, <1>3, <1>4 DEF SetsInv

(* Whatever is taken away, damaged or published, the folders have one name *)
(* each.                                                                   *)
LEMMA FoldersStep ==
  ASSUME SetsInv, Sets!Next
  PROVE  FoldersInv'
<1>t. FoldersInv /\ profile \in Profiles /\ KnownInv
  BY DEF SetsInv, SetTypes
<1>1. CASE folders' = folders
  BY <1>1, <1>t DEF FoldersInv
<1>2. ASSUME folders' \subseteq folders PROVE FoldersInv'
  <2>1. IsFiniteSet(folders')
    BY <1>2, <1>t, FS_Subset DEF FoldersInv
  <2> QED BY <1>2, <1>t, <2>1 DEF FoldersInv
<1>3. CASE folders' = Sets!Published /\ pc = "cues"
  <2> DEFINE new == [name |-> profile, sound |-> TRUE, made |-> Sets!Now]
  <2>1. /\ Sets!Now \in Nat /\ \A f \in folders : f.made <= Sets!Now
        /\ folders' = folders \cup {new}
    BY <1>3, <1>t, PublishedIs
  <2>2. new \in Folders /\ new.name = profile /\ new.made = Sets!Now /\ Sets!Now <= Sets!Now
    BY <1>t, <2>1 DEF Folders
  <2>3. \A f \in folders : f.name # profile
    BY <1>3, <1>t DEF KnownInv
  <2> HIDE DEF new
  <2>4. IsFiniteSet(folders')
    BY <1>t, <2>1, FS_AddElement DEF FoldersInv
  <2>5. \E n \in Nat : \A f \in folders' : f.made <= n
    BY <2>1, <2>2
  <2> QED BY <1>t, <2>1, <2>2, <2>3, <2>4, <2>5 DEF FoldersInv
<1>4. CASE Sets!PruneFails
  <2>1. PICK sound \in BOOLEAN :
          folders' = {IF f.name \in Sets!Dropped THEN [f EXCEPT !.sound = sound /\ @] ELSE f : f \in folders}
    BY <1>4 DEF Sets!PruneFails
  <2> DEFINE g(f) == IF f.name \in Sets!Dropped THEN [f EXCEPT !.sound = sound /\ f.sound] ELSE f
  <2>2. \A f \in folders : g(f) \in Folders /\ g(f).name = f.name /\ g(f).made = f.made
    BY <1>t DEF FoldersInv, Folders
  <2>3. folders' = {g(f) : f \in folders}
    BY <2>1
  <2> HIDE DEF g
  <2>4. IsFiniteSet(folders')
    <3> DEFINE h == [f \in folders |-> g(f)]
    <3>1. h \in Surjection(folders, folders')
      BY <2>3 DEF Surjection
    <3> QED BY <1>t, <3>1, FS_Surjection DEF FoldersInv
  <2> QED BY <1>t, <2>2, <2>3, <2>4 DEF FoldersInv
<1>5. CASE Sets!Damaged
  <2>1. PICK f \in folders : folders' = (folders \ {f}) \cup {[f EXCEPT !.sound = FALSE]}
    BY <1>5 DEF Sets!Damaged
  <2> DEFINE d == [f EXCEPT !.sound = FALSE]
  <2>2. d \in Folders /\ d.name = f.name /\ d.made = f.made /\ folders' = (folders \ {f}) \cup {d}
    BY <1>t, <2>1 DEF FoldersInv, Folders
  <2> HIDE DEF d
  <2>3. IsFiniteSet(folders')
    <3>1. IsFiniteSet(folders \ {f})
      BY <1>t, FS_RemoveElement DEF FoldersInv
    <3> QED BY <2>2, <3>1, FS_AddElement
  <2> QED BY <1>t, <2>2, <2>3 DEF FoldersInv
<1>6. CASE Sets!Folder
  BY <1>1, <1>2, <1>6 DEF Sets!Folder, Sets!Without
<1>7. CASE Sets!Prune
  BY <1>2, <1>7 DEF Sets!Prune
<1>8. CASE Sets!Publish \/ Sets!PublishFails
  BY <1>3, <1>8 DEF Sets!Publish, Sets!PublishFails
<1> QED BY <1>1, <1>4, <1>5, <1>6, <1>7, <1>8 DEF Sets!Next, Sets!Task, Sets!Reserve, Sets!Reuse, Sets!Buy, Sets!Stage,
           Sets!Point, Sets!Settle, Sets!SettleFails, Sets!Fails, Sets!Time, Sets!Killed, Sets!Changed, Sets!Disk

(* What is loaded is of the disk.                                          *)
LEMMA LoadedIs ==
  ASSUME FoldersInv
  PROVE  /\ Sets!LoadedSets \subseteq Profiles
         /\ \A s \in Sets!LoadedSets : Sets!Sound(s)
BY DEF Sets!LoadedSets, Sets!Newest, Sets!Sound, FoldersInv, Folders

(* Every variable of the task keeps its type.                              *)
LEMMA SetTypesStep ==
  ASSUME SetsInv, Sets!Next
  PROVE  SetTypes'
<1> USE SetsAre
<1>t. SetTypes /\ FoldersInv /\ KnownInv /\ PaidInv
  BY DEF SetsInv
<1>r. /\ retry.attempts \in 0 .. MaxAttempts /\ retry.later \in BOOLEAN
      /\ [retry EXCEPT !.later = FALSE] \in Counters
  BY <1>t DEF SetTypes, Counters
<1>z. /\ 0 \in 0 .. MaxAttempts /\ {} \subseteq Sets!Cues
      /\ [c \in Sets!Cues |-> 0] \in [Sets!Cues -> Nat]
  OBVIOUS
<1>c. ASSUME attempts' \in 0 .. MaxAttempts, later' \in BOOLEAN
      PROVE  Sets!Counter \in Counters
  BY <1>t, <1>c DEF Sets!Counter, Counters, SetTypes
<1>1. CASE Sets!Reserve
  <2>1. attempts' \in 0 .. MaxAttempts /\ later' \in BOOLEAN
    BY <1>1, <1>t DEF Sets!Reserve, SetTypes
  <2>2. retry' \in Counters /\ pc' \in {"folder", "dead"}
    BY <1>1, <1>t, <1>c, <2>1 DEF Sets!Reserve, Sets!Persist, SetTypes
  <2> QED BY <1>1, <1>t, <2>1, <2>2 DEF Sets!Reserve, SetTypes
<1>2. CASE Sets!Folder
  BY <1>2, <1>t, <1>z DEF Sets!Folder, SetTypes
<1>3. CASE Sets!Reuse
  <2>1. Sets!Missing \in Sets!Cues
    BY <1>3, <1>t, MissingIs DEF Sets!Reuse, SetTypes
  <2> QED BY <1>3, <1>t, <2>1 DEF Sets!Reuse, Sets!Disk, SetTypes
<1>4. CASE Sets!Buy
  <2>1. Sets!Missing \in Sets!Cues
    BY <1>4, <1>t, MissingIs DEF Sets!Buy, SetTypes
  <2>2. paid \in [Sets!Cues -> Nat] /\ paid' = [paid EXCEPT ![Sets!Missing] = @ + 1]
    BY <1>4, <1>t DEF Sets!Buy, SetTypes
  <2>3. paid' \in [Sets!Cues -> Nat]
    BY <2>1, <2>2
  <2> QED BY <1>4, <1>t, <2>3 DEF Sets!Buy, Sets!Disk, SetTypes
<1>5. CASE Sets!Stage
  <2>1. Sets!Missing \in Sets!Cues
    BY <1>5, <1>t, MissingIs DEF Sets!Stage, SetTypes, KnownInv
  <2>2. staging \in [Profiles -> SUBSET Sets!Cues] /\ profile \in Profiles
        /\ staging' = [staging EXCEPT ![profile] = @ \cup {Sets!Missing}]
    BY <1>5, <1>t DEF Sets!Stage, SetTypes
  <2>3. staging' \in [Profiles -> SUBSET Sets!Cues]
    BY <2>1, <2>2
  <2> QED BY <1>5, <1>t, <2>1, <2>3 DEF Sets!Stage, SetTypes
<1>6. CASE Sets!Publish \/ Sets!PublishFails
  <2>1. staging \in [Profiles -> SUBSET Sets!Cues] /\ profile \in Profiles
        /\ staging' = [staging EXCEPT ![profile] = {}]
    BY <1>6, <1>t DEF Sets!Publish, Sets!PublishFails, SetTypes
  <2>2. staging' \in [Profiles -> SUBSET Sets!Cues]
    BY <2>1
  <2> QED BY <1>6, <1>t, <2>2 DEF Sets!Publish, Sets!PublishFails, SetTypes
<1>7. CASE Sets!Point \/ Sets!Fails
  BY <1>7, <1>t DEF Sets!Point, Sets!Fails, SetTypes
<1>8. CASE Sets!Settle \/ Sets!SettleFails
  <2>1. attempts' = 0 /\ later' = FALSE /\ retry' \in {retry, Sets!Counter} /\ active' = profile
        /\ paid' = [c \in Sets!Cues |-> 0] /\ pc' \in {"rest", "dead", "prune"}
        /\ UNCHANGED <<staging, pointer, profile, generations, ready>>
    BY <1>8 DEF Sets!Settle, Sets!SettleFails
  <2>2. retry' \in Counters
    BY <1>t, <1>c, <1>z, <2>1 DEF SetTypes
  <2> QED BY <1>t, <1>z, <2>1, <2>2 DEF SetTypes
<1>9. CASE Sets!Prune \/ Sets!PruneFails
  BY <1>9, <1>t DEF Sets!Prune, Sets!PruneFails, SetTypes
<1>10. CASE Sets!Time
  BY <1>10, <1>t, <1>r DEF Sets!Time, SetTypes
<1>11. ASSUME NEW p \in Profiles, Sets!Load(p), pointer' = pointer, retry' = retry,
              paid' \in {paid, [c \in Sets!Cues |-> 0]}
       PROVE  SetTypes'
  <2>1. staging' \in [Profiles -> SUBSET Sets!Cues]
    <3>1. staging \in [Profiles -> SUBSET Sets!Cues]
      BY <1>t DEF SetTypes
    <3> QED BY <1>11, <3>1 DEF Sets!Load
  <2>2. generations' \subseteq Profiles /\ active' \in Profiles \cup {NoSet}
    BY <1>11, <1>t, LoadedIs DEF Sets!Load
  <2>3. attempts' \in 0 .. MaxAttempts /\ later' \in BOOLEAN
    BY <1>11, <1>r, <1>z DEF Sets!Load
  <2> QED BY <1>11, <1>t, <1>z, <2>1, <2>2, <2>3 DEF Sets!Load, SetTypes
<1>12. CASE Sets!Killed \/ Sets!Changed
  BY <1>11, <1>12, <1>t DEF Sets!Killed, Sets!Changed, SetTypes
<1>13. CASE Sets!Damaged
  <2>1. generations' \subseteq Profiles /\ active' \in Profiles \cup {NoSet} /\ profile' = profile
    BY <1>13, <1>t, LoadedIs DEF Sets!Damaged
  <2>2. attempts' \in 0 .. MaxAttempts /\ later' \in BOOLEAN
    BY <1>13, <1>r, <1>z DEF Sets!Damaged
  <2> QED BY <1>13, <1>t, <1>z, <2>1, <2>2 DEF Sets!Damaged, SetTypes
<1> QED BY <1>1, <1>2, <1>3, <1>4, <1>5, <1>6, <1>7, <1>8, <1>9, <1>10, <1>12, <1>13 DEF Sets!Next, Sets!Task

(* What is known stays on disk, and what is not published is not there.    *)
LEMMA KnownStep ==
  ASSUME SetsInv, Sets!Next
  PROVE  KnownInv'
<1> USE SetsAre
<1>t. SetTypes /\ FoldersInv /\ KnownInv
  BY DEF SetsInv
<1>d. \A f \in folders : f.name \in Sets!Dropped => f.name # active
  <2>1. ASSUME NEW f \in folders, f.name \in Sets!Dropped PROVE f.name \in generations \ {active}
    <3>1. PICK g \in Sets!Old : f.name = g.name
      BY <2>1 DEF Sets!Dropped
    <3> QED BY <3>1 DEF Sets!Old
  <2> QED BY <2>1
<1>k. active \notin Sets!Dropped
  BY <1>d DEF Sets!Dropped, Sets!Old
<1>1. CASE Sets!Reserve
  BY <1>1, <1>t DEF Sets!Reserve, Sets!Persist, KnownInv, Sets!Sound
<1>2. CASE Sets!Folder
  <2>1. CASE profile \in generations \/ Sets!Sound(profile)
    BY <1>2, <1>t, <2>1 DEF Sets!Folder, KnownInv, Sets!Sound
  <2>2. CASE ~(profile \in generations \/ Sets!Sound(profile))
    <3>1. /\ folders' = Sets!Without(profile) /\ pc' = "cues" /\ ready' = {}
          /\ generations' = generations /\ active' = active /\ profile' = profile
      BY <1>2, <2>2 DEF Sets!Folder
    <3>2. \A s \in generations : \E f \in folders' : f.name = s /\ f.sound
      BY <1>t, <2>2, <3>1 DEF KnownInv, Sets!Sound, Sets!Without
    <3>3. \A f \in folders' : f.name # profile
      BY <3>1 DEF Sets!Without
    <3> QED BY <1>t, <2>2, <3>1, <3>2, <3>3 DEF KnownInv, Sets!Sound
  <2> QED BY <2>1, <2>2
<1>3. CASE Sets!Reuse
  BY <1>3, <1>t DEF Sets!Reuse, Sets!Disk, KnownInv, Sets!Sound
<1>4. CASE Sets!Buy
  BY <1>4, <1>t DEF Sets!Buy, Sets!Disk, KnownInv, Sets!Sound
<1>5. CASE Sets!Stage
  BY <1>5, <1>t DEF Sets!Stage, KnownInv, Sets!Sound
<1>6. CASE Sets!Publish \/ Sets!PublishFails
  <2> DEFINE new == [name |-> profile, sound |-> TRUE, made |-> Sets!Now]
  <2>1. folders' = folders \cup {new}
    BY <1>6 DEF Sets!Publish, Sets!PublishFails, Sets!Published
  <2>2. new.name = profile /\ new.sound
    OBVIOUS
  <2> HIDE DEF new
  <2>3. /\ generations' \in {generations, generations \cup {profile}} /\ active' = active /\ profile' = profile
        /\ pc' \in {"rest", "dead", "point"} /\ (pc' = "point" => generations' = generations \cup {profile})
    BY <1>6 DEF Sets!Publish, Sets!PublishFails
  <2> QED BY <1>t, <2>1, <2>2, <2>3 DEF KnownInv, Sets!Sound
<1>7. CASE Sets!Point \/ Sets!Fails
  BY <1>7, <1>t DEF Sets!Point, Sets!Fails, KnownInv, Sets!Sound
<1>8. CASE Sets!Settle \/ Sets!SettleFails
  BY <1>8, <1>t DEF Sets!Settle, Sets!SettleFails, KnownInv, Sets!Sound
<1>9. CASE Sets!Prune
  <2>1. /\ folders' = {f \in folders : f.name \notin Sets!Dropped} /\ generations' = generations \ Sets!Dropped
        /\ active' = active /\ pc' = "rest"
    BY <1>9 DEF Sets!Prune
  <2> QED BY <1>t, <1>k, <2>1 DEF KnownInv, Sets!Sound
<1>10. CASE Sets!PruneFails
  <2>1. /\ generations' = generations \ Sets!Dropped /\ active' = active /\ pc' = "rest"
        /\ \A f \in folders : f.name \notin Sets!Dropped => f \in folders'
    BY <1>10 DEF Sets!PruneFails
  <2> QED BY <1>t, <1>k, <2>1 DEF KnownInv, Sets!Sound
<1>11. CASE Sets!Time
  BY <1>11, <1>t DEF Sets!Time, KnownInv, Sets!Sound
<1>12. CASE Sets!Killed \/ Sets!Changed
  <2>1. PICK p \in Profiles : Sets!Load(p) /\ folders' = folders
    BY <1>12, <1>t DEF Sets!Killed, Sets!Changed, SetTypes
  <2> QED BY <1>t, <2>1, LoadedIs DEF Sets!Load, KnownInv, Sets!Sound
<1>13. CASE Sets!Damaged
  <2>1. PICK f \in folders :
          /\ folders' = (folders \ {f}) \cup {[f EXCEPT !.sound = FALSE]}
          /\ generations' = Sets!LoadedSets \ {f.name}
          /\ active' = IF pointer \in Sets!LoadedSets \ {f.name} THEN pointer ELSE NoSet
    BY <1>13 DEF Sets!Damaged
  <2>2. \A s \in generations' : \E g \in folders' : g.name = s /\ g.sound
    <3>1. ASSUME NEW s \in generations' PROVE \E g \in folders' : g.name = s /\ g.sound
      <4>1. PICK g \in folders : g.name = s /\ g.sound
        BY <1>t, <2>1, LoadedIs DEF Sets!Sound
      <4>2. g # f
        BY <2>1, <4>1
      <4> QED BY <2>1, <4>1, <4>2
    <3> QED BY <3>1
  <2>3. pc' = "rest" /\ (active' # NoSet => active' \in generations')
    BY <1>13, <2>1 DEF Sets!Damaged
  <2> QED BY <2>2, <2>3 DEF KnownInv, Sets!Sound
<1> QED BY <1>1, <1>2, <1>3, <1>4, <1>5, <1>6, <1>7, <1>8, <1>9, <1>10, <1>11, <1>12, <1>13 DEF Sets!Next, Sets!Task

(* An attempt is on disk before its first call, and buys a cue once.       *)
LEMMA PaidStep ==
  ASSUME SetsInv, Sets!Next
  PROVE  PaidInv'
<1> USE SetsAre
<1>t. SetTypes /\ KnownInv /\ PaidInv
  BY DEF SetsInv
<1>c. /\ retry \in Counters /\ Counted \in 0 .. MaxAttempts /\ attempts \in 0 .. MaxAttempts
      /\ \A c \in Sets!Cues : paid[c] \in Nat /\ paid[c] <= Counted
  BY <1>t DEF SetTypes, Counters, Counted, PaidInv
<1>z. ASSUME paid' = [c \in Sets!Cues |-> 0], Counted' \in Nat, pc' \in {"rest", "dead", "prune"},
             pc' # "dead" /\ active' # profile' => attempts' = Counted'
      PROVE  PaidInv'
  <2>1. Buys' = {}
    BY <1>z DEF Buys
  <2>2. \A c \in Sets!Cues : paid'[c] <= Counted'
    BY <1>z
  <2> QED BY <1>z, <2>1, <2>2 DEF PaidInv
<1>s. ASSUME UNCHANGED <<paid, retry, profile, active, attempts>>, Buys' \subseteq Buys,
             pc' \in {"folder", "cues", "bought", "point", "settle"} => active # profile,
             pc' # "dead" => pc # "dead"
      PROVE  PaidInv'
  <2>1. Counted' = Counted
    BY <1>s DEF Counted
  <2> QED BY <1>s, <1>t, <2>1 DEF PaidInv
<1>1. CASE Sets!Reserve
  <2>1. attempts = Counted /\ active # profile /\ attempts' = attempts + 1 /\ attempts < MaxAttempts
        /\ UNCHANGED <<active, profile, paid>>
    BY <1>1, <1>t DEF Sets!Reserve, PaidInv
  <2>2. Sets!Counter.name = profile /\ Sets!Counter.attempts = attempts'
    BY DEF Sets!Counter
  <2>3. \/ retry' = Sets!Counter /\ pc' = "folder"
        \/ retry' \in {retry, Sets!Counter} /\ pc' = "dead"
    BY <1>1 DEF Sets!Reserve, Sets!Persist
  <2>4. Counted' \in {Counted, attempts'} /\ (pc' = "folder" => Counted' = attempts')
    BY <2>1, <2>2, <2>3 DEF Counted
  <2>5. \A c \in Sets!Cues : paid'[c] <= Counted' /\ (pc' = "folder" => paid'[c] < Counted')
    BY <1>c, <2>1, <2>4
  <2>6. Buys' = IF pc' = "folder" THEN Sets!Cues ELSE {}
    BY <2>3 DEF Buys
  <2> HIDE DEF Counted
  <2> QED BY <2>1, <2>3, <2>4, <2>5, <2>6 DEF PaidInv
<1>2. CASE Sets!Folder
  <2>1. pc = "folder" /\ ready' = {} /\ pc' \in {"point", "cues"} /\ active # profile
    BY <1>2, <1>t DEF Sets!Folder, PaidInv
  <2> QED BY <1>2, <1>s, <2>1 DEF Sets!Folder, Buys
<1>3. CASE Sets!Reuse
  BY <1>3, <1>s, <1>t DEF Sets!Reuse, Sets!Disk, Buys, PaidInv
<1>4. CASE Sets!Buy
  <2>1. Sets!Missing \in Sets!Cues \ ready
    BY <1>4, <1>t, MissingIs DEF Sets!Buy, SetTypes
  <2>2. /\ paid \in [Sets!Cues -> Nat] /\ paid' = [paid EXCEPT ![Sets!Missing] = @ + 1]
        /\ pc = "cues" /\ pc' = "bought" /\ UNCHANGED <<retry, profile, active, attempts, ready>>
    BY <1>4, <1>t DEF Sets!Buy, Sets!Disk, SetTypes
  <2>3. Counted' = Counted
    BY <2>2 DEF Counted
  <2>4. Sets!Missing' = Sets!Missing
    BY <2>2 DEF Sets!Missing
  <2>5. Buys' = Sets!Cues \ (ready \cup {Sets!Missing}) /\ Buys = Sets!Cues \ ready
    BY <2>2, <2>4 DEF Buys
  <2>6. \A c \in Sets!Cues \ ready : paid[c] < Counted
    BY <1>t, <2>5 DEF PaidInv
  <2> DEFINE m == Sets!Missing
             n == Counted
  <2>7. /\ m \in Sets!Cues \ ready /\ paid' = [paid EXCEPT ![m] = @ + 1] /\ n \in Nat
        /\ \A c \in Sets!Cues : paid[c] <= n
        /\ \A c \in Sets!Cues \ ready : paid[c] < n
    BY <1>c, <2>1, <2>2, <2>6
  <2> HIDE DEF m, n
  <2>8. /\ \A c \in Sets!Cues : paid'[c] <= n
        /\ \A c \in Sets!Cues \ (ready \cup {m}) : paid'[c] < n
    BY <2>2, <2>7
  <2>9. active # profile /\ attempts = n
    BY <1>t, <2>2 DEF PaidInv, n
  <2> QED BY <2>2, <2>3, <2>5, <2>8, <2>9 DEF PaidInv, m, n
<1>5. CASE Sets!Stage
  <2>1. pc = "bought" /\ ready' = ready \cup {Sets!Missing} /\ pc' = "cues" /\ active # profile
    BY <1>5, <1>t DEF Sets!Stage, PaidInv
  <2>2. Buys' \subseteq Buys
    BY <2>1 DEF Buys
  <2> QED BY <1>5, <1>s, <2>1, <2>2 DEF Sets!Stage
<1>6. CASE Sets!Publish \/ Sets!PublishFails \/ Sets!Fails \/ Sets!Point
  <2>1. /\ pc' \in {"rest", "dead", "point", "settle"} /\ pc \in {"folder", "cues", "bought", "point"}
        /\ UNCHANGED <<paid, retry, profile, active, attempts>>
    BY <1>6 DEF Sets!Publish, Sets!PublishFails, Sets!Fails, Sets!Point
  <2>2. Buys' = {} /\ active # profile
    BY <1>t, <2>1 DEF Buys, PaidInv
  <2> QED BY <1>s, <2>1, <2>2
<1>7. CASE Sets!Settle \/ Sets!SettleFails
  <2>1. /\ attempts' = 0 /\ later' = FALSE /\ active' = profile' /\ profile' = profile
        /\ retry' \in {retry, Sets!Counter} /\ pc' \in {"prune", "rest", "dead"}
        /\ paid' = [c \in Sets!Cues |-> 0]
    BY <1>7 DEF Sets!Settle, Sets!SettleFails
  <2>2. Counted' \in Nat
    <3>1. Sets!Counter.attempts = 0
      BY <2>1 DEF Sets!Counter
    <3>2. retry.attempts \in Nat
      BY <1>c DEF Counters
    <3>3. retry'.attempts \in Nat
      BY <2>1, <3>1, <3>2
    <3> QED BY <3>3 DEF Counted
  <2> QED BY <1>z, <2>1, <2>2
<1>8. CASE Sets!Prune \/ Sets!PruneFails
  <2>1. pc = "prune" /\ pc' = "rest" /\ UNCHANGED <<paid, retry, profile, active, attempts>>
    BY <1>8 DEF Sets!Prune, Sets!PruneFails
  <2>2. Buys' = {}
    BY <2>1 DEF Buys
  <2> QED BY <1>s, <2>1, <2>2
<1>9. CASE Sets!Time
  <2>1. /\ retry' = [retry EXCEPT !.later = FALSE]
        /\ UNCHANGED <<paid, profile, active, attempts, pc, ready>>
    BY <1>9 DEF Sets!Time
  <2>2. retry'.name = retry.name /\ retry'.attempts = retry.attempts
    BY <1>c, <2>1 DEF Counters
  <2>3. Counted' = Counted
    BY <2>1, <2>2 DEF Counted
  <2>4. Buys' = Buys
    BY <2>1 DEF Buys, Sets!Missing
  <2> QED BY <1>t, <2>1, <2>3, <2>4 DEF PaidInv
<1>10. CASE Sets!Killed \/ Sets!Damaged
  <2>1. /\ attempts' = (IF retry.name = profile THEN retry.attempts ELSE 0)
        /\ profile' = profile /\ retry' = retry /\ paid' = paid /\ pc' = "rest"
    BY <1>10 DEF Sets!Killed, Sets!Load, Sets!Damaged
  <2>2. Buys' = {} /\ Counted' = Counted /\ attempts' = Counted
    BY <2>1 DEF Buys, Counted
  <2> QED BY <1>t, <2>1, <2>2 DEF PaidInv
<1>11. CASE Sets!Changed
  <2>1. PICK p \in Profiles : Sets!Load(p)
    BY <1>11 DEF Sets!Changed
  <2>2. /\ attempts' = (IF retry.name = p THEN retry.attempts ELSE 0) /\ profile' = p /\ retry' = retry /\ pc' = "rest"
        /\ paid' = [c \in Sets!Cues |-> 0]
    BY <1>11, <2>1 DEF Sets!Changed, Sets!Load
  <2>3. attempts' = Counted' /\ Counted' \in Nat
    BY <1>c, <2>2 DEF Counted, Counters
  <2> QED BY <1>z, <2>2, <2>3
<1> QED BY <1>1, <1>2, <1>3, <1>4, <1>5, <1>6, <1>7, <1>8, <1>9, <1>10, <1>11 DEF Sets!Next, Sets!Task

(* A set goes out of use only where the process loads the sets again.      *)
LEMMA SetStays ==
  ASSUME SetsInv, Sets!Next, active # NoSet, active' = NoSet
  PROVE  \/ \A f \in folders' : f.name = pointer => ~f.sound
         \/ Sets!Cardinality(folders) > Retained
<1> USE SetsAre
<1>t. SetTypes /\ FoldersInv
  BY DEF SetsInv
<1>1. /\ \A f \in folders : f.name \in Profiles
      /\ Sets!Cardinality(folders) = Cardinality(folders)
      /\ Cardinality(folders) \in Nat
  BY <1>t, FS_CardinalityType DEF FoldersInv, Folders, Sets!Cardinality, Cardinality
<1>2. CASE Cardinality(folders) <= Retained
  <2>1. Sets!LoadedSets = {f.name : f \in {g \in folders : g.sound}}
    BY <1>t, <1>2, AllAreNewest DEF Sets!LoadedSets
  <2>2. CASE Sets!Killed \/ Sets!Changed
    <3>1. pointer \notin Sets!LoadedSets /\ folders' = folders
      BY <1>1, <2>1, <2>2 DEF Sets!Killed, Sets!Changed, Sets!Load
    <3> QED BY <2>1, <3>1
  <2>3. CASE Sets!Damaged
    <3>1. PICK f \in folders :
            /\ folders' = (folders \ {f}) \cup {[f EXCEPT !.sound = FALSE]}
            /\ active' = IF pointer \in Sets!LoadedSets \ {f.name} THEN pointer ELSE NoSet
      BY <2>3 DEF Sets!Damaged
    <3>2. [f EXCEPT !.sound = FALSE].sound = FALSE
      BY <1>t DEF FoldersInv, Folders
    <3>3. pointer \notin Sets!LoadedSets \ {f.name}
      BY <1>1, <2>1, <3>1
    <3>4. ASSUME NEW g \in folders \ {f}, g.name = pointer, g.sound PROVE FALSE
      <4>1. g.name # f.name
        BY <1>t, <3>4 DEF FoldersInv
      <4> QED BY <2>1, <3>3, <3>4, <4>1
    <3> QED BY <3>1, <3>2, <3>4
  <2>4. CASE active' = active \/ active' = profile
    BY <1>t, <2>4 DEF SetTypes
  <2> QED BY <2>2, <2>3, <2>4 DEF Sets!Next, Sets!Task, Sets!Reserve, Sets!Folder, Sets!Reuse, Sets!Buy, Sets!Stage,
             Sets!Publish, Sets!Point, Sets!Settle, Sets!Prune, Sets!SettleFails, Sets!Fails, Sets!PublishFails,
             Sets!PruneFails, Sets!Time
<1>3. CASE Cardinality(folders) > Retained
  BY <1>1, <1>3
<1> QED BY <1>1, <1>2, <1>3

LEMMA SetsSay ==
  ASSUME SetsInv
  PROVE  Sets!TypeOK /\ Sets!OfferedIsThere /\ Sets!PaidBounded
<1>t. SetTypes /\ FoldersInv /\ KnownInv /\ PaidInv
  BY DEF SetsInv
<1>1. Sets!TypeOK
  BY <1>t DEF Sets!TypeOK, SetTypes, Counters, FoldersInv
<1>2. Sets!OfferedIsThere
  BY <1>t DEF Sets!OfferedIsThere, KnownInv
<1>3. Sets!PaidBounded
  <2>1. Counted \in 0 .. MaxAttempts
    BY <1>t, SetsAre DEF SetTypes, Counters, Counted
  <2>2. \A c \in Sets!Cues : paid[c] \in Nat /\ paid[c] <= Counted
    BY <1>t DEF SetTypes, PaidInv
  <2> HIDE DEF Counted
  <2> QED BY <2>1, <2>2, SetsAre DEF Sets!PaidBounded
<1> QED BY <1>1, <1>2, <1>3

(* For any profiles, cues, attempts and retained sets, and any number of   *)
(* kills, failures, changes and damaged sets: what is offered is on disk   *)
(* and whole, no cue of a set is paid for more often than there are        *)
(* attempts, and no recorder is left without cues; and a cue of the cache  *)
(* that verified once is never bought again.                               *)
THEOREM CuesHold == Sets!Spec /\ Cache!Spec => CuesKept
<1>1. Sets!Init => SetsInv
  BY SetsInit
<1>2. SetsInv /\ [Sets!Next]_(Sets!genVars) => SetsInv'
  <2>1. SetsInv /\ Sets!Next => SetsInv'
    BY FoldersStep, SetTypesStep, KnownStep, PaidStep DEF SetsInv
  <2>2. SetsInv /\ UNCHANGED Sets!genVars => SetsInv'
    BY DEF Sets!genVars, SetsInv, FoldersInv, SetTypes, KnownInv, PaidInv, Sets!Sound, Counted, Buys, Sets!Missing
  <2> QED BY <2>1, <2>2
<1>3. SetsInv => Sets!TypeOK /\ Sets!OfferedIsThere /\ Sets!PaidBounded
  BY SetsSay
<1> DEFINE Stays == active # NoSet /\ active' = NoSet =>
                      \/ \A f \in folders' : f.name = pointer => ~f.sound
                      \/ Sets!Cardinality(folders) > Retained
<1>4. SetsInv /\ [Sets!Next]_(Sets!genVars) => [Stays]_(Sets!genVars)
  BY SetStays
<1>5. Cache!Init => CacheInv
  BY CacheInit
<1> DEFINE Verifies == Cache!Verified => Cache!Verified' /\ pcm'.audio = pcm.audio
<1>6. CacheInv /\ [Cache!Next]_(Cache!cacheVars) => CacheInv' /\ [Verifies]_(Cache!cacheVars)
  <2>1. CASE Cache!Next
    BY <2>1, CacheStep
  <2>2. CASE UNCHANGED Cache!cacheVars
    BY <2>2 DEF Cache!cacheVars, CacheInv, Cache!TypeOK, Cache!Verified, Cache!Repaired
  <2> QED BY <2>1, <2>2
<1>7. CacheInv => Cache!TypeOK /\ Cache!ServedIsBare
  BY FilesAre DEF CacheInv, Cache!ServedIsBare, Cache!TypeOK
<1> QED
  <2> HIDE DEF Stays, Verifies
  <2>1. Sets!Spec => [](Sets!TypeOK /\ Sets!OfferedIsThere /\ Sets!PaidBounded) /\ [][Stays]_(Sets!genVars)
    BY <1>1, <1>2, <1>3, <1>4, PTL DEF Sets!Spec
  <2>2. Cache!Spec => [](Cache!TypeOK /\ Cache!ServedIsBare) /\ [][Verifies]_(Cache!cacheVars)
    BY <1>5, <1>6, <1>7, PTL DEF Cache!Spec
  <2> QED BY <2>1, <2>2 DEF CuesKept, Sets!SetIsKept, Cache!PaidOnce, Stays, Verifies

(* The parts beside one another.                                           *)
LEMMA GatewayGoesOn == GatewaySpec => Sessions!Spec /\ Sets!Spec /\ Cache!Spec
<1>1. GatewayInit => Sessions!Init /\ Sets!Init /\ Cache!Init
  BY DEF GatewayInit
<1>2. [GatewayNext]_<<conversation, vars, talkVars, setVars, cueVars>> =>
        /\ [Sessions!Next]_(Sessions!sessionVars) /\ [Sets!Next]_(Sets!genVars)
        /\ [Cache!Next]_(Cache!cacheVars)
  BY DEF GatewayNext, talkVars, setVars, cueVars, Sessions!sessionVars, Sets!genVars, Cache!cacheVars
<1> QED BY <1>1, <1>2, PTL DEF GatewaySpec, Sessions!Spec, Sets!Spec, Cache!Spec

(* Beside one another they keep what each of them promises.                *)
THEOREM GatewayHolds == GatewaySpec => SessionsKept /\ CuesKept
BY GatewayGoesOn, TalkKept, CuesHold, PTL
=============================================================================
