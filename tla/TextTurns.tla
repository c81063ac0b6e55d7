------------------------------- MODULE TextTurns -------------------------------
(***************************************************************************)
(* The text turns of one conversation (text_turns.py): the vault is        *)
(* refreshed, the model answers, its proposal is published by the writer   *)
(* of the knowledge base (knowledge/store.py) through a journal, and the   *)
(* publisher (knowledge/git_sync.py) commits and pushes what the outbox    *)
(* names.  Writer and publisher share writer.lock; people edit the pages   *)
(* in Obsidian and elsewhere without it; a turn may give up while its      *)
(* publication goes on in a thread; a new talk may begin, after which the  *)
(* session store (agents/sessions.py) no longer knows the model's answers  *)
(* of the last one; the gateway may stop at any point.                     *)
(*                                                                         *)
(* A page is the set of the contributions it contains: a turn's, or an     *)
(* edit's.  The model keeps what it was shown, so a contribution only      *)
(* disappears when somebody writes over a page he did not read.            *)
(***************************************************************************)
EXTENDS Integers, FiniteSets

CONSTANTS
  Turns,         \* requests of one context_id, the recorder's and Alice's
  Durable,       \* those that a restart queues again (Alice's jobs)
  Edits,         \* edits by people
  LocalEdits,    \* those made in the vault itself, the others come through origin
  MaxRestarts,   \* bound: stops of the gateway
  MaxChanges,    \* bound: edits and new talks together
  NoOne          \* no turn

ASSUME TurnsAssumption ==
  /\ IsFiniteSet(Turns) /\ Durable \subseteq Turns
  /\ LocalEdits \subseteq Edits /\ Turns \intersect Edits = {}
  /\ NoOne \notin Turns \union Edits
ASSUME BoundsAssumption == MaxRestarts \in Nat /\ MaxChanges \in Nat

VARIABLES
  up, restarts,
  pc,        \* where process() stands in each turn
  thread,    \* the publish() call of each turn, on a thread of its own
  context,   \* knowledge-context.json: the topic page as the turn saw it
  thisTalk,  \* the turns whose row of the session store is of the current generation
  result,    \* the result saved in that row
  answer,    \* the model's answer, in the memory of the turn at work
  talks,     \* new talks so far
  proposal,  \* knowledge-proposal.json
  told,      \* history_committed
  reviews,   \* table reviews
  journal,   \* table commits
  applying,  \* the journal entry being applied, and how far
  lock,      \* who holds writer.lock
  outbox,    \* .sync/<turn>.json
  work, head, remote,  \* the pages in the vault, in its HEAD and in origin
  git,       \* the run_once() in progress
  placed     \* history: where each edit was made, and whether between the writer's look and its write

talk == <<thisTalk, result, answer, talks>>
turnVars == <<pc, thread, context, talk, proposal, told, reviews>>
gitVars == <<head, remote, git>>
vars == <<up, restarts, turnVars, journal, applying, lock, outbox, work, gitVars, placed>>

(* The pages of a publication, in the order they are written: one that the *)
(* model saw and rewrites, and one that is read and extended under the     *)
(* lock (index.md, log.md).                                                *)
Order == <<"topic", "log">>
Pages == {"topic", "log"}
Contents == SUBSET (Turns \union Edits)
Unread == {NoOne}
Decisions == {"amend", "query"}
Nowhere == [side |-> "none", page |-> "topic"]

NoEntry == [status |-> "none", kind |-> "none", before |-> [p \in Pages |-> {}],
            after |-> [p \in Pages |-> {}], at |-> 0]
NotApplying == [turn |-> NoOne, at |-> 0, checked |-> FALSE]
NoRun == [at |-> "idle", tasks |-> {}, caller |-> NoOne]

Init ==
  /\ up = FALSE /\ restarts = 0
  /\ pc = [t \in Turns |-> "accepted"] /\ thread = [t \in Turns |-> "none"]
  /\ context = [t \in Turns |-> Unread]
  /\ thisTalk = {} /\ result = [t \in Turns |-> "none"] /\ talks = 0
  /\ answer = [t \in Turns |-> "none"] /\ proposal = [t \in Turns |-> "none"]
  /\ told = {} /\ reviews = {}
  /\ journal = [t \in Turns |-> NoEntry] /\ applying = NotApplying /\ lock = "free"
  /\ outbox = {} /\ work = [p \in Pages |-> {}] /\ head = work /\ remote = work
  /\ git = NoRun /\ placed = [e \in Edits |-> Nowhere]

Active(t) == pc[t] \in {"refresh", "read", "think", "model", "propose", "publish", "rejected", "record"}
Pending == {t \in Turns : journal[t].status = "pending"}

(* _apply's preflight: every file is as it was, or as it shall be.         *)
Matches(t) == \A p \in Pages : work[p] \in {journal[t].before[p], journal[t].after[p]}

(* _recover, first thing under the lock of capture, receipt, context and   *)
(* publish.  Only a row whose files do not match is left here              *)
(* (PendingIsStuck): the rows of a crash are replayed at the start.        *)
Recovered ==
  [t \in Turns |-> IF t \in Pending /\ ~Matches(t) THEN [journal[t] EXCEPT !.status = "conflict"] ELSE journal[t]]

Goto(t, where) == pc' = [pc EXCEPT ![t] = where]

-----------------------------------------------------------------------------
(* TextTurnProcessor.process: one turn of a context at a time.             *)

(* The context's lock, then capture(): the dictation is evidence.          *)
Begin(t) ==
  /\ up /\ lock = "free"
  /\ pc[t] = "accepted" /\ ~ \E u \in Turns : Active(u)
  /\ Goto(t, "refresh")
  /\ journal' = Recovered
  /\ UNCHANGED <<up, restarts, thread, context, talk, proposal, told, reviews,
                 applying, lock, outbox, work, gitVars, placed>>

(* receipt(), then context() unless an earlier attempt saved one.          *)
Read(t) ==
  /\ pc[t] = "read" /\ lock = "free"
  /\ journal' = Recovered
  /\ context' = IF context[t] = Unread /\ journal'[t].status # "conflict"
                THEN [context EXCEPT ![t] = work["topic"]] ELSE context
  /\ Goto(t, CASE journal'[t].status = "done" -> "record"
               [] journal'[t].status = "conflict" -> "failed"
               [] OTHER -> IF proposal[t] = "none" THEN "think" ELSE "propose")
  /\ UNCHANGED <<up, restarts, thread, talk, proposal, told, reviews,
                 applying, lock, outbox, work, gitVars, placed>>

Unsaid(t) == [result EXCEPT ![t] = "none"]
Forgotten(t) == [answer EXCEPT ![t] = "none"]

AskAgain(t) ==  \* mutant: the saved result is not looked up
  /\ pc[t] = "think"
  /\ result' = Unsaid(t) /\ UNCHANGED answer
  /\ thisTalk' = thisTalk \union {t} /\ told' = told \ {t}
  /\ Goto(t, "model")
  /\ UNCHANGED <<up, restarts, thread, context, talks, proposal, reviews,
                 journal, applying, lock, outbox, work, gitVars, placed>>

(* sessions.begin: the result that was saved in this talk is the answer; a *)
(* row without one, or of an older talk, is replaced and the model asked.  *)
Ask(t) ==
  /\ pc[t] = "think"
  /\ IF t \in thisTalk /\ result[t] # "none"
     THEN answer' = [answer EXCEPT ![t] = result[t]] /\ Goto(t, "propose") /\ UNCHANGED <<thisTalk, result, told>>
     ELSE /\ result' = Unsaid(t) /\ UNCHANGED answer
          /\ thisTalk' = thisTalk \union {t} /\ told' = told \ {t}
          /\ Goto(t, "model")
  /\ UNCHANGED <<up, restarts, thread, context, talks, proposal, reviews,
                 journal, applying, lock, outbox, work, gitVars, placed>>

(* The model answers; save_result refuses once a new talk began.           *)
Answer(t) ==
  /\ pc[t] = "model"
  /\ \E d \in Decisions :
       /\ answer' = [answer EXCEPT ![t] = d]
       /\ result' = IF t \in thisTalk THEN [result EXCEPT ![t] = d] ELSE result
  /\ Goto(t, "propose")
  /\ UNCHANGED <<up, restarts, thread, context, thisTalk, talks, proposal, told, reviews,
                 journal, applying, lock, outbox, work, gitVars, placed>>

(* The proposal is on disk before publish() is called.                     *)
Propose(t) ==
  /\ pc[t] = "propose"
  /\ proposal' = IF proposal[t] = "none" THEN [proposal EXCEPT ![t] = answer[t]] ELSE proposal
  /\ answer' = Forgotten(t)
  /\ thread' = [thread EXCEPT ![t] = "called"]
  /\ Goto(t, "publish")
  /\ UNCHANGED <<up, restarts, context, thisTalk, result, talks, told, reviews,
                 journal, applying, lock, outbox, work, gitVars, placed>>

(* KnowledgeConflict: mark_review, and the answer says so.                 *)
Review(t) ==
  /\ pc[t] = "rejected" /\ lock = "free"
  /\ reviews' = reviews \union {t}
  /\ Goto(t, "review")
  /\ UNCHANGED <<up, restarts, thread, context, talk, proposal, told,
                 journal, applying, lock, outbox, work, gitVars, placed>>

(* record_turn, and the answer: a repeated one finds the history complete, *)
(* one whose talk is over is answered without history.                     *)
Record(t) ==
  /\ pc[t] = "record"
  /\ told' = IF t \in thisTalk THEN told \union {t} ELSE told
  /\ Goto(t, "answered")
  /\ UNCHANGED <<up, restarts, thread, context, talk, proposal, reviews,
                 journal, applying, lock, outbox, work, gitVars, placed>>

(* The deadline, a cancellation or an error of the model, the database or  *)
(* a file: the thread that publishes goes on.                              *)
Fail(t) ==
  /\ Active(t)
  /\ Goto(t, "failed") /\ answer' = Forgotten(t)
  /\ UNCHANGED <<up, restarts, thread, context, thisTalk, result, talks, proposal, told, reviews,
                 journal, applying, lock, outbox, work, gitVars, placed>>

MayChange == talks + Cardinality({e \in Edits : placed[e] # Nowhere}) < MaxChanges

(* POST sessions/reset advances the generation; it is refused while the    *)
(* recorder has a turn, but not while Alice has one.  Without a row of     *)
(* this talk it changes nothing.                                           *)
NewTalk ==
  /\ up /\ ~ \E t \in Turns \ Durable : Active(t)
  /\ thisTalk # {} /\ thisTalk' = {}
  /\ MayChange /\ talks' = talks + 1
  /\ UNCHANGED <<up, restarts, pc, thread, context, result, answer, proposal, told, reviews,
                 journal, applying, lock, outbox, work, gitVars, placed>>

-----------------------------------------------------------------------------
(* KnowledgeStore.publish and _apply, under writer.lock.                   *)

(* The turn goes on with what publish() came to; nobody waits for the      *)
(* thread of a turn that gave up.                                          *)
Return(t, where) ==
  /\ thread' = [thread EXCEPT ![t] = "none"]
  /\ IF pc[t] = "publish" THEN Goto(t, where) ELSE UNCHANGED pc

Insert(t) ==
  LET entry == [status |-> "pending", kind |-> "amend", before |-> work,
                after |-> [p \in Pages |-> work[p] \union {t}],
                at |-> Cardinality({u \in Turns : journal[u].status # "none"}) + 1]
  IN  /\ journal' = [Recovered EXCEPT ![t] = entry]
      /\ applying' = [NotApplying EXCEPT !.turn = t]
      /\ lock' = "store" /\ thread' = [thread EXCEPT ![t] = "applying"] /\ UNCHANGED pc

(* An earlier commit of this source decides; a query only leaves a         *)
(* receipt; a page that changed since the context was read is a conflict;  *)
(* everything else is written to the journal first.                        *)
Publish(t) ==
  /\ thread[t] = "called" /\ lock = "free"
  /\ IF Recovered[t].status # "none"
     THEN /\ Return(t, IF Recovered[t].status = "done" THEN "record" ELSE "rejected")
          /\ journal' = Recovered /\ UNCHANGED <<applying, lock>>
     ELSE IF proposal[t] = "query"
     THEN /\ journal' = [Recovered EXCEPT ![t] = [NoEntry EXCEPT !.status = "done", !.kind = "query"]]
          /\ Return(t, "record") /\ UNCHANGED <<applying, lock>>
     ELSE IF work["topic"] # context[t]
     THEN Return(t, "rejected") /\ journal' = Recovered /\ UNCHANGED <<applying, lock>>
     ELSE Insert(t)
  /\ UNCHANGED <<up, restarts, context, talk, proposal, told, reviews,
                 outbox, work, gitVars, placed>>

(* The journal's entry is given up: publish() leaves the row pending, the  *)
(* replay at the start marks it.                                           *)
GiveUp ==
  LET t == applying.turn
  IN  /\ applying' = NotApplying /\ lock' = "free"
      /\ IF up THEN Return(t, "rejected") /\ UNCHANGED journal
               ELSE journal' = [journal EXCEPT ![t].status = "conflict"] /\ UNCHANGED <<pc, thread>>
      /\ UNCHANGED <<outbox, work>>

Advance == applying' = [applying EXCEPT !.at = @ + 1, !.checked = FALSE] /\ UNCHANGED <<pc, journal, lock, thread>>

PreflightAnnounces ==  \* mutant: the outbox is written first
  /\ applying.at = 0
  /\ IF Matches(applying.turn) THEN Advance /\ outbox' = outbox \union {applying.turn} /\ UNCHANGED work ELSE GiveUp

Preflight ==
  /\ applying.at = 0
  /\ IF Matches(applying.turn) THEN Advance /\ UNCHANGED <<outbox, work>> ELSE GiveUp

CheckBlind ==  \* mutant: the page is not read again before it is written
  /\ applying.at \in 1 .. 2 /\ ~applying.checked
  /\ applying' = [applying EXCEPT !.checked = TRUE]
  /\ UNCHANGED <<pc, journal, lock, thread, outbox, work>>

Check ==
  /\ applying.at \in 1 .. 2 /\ ~applying.checked
  /\ LET p == Order[applying.at]
         entry == journal[applying.turn]
     IN  IF work[p] = entry.after[p] THEN Advance /\ UNCHANGED <<outbox, work>>
         ELSE IF work[p] # entry.before[p] THEN GiveUp
         ELSE /\ applying' = [applying EXCEPT !.checked = TRUE]
              /\ UNCHANGED <<pc, journal, lock, thread, outbox, work>>

Write ==
  /\ applying.at \in 1 .. 2 /\ applying.checked
  /\ work' = [work EXCEPT ![Order[applying.at]] = journal[applying.turn].after[Order[applying.at]]]
  /\ Advance /\ UNCHANGED outbox

WriteTask ==
  /\ applying.at = 3
  /\ outbox' = outbox \union {applying.turn}
  /\ Advance /\ UNCHANGED work

Commit ==
  /\ applying.at = 4
  /\ journal' = [journal EXCEPT ![applying.turn].status = "done"]
  /\ applying' = NotApplying /\ lock' = "free"
  /\ IF up THEN Return(applying.turn, "record") ELSE UNCHANGED <<pc, thread>>
  /\ UNCHANGED <<outbox, work>>

ApplyStep ==
  /\ applying.turn # NoOne
  /\ Preflight \/ Check \/ Write \/ WriteTask \/ Commit
  /\ UNCHANGED <<up, restarts, context, talk, proposal, told, reviews, gitVars, placed>>

-----------------------------------------------------------------------------
(* GitSync.run_once, under writer.lock; called by the background task and  *)
(* by the turns, which wait while the lock is busy.                        *)

GitUnchanged == UNCHANGED <<up, restarts, thread, context, talk, proposal, told, reviews,
                            journal, applying, placed>>

Run(caller) ==
  /\ up /\ lock = "free" /\ git = NoRun
  /\ caller # NoOne => pc[caller] = "refresh"
  /\ lock' = "git"
  /\ git' = [at |-> IF outbox = {} THEN "refresh" ELSE "verify", tasks |-> outbox, caller |-> caller]
  /\ GitUnchanged /\ UNCHANGED <<pc, outbox, work, head, remote>>

(* The result goes to the turn that still waits for it.                    *)
Ends(ok) ==
  /\ git' = NoRun /\ lock' = "free"
  /\ IF git.caller # NoOne /\ pc[git.caller] = "refresh"
     THEN Goto(git.caller, IF ok THEN "read" ELSE "failed")
     ELSE UNCHANGED pc

RunGoesTo(where) == git' = [git EXCEPT !.at = where] /\ UNCHANGED <<pc, lock>>

LatestFirst(tasks) ==  \* mutant: the earliest hash of a page counts
  journal[CHOOSE t \in tasks : \A u \in tasks : journal[t].at <= journal[u].at].after

(* Later publications supersede earlier hashes of the same page.           *)
Latest(tasks) == journal[CHOOSE t \in tasks : \A u \in tasks : journal[u].at <= journal[t].at].after

Verify ==
  /\ git.at = "verify"
  /\ IF work = Latest(git.tasks) THEN RunGoesTo("commit") ELSE Ends(FALSE)
  /\ UNCHANGED <<outbox, work, head, remote>>

CommitPages ==
  /\ git.at = "commit"
  /\ head' = work
  /\ RunGoesTo("refresh")
  /\ UNCHANGED <<outbox, work, remote>>

Refreshed == IF git.tasks = {} THEN Ends(TRUE) ELSE RunGoesTo("push")

(* A merge must not touch a page that differs from HEAD.                   *)
CheckOut(merged) ==
  IF \A p \in Pages : merged[p] # head[p] => work[p] = head[p]
  THEN /\ head' = merged
       /\ work' = [p \in Pages |-> IF merged[p] # head[p] THEN merged[p] ELSE work[p]]
       /\ Refreshed
  ELSE Ends(FALSE) /\ UNCHANGED <<head, work>>

(* _refresh: fetch, then nothing, a fast-forward or a merge.  Changes of   *)
(* one page on both sides may conflict.                                    *)
Refresh ==
  /\ git.at = "refresh"
  /\ IF \A p \in Pages : remote[p] \subseteq head[p] THEN Refreshed /\ UNCHANGED <<head, work>>
     ELSE \/ CheckOut([p \in Pages |-> head[p] \union remote[p]])
          \/ /\ \E p \in Pages : ~(remote[p] \subseteq head[p]) /\ ~(head[p] \subseteq remote[p])
             /\ Ends(FALSE) /\ UNCHANGED <<head, work>>
  /\ UNCHANGED <<outbox, remote>>

UnlinkUnpushed ==  \* mutant: the result of the push is not looked at
  /\ git.at = "push"
  /\ remote' \in {remote, IF \A p \in Pages : remote[p] \subseteq head[p] THEN head ELSE remote}
  /\ RunGoesTo("unlink")
  /\ UNCHANGED <<outbox, work, head>>

(* An ordinary push: it is rejected when origin has moved on.              *)
Push ==
  /\ git.at = "push"
  /\ \A p \in Pages : remote[p] \subseteq head[p]
  /\ remote' = head
  /\ RunGoesTo("unlink")
  /\ UNCHANGED <<outbox, work, head>>

(* The network fails, or the push is rejected; origin may have taken it.   *)
NetworkFails ==
  /\ git.at \in {"refresh", "push"}
  /\ remote' \in {remote, IF git.at = "push" /\ \A p \in Pages : remote[p] \subseteq head[p] THEN head ELSE remote}
  /\ Ends(FALSE)
  /\ UNCHANGED <<outbox, work, head>>

Unlink ==
  /\ git.at = "unlink"
  /\ \E t \in git.tasks :
       /\ outbox' = outbox \ {t}
       /\ IF git.tasks = {t} THEN Ends(TRUE)
          ELSE git' = [git EXCEPT !.tasks = @ \ {t}] /\ UNCHANGED <<pc, lock>>
  /\ UNCHANGED <<work, head, remote>>

GitStep == (Verify \/ CommitPages \/ Refresh \/ Push \/ NetworkFails \/ Unlink) /\ GitUnchanged

-----------------------------------------------------------------------------
(* People, who do not know of writer.lock, and the gateway's stops.        *)

BeingWritten(p) == applying.turn # NoOne /\ applying.checked /\ Order[applying.at] = p

Edit(e, p) ==
  /\ placed[e] = Nowhere /\ MayChange
  /\ IF e \in LocalEdits
     THEN work' = [work EXCEPT ![p] = @ \union {e}] /\ UNCHANGED remote
     ELSE remote' = [remote EXCEPT ![p] = @ \union {e}] /\ UNCHANGED work
  /\ LET side == IF e \notin LocalEdits THEN "remote" ELSE IF BeingWritten(p) THEN "window" ELSE "work"
     IN  placed' = [placed EXCEPT ![e] = [side |-> side, page |-> p]]
  /\ UNCHANGED <<up, restarts, turnVars, journal, applying, lock, outbox, head, git>>

Crash ==
  /\ restarts < MaxRestarts
  /\ restarts' = restarts + 1
  /\ up' = FALSE /\ lock' = "free" /\ applying' = NotApplying /\ git' = NoRun
  /\ thread' = [t \in Turns |-> "none"]
  /\ pc' = [t \in Turns |-> IF Active(t) THEN IF t \in Durable THEN "accepted" ELSE "failed" ELSE pc[t]]
  /\ answer' = [t \in Turns |-> "none"]
  /\ UNCHANGED <<context, thisTalk, result, talks, proposal, told, reviews, journal, outbox, work, head, remote, placed>>

(* KnowledgeStore's constructor replays the journal, then the app starts.  *)
Start ==
  /\ ~up /\ lock = "free"
  /\ IF Pending = {} THEN up' = TRUE /\ UNCHANGED <<lock, applying>>
     ELSE \E t \in Pending :
            lock' = "store" /\ applying' = [NotApplying EXCEPT !.turn = t] /\ UNCHANGED up
  /\ UNCHANGED <<restarts, turnVars, journal, outbox, work, gitVars, placed>>

TurnStep(t) ==
  \/ Begin(t) \/ Read(t) \/ Ask(t) \/ Answer(t) \/ Propose(t) \/ Publish(t)
  \/ Review(t) \/ Record(t)

Next ==
  \/ \E t \in Turns : TurnStep(t) \/ Fail(t)
  \/ NewTalk
  \/ ApplyStep
  \/ \E caller \in Turns \union {NoOne} : Run(caller)
  \/ GitStep
  \/ \E e \in Edits, p \in Pages : Edit(e, p)
  \/ Crash \/ Start

Spec == Init /\ [][Next]_vars

(* The background task runs every 15 s and every git call has a timeout;   *)
(* threads run on; the network works again and again; the gateway is       *)
(* restarted.                                                              *)
FairSpec ==
  /\ Spec
  /\ WF_vars(Start) /\ WF_vars(ApplyStep) /\ WF_vars(GitStep) /\ WF_vars(Run(NoOne))
  /\ SF_vars(Push /\ GitUnchanged) /\ SF_vars(Refresh /\ GitUnchanged)

-----------------------------------------------------------------------------
Entry == [status: {"none", "pending", "done", "conflict"}, kind: Decisions \union {"none"},
          before: [Pages -> Contents], after: [Pages -> Contents], at: 0 .. Cardinality(Turns)]

TypeOK ==
  /\ up \in BOOLEAN /\ restarts \in 0 .. MaxRestarts
  /\ pc \in [Turns -> {"accepted", "refresh", "read", "think", "model", "propose", "publish", "rejected", "record",
                       "answered", "review", "failed"}]
  /\ thread \in [Turns -> {"none", "called", "applying"}]
  /\ context \in [Turns -> Contents \union {Unread}]
  /\ thisTalk \subseteq Turns /\ talks \in Nat /\ answer \in [Turns -> Decisions \union {"none"}]
  /\ result \in [Turns -> Decisions \union {"none"}] /\ proposal \in [Turns -> Decisions \union {"none"}]
  /\ told \subseteq Turns /\ reviews \subseteq Turns
  /\ journal \in [Turns -> Entry]
  /\ applying \in [turn: Turns \union {NoOne}, at: 0 .. 4, checked: BOOLEAN]
  /\ lock \in {"free", "git", "store"}
  /\ outbox \subseteq Turns
  /\ work \in [Pages -> Contents] /\ head \in [Pages -> Contents] /\ remote \in [Pages -> Contents]
  /\ git \in [at: {"idle", "verify", "commit", "refresh", "push", "unlink"},
              tasks: SUBSET Turns, caller: Turns \union {NoOne}]
  /\ placed \in [Edits -> [side: {"none", "work", "window", "remote"}, page: Pages]]

(* What a person wrote is still there: nothing the writer, the replay of   *)
(* the journal or the publisher does removes it from the vault, or from    *)
(* origin when it was made there (store.py: a conflicting manual edit      *)
(* stops replay; no force push).  All that can be lost is an edit that     *)
(* falls between the writer's last look at a page and its write.           *)
EditsKept ==
  \A e \in Edits :
    /\ placed[e].side = "work" => e \in work[placed[e].page]
    /\ placed[e].side = "remote" => e \in remote[placed[e].page]

(* A published note is in origin, whole, or in the outbox: no order of     *)
(* push, failure, unlink, crash and replay drops it in between.            *)
DoneIsDelivered ==
  \A t \in Turns : journal[t].status = "done" /\ journal[t].kind = "amend" =>
    t \in outbox \/ \A p \in Pages : t \in remote[p]

(* The publisher never sees a task whose files are not all there, and what *)
(* it brings to origin are whole publications: half of one can only be the *)
(* remainder of a journal entry that a person's edit stopped.              *)
WholePublications ==
  /\ \A t \in outbox, p \in Pages : t \in work[p]
  /\ \A t \in Turns : (\E p \in Pages : t \in remote[p]) =>
       (\A p \in Pages : t \in remote[p]) \/ journal[t].status \in {"pending", "conflict"}

(* The history holds what was published or rightly answered, never a turn  *)
(* whose proposal was rejected; a turn's answer is true of the journal,    *)
(* also after a retry, and it is in the history unless its talk is over;   *)
(* and a saved result is what was proposed, also when a new talk between   *)
(* two attempts had the model asked twice.                                 *)
AnswerIsTrue ==
  \A t \in Turns :
    /\ t \in told => journal[t].status = "done"
    /\ pc[t] = "answered" =>
         /\ journal[t].status = "done" /\ journal[t].kind = proposal[t]
         /\ t \in told \/ t \notin thisTalk
    /\ pc[t] = "review" => t \in reviews /\ journal[t].status # "done"
    /\ result[t] # "none" /\ proposal[t] # "none" => proposal[t] = result[t]

(* What the model answered for a turn is not replaced while its talk goes  *)
(* on (agents/sessions.py: begin), and never once it was proposed, however *)
(* often the turn is retried (text_turns.py: reuse the durable result      *)
(* without regenerating); the journal records what was proposed; and a     *)
(* turn enters the history of its own talk only.                           *)
DecisionStands ==
  [][\A t \in Turns :
       /\ result[t] # "none" /\ t \in thisTalk => result'[t] = result[t]
       /\ proposal[t] # "none" => proposal'[t] = proposal[t] /\ result'[t] = result[t]
       /\ journal'[t].kind # "none" => journal'[t].kind = proposal'[t]
       /\ t \in told' /\ t \notin told => t \in thisTalk]_vars

(* A journal entry that is pending while nobody works on it waits for a    *)
(* person: its files match neither image, and no replay will complete it.  *)
PendingIsStuck == up /\ lock = "free" => \A t \in Pending : ~Matches(t)

(* Journal, outbox and pages keep their types and agree, whatever stopped  *)
(* a publication.                                                          *)
JournalIsWhole == TypeOK /\ WholePublications /\ PendingIsStuck

(* An answer is true of what was decided, once and for all.                *)
AnswersStand == []AnswerIsTrue /\ DecisionStands

(* Tasks leave the outbox, unless a page they name differs for good from   *)
(* what was published, or the branches changed the same page and the merge *)
(* conflicts (git_sync.py: retries, never a lost or a forgotten task).     *)
Diverged == \E p \in Pages : ~(remote[p] \subseteq head[p]) /\ ~(head[p] \subseteq remote[p])
Superseded(t) == \E u \in outbox : journal[u].at > journal[t].at
Blocked == outbox # {} /\ (Diverged \/ \E t \in outbox : ~Superseded(t) /\ work # journal[t].after)

PushedUnlessBlocked == <>[](outbox = {}) \/ <>[]Blocked

-----------------------------------------------------------------------------
(* docs/voice-knowledge.md: after a failed push the task stays in the      *)
(* outbox and is repeated; a manual change of the file, or a merge that    *)
(* conflicts, stops it.                                                    *)
PushIsRepeated ==
  \/ \A t \in Turns : t \in outbox ~> t \notin outbox \/ \E e \in LocalEdits : placed[e] # Nowhere
  \/ []<>Diverged
=============================================================================
