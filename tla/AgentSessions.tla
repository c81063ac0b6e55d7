---------------------------- MODULE AgentSessions ----------------------------
(***************************************************************************)
(* The talk of one context, to which the recorder's turns and those of     *)
(* Alice both belong: the model's answers and the short history that it is *)
(* shown (agents/sessions.py), and the question that it may have asked     *)
(* (dialogue.py), as TextTurnProcessor._process goes through them, one     *)
(* turn at a time.  A restart ends a turn of the recorder and queues one   *)
(* of Alice again, which finds the files it has written.  The owner may    *)
(* start a new talk whenever the recorder has no turn (jobs/api.py).       *)
(*                                                                         *)
(* Publication is one step with its two ends; what the model says is       *)
(* whether it asks and whether it takes the pending question for done.     *)
(***************************************************************************)
EXTENDS Naturals, FiniteSets

CONSTANTS
  NRecorder, NAlice,  \* turns of each kind, numbered in the order in which they are said
  Listens,            \* questions in a row that the recorder listens after, 3 in the code
  MaxEvents           \* bounds new talks, expired questions, failures and restarts

SessionsAssumption ==
  /\ NRecorder \in Nat /\ NAlice \in Nat
  /\ Listens \in Nat \ {0} /\ MaxEvents \in Nat

Recorder == 1 .. NRecorder
Alice == NRecorder + 1 .. NRecorder + NAlice
Turns == Recorder \cup Alice
NoTurn == 0
NoQuestion == [turn |-> NoTurn, depth |-> 0]
Heard == [times |-> 0, skewed |-> FALSE]
Silence == [asks |-> FALSE, resolves |-> FALSE]

VARIABLES
  generation,  \* table generations
  results,     \* table results: its generation (0: no row), the saved answer, history_committed
  questions,   \* table questions, by the turn that asked: depth and status
  context,     \* knowledge-context.json, the part pending_clarification
  proposal,    \* knowledge-proposal.json
  receipt,     \* of the writer: "none", "done", or "review", after which a repeated turn publishes again
  turn,        \* "new", "queued", "done" or "lost"
  current,     \* who has the context's lock
  step,        \* where _process stands
  answer,      \* what the process has in memory: the model's answer, its generation
  history,     \* ghost: for each turn the generation whose history its answer was given with
  listening,   \* ghost: how often in a row the recorder listened again, and whether meanwhile a
               \* repeated turn asked with a question that was no longer the pending one
  events

sessionVars ==
  <<generation, results, questions, context, proposal, receipt, turn, current, step, answer, history,
    listening, events>>

NoAnswer == [said |-> Silence, generation |-> 0]
NoRow == [generation |-> 0, saved |-> FALSE, said |-> Silence, committed |-> FALSE]

Init ==
  /\ generation = 1
  /\ results = [t \in Turns |-> NoRow]
  /\ questions = [t \in Turns |-> [depth |-> 0, status |-> "none"]]
  /\ context = [t \in Turns |-> [saved |-> FALSE, pending |-> NoQuestion]]
  /\ proposal = [t \in Turns |-> [saved |-> FALSE, said |-> Silence]]
  /\ receipt = [t \in Turns |-> "none"]
  /\ turn = [t \in Turns |-> "new"]
  /\ current = NoTurn
  /\ step = "idle"
  /\ answer = NoAnswer
  /\ history = [t \in Turns |-> 0]
  /\ listening = Heard
  /\ events = 0

-----------------------------------------------------------------------------
(* DialogueStore.pending: the newest pending question.  There is at most   *)
(* one (OneQuestion).                                                      *)
Asked == {t \in Turns : questions[t].status = "pending"}
Pending ==
  IF Asked = {} THEN NoQuestion
  ELSE LET t == CHOOSE u \in Asked : TRUE IN [turn |-> t, depth |-> questions[t].depth]

(* A turn is accepted, then takes the lock of its context.  The recorder   *)
(* has one turn at a time.                                                 *)
Say(t) ==
  /\ turn[t] = "new"
  /\ t - 1 \in Recorder /\ t \in Recorder => turn[t - 1] \in {"done", "lost"}
  /\ t - 1 \in Alice => turn[t - 1] # "new"
  /\ turn' = [turn EXCEPT ![t] = "queued"]
  /\ UNCHANGED <<generation, results, questions, context, proposal, receipt, current, step, answer, history,
                 listening, events>>

Take(t) ==
  /\ current = NoTurn /\ turn[t] = "queued"
  /\ current' = t /\ step' = "context"
  /\ UNCHANGED <<generation, results, questions, context, proposal, receipt, turn, answer, history, listening, events>>

(* The exact input of the model is kept for retries, the question that     *)
(* waits included.                                                         *)
SaveContext ==
  /\ step = "context"
  /\ context' = IF context[current].saved THEN context
                ELSE [context EXCEPT ![current] = [saved |-> TRUE, pending |-> Pending]]
  /\ step' = CASE receipt[current] = "done" -> "apply"
               [] receipt[current] # "done" /\ proposal[current].saved -> "publish"
               [] OTHER -> "begin"
  /\ answer' = [answer EXCEPT !.said = proposal[current].said]
  /\ UNCHANGED <<generation, results, questions, proposal, receipt, turn, current, history, listening, events>>

(* AgentSessionStore.begin: a result of this generation is used again, any *)
(* other row is replaced.  The history of the generation is read next.     *)
Cached(t) == results[t].generation = generation /\ results[t].saved
BeginWithOldAnswer ==  \* mutant: a saved result is used whatever its generation
  /\ step = "begin"
  /\ results' = [results EXCEPT ![current].generation = generation]
  /\ history' = [history EXCEPT ![current] = IF results[current].saved THEN @ ELSE generation]
  /\ answer' = [said |-> results[current].said, generation |-> generation]
  /\ step' = IF results[current].saved THEN "propose" ELSE "model"
  /\ UNCHANGED <<generation, questions, context, proposal, receipt, turn, current, listening, events>>
Begin ==
  /\ step = "begin"
  /\ IF Cached(current)
     THEN /\ answer' = [said |-> results[current].said, generation |-> generation]
          /\ step' = "propose"
          /\ UNCHANGED <<results, history>>
     ELSE /\ results' = [results EXCEPT ![current] = [NoRow EXCEPT !.generation = generation]]
          /\ history' = [history EXCEPT ![current] = generation]
          /\ answer' = [said |-> Silence, generation |-> generation]
          /\ step' = "model"
  /\ UNCHANGED <<generation, questions, context, proposal, receipt, turn, current, listening, events>>

(* The model answers; save_result keeps it unless a new talk has begun.    *)
Model(said) ==
  /\ step = "model"
  /\ said.resolves => context[current].pending # NoQuestion
  /\ answer' = [answer EXCEPT !.said = said]
  /\ results' = IF generation = answer.generation /\ results[current].generation = generation
                THEN [results EXCEPT ![current].saved = TRUE, ![current].said = said] ELSE results
  /\ step' = "propose"
  /\ UNCHANGED <<generation, questions, context, proposal, receipt, turn, current, history, listening, events>>

Propose ==
  /\ step = "propose"
  /\ proposal' = [proposal EXCEPT ![current] = [saved |-> TRUE, said |-> answer.said]]
  /\ step' = "publish"
  /\ UNCHANGED <<generation, results, questions, context, receipt, turn, current, answer, history, listening, events>>

(* publish: the writer's own module is TextTurns.                          *)
Publish ==
  /\ step = "publish"
  /\ \E r \in {"done", "review"} : receipt' = [receipt EXCEPT ![current] = r]
  /\ step' = "apply"
  /\ UNCHANGED <<generation, results, questions, context, proposal, turn, current, answer, history, listening, events>>

-----------------------------------------------------------------------------
(* DialogueStore.apply: a question is asked once for its source; an answer *)
(* closes the question that it was given with, a new question any other.   *)
Depth(pending) == pending.depth + 1
Resolved(q, pending) ==
  IF answer.said.resolves /\ q[pending.turn].status = "pending"
  THEN [q EXCEPT ![pending.turn].status = "answered"] ELSE q
Superseded(q) == [t \in Turns |-> IF q[t].status = "pending" THEN [q[t] EXCEPT !.status = "superseded"] ELSE q[t]]
Applied ==
  LET pending == context[current].pending
      closed == Resolved(questions, pending)
  IN IF questions[current].status # "none" THEN questions
     ELSE IF answer.said.asks
     THEN [Superseded(closed) EXCEPT ![current] = [depth |-> Depth(pending), status |-> "pending"]]
     ELSE closed

Apply ==
  /\ step = "apply"
  /\ questions' = IF receipt[current] = "review" THEN questions ELSE Applied
  /\ step' = "record"
  /\ listening' = IF \A t \in Turns : questions'[t].status # "pending" THEN Heard
                  ELSE [listening EXCEPT !.skewed = @ \/ (answer.said.asks /\ context[current].pending # Pending)]
  /\ UNCHANGED <<generation, results, context, proposal, receipt, turn, current, answer, history, events>>

(* AgentSessionStore.record_turn, and the end of the turn.  The recorder   *)
(* listens again after a question of its own (pipeline.py): the first few  *)
(* in a row, while the question still waits.                               *)
Recordable(t) ==
  receipt[t] = "done" /\ results[t].generation # 0 /\ results[t].generation = generation
ListensAgain ==
  /\ receipt[current] = "done" /\ questions[current].status = "pending"
  /\ questions[current].depth <= Listens
Record ==
  /\ step = "record"
  /\ results' = IF Recordable(current) THEN [results EXCEPT ![current].committed = TRUE] ELSE results
  /\ turn' = [turn EXCEPT ![current] = "done"]
  /\ listening' = IF current \in Alice THEN listening
                  ELSE IF ListensAgain THEN [listening EXCEPT !.times = @ + 1] ELSE Heard
  /\ answer' = NoAnswer
  /\ current' = NoTurn /\ step' = "idle"
  /\ UNCHANGED <<generation, questions, context, proposal, receipt, history, events>>

-----------------------------------------------------------------------------
(* The owner starts a new talk: refused while the recorder has a turn.     *)
Goes == events < MaxEvents /\ events' = events + 1
Busy == \E t \in Recorder : turn[t] = "queued"
Reset == [t \in Turns |-> IF questions[t].status = "pending" THEN [questions[t] EXCEPT !.status = "reset"] ELSE questions[t]]
NewTalk ==
  /\ ~Busy
  /\ generation' = generation + 1
  /\ questions' = Reset
  /\ listening' = Heard
  /\ Goes
  /\ UNCHANGED <<results, context, proposal, receipt, turn, current, step, answer, history>>

(* The process ends between the two stores: the question goes on waiting.  *)
NewTalkHalf ==
  /\ ~Busy
  /\ generation' = generation + 1
  /\ listening' = Heard
  /\ current' = NoTurn /\ step' = "idle" /\ answer' = NoAnswer
  /\ Goes
  /\ UNCHANGED <<results, questions, context, proposal, receipt, turn, history>>

(* A quarter of an hour after it was asked nobody waits for an answer.     *)
Expire ==
  /\ Asked # {} /\ Goes
  /\ questions' = [t \in Turns |-> IF t \in Asked THEN [questions[t] EXCEPT !.status = "expired"] ELSE questions[t]]
  /\ listening' = Heard
  /\ UNCHANGED <<generation, results, context, proposal, receipt, turn, current, step, answer, history>>

(* The deadline, or an error of the model, ends a turn of either kind; the *)
(* thread that publishes goes on.                                          *)
Fail ==
  /\ current # NoTurn /\ Goes
  /\ turn' = [turn EXCEPT ![current] = "lost"]
  /\ receipt' \in {receipt} \cup (IF step = "publish" THEN {[receipt EXCEPT ![current] = "done"]} ELSE {})
  /\ listening' = IF current \in Recorder THEN Heard ELSE listening
  /\ current' = NoTurn /\ step' = "idle" /\ answer' = NoAnswer
  /\ UNCHANGED <<generation, results, questions, context, proposal, history>>

(* The recorder's turn that its worker had begun, though it may have waited *)
(* for the lock, is interrupted.                                           *)
Restart ==
  /\ Goes
  /\ \E lost \in SUBSET {t \in Recorder : turn[t] = "queued"} :
       /\ Cardinality(lost) <= 1 /\ (current \in Recorder => current \in lost)
       /\ turn' = [t \in Turns |-> IF t \in lost THEN "lost" ELSE turn[t]]
  /\ listening' = IF current \in Recorder THEN Heard ELSE listening
  /\ current' = NoTurn /\ step' = "idle"
  /\ answer' = NoAnswer
  /\ UNCHANGED <<generation, results, questions, context, proposal, receipt, history>>

Next ==
  \/ \E t \in Turns : Say(t) \/ Take(t)
  \/ SaveContext \/ Begin \/ Propose \/ Publish \/ Apply \/ Record \/ Fail \/ Expire \/ Restart
  \/ \E asks, resolves \in BOOLEAN : Model([asks |-> asks, resolves |-> resolves])
  \/ NewTalk \/ NewTalkHalf

Spec == Init /\ [][Next]_sessionVars

-----------------------------------------------------------------------------
TypeOK ==
  /\ generation \in 1 .. MaxEvents + 1
  /\ results \in [Turns -> [generation : 0 .. MaxEvents + 1, saved : BOOLEAN, committed : BOOLEAN,
                            said : [asks : BOOLEAN, resolves : BOOLEAN]]]
  /\ \A t \in Turns :
       /\ questions[t].depth \in 0 .. NRecorder + NAlice
       /\ questions[t].status \in {"none", "pending", "answered", "superseded", "expired", "reset"}
       /\ context[t].pending.turn \in Turns \cup {NoTurn}
       /\ receipt[t] \in {"none", "done", "review"} /\ turn[t] \in {"new", "queued", "done", "lost"}
  /\ current \in Turns \cup {NoTurn}
  /\ (current = NoTurn) = (step = "idle")

(* At most one question waits for an answer, the one asked last.           *)
OneQuestion == Cardinality(Asked) <= 1

(* voice-knowledge.md: what is left of an older talk does not add to the   *)
(* history of a new one.  It speaks of answers: a turn whose answer was    *)
(* given with the old history stays out, whenever it is completed.         *)
HistoryIsOfThisTalk ==
  \A t \in Turns : results[t].committed /\ results[t].generation = generation => history[t] = generation

(* protocol.md: after three questions in a row the recorder listens no     *)
(* more by itself.  Not when a repeated turn of Alice meanwhile asked: it  *)
(* counts from the question that was saved with its context, which may be  *)
(* one that was answered long ago.                                         *)
ListensEnd == listening.skewed \/ listening.times <= Listens

(* A question that was told is the one in the journal: it is never asked   *)
(* again for its turn, and an answered one never waits again.              *)
QuestionsStand ==
  [][\A t \in Turns : questions[t].status # "none" =>
       /\ questions'[t].depth = questions[t].depth
       /\ questions[t].status # "pending" => questions'[t] = questions[t]]_sessionVars
=============================================================================
