---------------------------- MODULE TextTurns_proofs ----------------------------
(***************************************************************************)
(* Proofs about TextTurns for any turns, edits and number of restarts: no  *)
(* interleaving of writer, publisher, people, new talks, failures and      *)
(* crashes loses an edit or a published note, and an answer is true of the *)
(* journal.                                                                *)
(***************************************************************************)
EXTENDS TextTurns, FiniteSetTheorems, WellFoundedInduction, TLAPS

-----------------------------------------------------------------------------
(* The inductive invariant, in parts.                                      *)

(* Who holds the lock is at work, and nobody works while the gateway is    *)
(* down but the replay.                                                    *)
HolderInv ==
  /\ lock = "store" <=> applying.turn # NoOne
  /\ lock = "git" <=> git.at # "idle"
  /\ git.at = "idle" => git = NoRun
  /\ lock = "git" => up
  /\ applying.turn = NoOne => applying = NotApplying
  /\ applying.checked => applying.at \in 1 .. 2
ThreadInv ==
  /\ ~up => \A t \in Turns : thread[t] = "none" /\ ~Active(t)
  /\ \A t \in Turns : thread[t] = "applying" <=> up /\ applying.turn = t
  /\ \A t \in Turns : thread[t] # "none" => pc[t] \in {"publish", "failed"}
LockInv == HolderInv /\ ThreadInv

(* A journal entry adds its turn to the pages; one at most is pending, it  *)
(* is the one being applied, and no other entry and nothing the publisher  *)
(* has knows of it.                                                        *)
EntryInv ==
  /\ \A t \in Turns : journal[t].kind = "none" <=> journal[t].status = "none"
  /\ \A t \in Turns : journal[t].kind = "query" => journal[t].status = "done"
  /\ \A t \in Turns : journal[t].kind = "amend" =>
       journal[t].at >= 1 /\ \A p \in Pages : journal[t].after[p] = journal[t].before[p] \union {t}
  /\ \A t \in Turns : journal[t].kind # "amend" =>
       \A p \in Pages : journal[t].after[p] = {}
  /\ \A t, u \in Pending : t = u
  /\ applying.turn # NoOne => applying.turn \in Pending
  /\ \A t \in Pending, p \in Pages : journal[t].before[p] \subseteq work[p]

(* A turn that has no entry is nowhere; a pending one is only in the vault.*)
Unknown(t) == \A p \in Pages : t \notin head[p] /\ t \notin remote[p]
                               /\ \A u \in Turns : u # t => t \notin journal[u].after[p]
AbsentInv ==
  /\ \A t \in Turns : journal[t].kind # "amend" => Unknown(t) /\ \A p \in Pages : t \notin work[p]
  /\ \A t \in Pending : Unknown(t)

(* What is in one page of a publication is in all of them, or its entry is *)
(* not done; and the vault has whatever its HEAD has.                      *)
Whole(pages) ==
  \A t \in Turns : (\E p \in Pages : t \in pages[p]) =>
    (\A p \in Pages : t \in pages[p]) \/ journal[t].status \in {"pending", "conflict"}
WholeInv ==
  /\ Whole(work) /\ Whole(head) /\ Whole(remote)
  /\ \A p \in Pages : head[p] \subseteq work[p]

(* How far the entry being applied is.                                     *)
Checked(t, p) ==
  /\ head[p] \subseteq journal[t].before[p]
  /\ \A u \in Turns : u \in work[p] => u \in journal[t].before[p]
  /\ \A e \in Edits : placed[e].side = "work" /\ placed[e].page = p => e \in journal[t].before[p]
ApplyInv ==
  applying.turn # NoOne =>
    /\ \A i \in 1 .. 2 : i < applying.at => applying.turn \in work[Order[i]]
    /\ applying.checked => Checked(applying.turn, Order[applying.at])
    /\ applying.at = 4 => applying.turn \in outbox

(* A pending entry that nobody applies is stuck: a page has what neither   *)
(* image of it has.  A turn that was told to review it has one.            *)
Stuck(t) == \E p \in Pages : ~(work[p] \subseteq journal[t].after[p])
StuckInv ==
  /\ up => \A t \in Pending : t # applying.turn => Stuck(t)
  /\ \A t \in Pending : pc[t] \in {"rejected", "review"} =>
       Stuck(t) /\ (t = applying.turn => applying.at = 0)

(* Tasks are of entries whose files are all there, and so are those that   *)
(* the run in progress works on, then in HEAD and in origin.               *)
OutboxInv ==
  /\ \A t \in outbox : journal[t].kind = "amend" /\ \A p \in Pages : t \in work[p]
  /\ \A t \in outbox : up /\ t \in Pending => applying.turn = t /\ applying.at = 4
RunInv ==
  /\ git.tasks \subseteq outbox
  /\ git.at \in {"verify", "commit", "push", "unlink"} => git.tasks # {}
  /\ git.at = "commit" => \A t \in Pending, p \in Pages : t \notin work[p]
  /\ git.at \in {"refresh", "push", "unlink"} => \A t \in git.tasks, p \in Pages : t \in head[p]
  /\ git.at = "unlink" => \A t \in git.tasks, p \in Pages : t \in remote[p]
TaskInv == OutboxInv /\ RunInv

(* The model is asked while nothing is proposed; what it answers is the    *)
(* result of its talk, as long as that goes on, and becomes the proposal;  *)
(* the journal has what was proposed.                                      *)
DecisionInv ==
  \A t \in Turns :
    /\ pc[t] \in {"think", "model"} => proposal[t] = "none"
    /\ pc[t] = "model" => result[t] = "none"
    /\ pc[t] = "propose" /\ proposal[t] = "none" => answer[t] # "none" /\ result[t] \in {"none", answer[t]}
    /\ thread[t] = "called" => proposal[t] # "none"
    /\ proposal[t] # "none" => result[t] \in {"none", proposal[t]}
    /\ journal[t].kind # "none" => journal[t].kind = proposal[t]
(* What a turn is told is what the journal has of it.                      *)
AnswerInv ==
  \A t \in Turns :
    /\ t \in told => journal[t].status = "done"
    /\ pc[t] \in {"record", "answered"} => journal[t].status = "done"
    /\ pc[t] = "answered" => t \in told \/ t \notin thisTalk
    /\ pc[t] \in {"rejected", "review"} => journal[t].status # "done" /\ thread[t] = "none"
    /\ pc[t] = "review" => t \in reviews

IInv ==
  /\ TypeOK /\ LockInv /\ EntryInv /\ AbsentInv /\ WholeInv /\ ApplyInv /\ StuckInv /\ TaskInv
  /\ DecisionInv /\ AnswerInv /\ DoneIsDelivered /\ EditsKept

-----------------------------------------------------------------------------
(* The steps of Next, with the outcomes of publish() and the steps of the  *)
(* application named one by one.                                           *)
PublishUnchanged ==
  UNCHANGED <<up, restarts, context, thisTalk, result, answer, talks, proposal, told, reviews,
              outbox, work, gitVars, placed>>
Decided(t) ==
  /\ thread[t] = "called" /\ lock = "free" /\ Recovered[t].status # "none"
  /\ Return(t, IF Recovered[t].status = "done" THEN "record" ELSE "rejected")
  /\ journal' = Recovered /\ UNCHANGED <<applying, lock>> /\ PublishUnchanged
Queried(t) ==
  /\ thread[t] = "called" /\ lock = "free" /\ Recovered[t].status = "none" /\ proposal[t] = "query"
  /\ journal' = [Recovered EXCEPT ![t] = [NoEntry EXCEPT !.status = "done", !.kind = "query"]]
  /\ Return(t, "record") /\ UNCHANGED <<applying, lock>> /\ PublishUnchanged
Refused(t) ==
  /\ thread[t] = "called" /\ lock = "free" /\ Recovered[t].status = "none"
  /\ Return(t, "rejected") /\ journal' = Recovered /\ UNCHANGED <<applying, lock>> /\ PublishUnchanged
Inserted(t) ==
  /\ thread[t] = "called" /\ lock = "free" /\ Recovered[t].status = "none" /\ proposal[t] # "query"
  /\ Insert(t) /\ PublishUnchanged

Applying ==
  /\ applying.turn # NoOne
  /\ UNCHANGED <<up, restarts, context, thisTalk, result, answer, talks, proposal, told, reviews, gitVars, placed>>
Advances ==
  /\ Applying
  /\ \/ applying.at = 0 /\ Matches(applying.turn)
     \/ /\ applying.at \in 1 .. 2 /\ ~applying.checked
        /\ work[Order[applying.at]] = journal[applying.turn].after[Order[applying.at]]
  /\ Advance /\ UNCHANGED <<outbox, work>>
GivesUp ==
  /\ Applying
  /\ \/ applying.at = 0 /\ ~Matches(applying.turn)
     \/ /\ applying.at \in 1 .. 2 /\ ~applying.checked
        /\ work[Order[applying.at]] # journal[applying.turn].after[Order[applying.at]]
        /\ work[Order[applying.at]] # journal[applying.turn].before[Order[applying.at]]
  /\ GiveUp
Checks ==
  /\ Applying
  /\ applying.at \in 1 .. 2 /\ ~applying.checked
  /\ work[Order[applying.at]] = journal[applying.turn].before[Order[applying.at]]
  /\ applying' = [applying EXCEPT !.checked = TRUE]
  /\ UNCHANGED <<pc, journal, lock, thread, outbox, work>>

(* The model is asked, or has answered: all the journal's side sees of it. *)
Asks(t) == Ask(t) \/ Answer(t)
Thinks(t) ==
  /\ pc[t] \in {"think", "model"} /\ \E where \in {"model", "propose"} : Goto(t, where)
  /\ told' \in {told, told \ {t}}
  /\ UNCHANGED <<up, restarts, thread, context, talks, proposal, reviews,
                 journal, applying, lock, outbox, work, gitVars, placed>>
(* At most a new talk begins.                                              *)
Rests ==
  /\ thisTalk' \in {thisTalk, {}} /\ talks' \in {talks, talks + 1}
  /\ UNCHANGED <<up, restarts, pc, thread, context, result, answer, proposal, told, reviews,
                 journal, applying, lock, outbox, work, gitVars, placed>>

LEMMA AsksThinks ==
  ASSUME NEW t \in Turns, Asks(t)
  PROVE  Thinks(t)
BY DEF Asks, Ask, Answer, Thinks

LEMMA NextCases ==
  ASSUME [Next]_vars
  PROVE  \/ \E t \in Turns : \/ Begin(t) \/ Read(t) \/ Asks(t) \/ Propose(t)
                             \/ Decided(t) \/ Queried(t) \/ Refused(t) \/ Inserted(t)
                             \/ Review(t) \/ Record(t) \/ Fail(t)
         \/ Advances \/ GivesUp \/ Checks
         \/ Applying /\ (Write \/ WriteTask \/ Commit)
         \/ \E caller \in Turns \union {NoOne} : Run(caller)
         \/ GitUnchanged /\ (Verify \/ CommitPages \/ Refresh \/ Push \/ NetworkFails \/ Unlink)
         \/ \E e \in Edits, p \in Pages : Edit(e, p)
         \/ Crash \/ Start \/ Rests
<1>1. ASSUME NEW t \in Turns, Publish(t)
      PROVE  Decided(t) \/ Queried(t) \/ Refused(t) \/ Inserted(t)
  BY <1>1 DEF Publish, Decided, Queried, Refused, Inserted, PublishUnchanged, talk
<1>2. ASSUME ApplyStep
      PROVE  \/ Advances \/ GivesUp \/ Checks
             \/ Applying /\ (Write \/ WriteTask \/ Commit)
  <2>1. CASE Preflight
    BY <1>2, <2>1 DEF ApplyStep, Applying, Preflight, Advances, GivesUp, talk
  <2>2. CASE Check
    BY <1>2, <2>2 DEF ApplyStep, Applying, Check, Advances, GivesUp, Checks, talk
  <2>3. Applying /\ (Preflight \/ Check \/ Write \/ WriteTask \/ Commit)
    BY <1>2 DEF ApplyStep, Applying, talk
  <2>4. QED
    BY <2>1, <2>2, <2>3
<1>3. NewTalk \/ UNCHANGED vars => Rests
  BY DEF NewTalk, Rests, vars, turnVars, talk
<1>4. QED
  BY <1>1, <1>2, <1>3 DEF Next, TurnStep, GitStep, Asks

-----------------------------------------------------------------------------
LEMMA OrderPages ==
  /\ \A i \in 1 .. 2 : Order[i] \in Pages
  /\ \A p \in Pages : \E i \in 1 .. 2 : p = Order[i]
BY DEF Order, Pages

LEMMA JournalTypes ==
  ASSUME TypeOK
  PROVE  \A t \in Turns :
           /\ journal[t] \in Entry
           /\ journal[t].status \in {"none", "pending", "done", "conflict"}
           /\ journal[t].kind \in Decisions \union {"none"}
           /\ journal[t].at \in 0 .. Cardinality(Turns)
           /\ \A p \in Pages : journal[t].before[p] \subseteq Turns \union Edits
           /\ \A p \in Pages : journal[t].after[p] \subseteq Turns \union Edits
<1>1. journal \in [Turns -> Entry]
  BY DEF TypeOK
<1>2. \A t \in Turns : journal[t] \in Entry
  BY <1>1
<1>3. QED
  BY <1>2 DEF Entry, Contents

(* A page that is neither image of a pending entry has something that      *)
(* neither has, and keeps it.                                              *)
LEMMA MismatchIsStuck ==
  ASSUME TypeOK, EntryInv, NEW t \in Pending, NEW p \in Pages,
         work[p] # journal[t].before[p], work[p] # journal[t].after[p]
  PROVE  Stuck(t)
<1>1. t \in Turns /\ journal[t].kind = "amend"
  BY JournalTypes DEF Pending, EntryInv, Decisions
<1>2. journal[t].after[p] = journal[t].before[p] \union {t} /\ journal[t].before[p] \subseteq work[p]
  BY <1>1 DEF EntryInv
<1>3. QED
  BY <1>2 DEF Stuck

LEMMA StuckMismatches ==
  ASSUME TypeOK, EntryInv, NEW t \in Pending, Stuck(t)
  PROVE  ~Matches(t)
<1>1. t \in Turns /\ journal[t].kind = "amend"
  BY JournalTypes DEF Pending, EntryInv, Decisions
<1>2. PICK p \in Pages : ~(work[p] \subseteq journal[t].after[p])
  BY DEF Stuck
<1>3. journal[t].after[p] = journal[t].before[p] \union {t}
  BY <1>1 DEF EntryInv
<1>4. QED
  BY <1>2, <1>3 DEF Matches

(* What _recover leaves: nothing is pending.                               *)
LEMMA RecoveredIs ==
  ASSUME TypeOK, LockInv, EntryInv, StuckInv, up, lock = "free"
  PROVE  /\ Recovered \in [Turns -> Entry]
         /\ \A t \in Turns :
              /\ Recovered[t].kind = journal[t].kind /\ Recovered[t].at = journal[t].at
              /\ Recovered[t].before = journal[t].before /\ Recovered[t].after = journal[t].after
              /\ Recovered[t].status = IF t \in Pending THEN "conflict" ELSE journal[t].status
              /\ Recovered[t].status # "pending"
<1>1. \A t \in Pending : t \in Turns /\ ~Matches(t)
  <2>1. applying.turn = NoOne
    BY DEF LockInv, HolderInv
  <2>2. \A t \in Pending : t \in Turns /\ Stuck(t)
    BY <2>1, TurnsAssumption DEF StuckInv, Pending
  <2>3. QED
    BY <2>2, StuckMismatches
<1>2. ASSUME NEW t \in Turns
      PROVE  /\ Recovered[t] = IF t \in Pending THEN [journal[t] EXCEPT !.status = "conflict"] ELSE journal[t]
             /\ Recovered[t] \in Entry
  BY <1>1, JournalTypes DEF Recovered, Entry
<1>3. \A t \in Turns : journal[t] \in Entry
  BY JournalTypes
<1>4. Recovered \in [Turns -> Entry]
  BY <1>2 DEF Recovered
<1>5. QED
  BY <1>2, <1>3, <1>4 DEF Entry, Pending

(* What a new status of an entry changes.                                  *)
LEMMA StatusSet ==
  ASSUME TypeOK, NEW t \in Turns, NEW status \in {"none", "pending", "done", "conflict"},
         journal' = [journal EXCEPT ![t].status = status]
  PROVE  /\ journal' \in [Turns -> Entry] /\ journal'[t].status = status
         /\ \A u \in Turns : u # t => journal'[u] = journal[u]
         /\ \A u \in Turns : /\ journal'[u].kind = journal[u].kind /\ journal'[u].at = journal[u].at
                             /\ journal'[u].before = journal[u].before /\ journal'[u].after = journal[u].after
<1>1. journal \in [Turns -> Entry] /\ journal[t] \in Entry
  BY JournalTypes DEF TypeOK
<1>2. [journal[t] EXCEPT !.status = status] \in Entry
  BY <1>1 DEF Entry
<1>3. journal' = [journal EXCEPT ![t] = [journal[t] EXCEPT !.status = status]]
  BY <1>1
<1>4. journal' \in [Turns -> Entry]
  BY <1>1, <1>2, <1>3
<1>5. QED
  BY <1>1, <1>3, <1>4 DEF Entry

-----------------------------------------------------------------------------
(* The type invariant in parts.                                            *)
Places == {"accepted", "refresh", "read", "think", "model", "propose", "publish", "rejected", "record",
           "answered", "review", "failed"}
PcType == pc \in [Turns -> Places]
ThreadType == thread \in [Turns -> {"none", "called", "applying"}]
TurnType ==
  /\ up \in BOOLEAN /\ restarts \in 0 .. MaxRestarts
  /\ context \in [Turns -> Contents \union {Unread}]
  /\ result \in [Turns -> Decisions \union {"none"}] /\ proposal \in [Turns -> Decisions \union {"none"}]
  /\ thisTalk \subseteq Turns /\ talks \in Nat /\ answer \in [Turns -> Decisions \union {"none"}]
  /\ told \subseteq Turns /\ reviews \subseteq Turns
JournalType == journal \in [Turns -> Entry]
ApplyingType == applying \in [turn: Turns \union {NoOne}, at: 0 .. 4, checked: BOOLEAN]
LockType == lock \in {"free", "git", "store"}
VaultType == outbox \subseteq Turns /\ work \in [Pages -> Contents]
HeadType == head \in [Pages -> Contents]
RemoteType == remote \in [Pages -> Contents]
GitType == git \in [at: {"idle", "verify", "commit", "refresh", "push", "unlink"},
                    tasks: SUBSET Turns, caller: Turns \union {NoOne}]
PlacedType == placed \in [Edits -> [side: {"none", "work", "window", "remote"}, page: Pages]]

LEMMA TypeParts ==
  TypeOK <=> /\ PcType /\ ThreadType /\ TurnType /\ JournalType /\ ApplyingType /\ LockType
             /\ VaultType /\ HeadType /\ RemoteType /\ GitType /\ PlacedType
BY DEF TypeOK, PcType, Places, ThreadType, TurnType, JournalType, ApplyingType, LockType, VaultType,
       HeadType, RemoteType, GitType, PlacedType

LEMMA TypeParts1 ==
  ASSUME PcType', ThreadType', TurnType', JournalType', ApplyingType', LockType',
         VaultType', HeadType', RemoteType', GitType', PlacedType'
  PROVE  TypeOK'
BY DEF TypeOK, PcType, Places, ThreadType, TurnType, JournalType, ApplyingType, LockType, VaultType,
       HeadType, RemoteType, GitType, PlacedType

(* A page or a set of pages that grows by something of its kind.           *)
LEMMA ReturnTypes ==
  ASSUME PcType, ThreadType, NEW t \in Turns, NEW where \in Places, Return(t, where)
  PROVE  PcType' /\ ThreadType'
BY DEF PcType, ThreadType, Return, Goto

LEMMA EndsTypes ==
  ASSUME PcType, GitType, NEW ok, Ends(ok)
  PROVE  PcType' /\ GitType' /\ LockType'
<1>1. git.caller \in Turns \union {NoOne}
  BY DEF GitType
<1>2. PcType'
  BY <1>1 DEF PcType, Ends, Goto, Places
<1>3. QED
  BY <1>2 DEF Ends, GitType, LockType, NoRun

LEMMA RunGoesToTypes ==
  ASSUME PcType, GitType, LockType, NEW where \in {"commit", "refresh", "push", "unlink"}, RunGoesTo(where)
  PROVE  PcType' /\ GitType' /\ LockType'
BY DEF PcType, GitType, LockType, RunGoesTo

LEMMA AdvanceTypes ==
  ASSUME PcType, ThreadType, JournalType, ApplyingType, LockType, applying.at \in 0 .. 3, Advance
  PROVE  PcType' /\ ThreadType' /\ JournalType' /\ ApplyingType' /\ LockType'
<1>1. applying' = [turn |-> applying.turn, at |-> applying.at + 1, checked |-> FALSE]
  BY DEF Advance, ApplyingType
<1>2. ApplyingType'
  BY <1>1 DEF ApplyingType
<1>3. QED
  BY <1>2 DEF PcType, ThreadType, JournalType, LockType, Advance

LEMMA NotApplyingType == NotApplying \in [turn: Turns \union {NoOne}, at: 0 .. 4, checked: BOOLEAN]
BY DEF NotApplying

LEMMA NoEntryType == NoEntry \in Entry /\ [NoEntry EXCEPT !.status = "done", !.kind = "query"] \in Entry
<1>1. [p \in Pages |-> {}] \in [Pages -> Contents] /\ Cardinality(Turns) \in Nat
  BY TurnsAssumption, FS_CardinalityType DEF Contents
<1>2. NoEntry \in Entry
  BY <1>1 DEF NoEntry, Entry
<1>3. QED
  BY <1>2 DEF Entry, Decisions

LEMMA ActiveIsUp ==
  ASSUME ThreadInv, NEW t \in Turns, Active(t)
  PROVE  up
BY DEF ThreadInv

(* Every step keeps the types.                                             *)
LEMMA TypeOKStep ==
  ASSUME TypeOK, LockInv, EntryInv, StuckInv, [Next]_vars
  PROVE  TypeOK'
<1>1. ASSUME NEW t \in Turns, Begin(t) PROVE TypeOK'
  <2>1. JournalType'
    <3>1. journal' = Recovered /\ up /\ lock = "free"
      BY <1>1, ActiveIsUp DEF Begin, Active, LockInv
    <3>2. QED
      BY <3>1, RecoveredIs DEF JournalType
  <2>2. QED
    BY <1>1, <2>1, TypeParts, TypeParts1 DEF Begin, Goto, Places, PcType, ThreadType,
       TurnType, ApplyingType, LockType, VaultType, HeadType, RemoteType, GitType,
       PlacedType, turnVars, talk, gitVars
<1>2. ASSUME NEW t \in Turns, Read(t) PROVE TypeOK'
  <2>1. JournalType'
    <3>1. journal' = Recovered /\ up /\ lock = "free"
      BY <1>2, ActiveIsUp DEF Read, Active, LockInv
    <3>2. QED
      BY <3>1, RecoveredIs DEF JournalType
  <2>2. PcType' /\ TurnType'
    BY <1>2, TypeParts DEF Read, talk, Goto, PcType, Places, TurnType, VaultType, Pages
  <2>3. QED
    BY <1>2, <2>1, <2>2, TypeParts, TypeParts1 DEF Read, ThreadType, ApplyingType,
       LockType, VaultType, HeadType, RemoteType, GitType, PlacedType, turnVars, talk,
       gitVars
<1>3. ASSUME NEW t \in Turns, Asks(t) PROVE TypeOK'
  <2>1. PcType'
    BY <1>3, AsksThinks, TypeParts DEF Thinks, Goto, PcType, Places
  <2>2. TurnType'
    <3>1. CASE Ask(t)
      BY <3>1, TypeParts DEF Ask, Unsaid, TurnType
    <3>2. CASE Answer(t)
      BY <3>2, TypeParts DEF Answer, TurnType
    <3>3. QED
      BY <1>3, <3>1, <3>2 DEF Asks
  <2>3. QED
    BY <1>3, <2>1, <2>2, AsksThinks, TypeParts, TypeParts1 DEF Thinks, ThreadType, JournalType,
       ApplyingType, LockType, VaultType, HeadType, RemoteType, GitType, PlacedType, gitVars
<1>4. ASSUME NEW t \in Turns, Propose(t) PROVE TypeOK'
  <2>1. PcType' /\ ThreadType'
    BY <1>4, TypeParts DEF Propose, Goto, PcType, Places, ThreadType
  <2>2. TurnType'
    BY <1>4, TypeParts DEF Propose, Forgotten, TurnType
  <2>3. QED
    BY <1>4, <2>1, <2>2, TypeParts, TypeParts1 DEF Propose, JournalType,
       ApplyingType, LockType, VaultType, HeadType, RemoteType, GitType, PlacedType, gitVars
<1>5. ASSUME NEW t \in Turns, Decided(t) PROVE TypeOK'
  <2>1. JournalType'
    <3>1. journal' = Recovered /\ up /\ lock = "free"
      BY <1>5 DEF Decided, LockInv, ThreadInv
    <3>2. QED
      BY <3>1, RecoveredIs DEF JournalType
  <2>2. PcType' /\ ThreadType'
    <3>1. \E where \in Places : Return(t, where)
      BY <1>5 DEF Decided, Places
    <3>2. QED
      BY <3>1, ReturnTypes, TypeParts
  <2>3. QED
    BY <1>5, <2>1, <2>2, TypeParts, TypeParts1 DEF Decided, PublishUnchanged,
       TurnType, ApplyingType, LockType, VaultType, HeadType, RemoteType, GitType,
       PlacedType, turnVars, talk, gitVars
<1>6. ASSUME NEW t \in Turns, Queried(t) PROVE TypeOK'
  <2>1. JournalType'
    <3>1. up /\ lock = "free"
      BY <1>6 DEF Queried, LockInv, ThreadInv
    <3>2. Recovered \in [Turns -> Entry]
      BY <3>1, RecoveredIs
    <3>3. QED
      BY <1>6, <3>2, NoEntryType DEF Queried, JournalType
  <2>2. PcType' /\ ThreadType'
    BY <1>6, ReturnTypes, TypeParts DEF Queried, Places
  <2>3. QED
    BY <1>6, <2>1, <2>2, TypeParts, TypeParts1 DEF Queried, PublishUnchanged,
       TurnType, ApplyingType, LockType, VaultType, HeadType, RemoteType, GitType,
       PlacedType, turnVars, talk, gitVars
<1>7. ASSUME NEW t \in Turns, Refused(t) PROVE TypeOK'
  <2>1. JournalType'
    <3>1. journal' = Recovered /\ up /\ lock = "free"
      BY <1>7 DEF Refused, LockInv, ThreadInv
    <3>2. QED
      BY <3>1, RecoveredIs DEF JournalType
  <2>2. PcType' /\ ThreadType'
    <3>1. \E where \in Places : Return(t, where)
      BY <1>7 DEF Refused, Places
    <3>2. QED
      BY <3>1, ReturnTypes, TypeParts
  <2>3. QED
    BY <1>7, <2>1, <2>2, TypeParts, TypeParts1 DEF Refused, PublishUnchanged,
       TurnType, ApplyingType, LockType, VaultType, HeadType, RemoteType, GitType,
       PlacedType, turnVars, talk, gitVars
<1>8. ASSUME NEW t \in Turns, Inserted(t) PROVE TypeOK'
  <2>1. JournalType'
    <3>1. up /\ lock = "free"
      BY <1>8 DEF Inserted, LockInv, ThreadInv
    <3>2. Recovered \in [Turns -> Entry] /\ Recovered[t].status = journal[t].status
      BY <1>8, <3>1, RecoveredIs DEF Inserted
    <3> DEFINE known == {u \in Turns : journal[u].status # "none"}
               entry == [status |-> "pending", kind |-> "amend", before |-> work,
                         after |-> [p \in Pages |-> work[p] \union {t}], at |-> Cardinality(known) + 1]
    <3>3. journal' = [Recovered EXCEPT ![t] = entry]
      BY <1>8 DEF Inserted, Insert
    <3>4. Cardinality(known) + 1 \in 0 .. Cardinality(Turns)
      <4>1. known \subseteq Turns \ {t}
        BY <1>8, <3>2 DEF Inserted
      <4>2. IsFiniteSet(Turns \ {t}) /\ Cardinality(Turns \ {t}) = Cardinality(Turns) - 1
        BY TurnsAssumption, FS_RemoveElement
      <4>3. Cardinality(known) <= Cardinality(Turns) - 1 /\ Cardinality(known) \in Nat
        BY <4>1, <4>2, FS_Subset, FS_CardinalityType
      <4>4. Cardinality(Turns) \in Nat
        BY TurnsAssumption, FS_CardinalityType
      <4>5. QED
        BY <4>3, <4>4
    <3>5. work \in [Pages -> Contents] /\ [p \in Pages |-> work[p] \union {t}] \in [Pages -> Contents]
      BY TypeParts DEF VaultType, Contents
    <3> HIDE DEF known
    <3>6. entry \in Entry
      BY <3>4, <3>5 DEF Entry, Decisions
    <3>7. QED
      BY <3>2, <3>3, <3>6 DEF JournalType
  <2>2. ApplyingType'
    <3>1. applying' = [turn |-> t, at |-> 0, checked |-> FALSE]
      BY <1>8 DEF Inserted, Insert, NotApplying
    <3>2. QED
      BY <3>1 DEF ApplyingType
  <2>3. PcType' /\ ThreadType' /\ LockType'
    BY <1>8, TypeParts DEF Inserted, Insert, PcType, ThreadType, LockType
  <2>4. QED
    BY <1>8, <2>1, <2>2, <2>3, TypeParts, TypeParts1 DEF Inserted, PublishUnchanged,
       TurnType, VaultType, HeadType, RemoteType, GitType, PlacedType, turnVars, talk,
       gitVars
<1>9. ASSUME NEW t \in Turns, Review(t) PROVE TypeOK'
  BY <1>9 DEF Review, Goto, TypeOK, turnVars, talk, gitVars
<1>10. ASSUME NEW t \in Turns, Record(t) PROVE TypeOK'
  BY <1>10 DEF Record, Goto, TypeOK, turnVars, talk, gitVars
<1>11. ASSUME NEW t \in Turns, Fail(t) PROVE TypeOK'
  <2>1. PcType' /\ TurnType'
    BY <1>11, TypeParts DEF Fail, Goto, PcType, Places, Forgotten, TurnType
  <2>2. QED
    BY <1>11, <2>1, TypeParts, TypeParts1 DEF Fail, ThreadType, JournalType,
       ApplyingType, LockType, VaultType, HeadType, RemoteType, GitType, PlacedType, gitVars
<1>12. CASE Advances
  <2>1. PcType' /\ ThreadType' /\ JournalType' /\ ApplyingType' /\ LockType'
    <3>1. applying.at \in 0 .. 3 /\ Advance
      BY <1>12 DEF Advances, Applying
    <3>2. QED
      BY <3>1, AdvanceTypes, TypeParts
  <2>2. QED
    BY <1>12, <2>1, TypeParts, TypeParts1 DEF Advances, Applying, TurnType, VaultType,
       HeadType, RemoteType, GitType, PlacedType, turnVars, talk, gitVars
<1>13. CASE GivesUp
  <2>1. applying.turn \in Turns /\ ApplyingType'
    BY <1>13, TypeParts, NotApplyingType DEF GivesUp, GiveUp, Applying, ApplyingType
  <2>2. JournalType'
    <3>1. UNCHANGED journal \/ journal' = [journal EXCEPT ![applying.turn].status = "conflict"]
      BY <1>13 DEF GivesUp, GiveUp
    <3>2. QED
      BY <2>1, <3>1, StatusSet, TypeParts DEF JournalType
  <2>3. PcType' /\ ThreadType'
    <3>1. UNCHANGED <<pc, thread>> \/ \E where \in Places : Return(applying.turn, where)
      BY <1>13 DEF GivesUp, GiveUp, Places
    <3>2. QED
      BY <2>1, <3>1, ReturnTypes, TypeParts DEF PcType, ThreadType
  <2>4. LockType'
    BY <1>13 DEF GivesUp, GiveUp, LockType
  <2>5. QED
    BY <1>13, <2>1, <2>2, <2>3, <2>4, TypeParts, TypeParts1 DEF GivesUp, GiveUp,
       Applying, TurnType, VaultType, HeadType, RemoteType, GitType, PlacedType,
       turnVars, talk, gitVars
<1>14. CASE Checks
  BY <1>14 DEF Checks, Applying, TypeOK, turnVars, talk, gitVars
<1>15. CASE Applying /\ Write
  <2>1. PcType' /\ ThreadType' /\ JournalType' /\ ApplyingType' /\ LockType'
    <3>1. applying.at \in 0 .. 3 /\ Advance
      BY <1>15 DEF Write, Applying
    <3>2. QED
      BY <3>1, AdvanceTypes, TypeParts
  <2>2. VaultType'
    <3>1. applying.turn \in Turns /\ Order[applying.at] \in Pages
      BY <1>15, TypeParts, OrderPages DEF Applying, Write, ApplyingType
    <3>2. journal[applying.turn].after[Order[applying.at]] \in Contents
      BY <3>1, JournalTypes DEF Contents
    <3>3. QED
      BY <1>15, <3>1, <3>2, TypeParts DEF Write, VaultType
  <2>3. QED
    BY <1>15, <2>1, <2>2, TypeParts, TypeParts1 DEF Write, Applying, TurnType,
       HeadType, RemoteType, GitType, PlacedType, turnVars, talk, gitVars
<1>16. CASE Applying /\ WriteTask
  <2>1. PcType' /\ ThreadType' /\ JournalType' /\ ApplyingType' /\ LockType'
    <3>1. applying.at \in 0 .. 3 /\ Advance
      BY <1>16 DEF WriteTask, Applying
    <3>2. QED
      BY <3>1, AdvanceTypes, TypeParts
  <2>2. VaultType'
    BY <1>16, TypeParts DEF Applying, WriteTask, ApplyingType, VaultType
  <2>3. QED
    BY <1>16, <2>1, <2>2, TypeParts, TypeParts1 DEF WriteTask, Applying, TurnType,
       HeadType, RemoteType, GitType, PlacedType, turnVars, talk, gitVars
<1>17. CASE Applying /\ Commit
  <2>1. applying.turn \in Turns /\ ApplyingType'
    BY <1>17, TypeParts, NotApplyingType DEF Commit, Applying, ApplyingType
  <2>2. JournalType'
    <3>1. UNCHANGED journal \/ journal' = [journal EXCEPT ![applying.turn].status = "done"]
      BY <1>17 DEF Commit
    <3>2. QED
      BY <2>1, <3>1, StatusSet, TypeParts DEF JournalType
  <2>3. PcType' /\ ThreadType'
    <3>1. UNCHANGED <<pc, thread>> \/ \E where \in Places : Return(applying.turn, where)
      BY <1>17 DEF Commit, Places
    <3>2. QED
      BY <2>1, <3>1, ReturnTypes, TypeParts DEF PcType, ThreadType
  <2>4. LockType'
    BY <1>17 DEF Commit, LockType
  <2>5. QED
    BY <1>17, <2>1, <2>2, <2>3, <2>4, TypeParts, TypeParts1 DEF Commit, Applying,
       TurnType, VaultType, HeadType, RemoteType, GitType, PlacedType, turnVars, talk,
       gitVars
<1>18. ASSUME NEW caller \in Turns \union {NoOne}, Run(caller) PROVE TypeOK'
  BY <1>18 DEF Run, GitUnchanged, TypeOK, turnVars, talk, gitVars
<1>19. CASE GitUnchanged /\ Verify
  <2>1. PcType' /\ GitType' /\ LockType'
    <3>1. Ends(FALSE) \/ RunGoesTo("commit")
      BY <1>19 DEF Verify
    <3>2. QED
      BY <3>1, EndsTypes, RunGoesToTypes, TypeParts
  <2>2. QED
    BY <1>19, <2>1, TypeParts, TypeParts1 DEF GitUnchanged, Verify, ThreadType,
       TurnType, JournalType, ApplyingType, VaultType, HeadType, RemoteType,
       PlacedType, turnVars, talk, gitVars
<1>20. CASE GitUnchanged /\ CommitPages
  BY <1>20 DEF GitUnchanged, CommitPages, RunGoesTo, TypeOK, turnVars, talk, gitVars
<1>21. CASE GitUnchanged /\ Refresh
  <2>1. PcType' /\ GitType' /\ LockType'
    <3>1. Ends(TRUE) \/ Ends(FALSE) \/ RunGoesTo("push")
      BY <1>21 DEF Refresh, CheckOut, Refreshed
    <3>2. QED
      BY <3>1, EndsTypes, RunGoesToTypes, TypeParts
  <2>2. HeadType' /\ VaultType'
    <3>1. UNCHANGED <<head, work>> \/ CheckOut([p \in Pages |-> head[p] \union remote[p]])
      BY <1>21 DEF Refresh
    <3>2. [p \in Pages |-> head[p] \union remote[p]] \in [Pages -> Contents]
      BY TypeParts DEF HeadType, RemoteType, Contents
    <3>3. UNCHANGED outbox
      BY <1>21 DEF Refresh
    <3>4. QED
      BY <3>1, <3>2, <3>3, TypeParts DEF CheckOut, HeadType, VaultType
  <2>3. QED
    BY <1>21, <2>1, <2>2, TypeParts, TypeParts1 DEF GitUnchanged, Refresh, ThreadType,
       TurnType, JournalType, ApplyingType, RemoteType, PlacedType, turnVars, talk, gitVars
<1>22. CASE GitUnchanged /\ Push
  BY <1>22 DEF GitUnchanged, Push, RunGoesTo, TypeOK, turnVars, talk, gitVars
<1>23. CASE GitUnchanged /\ NetworkFails
  <2>1. PcType' /\ GitType' /\ LockType'
    <3>1. Ends(FALSE)
      BY <1>23 DEF NetworkFails
    <3>2. QED
      BY <3>1, EndsTypes, RunGoesToTypes, TypeParts
  <2>2. QED
    BY <1>23, <2>1, TypeParts, TypeParts1 DEF GitUnchanged, NetworkFails, ThreadType,
       TurnType, JournalType, ApplyingType, VaultType, HeadType, RemoteType,
       PlacedType, turnVars, talk, gitVars
<1>24. CASE GitUnchanged /\ Unlink
  <2>1. PcType' /\ GitType' /\ LockType'
    <3>1. \/ Ends(TRUE)
          \/ \E t \in git.tasks : git' = [git EXCEPT !.tasks = @ \ {t}] /\ UNCHANGED <<pc, lock>>
      BY <1>24 DEF Unlink
    <3>2. QED
      BY <3>1, EndsTypes, TypeParts DEF PcType, GitType, LockType
  <2>2. QED
    BY <1>24, <2>1, TypeParts, TypeParts1 DEF GitUnchanged, Unlink, ThreadType,
       TurnType, JournalType, ApplyingType, VaultType, HeadType, RemoteType,
       PlacedType, turnVars, talk, gitVars
<1>25. ASSUME NEW e \in Edits, NEW p \in Pages, Edit(e, p) PROVE TypeOK'
  <2>1. VaultType' /\ RemoteType'
    BY <1>25, TypeParts DEF Edit, VaultType, RemoteType, Contents
  <2>2. PlacedType'
    BY <1>25, TypeParts DEF Edit, PlacedType
  <2>3. QED
    BY <1>25, <2>1, <2>2, TypeParts, TypeParts1 DEF Edit, PcType, ThreadType,
       TurnType, JournalType, ApplyingType, LockType, HeadType, GitType, turnVars, talk,
       gitVars
<1>26. CASE Crash
  <2>1. PcType' /\ ThreadType'
    BY <1>26, TypeParts DEF Crash, PcType, ThreadType, Places
  <2>2. TurnType'
    <3>1. restarts' \in 0 .. MaxRestarts
      BY <1>26, TypeParts, BoundsAssumption DEF Crash, TurnType
    <3>2. up' \in BOOLEAN /\ UNCHANGED <<context, thisTalk, result, talks, proposal, told, reviews>>
          /\ answer' = [t \in Turns |-> "none"]
      BY <1>26 DEF Crash
    <3>3. QED
      BY <3>1, <3>2, TypeParts DEF TurnType
  <2>3. ApplyingType' /\ GitType' /\ LockType'
    BY <1>26, NotApplyingType DEF Crash, ApplyingType, GitType, LockType, NoRun
  <2>4. QED
    BY <1>26, <2>1, <2>2, <2>3, TypeParts, TypeParts1 DEF Crash, JournalType,
       VaultType, HeadType, RemoteType, PlacedType, turnVars, talk, gitVars
<1>27. CASE Start
  <2>1. ApplyingType'
    <3>1. CASE UNCHANGED applying
      BY <3>1, TypeParts DEF ApplyingType
    <3>2. ASSUME NEW t \in Pending, applying' = [NotApplying EXCEPT !.turn = t]
          PROVE  ApplyingType'
      <4>1. applying' = [turn |-> t, at |-> 0, checked |-> FALSE] /\ t \in Turns
        BY <3>2 DEF NotApplying, Pending
      <4>2. QED
        BY <4>1 DEF ApplyingType
    <3>3. QED
      BY <1>27, <3>1, <3>2 DEF Start
  <2>2. TurnType'
    <3>1. up' \in BOOLEAN /\ UNCHANGED <<restarts, context, thisTalk, result, answer, talks, proposal, told, reviews>>
      BY <1>27, TypeParts DEF Start, TurnType, turnVars, talk
    <3>2. QED
      BY <3>1, TypeParts DEF TurnType
  <2>3. LockType'
    BY <1>27, TypeParts DEF Start, LockType
  <2>4. QED
    BY <1>27, <2>1, <2>2, <2>3, TypeParts, TypeParts1 DEF Start, PcType, ThreadType,
       JournalType, VaultType, HeadType, RemoteType, GitType, PlacedType, turnVars, talk,
       gitVars
<1>28. CASE Rests
  BY <1>28 DEF Rests, TypeOK, gitVars
<1>29. QED
  BY <1>1, <1>2, <1>3, <1>4, <1>5, <1>6, <1>7, <1>8, <1>9, <1>10, <1>11, <1>12,
     <1>13, <1>14, <1>15, <1>16, <1>17, <1>18, <1>19, <1>20, <1>21, <1>22, <1>23,
     <1>24, <1>25, <1>26, <1>27, <1>28, NextCases

-----------------------------------------------------------------------------
LEMMA HolderSame ==
  ASSUME HolderInv, UNCHANGED <<up, lock, applying, git>>
  PROVE  HolderInv'
BY DEF HolderInv

LEMMA AdvanceIs ==
  ASSUME ApplyingType, Advance
  PROVE  /\ applying'.turn = applying.turn /\ applying'.at = applying.at + 1
         /\ ~applying'.checked
BY DEF ApplyingType, Advance

LEMMA EndsHolds ==
  ASSUME HolderInv, lock = "git", NEW ok, Ends(ok), UNCHANGED applying
  PROVE  HolderInv'
BY DEF HolderInv, Ends, NoRun

LEMMA RunGoesOn ==
  ASSUME HolderInv, GitType, git.at # "idle", git'.at # "idle", UNCHANGED <<up, lock, applying>>
  PROVE  HolderInv'
BY DEF HolderInv

LEMMA RunGoesToIs ==
  ASSUME GitType, NEW where, RunGoesTo(where)
  PROVE  git'.at = where /\ git'.tasks = git.tasks /\ git'.caller = git.caller
BY DEF GitType, RunGoesTo

(* Who holds the lock is at work.                                          *)
LEMMA HolderStep ==
  ASSUME TypeOK, ApplyingType, GitType, HolderInv, [Next]_vars
  PROVE  HolderInv'
<1>1. ASSUME NEW t \in Turns, Begin(t) PROVE HolderInv'
  <2>1. UNCHANGED <<up, lock, applying, git>>
    BY <1>1 DEF Begin, gitVars, turnVars, talk
  <2>2. QED
    BY <2>1, HolderSame
<1>2. ASSUME NEW t \in Turns, Read(t) PROVE HolderInv'
  <2>1. UNCHANGED <<up, lock, applying, git>>
    BY <1>2 DEF Read, gitVars, turnVars, talk
  <2>2. QED
    BY <2>1, HolderSame
<1>3. ASSUME NEW t \in Turns, Asks(t) PROVE HolderInv'
  <2>1. UNCHANGED <<up, lock, applying, git>>
    BY <1>3, AsksThinks DEF Thinks, gitVars
  <2>2. QED
    BY <2>1, HolderSame
<1>4. ASSUME NEW t \in Turns, Propose(t) PROVE HolderInv'
  <2>1. UNCHANGED <<up, lock, applying, git>>
    BY <1>4 DEF Propose, gitVars, turnVars, talk
  <2>2. QED
    BY <2>1, HolderSame
<1>5. ASSUME NEW t \in Turns, Decided(t) PROVE HolderInv'
  <2>1. UNCHANGED <<up, lock, applying, git>>
    BY <1>5 DEF Decided, PublishUnchanged, gitVars, turnVars, talk
  <2>2. QED
    BY <2>1, HolderSame
<1>6. ASSUME NEW t \in Turns, Queried(t) PROVE HolderInv'
  <2>1. UNCHANGED <<up, lock, applying, git>>
    BY <1>6 DEF Queried, PublishUnchanged, gitVars, turnVars, talk
  <2>2. QED
    BY <2>1, HolderSame
<1>7. ASSUME NEW t \in Turns, Refused(t) PROVE HolderInv'
  <2>1. UNCHANGED <<up, lock, applying, git>>
    BY <1>7 DEF Refused, PublishUnchanged, gitVars, turnVars, talk
  <2>2. QED
    BY <2>1, HolderSame
<1>8. ASSUME NEW t \in Turns, Inserted(t) PROVE HolderInv'
  <2>1. applying' = [turn |-> t, at |-> 0, checked |-> FALSE] /\ lock' = "store" /\ UNCHANGED git
    BY <1>8 DEF Inserted, Insert, PublishUnchanged, NotApplying, gitVars
  <2>2. lock = "free"
    BY <1>8 DEF Inserted
  <2>3. QED
    BY <2>1, <2>2, TurnsAssumption DEF HolderInv
<1>9. ASSUME NEW t \in Turns, Review(t) PROVE HolderInv'
  <2>1. UNCHANGED <<up, lock, applying, git>>
    BY <1>9 DEF Review, gitVars, turnVars, talk
  <2>2. QED
    BY <2>1, HolderSame
<1>10. ASSUME NEW t \in Turns, Record(t) PROVE HolderInv'
  <2>1. UNCHANGED <<up, lock, applying, git>>
    BY <1>10 DEF Record, gitVars, turnVars, talk
  <2>2. QED
    BY <2>1, HolderSame
<1>11. ASSUME NEW t \in Turns, Fail(t) PROVE HolderInv'
  <2>1. UNCHANGED <<up, lock, applying, git>>
    BY <1>11 DEF Fail, gitVars, turnVars, talk
  <2>2. QED
    BY <2>1, HolderSame
<1>12. CASE Advances
  <2>1. /\ applying.turn # NoOne /\ UNCHANGED <<up, lock, git>>
        /\ applying'.turn = applying.turn /\ ~applying'.checked
    BY <1>12, AdvanceIs DEF Advances, Applying, Advance, gitVars
  <2>2. QED
    BY <2>1 DEF HolderInv
<1>13. CASE GivesUp
  <2>1. /\ applying' = NotApplying /\ lock' = "free" /\ UNCHANGED <<up, git>>
        /\ applying.turn # NoOne
    BY <1>13 DEF GivesUp, GiveUp, Applying, gitVars
  <2>2. QED
    BY <2>1 DEF HolderInv, NotApplying
<1>14. CASE Checks
  <2>1. /\ applying.turn # NoOne /\ UNCHANGED <<up, lock, git>>
        /\ applying'.turn = applying.turn /\ applying'.at = applying.at /\ applying.at \in 1 .. 2
    BY <1>14 DEF Checks, Applying, gitVars, ApplyingType
  <2>2. QED
    BY <2>1 DEF HolderInv
<1>15. CASE Applying /\ Write
  <2>1. /\ applying.turn # NoOne /\ UNCHANGED <<up, lock, git>>
        /\ applying'.turn = applying.turn /\ ~applying'.checked
    BY <1>15, AdvanceIs DEF Write, Applying, Advance, gitVars
  <2>2. QED
    BY <2>1 DEF HolderInv
<1>16. CASE Applying /\ WriteTask
  <2>1. /\ applying.turn # NoOne /\ UNCHANGED <<up, lock, git>>
        /\ applying'.turn = applying.turn /\ ~applying'.checked
    BY <1>16, AdvanceIs DEF WriteTask, Applying, Advance, gitVars
  <2>2. QED
    BY <2>1 DEF HolderInv
<1>17. CASE Applying /\ Commit
  <2>1. /\ applying' = NotApplying /\ lock' = "free" /\ UNCHANGED <<up, git>>
        /\ applying.turn # NoOne
    BY <1>17 DEF Commit, Applying, gitVars
  <2>2. QED
    BY <2>1 DEF HolderInv, NotApplying
<1>18. ASSUME NEW caller \in Turns \union {NoOne}, Run(caller) PROVE HolderInv'
  <2>1. up /\ lock = "free" /\ lock' = "git" /\ git'.at \in {"refresh", "verify"} /\ UNCHANGED <<up, applying>>
    BY <1>18 DEF Run, GitUnchanged
  <2>2. QED
    BY <2>1 DEF HolderInv
<1>19. CASE GitUnchanged /\ Verify
  <2>1. lock = "git" /\ git.at # "idle" /\ UNCHANGED <<up, applying>>
    BY <1>19 DEF Verify, GitUnchanged, HolderInv
  <2>2. Ends(FALSE) \/ RunGoesTo("commit")
    BY <1>19 DEF Verify
  <2>3. QED
    BY <2>1, <2>2, EndsHolds, RunGoesOn, RunGoesToIs DEF RunGoesTo
<1>20. CASE GitUnchanged /\ CommitPages
  <2>1. lock = "git" /\ git.at # "idle" /\ UNCHANGED <<up, applying>>
    BY <1>20 DEF CommitPages, GitUnchanged, HolderInv
  <2>2. RunGoesTo("refresh")
    BY <1>20 DEF CommitPages
  <2>3. QED
    BY <2>1, <2>2, EndsHolds, RunGoesOn, RunGoesToIs DEF RunGoesTo
<1>21. CASE GitUnchanged /\ Refresh
  <2>1. lock = "git" /\ git.at # "idle" /\ UNCHANGED <<up, applying>>
    BY <1>21 DEF Refresh, GitUnchanged, HolderInv
  <2>2. Ends(TRUE) \/ Ends(FALSE) \/ RunGoesTo("push")
    BY <1>21 DEF Refresh, CheckOut, Refreshed
  <2>3. QED
    BY <2>1, <2>2, EndsHolds, RunGoesOn, RunGoesToIs DEF RunGoesTo
<1>22. CASE GitUnchanged /\ Push
  <2>1. lock = "git" /\ git.at # "idle" /\ UNCHANGED <<up, applying>>
    BY <1>22 DEF Push, GitUnchanged, HolderInv
  <2>2. RunGoesTo("unlink")
    BY <1>22 DEF Push
  <2>3. QED
    BY <2>1, <2>2, EndsHolds, RunGoesOn, RunGoesToIs DEF RunGoesTo
<1>23. CASE GitUnchanged /\ NetworkFails
  <2>1. lock = "git" /\ git.at # "idle" /\ UNCHANGED <<up, applying>>
    BY <1>23 DEF NetworkFails, GitUnchanged, HolderInv
  <2>2. Ends(FALSE)
    BY <1>23 DEF NetworkFails
  <2>3. QED
    BY <2>1, <2>2, EndsHolds, RunGoesOn, RunGoesToIs DEF RunGoesTo
<1>24. CASE GitUnchanged /\ Unlink
  <2>1. lock = "git" /\ git.at # "idle" /\ UNCHANGED <<up, applying>>
    BY <1>24 DEF Unlink, GitUnchanged, HolderInv
  <2>2. Ends(TRUE) \/ \E t \in git.tasks : git' = [git EXCEPT !.tasks = @ \ {t}] /\ UNCHANGED <<pc, lock>>
    BY <1>24 DEF Unlink
  <2>3. QED
    BY <2>1, <2>2, EndsHolds, RunGoesOn, RunGoesToIs DEF GitType
<1>25. ASSUME NEW e \in Edits, NEW p \in Pages, Edit(e, p) PROVE HolderInv'
  <2>1. UNCHANGED <<up, lock, applying, git>>
    BY <1>25 DEF Edit, gitVars, turnVars, talk
  <2>2. QED
    BY <2>1, HolderSame
<1>26. CASE Crash
  BY <1>26 DEF Crash, HolderInv, NotApplying, NoRun
<1>27. CASE Start
  <2>1. lock = "free" /\ ~up /\ UNCHANGED git
    BY <1>27 DEF Start, gitVars
  <2>2. CASE UNCHANGED <<lock, applying>>
    BY <2>1, <2>2 DEF HolderInv
  <2>3. ASSUME NEW t \in Pending, lock' = "store", applying' = [NotApplying EXCEPT
     !.turn = t]
        PROVE  HolderInv'
    <3>1. applying' = [turn |-> t, at |-> 0, checked |-> FALSE] /\ t # NoOne
      BY <2>3, TurnsAssumption DEF NotApplying, Pending
    <3>2. QED
      BY <2>1, <2>3, <3>1 DEF HolderInv
  <2>4. QED
    BY <1>27, <2>2, <2>3 DEF Start
<1>28. CASE Rests
  <2>1. UNCHANGED <<up, lock, applying, git>>
    BY <1>28 DEF Rests, gitVars
  <2>2. QED
    BY <2>1, HolderSame
<1>29. QED
  BY <1>1, <1>2, <1>3, <1>4, <1>5, <1>6, <1>7, <1>8, <1>9, <1>10, <1>11, <1>12,
     <1>13, <1>14, <1>15, <1>16, <1>17, <1>18, <1>19, <1>20, <1>21, <1>22, <1>23,
     <1>24, <1>25, <1>26, <1>27, <1>28, NextCases

LEMMA ThreadSame ==
  ASSUME ThreadInv, UNCHANGED <<up, pc, thread>>, applying'.turn = applying.turn
  PROVE  ThreadInv'
BY DEF ThreadInv, Active

LEMMA ThreadGoto ==
  ASSUME ThreadInv, PcType, up, NEW t \in Turns, NEW where, Goto(t, where), UNCHANGED <<up, thread, applying>>,
         thread[t] = "none" \/ where = "failed"
  PROVE  ThreadInv'
<1>1. pc'[t] = where /\ \A u \in Turns : u # t => pc'[u] = pc[u]
  BY DEF Goto, PcType
<1>2. QED
  BY <1>1 DEF ThreadInv

LEMMA ReturnIs ==
  ASSUME PcType, ThreadType, NEW t \in Turns, NEW where, Return(t, where)
  PROVE  /\ thread'[t] = "none" /\ \A u \in Turns : u # t => thread'[u] = thread[u]
         /\ \A u \in Turns : u # t => pc'[u] = pc[u]
         /\ pc'[t] = IF pc[t] = "publish" THEN where ELSE pc[t]
BY DEF PcType, ThreadType, Return, Goto

LEMMA ThreadReturn ==
  ASSUME ThreadInv, PcType, ThreadType, up, NEW t \in Turns, NEW where, Return(t, where), UNCHANGED up,
         \A u \in Turns : applying'.turn = u <=> applying.turn = u /\ u # t
  PROVE  ThreadInv'
BY ReturnIs DEF ThreadInv

LEMMA ThreadEnds ==
  ASSUME ThreadInv, PcType, GitType, up, NEW ok, Ends(ok), UNCHANGED <<up, thread, applying>>
  PROVE  ThreadInv'
<1>1. CASE UNCHANGED pc
  BY <1>1, ThreadSame
<1>2. CASE ~UNCHANGED pc
  <2>1. git.caller \in Turns /\ pc[git.caller] = "refresh" /\ \E where : Goto(git.caller, where)
    BY <1>2 DEF Ends, GitType
  <2>2. QED
    BY <2>1, ThreadGoto DEF ThreadInv
<1>3. QED
  BY <1>1, <1>2

(* Nothing of a turn goes on while the gateway is down.                    *)
LEMMA ThreadStep ==
  ASSUME TypeOK, PcType, ThreadType, ApplyingType, GitType, HolderInv, ThreadInv, [Next]_vars
  PROVE  ThreadInv'
<1>1. ASSUME NEW t \in Turns, Begin(t) PROVE ThreadInv'
  <2>1. pc[t] = "accepted" /\ UNCHANGED <<up, thread, applying>> /\ \E where : Goto(t, where)
    BY <1>1 DEF Begin
  <2>2. up /\ thread[t] = "none"
    BY <1>1, <2>1, ActiveIsUp DEF ThreadInv, Active, Begin
  <2>3. QED
    BY <2>1, <2>2, ThreadGoto
<1>2. ASSUME NEW t \in Turns, Read(t) PROVE ThreadInv'
  <2>1. pc[t] = "read" /\ UNCHANGED <<up, thread, applying>> /\ \E where : Goto(t, where)
    BY <1>2 DEF Read
  <2>2. up /\ thread[t] = "none"
    BY <1>2, <2>1, ActiveIsUp DEF ThreadInv, Active, Begin
  <2>3. QED
    BY <2>1, <2>2, ThreadGoto
<1>3. ASSUME NEW t \in Turns, Asks(t) PROVE ThreadInv'
  <2>1. pc[t] \in {"think", "model"} /\ UNCHANGED <<up, thread, applying>> /\ \E where : Goto(t, where)
    BY <1>3, AsksThinks DEF Thinks
  <2>2. up /\ thread[t] = "none"
    BY <1>3, <2>1, ActiveIsUp DEF ThreadInv, Active, Begin
  <2>3. QED
    BY <2>1, <2>2, ThreadGoto
<1>4. ASSUME NEW t \in Turns, Propose(t) PROVE ThreadInv'
  <2>1. pc[t] = "propose" /\ up /\ UNCHANGED <<up, applying>>
    BY <1>4, ActiveIsUp DEF Propose, Active
  <2>2. /\ pc'[t] = "publish" /\ thread'[t] = "called"
        /\ \A u \in Turns : u # t => pc'[u] = pc[u] /\ thread'[u] = thread[u]
    BY <1>4 DEF Propose, Goto, PcType, ThreadType
  <2>3. QED
    BY <2>1, <2>2 DEF ThreadInv
<1>5. ASSUME NEW t \in Turns, Decided(t) PROVE ThreadInv'
  <2>1. thread[t] = "called" /\ UNCHANGED <<up, applying>> /\ \E where : Return(t, where)
    BY <1>5 DEF Decided, PublishUnchanged
  <2>2. up /\ applying.turn # t
    BY <2>1 DEF ThreadInv
  <2>3. QED
    BY <2>1, <2>2, ThreadReturn
<1>6. ASSUME NEW t \in Turns, Queried(t) PROVE ThreadInv'
  <2>1. thread[t] = "called" /\ UNCHANGED <<up, applying>> /\ \E where : Return(t, where)
    BY <1>6 DEF Queried, PublishUnchanged
  <2>2. up /\ applying.turn # t
    BY <2>1 DEF ThreadInv
  <2>3. QED
    BY <2>1, <2>2, ThreadReturn
<1>7. ASSUME NEW t \in Turns, Refused(t) PROVE ThreadInv'
  <2>1. thread[t] = "called" /\ UNCHANGED <<up, applying>> /\ \E where : Return(t, where)
    BY <1>7 DEF Refused, PublishUnchanged
  <2>2. up /\ applying.turn # t
    BY <2>1 DEF ThreadInv
  <2>3. QED
    BY <2>1, <2>2, ThreadReturn
<1>8. ASSUME NEW t \in Turns, Inserted(t) PROVE ThreadInv'
  <2>1. /\ thread[t] = "called" /\ lock = "free" /\ UNCHANGED <<up, pc>>
        /\ thread' = [thread EXCEPT ![t] = "applying"] /\ applying' = [turn |-> t, at |-> 0, checked |-> FALSE]
    BY <1>8 DEF Inserted, Insert, PublishUnchanged, NotApplying
  <2>2. up /\ applying.turn = NoOne
    BY <2>1 DEF ThreadInv, HolderInv
  <2>3. thread'[t] = "applying" /\ \A u \in Turns : u # t => thread'[u] = thread[u]
    BY <2>1 DEF ThreadType
  <2>4. QED
    BY <2>1, <2>2, <2>3, TurnsAssumption DEF ThreadInv
<1>9. ASSUME NEW t \in Turns, Review(t) PROVE ThreadInv'
  <2>1. pc[t] = "rejected" /\ UNCHANGED <<up, thread, applying>> /\ \E where : Goto(t, where)
    BY <1>9 DEF Review
  <2>2. up /\ thread[t] = "none"
    BY <1>9, <2>1, ActiveIsUp DEF ThreadInv, Active, Begin
  <2>3. QED
    BY <2>1, <2>2, ThreadGoto
<1>10. ASSUME NEW t \in Turns, Record(t) PROVE ThreadInv'
  <2>1. pc[t] = "record" /\ UNCHANGED <<up, thread, applying>> /\ \E where : Goto(t, where)
    BY <1>10 DEF Record
  <2>2. up /\ thread[t] = "none"
    BY <1>10, <2>1, ActiveIsUp DEF ThreadInv, Active, Begin
  <2>3. QED
    BY <2>1, <2>2, ThreadGoto
<1>11. ASSUME NEW t \in Turns, Fail(t) PROVE ThreadInv'
  <2>1. UNCHANGED <<up, thread, applying>> /\ Goto(t, "failed") /\ up
    BY <1>11, ActiveIsUp DEF Fail
  <2>2. QED
    BY <2>1, ThreadGoto
<1>12. CASE Advances
  <2>1. UNCHANGED <<up, pc, thread>> /\ applying'.turn = applying.turn
    BY <1>12, AdvanceIs DEF Advances, Applying, Advance
  <2>2. QED
    BY <2>1, ThreadSame
<1>13. CASE GivesUp
  <2> DEFINE t == applying.turn
  <2>1. /\ t \in Turns /\ UNCHANGED up /\ applying'.turn = NoOne
        /\ IF up THEN Return(t, "rejected") ELSE UNCHANGED <<pc, thread>>
    BY <1>13 DEF GivesUp, GiveUp, Applying, ApplyingType, NotApplying
  <2>2. CASE up
    BY <2>1, <2>2, ThreadReturn, TurnsAssumption
  <2>3. CASE ~up
    BY <2>1, <2>3 DEF ThreadInv, Active
  <2>4. QED
    BY <2>2, <2>3
<1>14. CASE Checks
  <2>1. UNCHANGED <<up, pc, thread>> /\ applying'.turn = applying.turn
    BY <1>14 DEF Checks, Applying, ApplyingType
  <2>2. QED
    BY <2>1, ThreadSame
<1>15. CASE Applying /\ Write
  <2>1. UNCHANGED <<up, pc, thread>> /\ applying'.turn = applying.turn
    BY <1>15, AdvanceIs DEF Write, Applying, Advance
  <2>2. QED
    BY <2>1, ThreadSame
<1>16. CASE Applying /\ WriteTask
  <2>1. UNCHANGED <<up, pc, thread>> /\ applying'.turn = applying.turn
    BY <1>16, AdvanceIs DEF WriteTask, Applying, Advance
  <2>2. QED
    BY <2>1, ThreadSame
<1>17. CASE Applying /\ Commit
  <2> DEFINE t == applying.turn
  <2>1. /\ t \in Turns /\ UNCHANGED up /\ applying'.turn = NoOne
        /\ IF up THEN Return(t, "record") ELSE UNCHANGED <<pc, thread>>
    BY <1>17 DEF Commit, Applying, ApplyingType, NotApplying
  <2>2. CASE up
    BY <2>1, <2>2, ThreadReturn, TurnsAssumption
  <2>3. CASE ~up
    BY <2>1, <2>3 DEF ThreadInv, Active
  <2>4. QED
    BY <2>2, <2>3
<1>18. ASSUME NEW caller \in Turns \union {NoOne}, Run(caller) PROVE ThreadInv'
  <2>1. UNCHANGED <<up, pc, thread, applying>>
    BY <1>18 DEF Run, GitUnchanged
  <2>2. QED
    BY <2>1, ThreadSame
<1>19. CASE GitUnchanged /\ Verify
  <2>1. up /\ UNCHANGED <<up, thread, applying>>
    BY <1>19 DEF Verify, GitUnchanged, HolderInv
  <2>2. Ends(FALSE) \/ UNCHANGED pc
    BY <1>19 DEF Verify, RunGoesTo
  <2>3. QED
    BY <2>1, <2>2, ThreadEnds, ThreadSame
<1>20. CASE GitUnchanged /\ CommitPages
  <2>1. UNCHANGED <<up, pc, thread, applying>>
    BY <1>20 DEF CommitPages, RunGoesTo, GitUnchanged
  <2>2. QED
    BY <2>1, ThreadSame
<1>21. CASE GitUnchanged /\ Refresh
  <2>1. up /\ UNCHANGED <<up, thread, applying>>
    BY <1>21 DEF Refresh, GitUnchanged, HolderInv
  <2>2. Ends(TRUE) \/ Ends(FALSE) \/ UNCHANGED pc
    BY <1>21 DEF Refresh, CheckOut, Refreshed, RunGoesTo
  <2>3. QED
    BY <2>1, <2>2, ThreadEnds, ThreadSame
<1>22. CASE GitUnchanged /\ Push
  <2>1. UNCHANGED <<up, pc, thread, applying>>
    BY <1>22 DEF Push, RunGoesTo, GitUnchanged
  <2>2. QED
    BY <2>1, ThreadSame
<1>23. CASE GitUnchanged /\ NetworkFails
  <2>1. up /\ UNCHANGED <<up, thread, applying>>
    BY <1>23 DEF NetworkFails, GitUnchanged, HolderInv
  <2>2. Ends(FALSE)
    BY <1>23 DEF NetworkFails
  <2>3. QED
    BY <2>1, <2>2, ThreadEnds, ThreadSame
<1>24. CASE GitUnchanged /\ Unlink
  <2>1. up /\ UNCHANGED <<up, thread, applying>>
    BY <1>24 DEF Unlink, GitUnchanged, HolderInv
  <2>2. Ends(TRUE) \/ UNCHANGED pc
    BY <1>24 DEF Unlink
  <2>3. QED
    BY <2>1, <2>2, ThreadEnds, ThreadSame
<1>25. ASSUME NEW e \in Edits, NEW p \in Pages, Edit(e, p) PROVE ThreadInv'
  <2>1. UNCHANGED <<up, pc, thread, applying>>
    BY <1>25 DEF Edit, turnVars, talk
  <2>2. QED
    BY <2>1, ThreadSame
<1>26. CASE Crash
  <2>1. /\ ~up' /\ applying' = NotApplying /\ \A u \in Turns : thread'[u] = "none"
        /\ \A u \in Turns : pc'[u] \in {"accepted", "failed"} \/ (pc'[u] = pc[u] /\ ~Active(u))
    BY <1>26 DEF Crash
  <2>2. QED
    BY <2>1 DEF ThreadInv, Active
<1>27. CASE Start
  <2>1. ~up /\ UNCHANGED <<pc, thread>> /\ lock = "free"
    BY <1>27 DEF Start, turnVars, talk
  <2>2. \A u \in Turns : thread[u] = "none" /\ ~Active(u) /\ applying.turn # u
    BY <2>1, TurnsAssumption DEF ThreadInv, HolderInv
  <2>3. up' => UNCHANGED applying
    BY <1>27, <2>1 DEF Start
  <2>4. QED
    BY <2>1, <2>2, <2>3 DEF ThreadInv, Active
<1>28. CASE Rests
  <2>1. UNCHANGED <<up, pc, thread, applying>>
    BY <1>28 DEF Rests
  <2>2. QED
    BY <2>1, ThreadSame
<1>29. QED
  BY <1>1, <1>2, <1>3, <1>4, <1>5, <1>6, <1>7, <1>8, <1>9, <1>10, <1>11, <1>12,
     <1>13, <1>14, <1>15, <1>16, <1>17, <1>18, <1>19, <1>20, <1>21, <1>22, <1>23,
     <1>24, <1>25, <1>26, <1>27, <1>28, NextCases

-----------------------------------------------------------------------------
(* The steps that leave pages, tasks, lock and application alone; the      *)
(* journal may be recovered.                                               *)
Calm ==
  /\ UNCHANGED <<up, applying, lock, outbox, work, head, remote, git, placed>>
  /\ UNCHANGED journal \/ (up /\ lock = "free" /\ journal' = Recovered)

LEMMA Shapes ==
  ASSUME LockInv, [Next]_vars
  PROVE  \/ Calm \/ \E t \in Turns : Queried(t) \/ Inserted(t)
         \/ Advances \/ GivesUp \/ Checks
         \/ Applying /\ (Write \/ WriteTask \/ Commit)
         \/ \E caller \in Turns \union {NoOne} : Run(caller)
         \/ GitUnchanged /\ (Verify \/ CommitPages \/ Refresh \/ Push \/ NetworkFails \/ Unlink)
         \/ \E e \in Edits, p \in Pages : Edit(e, p)
         \/ Crash \/ Start
<1>1. ASSUME NEW t \in Turns, Begin(t) \/ Read(t) PROVE Calm
  <2>1. up /\ lock = "free" /\ journal' = Recovered
    BY <1>1, ActiveIsUp DEF Begin, Read, Active, LockInv
  <2>2. QED
    BY <1>1, <2>1 DEF Begin, Read, Calm, gitVars
<1>2. ASSUME NEW t \in Turns, Asks(t) \/ Propose(t) \/ Review(t) \/ Record(t) \/ Fail(t) PROVE Calm
  BY <1>2, AsksThinks DEF Thinks, Propose, Review, Record, Fail, Calm, gitVars
<1>3. ASSUME NEW t \in Turns, Decided(t) \/ Refused(t) PROVE Calm
  <2>1. up /\ lock = "free" /\ journal' = Recovered
    BY <1>3 DEF Decided, Refused, LockInv, ThreadInv
  <2>2. QED
    BY <1>3, <2>1 DEF Decided, Refused, PublishUnchanged, Calm, gitVars
<1>4. ASSUME Rests PROVE Calm
  BY <1>4 DEF Rests, gitVars, Calm
<1>5. QED
  BY <1>1, <1>2, <1>3, <1>4, NextCases

LEMMA CalmKeeps ==
  ASSUME TypeOK, LockInv, EntryInv, StuckInv, Calm
  PROVE  /\ \A t \in Turns :
              /\ journal'[t].kind = journal[t].kind /\ journal'[t].at = journal[t].at
              /\ journal'[t].before = journal[t].before /\ journal'[t].after = journal[t].after
              /\ \/ journal'[t].status = journal[t].status
                 \/ journal[t].status = "pending" /\ journal'[t].status = "conflict"
         /\ applying.turn # NoOne => UNCHANGED journal
         /\ Pending' \subseteq Pending
<1>1. CASE UNCHANGED journal
  BY <1>1 DEF Pending
<1>2. CASE up /\ lock = "free" /\ journal' = Recovered
  <2>1. applying.turn = NoOne
    BY <1>2 DEF LockInv, HolderInv
  <2>2. QED
    BY <1>2, <2>1, RecoveredIs DEF Pending
<1>3. QED
  BY <1>1, <1>2 DEF Calm

(* The journal after a query, and after an entry is inserted.              *)
LEMMA QueriedJournal ==
  ASSUME TypeOK, LockInv, EntryInv, StuckInv, NEW t \in Turns, Queried(t)
  PROVE  /\ journal'[t].kind = "query" /\ journal'[t].status = "done" /\ journal[t].kind = "none"
         /\ \A p \in Pages : journal'[t].after[p] = {}
         /\ \A u \in Turns : u # t =>
              /\ journal'[u].kind = journal[u].kind /\ journal'[u].at = journal[u].at
              /\ journal'[u].before = journal[u].before /\ journal'[u].after = journal[u].after
              /\ \/ journal'[u].status = journal[u].status
                 \/ journal[u].status = "pending" /\ journal'[u].status = "conflict"
         /\ Pending' = {} /\ applying.turn = NoOne
<1>1. up /\ lock = "free" /\ applying.turn = NoOne
  BY DEF Queried, LockInv, ThreadInv, HolderInv
<1>2. Recovered \in [Turns -> Entry] /\ Recovered[t].status = "none"
  BY <1>1, RecoveredIs DEF Queried
<1>3. /\ journal'[t] = [NoEntry EXCEPT !.status = "done", !.kind = "query"]
      /\ \A u \in Turns : u # t => journal'[u] = Recovered[u]
  BY <1>2 DEF Queried
<1>4. journal'[t].kind = "query" /\ journal'[t].status = "done" /\ \A p \in Pages : journal'[t].after[p] = {}
  BY <1>3 DEF NoEntry
<1>5. journal[t].kind = "none"
  BY <1>1, <1>2, RecoveredIs DEF EntryInv, Pending
<1>6. Pending' = {}
  <2>1. \A u \in Turns : Recovered[u].status # "pending"
    BY <1>1, RecoveredIs
  <2>2. \A u \in Turns : journal'[u].status # "pending"
    BY <1>3, <1>4, <2>1
  <2>3. QED
    BY <2>2 DEF Pending
<1>7. ASSUME NEW u \in Turns, u # t
      PROVE  /\ journal'[u].kind = journal[u].kind /\ journal'[u].at = journal[u].at
             /\ journal'[u].before = journal[u].before /\ journal'[u].after = journal[u].after
             /\ \/ journal'[u].status = journal[u].status
                \/ journal[u].status = "pending" /\ journal'[u].status = "conflict"
  <2>1. /\ journal'[u].kind = Recovered[u].kind /\ journal'[u].at = Recovered[u].at
        /\ journal'[u].before = Recovered[u].before /\ journal'[u].after = Recovered[u].after
        /\ journal'[u].status = Recovered[u].status
    BY <1>3, <1>7
  <2>2. Recovered[u].status = IF u \in Pending THEN "conflict" ELSE journal[u].status
    BY <1>1, RecoveredIs
  <2>3. /\ Recovered[u].kind = journal[u].kind /\ Recovered[u].at = journal[u].at
        /\ Recovered[u].before = journal[u].before /\ Recovered[u].after = journal[u].after
    BY <1>1, RecoveredIs
  <2>4. QED
    BY <2>1, <2>2, <2>3 DEF Pending
<1>8. QED
  BY <1>1, <1>4, <1>5, <1>6, <1>7

LEMMA InsertedJournal ==
  ASSUME TypeOK, LockInv, EntryInv, StuckInv, NEW t \in Turns, Inserted(t)
  PROVE  /\ journal'[t].kind = "amend" /\ journal'[t].status = "pending" /\ journal'[t].at >= 1
         /\ journal[t].kind = "none" /\ journal'[t].before = work
         /\ \A p \in Pages : journal'[t].after[p] = work[p] \union {t}
         /\ \A u \in Turns : u # t =>
              /\ journal'[u].kind = journal[u].kind /\ journal'[u].at = journal[u].at
              /\ journal'[u].before = journal[u].before /\ journal'[u].after = journal[u].after
              /\ \/ journal'[u].status = journal[u].status
                 \/ journal[u].status = "pending" /\ journal'[u].status = "conflict"
         /\ Pending' = {t}
         /\ applying'.turn = t /\ applying'.at = 0 /\ ~applying'.checked
         /\ up /\ lock = "free"
<1>1. up /\ lock = "free"
  BY DEF Inserted, LockInv, ThreadInv
<1>2. Recovered \in [Turns -> Entry] /\ Recovered[t].status = "none"
  BY <1>1, RecoveredIs DEF Inserted
<1> DEFINE known == {u \in Turns : journal[u].status # "none"}
<1>3. Cardinality(known) + 1 >= 1
  BY TurnsAssumption, FS_Subset, FS_CardinalityType
<1>4. /\ journal'[t] = [status |-> "pending", kind |-> "amend", before |-> work,
                        after |-> [p \in Pages |-> work[p] \union {t}], at |-> Cardinality(known) + 1]
      /\ \A u \in Turns : u # t => journal'[u] = Recovered[u]
  BY <1>2 DEF Inserted, Insert
<1> HIDE DEF known
<1>5. /\ journal'[t].kind = "amend" /\ journal'[t].status = "pending" /\ journal'[t].at >= 1
      /\ journal'[t].before = work /\ \A p \in Pages : journal'[t].after[p] = work[p] \union {t}
  BY <1>3, <1>4
<1>6. journal[t].kind = "none"
  BY <1>1, <1>2, RecoveredIs DEF EntryInv, Pending
<1>7. Pending' = {t}
  <2>1. \A u \in Turns : Recovered[u].status # "pending"
    BY <1>1, RecoveredIs
  <2>2. \A u \in Turns : u # t => journal'[u].status # "pending"
    BY <1>4, <2>1
  <2>3. QED
    BY <1>5, <2>2 DEF Pending
<1>8. applying'.turn = t /\ applying'.at = 0 /\ ~applying'.checked
  BY DEF Inserted, Insert, NotApplying
<1>9. ASSUME NEW u \in Turns, u # t
      PROVE  /\ journal'[u].kind = journal[u].kind /\ journal'[u].at = journal[u].at
             /\ journal'[u].before = journal[u].before /\ journal'[u].after = journal[u].after
             /\ \/ journal'[u].status = journal[u].status
                \/ journal[u].status = "pending" /\ journal'[u].status = "conflict"
  <2>1. /\ journal'[u].kind = Recovered[u].kind /\ journal'[u].at = Recovered[u].at
        /\ journal'[u].before = Recovered[u].before /\ journal'[u].after = Recovered[u].after
        /\ journal'[u].status = Recovered[u].status
    BY <1>4, <1>9
  <2>2. Recovered[u].status = IF u \in Pending THEN "conflict" ELSE journal[u].status
    BY <1>1, RecoveredIs
  <2>3. /\ Recovered[u].kind = journal[u].kind /\ Recovered[u].at = journal[u].at
        /\ Recovered[u].before = journal[u].before /\ Recovered[u].after = journal[u].after
    BY <1>1, RecoveredIs
  <2>4. QED
    BY <2>1, <2>2, <2>3 DEF Pending
<1>10. QED
  BY <1>1, <1>5, <1>6, <1>7, <1>8, <1>9

(* A refresh: HEAD is what both branches have, the vault follows where the *)
(* merge changed a page that was as in HEAD.                               *)
LEMMA Merged ==
  ASSUME TypeOK, NEW pages, pages = [p \in Pages |-> head[p] \union remote[p]],
         CheckOut(pages), UNCHANGED remote
  PROVE  \/ UNCHANGED <<head, work>>
         \/ /\ \A p \in Pages : head'[p] = head[p] \union remote[p]
            /\ \A p \in Pages : \/ work[p] = head[p] /\ work'[p] = head'[p]
                                \/ head'[p] = head[p] /\ work'[p] = work[p]
BY DEF CheckOut

LEMMA RefreshedPages ==
  ASSUME TypeOK, Refresh
  PROVE  /\ \/ UNCHANGED <<head, work>>
            \/ /\ \A p \in Pages : head'[p] = head[p] \union remote[p]
               /\ \A p \in Pages : \/ work[p] = head[p] /\ work'[p] = head'[p]
                                   \/ head'[p] = head[p] /\ work'[p] = work[p]
         /\ UNCHANGED <<outbox, remote>>
         /\ \A p \in Pages : work[p] \subseteq work'[p] /\ head[p] \subseteq head'[p]
BY Merged DEF Refresh

LEMMA EditedPages ==
  ASSUME TypeOK, NEW e \in Edits, NEW p \in Pages, Edit(e, p)
  PROVE  /\ \A q \in Pages : work[q] \subseteq work'[q] /\ remote[q] \subseteq remote'[q]
         /\ \A t \in Turns, q \in Pages : /\ t \in work'[q] <=> t \in work[q]
                                          /\ t \in remote'[q] <=> t \in remote[q]
         /\ UNCHANGED <<up, pc, thread, journal, applying, lock, outbox, head, git,
                        thisTalk, result, answer, proposal, told, reviews>>
         /\ placed'[e].page = p /\ e \in IF placed'[e].side = "remote" THEN remote'[p] ELSE work'[p]
         /\ placed'[e].side = "work" => ~BeingWritten(p)
         /\ \A f \in Edits : f # e => placed'[f] = placed[f]
<1>1. work \in [Pages -> Contents] /\ remote \in [Pages -> Contents]
  BY DEF TypeOK
<1>2. \A q \in Pages : work'[q] = work[q] \/ (q = p /\ work'[q] = work[q] \union {e})
  BY <1>1 DEF Edit
<1>3. \A q \in Pages : remote'[q] = remote[q] \/ remote'[q] = remote[q] \union {e}
  BY <1>1 DEF Edit
<1>4. e \notin Turns
  BY TurnsAssumption
<1>5. placed \in [Edits -> [side: {"none", "work", "window", "remote"}, page: Pages]]
  BY DEF TypeOK
<1>6. /\ placed'[e].page = p
      /\ placed'[e].side = IF e \notin LocalEdits THEN "remote" ELSE IF BeingWritten(p) THEN "window" ELSE "work"
      /\ \A f \in Edits : f # e => placed'[f] = placed[f]
  BY <1>5 DEF Edit
<1>7. IF e \in LocalEdits THEN e \in work'[p] ELSE e \in remote'[p]
  BY <1>1 DEF Edit
<1>8. QED
  BY <1>2, <1>3, <1>4, <1>6, <1>7 DEF Edit, turnVars, talk

LEMMA PagesSame ==
  ASSUME [Next]_vars, GitUnchanged,
         Verify \/ CommitPages \/ Push \/ NetworkFails \/ Unlink
  PROVE  UNCHANGED <<up, journal, applying, work, placed, thread, thisTalk, result, answer, proposal, told, reviews>>
BY DEF GitUnchanged, talk, Verify, CommitPages, Push, NetworkFails, Unlink

LEMMA RunSame ==
  ASSUME NEW caller, Run(caller)
  PROVE  /\ UNCHANGED <<up, pc, journal, applying, work, head, remote, placed, thread, outbox,
                        thisTalk, result, answer, proposal, told, reviews>>
         /\ up /\ lock = "free"
BY DEF Run, GitUnchanged, talk

LEMMA CrashSame ==
  ASSUME Crash
  PROVE  /\ UNCHANGED <<journal, work, head, remote, outbox, placed, thisTalk, result, proposal, told, reviews>>
         /\ applying'.turn = NoOne /\ git' = NoRun /\ ~up'
         /\ \A t \in Turns : thread'[t] = "none"
         /\ \A t \in Turns : pc'[t] \in {"accepted", "failed"} \/ (pc'[t] = pc[t] /\ ~Active(t))
BY DEF Crash, NotApplying

LEMMA StartSame ==
  ASSUME Start
  PROVE  /\ UNCHANGED <<journal, work, head, remote, outbox, git, placed, pc, thread,
                        thisTalk, result, answer, proposal, told, reviews>>
         /\ ~up /\ lock = "free"
         /\ \/ up' /\ Pending = {} /\ UNCHANGED <<lock, applying>>
            \/ /\ ~up' /\ applying'.turn \in Pending /\ applying'.at = 0 /\ ~applying'.checked
BY DEF Start, turnVars, talk, gitVars, NotApplying

(* The entry being applied, as far as a step of the application needs it.  *)
LEMMA TheEntry ==
  ASSUME TypeOK, EntryInv, applying.turn # NoOne
  PROVE  /\ applying.turn \in Turns /\ applying.turn \in Pending /\ Pending = {applying.turn}
         /\ journal[applying.turn].kind = "amend" /\ journal[applying.turn].status = "pending"
         /\ \A p \in Pages : /\ journal[applying.turn].after[p] = journal[applying.turn].before[p] \union {applying.turn}
                             /\ journal[applying.turn].before[p] \subseteq work[p]
<1>1. applying.turn \in Pending
  BY DEF EntryInv
<1>2. applying.turn \in Turns /\ journal[applying.turn].status = "pending"
  BY <1>1 DEF Pending
<1>3. journal[applying.turn].kind = "amend"
  BY <1>2, JournalTypes DEF EntryInv, Decisions
<1>4. QED
  BY <1>1, <1>2, <1>3 DEF EntryInv

LEMMA WriteIs ==
  ASSUME TypeOK, EntryInv, ApplyInv, Applying, Write
  PROVE  \E p \in Pages :
           /\ p = Order[applying.at] /\ applying.at \in 1 .. 2 /\ applying.checked
           /\ work'[p] = journal[applying.turn].after[p]
           /\ \A q \in Pages : q # p => work'[q] = work[q]
           /\ Checked(applying.turn, p)
           /\ applying'.turn = applying.turn /\ applying'.at = applying.at + 1 /\ ~applying'.checked
           /\ UNCHANGED <<up, pc, thread, journal, lock, outbox, head, remote, git, placed>>
<1>1. applying.at \in 1 .. 2 /\ applying.checked /\ Order[applying.at] \in Pages
  BY OrderPages DEF Write
<1>2. ApplyingType
  BY TypeParts
<1>3. work \in [Pages -> Contents]
  BY DEF TypeOK
<1>4. QED
  BY <1>1, <1>2, <1>3, AdvanceIs DEF Write, Advance, Applying, ApplyInv, gitVars

LEMMA EndsApplying ==
  ASSUME TypeOK, EntryInv, GivesUp \/ (Applying /\ Commit)
  PROVE  /\ applying.turn # NoOne /\ applying'.turn = NoOne
         /\ UNCHANGED <<up, outbox, work, head, remote, git, placed, thisTalk, result, answer, proposal, told, reviews>>
         /\ \A u \in Turns :
              /\ journal'[u].kind = journal[u].kind /\ journal'[u].at = journal[u].at
              /\ journal'[u].before = journal[u].before /\ journal'[u].after = journal[u].after
              /\ u # applying.turn => journal'[u].status = journal[u].status
         /\ GivesUp => journal'[applying.turn].status = IF up THEN "pending" ELSE "conflict"
         /\ Commit => journal'[applying.turn].status = "done"
         /\ Pending' \subseteq Pending /\ (~(GivesUp /\ up) => Pending' = {})
<1>1. /\ applying.turn # NoOne /\ applying'.turn = NoOne
      /\ UNCHANGED <<up, outbox, work, head, remote, git, placed, thisTalk, result, answer, proposal, told, reviews>>
  BY DEF GivesUp, GiveUp, Commit, Applying, NotApplying, gitVars
<1>2. applying.turn \in Turns /\ Pending = {applying.turn} /\ journal[applying.turn].status = "pending"
  BY <1>1, TheEntry
<1>3. CASE UNCHANGED journal /\ GivesUp /\ up
  <2>1. ~Commit
    BY <1>3 DEF GivesUp, Commit
  <2>2. QED
    BY <1>1, <1>2, <1>3, <2>1 DEF Pending
<1>4. ASSUME NEW status \in {"done", "conflict"}, journal' = [journal EXCEPT ![applying.turn].status = status]
      PROVE  /\ \A u \in Turns :
                  /\ journal'[u].kind = journal[u].kind /\ journal'[u].at = journal[u].at
                  /\ journal'[u].before = journal[u].before /\ journal'[u].after = journal[u].after
                  /\ u # applying.turn => journal'[u].status = journal[u].status
             /\ journal'[applying.turn].status = status /\ Pending' = {}
  <2>1. /\ \A u \in Turns :
             /\ journal'[u].kind = journal[u].kind /\ journal'[u].at = journal[u].at
             /\ journal'[u].before = journal[u].before /\ journal'[u].after = journal[u].after
             /\ u # applying.turn => journal'[u] = journal[u]
        /\ journal'[applying.turn].status = status
    BY <1>2, <1>4, StatusSet
  <2>2. QED
    BY <1>2, <2>1 DEF Pending
<1>5. CASE GivesUp /\ ~up
  <2>1. journal' = [journal EXCEPT ![applying.turn].status = "conflict"] /\ ~Commit
    BY <1>5 DEF GivesUp, GiveUp, Commit
  <2>2. QED
    BY <1>1, <1>4, <1>5, <2>1
<1>6. CASE Commit
  <2>1. journal' = [journal EXCEPT ![applying.turn].status = "done"] /\ ~GivesUp
    BY <1>6 DEF GivesUp, Commit
  <2>2. QED
    BY <1>1, <1>4, <1>6, <2>1
<1>7. QED
  BY <1>3, <1>5, <1>6 DEF GivesUp, GiveUp

(* The publisher works only while nothing is applied.                      *)
LEMMA GitAlone ==
  ASSUME HolderInv, git.at # "idle"
  PROVE  applying.turn = NoOne /\ up /\ lock = "git"
BY DEF HolderInv

LEMMA EntrySame ==
  ASSUME EntryInv, UNCHANGED journal, \A p \in Pages : work[p] \subseteq work'[p],
         applying'.turn \in Pending \union {NoOne}
  PROVE  EntryInv'
BY DEF EntryInv, Pending

(* One entry at most is pending.                                           *)
LEMMA EntryStep ==
  ASSUME TypeOK, LockInv, EntryInv, StuckInv, ApplyInv, [Next]_vars
  PROVE  EntryInv'
<1>1. CASE Calm
  <2>1. UNCHANGED <<applying, work>>
    BY <1>1 DEF Calm
  <2>2. QED
    BY <1>1, <2>1, CalmKeeps DEF EntryInv, Pending
<1>2. ASSUME NEW t \in Turns, Queried(t) PROVE EntryInv'
  <2>1. UNCHANGED <<applying, work>>
    BY <1>2 DEF Queried, PublishUnchanged
  <2>2. QED
    BY <1>2, <2>1, QueriedJournal DEF EntryInv, Pending
<1>3. ASSUME NEW t \in Turns, Inserted(t) PROVE EntryInv'
  <2>1. UNCHANGED work
    BY <1>3 DEF Inserted, PublishUnchanged
  <2>2. \A u \in Turns : journal'[u].kind = "none" <=> journal'[u].status = "none"
    BY <1>3, InsertedJournal, JournalTypes DEF EntryInv, Pending
  <2>3. \A u \in Turns : journal'[u].kind = "query" => journal'[u].status = "done"
    BY <1>3, InsertedJournal DEF EntryInv, Pending
  <2>4. \A u \in Turns : journal'[u].kind = "amend" =>
          journal'[u].at >= 1 /\ \A p \in Pages : journal'[u].after[p] = journal'[u].before[p] \union {u}
    BY <1>3, InsertedJournal DEF EntryInv
  <2>5. \A u \in Turns : journal'[u].kind # "amend" => \A p \in Pages : journal'[u].after[p] = {}
    BY <1>3, InsertedJournal DEF EntryInv
  <2>6. QED
    BY <1>3, <2>1, <2>2, <2>3, <2>4, <2>5, InsertedJournal DEF EntryInv
<1>4. CASE Advances
  <2>1. UNCHANGED <<journal, work>> /\ applying'.turn = applying.turn /\ applying.turn # NoOne
    BY <1>4, AdvanceIs, TypeParts DEF Advances, Applying, Advance
  <2>2. QED
    BY <2>1, EntrySame DEF EntryInv
<1>5. CASE GivesUp
  <2>1. /\ applying.turn # NoOne /\ applying'.turn = NoOne /\ UNCHANGED work
        /\ \A u \in Turns :
             /\ journal'[u].kind = journal[u].kind /\ journal'[u].at = journal[u].at
             /\ journal'[u].before = journal[u].before /\ journal'[u].after = journal[u].after
             /\ u # applying.turn => journal'[u].status = journal[u].status
        /\ journal'[applying.turn].status \notin {"none"} /\ Pending' \subseteq Pending
    BY <1>5, EndsApplying
  <2>2. applying.turn \in Turns /\ journal[applying.turn].kind = "amend"
    BY <2>1, TheEntry
  <2>3. QED
    BY <2>1, <2>2 DEF EntryInv
<1>6. CASE Checks
  <2>1. UNCHANGED <<journal, work>> /\ applying'.turn = applying.turn /\ applying.turn # NoOne
    BY <1>6, TypeParts DEF Checks, Applying, ApplyingType
  <2>2. QED
    BY <2>1, EntrySame DEF EntryInv
<1>7. CASE Applying /\ Write
  <2>1. \A p \in Pages : journal[applying.turn].before[p] \subseteq work'[p]
    BY <1>7, WriteIs, TheEntry DEF Applying
  <2>2. UNCHANGED journal /\ applying'.turn = applying.turn /\ applying.turn # NoOne
    BY <1>7, WriteIs DEF Applying
  <2>3. Pending = {applying.turn}
    BY <2>2, TheEntry
  <2>4. QED
    BY <2>1, <2>2, <2>3 DEF EntryInv, Pending
<1>8. CASE Applying /\ WriteTask
  <2>1. UNCHANGED <<journal, work>> /\ applying'.turn = applying.turn /\ applying.turn # NoOne
    BY <1>8, AdvanceIs, TypeParts DEF WriteTask, Applying, Advance
  <2>2. QED
    BY <2>1, EntrySame DEF EntryInv
<1>9. CASE Applying /\ Commit
  <2>1. /\ applying.turn # NoOne /\ applying'.turn = NoOne /\ UNCHANGED work
        /\ \A u \in Turns :
             /\ journal'[u].kind = journal[u].kind /\ journal'[u].at = journal[u].at
             /\ journal'[u].before = journal[u].before /\ journal'[u].after = journal[u].after
             /\ u # applying.turn => journal'[u].status = journal[u].status
        /\ journal'[applying.turn].status \notin {"none"} /\ Pending' \subseteq Pending
    BY <1>9, EndsApplying
  <2>2. applying.turn \in Turns /\ journal[applying.turn].kind = "amend"
    BY <2>1, TheEntry
  <2>3. QED
    BY <2>1, <2>2 DEF EntryInv
<1>10. ASSUME NEW caller \in Turns \union {NoOne}, Run(caller) PROVE EntryInv'
  BY <1>10, RunSame, EntrySame DEF EntryInv
<1>11. CASE GitUnchanged /\ Verify
  BY <1>11, PagesSame, EntrySame DEF EntryInv
<1>12. CASE GitUnchanged /\ CommitPages
  BY <1>12, PagesSame, EntrySame DEF EntryInv
<1>13. CASE GitUnchanged /\ Refresh
  <2>1. UNCHANGED <<journal, applying>>
    BY <1>13 DEF GitUnchanged
  <2>2. QED
    BY <1>13, <2>1, RefreshedPages, EntrySame DEF EntryInv
<1>14. CASE GitUnchanged /\ Push
  BY <1>14, PagesSame, EntrySame DEF EntryInv
<1>15. CASE GitUnchanged /\ NetworkFails
  BY <1>15, PagesSame, EntrySame DEF EntryInv
<1>16. CASE GitUnchanged /\ Unlink
  BY <1>16, PagesSame, EntrySame DEF EntryInv
<1>17. ASSUME NEW e \in Edits, NEW p \in Pages, Edit(e, p) PROVE EntryInv'
  BY <1>17, EditedPages, EntrySame DEF EntryInv
<1>18. CASE Crash
  BY <1>18, CrashSame, EntrySame
<1>19. CASE Start
  <2>1. UNCHANGED <<journal, work>>
    BY <1>19, StartSame
  <2>2. applying'.turn \in Pending \union {NoOne}
    BY <1>19, StartSame DEF EntryInv
  <2>3. QED
    BY <2>1, <2>2, EntrySame
<1>20. QED
  BY <1>1, <1>2, <1>3, <1>4, <1>5, <1>6, <1>7, <1>8, <1>9, <1>10, <1>11, <1>12,
     <1>13, <1>14, <1>15, <1>16, <1>17, <1>18, <1>19, Shapes

-----------------------------------------------------------------------------
(* What a turn has written comes from where it was.                        *)
LEMMA AbsentSame ==
  ASSUME AbsentInv, Pending' \subseteq Pending,
         \A t \in Turns : journal'[t].kind = journal[t].kind /\ journal'[t].after = journal[t].after,
         \A t \in Turns, p \in Pages : t \in head'[p] \/ t \in remote'[p] => t \in head[p] \/ t \in remote[p],
         \A t \in Turns, p \in Pages : t \in work'[p] => t \in work[p] \/ t \in head[p] \/ t \in remote[p]
  PROVE  AbsentInv'
<1>1. ASSUME NEW t \in Turns, Unknown(t)
      PROVE  Unknown(t)'
  BY <1>1 DEF Unknown
<1>2. ASSUME NEW t \in Turns, journal'[t].kind # "amend"
      PROVE  Unknown(t)' /\ \A p \in Pages : t \notin work'[p]
  <2>1. Unknown(t) /\ \A p \in Pages : t \notin work[p]
    BY <1>2 DEF AbsentInv
  <2>2. QED
    BY <1>1, <2>1 DEF Unknown
<1>3. \A t \in Pending' : t \in Turns /\ Unknown(t)
  BY DEF AbsentInv, Pending
<1>4. QED
  BY <1>1, <1>2, <1>3 DEF AbsentInv

(* A turn that has no entry is nowhere.                                    *)
LEMMA AbsentStep ==
  ASSUME TypeOK, LockInv, EntryInv, StuckInv, AbsentInv, ApplyInv, TaskInv, [Next]_vars
  PROVE  AbsentInv'
<1>1. CASE Calm
  <2>1. UNCHANGED <<work, head, remote>>
    BY <1>1 DEF Calm
  <2>2. QED
    BY <1>1, <2>1, CalmKeeps, AbsentSame
<1>2. ASSUME NEW t \in Turns, Queried(t) PROVE AbsentInv'
  <2>1. UNCHANGED <<work, head, remote>>
    BY <1>2 DEF Queried, PublishUnchanged, gitVars
  <2>2. ASSUME NEW u \in Turns, journal'[u].kind # "amend"
        PROVE  Unknown(u)' /\ \A p \in Pages : u \notin work'[p]
    <3>1. Unknown(u) /\ \A p \in Pages : u \notin work[p]
      BY <1>2, <2>2, QueriedJournal DEF AbsentInv
    <3>2. QED
      BY <1>2, <2>1, <3>1, QueriedJournal DEF Unknown
  <2>3. Pending' = {}
    BY <1>2, QueriedJournal
  <2>4. QED
    BY <2>2, <2>3 DEF AbsentInv
<1>3. ASSUME NEW t \in Turns, Inserted(t) PROVE AbsentInv'
  <2>1. UNCHANGED <<work, head, remote>>
    BY <1>3 DEF Inserted, PublishUnchanged, gitVars
  <2>2. ASSUME NEW u \in Turns, journal'[u].kind # "amend" \/ u = t
        PROVE  Unknown(u)' /\ \A p \in Pages : u \notin work'[p]
    <3>1. Unknown(u) /\ \A p \in Pages : u \notin work[p]
      BY <1>3, <2>2, InsertedJournal DEF AbsentInv
    <3>2. QED
      BY <1>3, <2>1, <3>1, InsertedJournal DEF Unknown
  <2>3. Pending' = {t}
    BY <1>3, InsertedJournal
  <2>4. QED
    BY <1>3, <2>2, <2>3 DEF AbsentInv
<1>4. CASE Advances
  <2>1. UNCHANGED <<journal, work, head, remote>>
    BY <1>4 DEF Advances, Applying, Advance, gitVars
  <2>2. Pending' = Pending
    BY <2>1 DEF Pending
  <2>3. QED
    BY <2>1, <2>2, AbsentSame
<1>5. CASE GivesUp
  BY <1>5, EndsApplying, AbsentSame
<1>6. CASE Checks
  <2>1. UNCHANGED <<journal, work, head, remote>>
    BY <1>6 DEF Checks, Applying, Advance, gitVars
  <2>2. Pending' = Pending
    BY <2>1 DEF Pending
  <2>3. QED
    BY <2>1, <2>2, AbsentSame
<1>7. CASE Applying /\ Write
  <2>1. UNCHANGED <<journal, head, remote>> /\ applying.turn # NoOne
    BY <1>7, WriteIs DEF Applying
  <2>2. Pending' = Pending
    BY <2>1 DEF Pending
  <2> DEFINE t == applying.turn
  <2>3. t \in Turns /\ journal[t].kind = "amend"
    BY <2>1, TheEntry
  <2>4. \A u \in Turns, p \in Pages : u # t /\ u \in work'[p] => u \in work[p]
    <3>1. PICK p \in Pages :
            /\ work'[p] = journal[t].after[p] /\ \A q \in Pages : q # p => work'[q] = work[q]
      BY <1>7, WriteIs
    <3>2. journal[t].after[p] = journal[t].before[p] \union {t} /\ journal[t].before[p] \subseteq work[p]
      BY <2>1, TheEntry
    <3>3. QED
      BY <3>1, <3>2
  <2>5. ASSUME NEW u \in Turns, Unknown(u) PROVE Unknown(u)'
    BY <2>1, <2>5 DEF Unknown
  <2>6. \A u \in Turns : journal'[u].kind # "amend" => Unknown(u)' /\ \A p \in Pages : u \notin work'[p]
    BY <2>1, <2>3, <2>4, <2>5 DEF AbsentInv
  <2>7. \A u \in Pending' : Unknown(u)'
    BY <2>2, <2>5 DEF AbsentInv, Pending
  <2>8. QED
    BY <2>6, <2>7 DEF AbsentInv
<1>8. CASE Applying /\ WriteTask
  <2>1. UNCHANGED <<journal, work, head, remote>>
    BY <1>8 DEF WriteTask, Applying, Advance, gitVars
  <2>2. Pending' = Pending
    BY <2>1 DEF Pending
  <2>3. QED
    BY <2>1, <2>2, AbsentSame
<1>9. CASE Applying /\ Commit
  BY <1>9, EndsApplying, AbsentSame
<1>10. ASSUME NEW caller \in Turns \union {NoOne}, Run(caller) PROVE AbsentInv'
  <2>1. UNCHANGED <<journal, work, head, remote>>
    BY <1>10, RunSame
  <2>2. Pending' = Pending
    BY <2>1 DEF Pending
  <2>3. QED
    BY <2>1, <2>2, AbsentSame
<1>11. CASE GitUnchanged /\ Verify
  <2>1. UNCHANGED <<journal, work, head, remote>>
    BY <1>11 DEF Verify, GitUnchanged
  <2>2. Pending' = Pending
    BY <2>1 DEF Pending
  <2>3. QED
    BY <2>1, <2>2, AbsentSame
<1>12. CASE GitUnchanged /\ CommitPages
  <2>1. UNCHANGED <<journal, work, remote>> /\ head' = work /\ git.at = "commit"
    BY <1>12 DEF CommitPages, GitUnchanged
  <2>2. ASSUME NEW t \in Turns, Unknown(t), \A p \in Pages : t \notin work[p]
        PROVE  Unknown(t)'
    BY <2>1, <2>2 DEF Unknown
  <2>3. \A t \in Turns : journal'[t].kind # "amend" => Unknown(t)' /\ \A p \in Pages : t \notin work'[p]
    BY <2>1, <2>2 DEF AbsentInv
  <2>4. \A t \in Pending' : Unknown(t)'
    BY <2>1, <2>2 DEF AbsentInv, Pending, TaskInv, RunInv
  <2>5. QED
    BY <2>3, <2>4 DEF AbsentInv
<1>13. CASE GitUnchanged /\ Refresh
  <2>1. UNCHANGED <<journal, remote>>
    BY <1>13 DEF Refresh, GitUnchanged
  <2>2. Pending' = Pending
    BY <2>1 DEF Pending
  <2>3. \A t \in Turns, p \in Pages : t \in head'[p] \/ t \in remote'[p] => t \in head[p] \/ t \in remote[p]
    BY <1>13, RefreshedPages
  <2>4. \A t \in Turns, p \in Pages : t \in work'[p] => t \in work[p] \/ t \in head[p] \/ t \in remote[p]
    BY <1>13, RefreshedPages
  <2>5. QED
    BY <2>1, <2>2, <2>3, <2>4, AbsentSame
<1>14. CASE GitUnchanged /\ Push
  <2>1. UNCHANGED <<journal, work, head>> /\ remote' = head
    BY <1>14 DEF Push, GitUnchanged
  <2>2. Pending' = Pending
    BY <2>1 DEF Pending
  <2>3. QED
    BY <2>1, <2>2, AbsentSame
<1>15. CASE GitUnchanged /\ NetworkFails
  <2>1. UNCHANGED <<journal, work, head>> /\ (remote' = head \/ UNCHANGED remote)
    BY <1>15 DEF NetworkFails, GitUnchanged
  <2>2. Pending' = Pending
    BY <2>1 DEF Pending
  <2>3. QED
    BY <2>1, <2>2, AbsentSame
<1>16. CASE GitUnchanged /\ Unlink
  <2>1. UNCHANGED <<journal, work, head, remote>>
    BY <1>16 DEF Unlink, GitUnchanged
  <2>2. Pending' = Pending
    BY <2>1 DEF Pending
  <2>3. QED
    BY <2>1, <2>2, AbsentSame
<1>17. ASSUME NEW e \in Edits, NEW p \in Pages, Edit(e, p) PROVE AbsentInv'
  <2>1. UNCHANGED <<journal, head>>
    BY <1>17, EditedPages
  <2>2. Pending' = Pending
    BY <2>1 DEF Pending
  <2>3. QED
    BY <1>17, <2>1, <2>2, EditedPages, AbsentSame
<1>18. CASE Crash
  <2>1. UNCHANGED <<journal, work, head, remote>>
    BY <1>18, CrashSame
  <2>2. Pending' = Pending
    BY <2>1 DEF Pending
  <2>3. QED
    BY <2>1, <2>2, AbsentSame
<1>19. CASE Start
  <2>1. UNCHANGED <<journal, work, head, remote>>
    BY <1>19, StartSame
  <2>2. Pending' = Pending
    BY <2>1 DEF Pending
  <2>3. QED
    BY <2>1, <2>2, AbsentSame
<1>20. QED
  BY <1>1, <1>2, <1>3, <1>4, <1>5, <1>6, <1>7, <1>8, <1>9, <1>10, <1>11, <1>12,
     <1>13, <1>14, <1>15, <1>16, <1>17, <1>18, <1>19, Shapes

-----------------------------------------------------------------------------
LEMMA WholeSame ==
  ASSUME WholeInv, UNCHANGED <<work, head, remote>>,
         \A t \in Turns : journal[t].status \in {"pending", "conflict"} => journal'[t].status \in {"pending", "conflict"}
  PROVE  WholeInv'
BY DEF WholeInv, Whole

(* Whole pages put together are whole.                                     *)
LEMMA WholeUnion ==
  ASSUME NEW a, NEW b, NEW c, Whole(a), Whole(b), \A p \in Pages : c[p] = a[p] \union b[p]
  PROVE  Whole(c)
BY DEF Whole

(* Half a publication is the remainder of one that was stopped.            *)
LEMMA WholeStep ==
  ASSUME TypeOK, LockInv, EntryInv, StuckInv, AbsentInv, WholeInv, ApplyInv, [Next]_vars
  PROVE  WholeInv'
<1>1. CASE Calm
  <2>1. UNCHANGED <<work, head, remote>>
    BY <1>1 DEF Calm
  <2>2. QED
    BY <1>1, <2>1, CalmKeeps, WholeSame
<1>2. ASSUME NEW t \in Turns, Queried(t) PROVE WholeInv'
  <2>1. UNCHANGED <<work, head, remote>>
    BY <1>2 DEF Queried, PublishUnchanged, gitVars
  <2>2. journal[t].status = "none"
    BY <1>2, QueriedJournal DEF EntryInv
  <2>3. QED
    BY <1>2, <2>1, <2>2, QueriedJournal, WholeSame
<1>3. ASSUME NEW t \in Turns, Inserted(t) PROVE WholeInv'
  <2>1. UNCHANGED <<work, head, remote>>
    BY <1>3 DEF Inserted, PublishUnchanged, gitVars
  <2>2. QED
    BY <1>3, <2>1, InsertedJournal, WholeSame
<1>4. CASE Advances
  <2>1. UNCHANGED <<journal, work, head, remote>>
    BY <1>4 DEF Advances, Applying, Advance, gitVars
  <2>2. QED
    BY <2>1, WholeSame
<1>5. CASE GivesUp
  <2>1. UNCHANGED <<work, head, remote>> /\ applying.turn # NoOne
    BY <1>5, EndsApplying
  <2>2. QED
    BY <1>5, <2>1, EndsApplying, TheEntry, WholeSame
<1>6. CASE Checks
  <2>1. UNCHANGED <<journal, work, head, remote>>
    BY <1>6 DEF Checks, Applying, Advance, gitVars
  <2>2. QED
    BY <2>1, WholeSame
<1>7. CASE Applying /\ Write
  <2> DEFINE t == applying.turn
  <2>1. UNCHANGED <<journal, head, remote>> /\ t # NoOne
    BY <1>7, WriteIs DEF Applying
  <2>2. PICK p \in Pages :
          /\ work'[p] = journal[t].after[p] /\ \A q \in Pages : q # p => work'[q] = work[q]
          /\ Checked(t, p)
    BY <1>7, WriteIs
  <2>3. journal[t].after[p] = journal[t].before[p] \union {t} /\ journal[t].status = "pending"
    BY <2>1, TheEntry
  <2>4. head[p] \subseteq work'[p]
    BY <2>2, <2>3 DEF Checked
  <2>5. \A u \in Turns : u # t => (u \in work'[p] <=> u \in work[p])
    <3>1. journal[t].before[p] \subseteq work[p]
      BY <2>1, TheEntry
    <3>2. QED
      BY <2>2, <2>3, <3>1 DEF Checked
  <2>6. Whole(work)'
    BY <2>1, <2>2, <2>3, <2>5 DEF WholeInv, Whole
  <2>7. QED
    BY <2>1, <2>2, <2>4, <2>6 DEF WholeInv, Whole
<1>8. CASE Applying /\ WriteTask
  <2>1. UNCHANGED <<journal, work, head, remote>>
    BY <1>8 DEF WriteTask, Applying, Advance, gitVars
  <2>2. QED
    BY <2>1, WholeSame
<1>9. CASE Applying /\ Commit
  <2> DEFINE t == applying.turn
  <2>1. /\ UNCHANGED <<work, head, remote>> /\ t # NoOne
        /\ \A u \in Turns : u # t => journal'[u].status = journal[u].status
    BY <1>9, EndsApplying
  <2>2. \A p \in Pages : t \in work[p]
    <3>1. applying.at = 4
      BY <1>9 DEF Commit
    <3>2. \A i \in 1 .. 2 : t \in work[Order[i]]
      BY <2>1, <3>1 DEF ApplyInv
    <3>3. QED
      BY <3>2, OrderPages
  <2>3. \A p \in Pages : t \notin head[p] /\ t \notin remote[p]
    BY <2>1, TheEntry DEF AbsentInv, Unknown
  <2>4. QED
    BY <2>1, <2>2, <2>3 DEF WholeInv, Whole
<1>10. ASSUME NEW caller \in Turns \union {NoOne}, Run(caller) PROVE WholeInv'
  <2>1. UNCHANGED <<journal, work, head, remote>>
    BY <1>10, RunSame
  <2>2. QED
    BY <2>1, WholeSame
<1>11. CASE GitUnchanged /\ Verify
  <2>1. UNCHANGED <<journal, work, head, remote>>
    BY <1>11 DEF Verify, GitUnchanged
  <2>2. QED
    BY <2>1, WholeSame
<1>12. CASE GitUnchanged /\ CommitPages
  <2>1. UNCHANGED <<journal, work, remote>> /\ head' = work
    BY <1>12 DEF CommitPages, GitUnchanged
  <2>2. QED
    BY <2>1 DEF WholeInv, Whole
<1>13. CASE GitUnchanged /\ Refresh
  <2>1. UNCHANGED <<journal, remote>>
    BY <1>13 DEF Refresh, GitUnchanged
  <2>2. CASE UNCHANGED <<head, work>>
    BY <2>1, <2>2, WholeSame
  <2>3. CASE /\ \A p \in Pages : head'[p] = head[p] \union remote[p]
             /\ \A p \in Pages : \/ work[p] = head[p] /\ work'[p] = head'[p]
                                 \/ head'[p] = head[p] /\ work'[p] = work[p]
    <3>1. \A p \in Pages : work'[p] = work[p] \union remote[p] /\ head'[p] \subseteq work'[p]
      BY <2>3 DEF WholeInv
    <3>2. Whole(head') /\ Whole(work')
      BY <2>3, <3>1, WholeUnion DEF WholeInv
    <3>3. QED
      BY <2>1, <3>1, <3>2 DEF WholeInv, Whole
  <2>4. QED
    BY <1>13, <2>2, <2>3, RefreshedPages
<1>14. CASE GitUnchanged /\ Push
  <2>1. UNCHANGED <<journal, work, head>> /\ remote' = head
    BY <1>14 DEF Push, GitUnchanged
  <2>2. QED
    BY <2>1 DEF WholeInv, Whole
<1>15. CASE GitUnchanged /\ NetworkFails
  <2>1. UNCHANGED <<journal, work, head>> /\ (remote' = head \/ UNCHANGED remote)
    BY <1>15 DEF NetworkFails, GitUnchanged
  <2>2. QED
    BY <2>1 DEF WholeInv, Whole
<1>16. CASE GitUnchanged /\ Unlink
  <2>1. UNCHANGED <<journal, work, head, remote>>
    BY <1>16 DEF Unlink, GitUnchanged
  <2>2. QED
    BY <2>1, WholeSame
<1>17. ASSUME NEW e \in Edits, NEW p \in Pages, Edit(e, p) PROVE WholeInv'
  <2>1. UNCHANGED <<journal, head>>
    BY <1>17, EditedPages
  <2>2. QED
    BY <1>17, <2>1, EditedPages DEF WholeInv, Whole
<1>18. CASE Crash
  <2>1. UNCHANGED <<journal, work, head, remote>>
    BY <1>18, CrashSame
  <2>2. QED
    BY <2>1, WholeSame
<1>19. CASE Start
  <2>1. UNCHANGED <<journal, work, head, remote>>
    BY <1>19, StartSame
  <2>2. QED
    BY <2>1, WholeSame
<1>20. QED
  BY <1>1, <1>2, <1>3, <1>4, <1>5, <1>6, <1>7, <1>8, <1>9, <1>10, <1>11, <1>12,
     <1>13, <1>14, <1>15, <1>16, <1>17, <1>18, <1>19, Shapes

-----------------------------------------------------------------------------
LEMMA ApplyNobody ==
  ASSUME applying'.turn = NoOne
  PROVE  ApplyInv'
BY DEF ApplyInv

(* A page that was looked at is as it was seen until it is written.        *)
LEMMA ApplyingStep ==
  ASSUME TypeOK, LockInv, EntryInv, StuckInv, WholeInv, ApplyInv, EditsKept, [Next]_vars
  PROVE  ApplyInv'
<1>1. CASE Calm
  <2>1. CASE applying.turn = NoOne
    BY <1>1, <2>1, ApplyNobody DEF Calm
  <2>2. CASE applying.turn # NoOne
    <3>1. UNCHANGED <<applying, journal, work, head, outbox, placed>>
      BY <1>1, <2>2, CalmKeeps DEF Calm
    <3>2. QED
      BY <3>1 DEF ApplyInv, Checked
  <2>3. QED
    BY <2>1, <2>2
<1>2. ASSUME NEW t \in Turns, Queried(t) PROVE ApplyInv'
  <2>1. applying'.turn = NoOne
    BY <1>2, QueriedJournal DEF Queried
  <2>2. QED
    BY <2>1, ApplyNobody
<1>3. ASSUME NEW t \in Turns, Inserted(t) PROVE ApplyInv'
  BY <1>3, InsertedJournal DEF ApplyInv
<1>4. CASE Advances
  <2> DEFINE t == applying.turn
  <2>1. /\ UNCHANGED <<journal, work, head, outbox>> /\ t # NoOne
        /\ applying'.turn = t /\ applying'.at = applying.at + 1 /\ ~applying'.checked
    BY <1>4, TypeParts, AdvanceIs DEF Advances, Applying, Advance, gitVars
  <2>2. CASE applying.at = 0
    BY <2>1, <2>2 DEF ApplyInv
  <2>3. CASE applying.at \in 1 .. 2 /\ work[Order[applying.at]] =
     journal[t].after[Order[applying.at]]
    <3>1. t \in work[Order[applying.at]]
      BY <2>1, <2>3, TheEntry, OrderPages
    <3>2. \A i \in 1 .. 2 : i < applying'.at => i < applying.at \/ i = applying.at
      BY <2>1, <2>3
    <3>3. QED
      BY <2>1, <2>3, <3>1, <3>2 DEF ApplyInv
  <2>4. QED
    BY <1>4, <2>2, <2>3 DEF Advances
<1>5. CASE GivesUp
  BY <1>5, EndsApplying, ApplyNobody
<1>6. CASE Checks
  <2> DEFINE t == applying.turn
                    p == Order[applying.at]
  <2>1. /\ UNCHANGED <<journal, work, head, outbox>> /\ t # NoOne
        /\ applying'.turn = t /\ applying'.at = applying.at /\ UNCHANGED placed
        /\ applying.at \in 1 .. 2 /\ work[p] = journal[t].before[p]
    BY <1>6, TypeParts DEF Checks, Applying, ApplyingType, gitVars
  <2>2. Checked(t, p)
    BY <2>1, OrderPages DEF WholeInv, EditsKept, Checked
  <2>3. QED
    BY <2>1, <2>2 DEF ApplyInv, Checked
<1>7. CASE Applying /\ Write
  <2> DEFINE t == applying.turn
  <2>1. /\ t # NoOne /\ applying.at \in 1 .. 2
        /\ applying'.turn = t /\ applying'.at = applying.at + 1 /\ ~applying'.checked
    BY <1>7, WriteIs DEF Applying
  <2>2. t \in work'[Order[applying.at]] /\ \A q \in Pages : t \in work[q] => t \in work'[q]
    BY <1>7, <2>1, WriteIs, TheEntry
  <2>3. \A i \in 1 .. 2 : i < applying'.at => i < applying.at \/ i = applying.at
    BY <2>1
  <2>4. QED
    BY <2>1, <2>2, <2>3, OrderPages DEF ApplyInv
<1>8. CASE Applying /\ WriteTask
  <2>1. /\ UNCHANGED work /\ applying.at = 3 /\ applying.turn # NoOne
        /\ applying'.turn = applying.turn /\ applying'.at = 4 /\ ~applying'.checked /\ applying.turn \in outbox'
    BY <1>8, TypeParts, AdvanceIs DEF WriteTask, Applying, Advance
  <2>2. QED
    BY <2>1 DEF ApplyInv
<1>9. CASE Applying /\ Commit
  BY <1>9, EndsApplying, ApplyNobody
<1>10. ASSUME NEW caller \in Turns \union {NoOne}, Run(caller) PROVE ApplyInv'
  <2>1. applying'.turn = NoOne
    BY <1>10, RunSame DEF LockInv, HolderInv
  <2>2. QED
    BY <2>1, ApplyNobody
<1>11. CASE GitUnchanged /\ Verify
  <2>1. applying'.turn = NoOne
    BY <1>11, GitAlone DEF Verify, GitUnchanged, LockInv
  <2>2. QED
    BY <2>1, ApplyNobody
<1>12. CASE GitUnchanged /\ CommitPages
  <2>1. applying'.turn = NoOne
    BY <1>12, GitAlone DEF CommitPages, GitUnchanged, LockInv
  <2>2. QED
    BY <2>1, ApplyNobody
<1>13. CASE GitUnchanged /\ Refresh
  <2>1. applying'.turn = NoOne
    BY <1>13, GitAlone DEF Refresh, GitUnchanged, LockInv
  <2>2. QED
    BY <2>1, ApplyNobody
<1>14. CASE GitUnchanged /\ Push
  <2>1. applying'.turn = NoOne
    BY <1>14, GitAlone DEF Push, GitUnchanged, LockInv
  <2>2. QED
    BY <2>1, ApplyNobody
<1>15. CASE GitUnchanged /\ NetworkFails
  <2>1. applying'.turn = NoOne
    BY <1>15, GitAlone DEF NetworkFails, GitUnchanged, LockInv
  <2>2. QED
    BY <2>1, ApplyNobody
<1>16. CASE GitUnchanged /\ Unlink
  <2>1. applying'.turn = NoOne
    BY <1>16, GitAlone DEF Unlink, GitUnchanged, LockInv
  <2>2. QED
    BY <2>1, ApplyNobody
<1>17. ASSUME NEW e \in Edits, NEW p \in Pages, Edit(e, p) PROVE ApplyInv'
  <2>1. UNCHANGED <<journal, applying, head, outbox>>
    BY <1>17, EditedPages
  <2>2. CASE applying.turn = NoOne
    BY <2>1, <2>2, ApplyNobody
  <2>3. CASE applying.turn # NoOne
    <3> DEFINE t == applying.turn
    <3>1. t \in Turns
      BY <2>3, TheEntry
    <3>2. \A i \in 1 .. 2 : i < applying.at => t \in work'[Order[i]]
      BY <1>17, <2>3, <3>1, EditedPages, OrderPages DEF ApplyInv
    <3>3. ASSUME applying.checked PROVE Checked(t, Order[applying.at])'
      <4> DEFINE q == Order[applying.at]
      <4>1. q \in Pages /\ BeingWritten(q)
        BY <2>3, <3>3, OrderPages DEF LockInv, HolderInv, BeingWritten
      <4>2. Checked(t, q)
        BY <2>3, <3>3 DEF ApplyInv
      <4>3. /\ \A u \in Turns : u \in work'[q] <=> u \in work[q]
            /\ \A f \in Edits : placed'[f].side = "work" /\ placed'[f].page = q => placed'[f] = placed[f]
        BY <1>17, <4>1, EditedPages
      <4>4. QED
        BY <2>1, <4>2, <4>3 DEF Checked
    <3>4. QED
      BY <2>1, <2>3, <3>2, <3>3 DEF ApplyInv
  <2>4. QED
    BY <2>2, <2>3
<1>18. CASE Crash
  BY <1>18, CrashSame, ApplyNobody
<1>19. CASE Start
  <2>1. CASE UNCHANGED <<lock, applying>>
    <3>1. applying'.turn = NoOne
      BY <1>19, <2>1, StartSame DEF LockInv, HolderInv
    <3>2. QED
      BY <3>1, ApplyNobody
  <2>2. CASE applying'.at = 0 /\ ~applying'.checked
    BY <2>2 DEF ApplyInv
  <2>3. QED
    BY <1>19, <2>1, <2>2, StartSame
<1>20. QED
  BY <1>1, <1>2, <1>3, <1>4, <1>5, <1>6, <1>7, <1>8, <1>9, <1>10, <1>11, <1>12,
     <1>13, <1>14, <1>15, <1>16, <1>17, <1>18, <1>19, Shapes

-----------------------------------------------------------------------------
(* A set of numbers has a greatest one.                                    *)
LEMMA Greatest ==
  ASSUME NEW n \in Nat, NEW S \in SUBSET (1 .. n), S # {}
  PROVE  \E x \in S : \A y \in S : y <= x
<1> DEFINE above(x) == x .. n
           T == {above(x) : x \in S}
<1>1. IsWellFoundedOn(StrictSubsetOrdering(1 .. n), FiniteSubsetsOf(1 .. n))
  BY FS_StrictSubsetOrderingWellFounded
<1>2. FiniteSubsetsOf(1 .. n) = SUBSET (1 .. n)
  <2>1. IsFiniteSet(1 .. n)
    BY FS_Interval
  <2>2. QED
    BY <2>1, FS_FiniteSubsetsOfFinite
<1>3. \A x \in S : above(x) \in SUBSET (1 .. n)
  OBVIOUS
<1>4. T \subseteq SUBSET (1 .. n) /\ T # {}
  BY <1>3
<1> HIDE DEF T
<1>5. PICK t \in T : \A u \in T : <<u, t>> \notin StrictSubsetOrdering(1 .. n)
  BY <1>1, <1>2, <1>4, WFMin, ZenonT(60)
<1>6. PICK x \in S : t = above(x)
  BY DEF T
<1>7. ASSUME NEW y \in S PROVE y <= x
  <2>1. <<above(y), above(x)>> \notin StrictSubsetOrdering(1 .. n)
    BY <1>5, <1>6 DEF T
  <2>2. ~(above(y) \subseteq above(x) /\ above(y) # above(x))
    BY <1>3, <2>1 DEF StrictSubsetOrdering
  <2>3. y > x => above(y) \subseteq above(x) /\ x \in above(x) /\ x \notin above(y)
    OBVIOUS
  <2>4. QED
    BY <2>2, <2>3
<1>8. QED
  BY <1>7

(* The newest task decides what the pages of a run shall be.               *)
LEMMA LatestIs ==
  ASSUME TypeOK, OutboxInv, EntryInv, NEW tasks, tasks # {}, tasks \subseteq outbox
  PROVE  \E t \in tasks : Latest(tasks) = journal[t].after
<1>1. Cardinality(Turns) \in Nat /\ outbox \subseteq Turns
  BY TurnsAssumption, FS_CardinalityType DEF TypeOK
<1>2. \A t \in tasks : journal[t].at \in 1 .. Cardinality(Turns)
  BY <1>1, JournalTypes DEF OutboxInv, EntryInv
<1> DEFINE S == {journal[t].at : t \in tasks}
<1>3. S \in SUBSET (1 .. Cardinality(Turns)) /\ S # {}
  BY <1>2
<1>4. PICK x \in S : \A y \in S : y <= x
  <2> HIDE DEF S
  <2>1. QED
    BY <1>1, <1>3, Greatest
<1>5. \E t \in tasks : \A u \in tasks : journal[u].at <= journal[t].at
  BY <1>4
<1>6. QED
  BY <1>5 DEF Latest

(* The publisher only adds to origin, and everybody but the publisher      *)
(* leaves HEAD alone.                                                      *)
LEMMA RemoteKept ==
  ASSUME TypeOK, LockInv, [Next]_vars
  PROVE  \A p \in Pages : remote[p] \subseteq remote'[p]
<1>1. CASE UNCHANGED remote
  BY <1>1
<1>2. CASE \E e \in Edits, p \in Pages : Edit(e, p)
  BY <1>2, EditedPages
<1>3. CASE GitUnchanged /\ (Push \/ NetworkFails)
  BY <1>3 DEF Push, NetworkFails
<1>4. Calm => UNCHANGED remote
  BY DEF Calm
<1>5. \A t \in Turns : Queried(t) \/ Inserted(t) => UNCHANGED remote
  BY DEF Queried, Inserted, PublishUnchanged, gitVars
<1>6. Advances \/ GivesUp \/ Checks \/ Applying => UNCHANGED remote
  BY DEF Advances, GivesUp, Checks, Applying, gitVars
<1>7. \A caller \in Turns \union {NoOne} : Run(caller) => UNCHANGED remote
  BY DEF Run
<1>8. Verify \/ CommitPages \/ Refresh \/ Unlink => UNCHANGED remote
  BY DEF Verify, CommitPages, Refresh, Unlink
<1>9. Crash \/ Start => UNCHANGED remote
  BY DEF Crash, Start, gitVars
<1>10. QED
  BY <1>1, <1>2, <1>3, <1>4, <1>5, <1>6, <1>7, <1>8, <1>9, Shapes

LEMMA OutboxSame ==
  ASSUME TypeOK, OutboxInv, outbox' \subseteq outbox,
         \A t \in Turns : journal[t].kind = "amend" => journal'[t].kind = "amend",
         \A t \in Turns, p \in Pages : t \in work[p] => t \in work'[p],
         \A t \in outbox : up' /\ t \in Pending' => applying'.turn = t /\ applying'.at = 4
  PROVE  OutboxInv'
<1>1. outbox \subseteq Turns
  BY DEF TypeOK
<1>2. \A t \in outbox' : journal'[t].kind = "amend" /\ \A p \in Pages : t \in work'[p]
  BY <1>1 DEF OutboxInv
<1>3. QED
  BY <1>2 DEF OutboxInv

LEMMA RunIdle ==
  ASSUME git' = NoRun
  PROVE  RunInv'
BY DEF RunInv, NoRun

LEMMA IdleStays ==
  ASSUME HolderInv, lock # "git", UNCHANGED git
  PROVE  RunInv'
<1>1. git' = NoRun
  BY DEF HolderInv
<1>2. QED
  BY <1>1, RunIdle

(* A task's files are all there.                                           *)
LEMMA OutboxStep ==
  ASSUME TypeOK, LockInv, EntryInv, StuckInv, ApplyInv, OutboxInv, [Next]_vars
  PROVE  OutboxInv'
<1>1. CASE Calm
  <2>1. UNCHANGED <<up, applying, outbox, work>> /\ Pending' \subseteq Pending
    BY <1>1, CalmKeeps DEF Calm
  <2>2. \A t \in outbox : up' /\ t \in Pending' => applying'.turn = t /\ applying'.at = 4
    BY <2>1 DEF OutboxInv
  <2>3. QED
    BY <1>1, <2>1, <2>2, CalmKeeps, OutboxSame
<1>2. ASSUME NEW t \in Turns, Queried(t) PROVE OutboxInv'
  <2>1. UNCHANGED <<outbox, work>>
    BY <1>2 DEF Queried, PublishUnchanged
  <2>2. Pending' = {} /\ \A u \in Turns : journal[u].kind = "amend" => journal'[u].kind = "amend"
    BY <1>2, QueriedJournal
  <2>3. QED
    BY <1>2, <2>1, <2>2, OutboxSame
<1>3. ASSUME NEW t \in Turns, Inserted(t) PROVE OutboxInv'
  <2>1. UNCHANGED <<outbox, work>>
    BY <1>3 DEF Inserted, PublishUnchanged
  <2>2. /\ Pending' = {t} /\ journal[t].kind = "none"
        /\ \A u \in Turns : journal[u].kind = "amend" => journal'[u].kind = "amend"
    BY <1>3, InsertedJournal
  <2>3. t \notin outbox
    BY <2>2 DEF OutboxInv
  <2>4. QED
    BY <1>3, <2>1, <2>2, <2>3, OutboxSame
<1>4. CASE Advances
  <2>1. applying.turn # NoOne /\ applying.at # 4 /\ UNCHANGED <<up, outbox>>
    BY <1>4 DEF Advances, Applying, Advance
  <2>2. UNCHANGED <<journal, work>> /\ Pending' = Pending
    BY <1>4 DEF Advances, Advance, Pending
  <2>3. \A t \in outbox : up' => t \notin Pending
    BY <2>1, TheEntry DEF OutboxInv
  <2>4. QED
    BY <2>1, <2>2, <2>3, OutboxSame
<1>5. CASE GivesUp
  <2>1. applying.turn # NoOne /\ applying.at # 4 /\ UNCHANGED <<up, outbox>>
    BY <1>5 DEF GivesUp, Applying, GiveUp
  <2>2. /\ UNCHANGED work /\ Pending' \subseteq Pending
        /\ \A u \in Turns : journal'[u].kind = journal[u].kind
    BY <1>5, EndsApplying
  <2>3. \A t \in outbox : up' => t \notin Pending
    BY <2>1, TheEntry DEF OutboxInv
  <2>4. QED
    BY <2>1, <2>2, <2>3, OutboxSame
<1>6. CASE Checks
  <2>1. applying.turn # NoOne /\ applying.at # 4 /\ UNCHANGED <<up, outbox>>
    BY <1>6 DEF Checks, Applying, Advance
  <2>2. UNCHANGED <<journal, work>> /\ Pending' = Pending
    BY <1>6 DEF Checks, Advance, Pending
  <2>3. \A t \in outbox : up' => t \notin Pending
    BY <2>1, TheEntry DEF OutboxInv
  <2>4. QED
    BY <2>1, <2>2, <2>3, OutboxSame
<1>7. CASE Applying /\ Write
  <2>1. applying.turn # NoOne /\ applying.at # 4 /\ UNCHANGED <<up, outbox>>
    BY <1>7 DEF Write, Applying
  <2>2. /\ UNCHANGED journal /\ Pending' = Pending
        /\ \A u \in Turns, p \in Pages : u \in work[p] => u \in work'[p]
    BY <1>7, WriteIs, TheEntry DEF Applying, Checked, Pending
  <2>3. \A t \in outbox : up' => t \notin Pending
    BY <2>1, TheEntry DEF OutboxInv
  <2>4. QED
    BY <2>1, <2>2, <2>3, OutboxSame
<1>8. CASE Applying /\ WriteTask
  <2> DEFINE t == applying.turn
  <2>1. /\ UNCHANGED <<up, journal, work>> /\ applying.at = 3 /\ t # NoOne /\ outbox' = outbox \union {t}
        /\ applying'.turn = t /\ applying'.at = 4
    BY <1>8, TypeParts, AdvanceIs DEF WriteTask, Applying, Advance
  <2>2. Pending = {t} /\ journal[t].kind = "amend"
    BY <2>1, TheEntry
  <2>3. \A p \in Pages : t \in work[p]
    <3>1. \A i \in 1 .. 2 : t \in work[Order[i]]
      BY <2>1 DEF ApplyInv
    <3>2. QED
      BY <3>1, OrderPages
  <2>4. QED
    BY <2>1, <2>2, <2>3 DEF OutboxInv, Pending
<1>9. CASE Applying /\ Commit
  <2>1. Pending' = {} /\ UNCHANGED <<outbox, work>> /\ \A u \in Turns : journal'[u].kind = journal[u].kind
    <3>1. ~GivesUp
      BY <1>9 DEF GivesUp, Commit
    <3>2. QED
      BY <1>9, <3>1, EndsApplying
  <2>2. QED
    BY <2>1, OutboxSame
<1>10. ASSUME NEW caller \in Turns \union {NoOne}, Run(caller) PROVE OutboxInv'
  <2>1. UNCHANGED <<up, journal, applying>> /\ outbox' \subseteq outbox
    BY <1>10 DEF Run, GitUnchanged
  <2>2. Pending' = Pending /\ \A t \in Turns, p \in Pages : t \in work[p] => t \in work'[p]
    BY <1>10, <2>1, RefreshedPages DEF Run, Pending
  <2>3. \A t \in outbox : up' /\ t \in Pending' => applying'.turn = t /\ applying'.at = 4
    BY <2>1, <2>2 DEF OutboxInv
  <2>4. QED
    BY <2>1, <2>2, <2>3, OutboxSame
<1>11. CASE GitUnchanged /\ Verify
  <2>1. UNCHANGED <<up, journal, applying>> /\ outbox' \subseteq outbox
    BY <1>11 DEF Verify, GitUnchanged
  <2>2. Pending' = Pending /\ \A t \in Turns, p \in Pages : t \in work[p] => t \in work'[p]
    BY <1>11, <2>1, RefreshedPages DEF Verify, Pending
  <2>3. \A t \in outbox : up' /\ t \in Pending' => applying'.turn = t /\ applying'.at = 4
    BY <2>1, <2>2 DEF OutboxInv
  <2>4. QED
    BY <2>1, <2>2, <2>3, OutboxSame
<1>12. CASE GitUnchanged /\ CommitPages
  <2>1. UNCHANGED <<up, journal, applying>> /\ outbox' \subseteq outbox
    BY <1>12 DEF CommitPages, GitUnchanged
  <2>2. Pending' = Pending /\ \A t \in Turns, p \in Pages : t \in work[p] => t \in work'[p]
    BY <1>12, <2>1, RefreshedPages DEF CommitPages, Pending
  <2>3. \A t \in outbox : up' /\ t \in Pending' => applying'.turn = t /\ applying'.at = 4
    BY <2>1, <2>2 DEF OutboxInv
  <2>4. QED
    BY <2>1, <2>2, <2>3, OutboxSame
<1>13. CASE GitUnchanged /\ Refresh
  <2>1. UNCHANGED <<up, journal, applying>> /\ outbox' \subseteq outbox
    BY <1>13 DEF Refresh, GitUnchanged
  <2>2. Pending' = Pending /\ \A t \in Turns, p \in Pages : t \in work[p] => t \in work'[p]
    BY <1>13, <2>1, RefreshedPages DEF Pending
  <2>3. \A t \in outbox : up' /\ t \in Pending' => applying'.turn = t /\ applying'.at = 4
    BY <2>1, <2>2 DEF OutboxInv
  <2>4. QED
    BY <2>1, <2>2, <2>3, OutboxSame
<1>14. CASE GitUnchanged /\ Push
  <2>1. UNCHANGED <<up, journal, applying>> /\ outbox' \subseteq outbox
    BY <1>14 DEF Push, GitUnchanged
  <2>2. Pending' = Pending /\ \A t \in Turns, p \in Pages : t \in work[p] => t \in work'[p]
    BY <1>14, <2>1, RefreshedPages DEF Push, Pending
  <2>3. \A t \in outbox : up' /\ t \in Pending' => applying'.turn = t /\ applying'.at = 4
    BY <2>1, <2>2 DEF OutboxInv
  <2>4. QED
    BY <2>1, <2>2, <2>3, OutboxSame
<1>15. CASE GitUnchanged /\ NetworkFails
  <2>1. UNCHANGED <<up, journal, applying>> /\ outbox' \subseteq outbox
    BY <1>15 DEF NetworkFails, GitUnchanged
  <2>2. Pending' = Pending /\ \A t \in Turns, p \in Pages : t \in work[p] => t \in work'[p]
    BY <1>15, <2>1, RefreshedPages DEF NetworkFails, Pending
  <2>3. \A t \in outbox : up' /\ t \in Pending' => applying'.turn = t /\ applying'.at = 4
    BY <2>1, <2>2 DEF OutboxInv
  <2>4. QED
    BY <2>1, <2>2, <2>3, OutboxSame
<1>16. CASE GitUnchanged /\ Unlink
  <2>1. UNCHANGED <<up, journal, applying>> /\ outbox' \subseteq outbox
    BY <1>16 DEF Unlink, GitUnchanged
  <2>2. Pending' = Pending /\ \A t \in Turns, p \in Pages : t \in work[p] => t \in work'[p]
    BY <1>16, <2>1, RefreshedPages DEF Unlink, Pending
  <2>3. \A t \in outbox : up' /\ t \in Pending' => applying'.turn = t /\ applying'.at = 4
    BY <2>1, <2>2 DEF OutboxInv
  <2>4. QED
    BY <2>1, <2>2, <2>3, OutboxSame
<1>17. ASSUME NEW e \in Edits, NEW p \in Pages, Edit(e, p) PROVE OutboxInv'
  <2>1. UNCHANGED <<up, journal, applying>> /\ outbox' \subseteq outbox
    BY <1>17, EditedPages
  <2>2. Pending' = Pending /\ \A t \in Turns, q \in Pages : t \in work[q] => t \in work'[q]
    BY <1>17, <2>1, EditedPages DEF Pending
  <2>3. \A t \in outbox : up' /\ t \in Pending' => applying'.turn = t /\ applying'.at = 4
    BY <2>1, <2>2 DEF OutboxInv
  <2>4. QED
    BY <2>1, <2>2, <2>3, OutboxSame
<1>18. CASE Crash
  <2>1. UNCHANGED <<journal, outbox, work>> /\ ~up'
    BY <1>18, CrashSame
  <2>2. QED
    BY <2>1, OutboxSame
<1>19. CASE Start
  <2>1. UNCHANGED <<journal, outbox, work>> /\ (up' => Pending = {})
    BY <1>19, StartSame
  <2>2. up' => Pending' = {}
    BY <2>1 DEF Pending
  <2>3. QED
    BY <2>1, <2>2, OutboxSame
<1>20. QED
  BY <1>1, <1>2, <1>3, <1>4, <1>5, <1>6, <1>7, <1>8, <1>9, <1>10, <1>11, <1>12,
     <1>13, <1>14, <1>15, <1>16, <1>17, <1>18, <1>19, Shapes

(* What the publisher pushes are whole publications.                       *)
LEMMA RunStep ==
  ASSUME TypeOK, LockInv, EntryInv, StuckInv, AbsentInv, OutboxInv, RunInv, [Next]_vars
  PROVE  RunInv'
<1>1. CASE Calm
  <2>1. UNCHANGED <<outbox, work, head, remote, git>> /\ Pending' \subseteq Pending
    BY <1>1, CalmKeeps DEF Calm
  <2>2. QED
    BY <2>1 DEF RunInv
<1>2. ASSUME NEW t \in Turns, Queried(t) PROVE RunInv'
  <2>1. lock # "git" /\ UNCHANGED git
    BY <1>2 DEF Queried, PublishUnchanged, gitVars
  <2>2. QED
    BY <2>1, IdleStays DEF LockInv
<1>3. ASSUME NEW t \in Turns, Inserted(t) PROVE RunInv'
  <2>1. lock # "git" /\ UNCHANGED git
    BY <1>3 DEF Inserted, PublishUnchanged, gitVars
  <2>2. QED
    BY <2>1, IdleStays DEF LockInv
<1>4. CASE Advances
  <2>1. lock # "git" /\ UNCHANGED git
    BY <1>4 DEF Advances, Applying, gitVars, LockInv, HolderInv
  <2>2. QED
    BY <2>1, IdleStays DEF LockInv
<1>5. CASE GivesUp
  <2>1. lock # "git" /\ UNCHANGED git
    BY <1>5 DEF GivesUp, Applying, gitVars, LockInv, HolderInv
  <2>2. QED
    BY <2>1, IdleStays DEF LockInv
<1>6. CASE Checks
  <2>1. lock # "git" /\ UNCHANGED git
    BY <1>6 DEF Checks, Applying, gitVars, LockInv, HolderInv
  <2>2. QED
    BY <2>1, IdleStays DEF LockInv
<1>7. CASE Applying /\ Write
  <2>1. lock # "git" /\ UNCHANGED git
    BY <1>7 DEF Applying, gitVars, LockInv, HolderInv
  <2>2. QED
    BY <2>1, IdleStays DEF LockInv
<1>8. CASE Applying /\ WriteTask
  <2>1. lock # "git" /\ UNCHANGED git
    BY <1>8 DEF Applying, gitVars, LockInv, HolderInv
  <2>2. QED
    BY <2>1, IdleStays DEF LockInv
<1>9. CASE Applying /\ Commit
  <2>1. lock # "git" /\ UNCHANGED git
    BY <1>9 DEF Applying, gitVars, LockInv, HolderInv
  <2>2. QED
    BY <2>1, IdleStays DEF LockInv
<1>10. ASSUME NEW caller \in Turns \union {NoOne}, Run(caller) PROVE RunInv'
  <2>1. /\ UNCHANGED <<outbox, work, head, remote>>
        /\ git' = [at |-> IF outbox = {} THEN "refresh" ELSE "verify", tasks |-> outbox, caller |-> caller]
    BY <1>10 DEF Run
  <2>2. QED
    BY <2>1 DEF RunInv
<1>11. CASE GitUnchanged /\ Verify
  <2>1. git.at = "verify" /\ UNCHANGED <<up, journal, applying, outbox, work, head, remote>>
    BY <1>11 DEF Verify, GitUnchanged
  <2>2. CASE Ends(FALSE)
    BY <2>2, RunIdle DEF Ends
  <2>3. CASE work = Latest(git.tasks) /\ RunGoesTo("commit")
    <3>1. git'.at = "commit" /\ git'.tasks = git.tasks
      BY <2>3, RunGoesToIs, TypeParts
    <3>2. PICK u \in git.tasks : work = journal[u].after
      BY <2>1, <2>3, LatestIs DEF RunInv
    <3>3. ASSUME NEW t \in Pending, NEW p \in Pages PROVE t \notin work[p]
      <4>1. up /\ applying.turn = NoOne
        BY <2>1, GitAlone DEF LockInv
      <4>2. t \in Turns /\ u \in outbox /\ u \in Turns /\ t # NoOne
        BY TurnsAssumption DEF Pending, RunInv, TypeOK
      <4>3. t # u
        BY <4>1, <4>2 DEF OutboxInv
      <4>4. Unknown(t)
        BY DEF AbsentInv
      <4>5. QED
        BY <3>2, <4>2, <4>3, <4>4 DEF Unknown
    <3>4. Pending' = Pending
      BY <2>1 DEF Pending
    <3>5. QED
      BY <2>1, <3>1, <3>3, <3>4 DEF RunInv
  <2>4. QED
    BY <1>11, <2>2, <2>3 DEF Verify
<1>12. CASE GitUnchanged /\ CommitPages
  <2>1. UNCHANGED <<outbox, work, remote>> /\ head' = work /\ RunGoesTo("refresh")
    BY <1>12 DEF CommitPages
  <2>2. git'.at = "refresh" /\ git'.tasks = git.tasks
    BY <2>1, RunGoesToIs, TypeParts
  <2>3. QED
    BY <2>1, <2>2 DEF RunInv, OutboxInv
<1>13. CASE GitUnchanged /\ Refresh
  <2>1. UNCHANGED <<outbox, remote>> /\ git.at = "refresh" /\ \A p \in Pages : head[p] \subseteq head'[p]
    BY <1>13, RefreshedPages DEF Refresh
  <2>2. \/ \E ok \in BOOLEAN : Ends(ok)
        \/ RunGoesTo("push") /\ git.tasks # {}
    BY <1>13 DEF Refresh, CheckOut, Refreshed
  <2>3. CASE \E ok \in BOOLEAN : Ends(ok)
    BY <2>3, RunIdle DEF Ends
  <2>4. CASE RunGoesTo("push") /\ git.tasks # {}
    <3>1. git'.at = "push" /\ git'.tasks = git.tasks
      BY <2>4, RunGoesToIs, TypeParts
    <3>2. QED
      BY <2>1, <2>4, <3>1 DEF RunInv
  <2>5. QED
    BY <2>2, <2>3, <2>4
<1>14. CASE GitUnchanged /\ Push
  <2>1. UNCHANGED <<outbox, work, head>> /\ remote' = head /\ git.at = "push" /\ RunGoesTo("unlink")
    BY <1>14 DEF Push
  <2>2. git'.at = "unlink" /\ git'.tasks = git.tasks
    BY <2>1, RunGoesToIs, TypeParts
  <2>3. QED
    BY <2>1, <2>2 DEF RunInv
<1>15. CASE GitUnchanged /\ NetworkFails
  BY <1>15, RunIdle DEF NetworkFails, Ends
<1>16. CASE GitUnchanged /\ Unlink
  <2>1. UNCHANGED <<work, head, remote>> /\ git.at = "unlink"
    BY <1>16 DEF Unlink
  <2>2. PICK t \in git.tasks :
          /\ outbox' = outbox \ {t}
          /\ IF git.tasks = {t} THEN Ends(TRUE)
             ELSE git' = [git EXCEPT !.tasks = @ \ {t}] /\ UNCHANGED <<pc, lock>>
    BY <1>16 DEF Unlink
  <2>3. CASE git.tasks = {t}
    BY <2>2, <2>3, RunIdle DEF Ends
  <2>4. CASE git.tasks # {t}
    <3>1. git'.at = "unlink" /\ git'.tasks = git.tasks \ {t}
      BY <2>1, <2>2, <2>4, TypeParts DEF GitType
    <3>2. QED
      BY <2>1, <2>2, <2>4, <3>1 DEF RunInv
  <2>5. QED
    BY <2>3, <2>4
<1>17. ASSUME NEW e \in Edits, NEW p \in Pages, Edit(e, p) PROVE RunInv'
  <2>1. UNCHANGED <<outbox, head, git>> /\ Pending' = Pending
    BY <1>17, EditedPages DEF Pending
  <2>2. /\ \A t \in Turns, q \in Pages : t \in work'[q] <=> t \in work[q]
        /\ \A t \in Turns, q \in Pages : t \in remote'[q] <=> t \in remote[q]
    BY <1>17, EditedPages
  <2>3. git.tasks \subseteq Turns /\ Pending \subseteq Turns
    BY DEF TypeOK, Pending
  <2>4. QED
    BY <2>1, <2>2, <2>3 DEF RunInv
<1>18. CASE Crash
  BY <1>18, CrashSame, RunIdle
<1>19. CASE Start
  <2>1. lock # "git" /\ UNCHANGED git
    BY <1>19, StartSame
  <2>2. QED
    BY <2>1, IdleStays DEF LockInv
<1>20. QED
  BY <1>1, <1>2, <1>3, <1>4, <1>5, <1>6, <1>7, <1>8, <1>9, <1>10, <1>11, <1>12,
     <1>13, <1>14, <1>15, <1>16, <1>17, <1>18, <1>19, Shapes

-----------------------------------------------------------------------------
LEMMA DeliveredSame ==
  ASSUME TypeOK, LockInv, [Next]_vars, DoneIsDelivered, outbox \subseteq outbox',
         \A t \in Turns : journal'[t].status = "done" /\ journal'[t].kind = "amend"
                          => journal[t].status = "done" /\ journal[t].kind = "amend"
  PROVE  DoneIsDelivered'
BY RemoteKept DEF DoneIsDelivered

(* A task leaves the outbox when origin has its pages.                     *)
LEMMA DeliveredStep ==
  ASSUME TypeOK, LockInv, EntryInv, StuckInv, ApplyInv, RunInv, DoneIsDelivered, [Next]_vars
  PROVE  DoneIsDelivered'
<1>1. CASE Calm
  <2>1. UNCHANGED outbox
    BY <1>1 DEF Calm
  <2>2. QED
    BY <1>1, <2>1, CalmKeeps, DeliveredSame
<1>2. ASSUME NEW t \in Turns, Queried(t) PROVE DoneIsDelivered'
  <2>1. UNCHANGED outbox
    BY <1>2 DEF Queried, PublishUnchanged
  <2>2. QED
    BY <1>2, <2>1, QueriedJournal, DeliveredSame
<1>3. ASSUME NEW t \in Turns, Inserted(t) PROVE DoneIsDelivered'
  <2>1. UNCHANGED outbox
    BY <1>3 DEF Inserted, PublishUnchanged
  <2>2. QED
    BY <1>3, <2>1, InsertedJournal, DeliveredSame
<1>4. CASE Advances
  <2>1. UNCHANGED journal /\ outbox \subseteq outbox'
    BY <1>4 DEF Advances, Advance
  <2>2. QED
    BY <2>1, DeliveredSame
<1>5. CASE GivesUp
  <2>1. /\ UNCHANGED outbox /\ applying.turn # NoOne
        /\ \A u \in Turns : /\ journal'[u].kind = journal[u].kind
                            /\ u # applying.turn => journal'[u].status = journal[u].status
        /\ journal'[applying.turn].status # "done"
    BY <1>5, EndsApplying
  <2>2. QED
    BY <2>1, DeliveredSame
<1>6. CASE Checks
  <2>1. UNCHANGED journal /\ outbox \subseteq outbox'
    BY <1>6 DEF Checks, Advance
  <2>2. QED
    BY <2>1, DeliveredSame
<1>7. CASE Applying /\ Write
  <2>1. UNCHANGED journal /\ outbox \subseteq outbox'
    BY <1>7 DEF Write, Advance
  <2>2. QED
    BY <2>1, DeliveredSame
<1>8. CASE Applying /\ WriteTask
  <2>1. UNCHANGED journal /\ outbox \subseteq outbox'
    BY <1>8 DEF WriteTask, Advance
  <2>2. QED
    BY <2>1, DeliveredSame
<1>9. CASE Applying /\ Commit
  <2>1. /\ UNCHANGED <<outbox, remote>> /\ applying.turn # NoOne
        /\ \A u \in Turns : /\ journal'[u].kind = journal[u].kind
                            /\ u # applying.turn => journal'[u].status = journal[u].status
    BY <1>9, EndsApplying
  <2>2. applying.turn \in outbox
    BY <1>9, <2>1 DEF Commit, ApplyInv
  <2>3. QED
    BY <2>1, <2>2 DEF DoneIsDelivered
<1>10. ASSUME NEW caller \in Turns \union {NoOne}, Run(caller)
      PROVE  DoneIsDelivered'
  BY <1>10, RunSame, DeliveredSame
<1>11. CASE GitUnchanged /\ Verify
  <2>1. UNCHANGED <<journal, outbox>>
    BY <1>11 DEF Verify, GitUnchanged
  <2>2. QED
    BY <2>1, DeliveredSame
<1>12. CASE GitUnchanged /\ CommitPages
  <2>1. UNCHANGED <<journal, outbox>>
    BY <1>12 DEF CommitPages, GitUnchanged
  <2>2. QED
    BY <2>1, DeliveredSame
<1>13. CASE GitUnchanged /\ Refresh
  <2>1. UNCHANGED <<journal, outbox>>
    BY <1>13 DEF Refresh, GitUnchanged
  <2>2. QED
    BY <2>1, DeliveredSame
<1>14. CASE GitUnchanged /\ Push
  <2>1. UNCHANGED <<journal, outbox>>
    BY <1>14 DEF Push, GitUnchanged
  <2>2. QED
    BY <2>1, DeliveredSame
<1>15. CASE GitUnchanged /\ NetworkFails
  <2>1. UNCHANGED <<journal, outbox>>
    BY <1>15 DEF NetworkFails, GitUnchanged
  <2>2. QED
    BY <2>1, DeliveredSame
<1>16. CASE GitUnchanged /\ Unlink
  <2>1. UNCHANGED <<journal, remote>> /\ git.at = "unlink" /\ \E t \in git.tasks : outbox' = outbox \ {t}
    BY <1>16 DEF Unlink, GitUnchanged
  <2>2. \A t \in git.tasks, p \in Pages : t \in remote[p]
    BY <2>1 DEF RunInv
  <2>3. QED
    BY <2>1, <2>2 DEF DoneIsDelivered
<1>17. ASSUME NEW e \in Edits, NEW p \in Pages, Edit(e, p) PROVE DoneIsDelivered'
  BY <1>17, EditedPages, DeliveredSame
<1>18. CASE Crash
  BY <1>18, CrashSame, DeliveredSame
<1>19. CASE Start
  BY <1>19, StartSame, DeliveredSame
<1>20. QED
  BY <1>1, <1>2, <1>3, <1>4, <1>5, <1>6, <1>7, <1>8, <1>9, <1>10, <1>11, <1>12,
     <1>13, <1>14, <1>15, <1>16, <1>17, <1>18, <1>19, Shapes

-----------------------------------------------------------------------------
(* A turn is told to review what was rejected when nothing is pending, or  *)
(* when its own application is given up.                                   *)
RightlyRejected ==
  \A u \in Turns : pc'[u] \in {"rejected", "review"} =>
    \/ pc[u] \in {"rejected", "review"} \/ Pending' = {}
    \/ GivesUp /\ u = applying.turn /\ up

LEMMA GotoIs ==
  ASSUME PcType, NEW t \in Turns, NEW where, Goto(t, where)
  PROVE  pc'[t] = where /\ \A u \in Turns : u # t => pc'[u] = pc[u]
BY DEF PcType, Goto

LEMMA EndsIs ==
  ASSUME PcType, GitType, NEW ok, Ends(ok)
  PROVE  \A u \in Turns : pc'[u] = pc[u] \/ (pc[u] = "refresh" /\ pc'[u] \in {"read", "failed"})
<1>1. git.caller \in Turns \union {NoOne}
  BY DEF GitType
<1>2. QED
  BY <1>1 DEF PcType, Ends, Goto

(* Where a step of the publisher leaves the turns.                         *)
LEMMA GitPlaces ==
  ASSUME PcType, GitType, Verify \/ CommitPages \/ Refresh \/ Push \/ NetworkFails \/ Unlink
  PROVE  \A u \in Turns : pc'[u] = pc[u] \/ (pc[u] = "refresh" /\ pc'[u] \in {"read", "failed"})
<1>1. UNCHANGED pc \/ \E ok \in BOOLEAN : Ends(ok)
  BY DEF Verify, CommitPages, Refresh, CheckOut, Refreshed, Push, NetworkFails, Unlink, RunGoesTo
<1>2. QED
  BY <1>1, EndsIs

LEMMA NothingPending ==
  ASSUME TypeOK, LockInv, EntryInv, StuckInv, up, lock = "free", journal' = Recovered
  PROVE  Pending' = {}
BY RecoveredIs DEF Pending

(* When a turn is rejected.                                                *)
LEMMA Rejections ==
  ASSUME TypeOK, LockInv, EntryInv, StuckInv, [Next]_vars
  PROVE  RightlyRejected
<1>1. ASSUME NEW t \in Turns, Begin(t) PROVE RightlyRejected
  <2>1. \E where : Goto(t, where) /\ where \notin {"rejected", "review"}
    BY <1>1 DEF Begin
  <2>2. QED
    BY <2>1, GotoIs, TypeParts DEF RightlyRejected
<1>2. ASSUME NEW t \in Turns, Read(t) PROVE RightlyRejected
  <2>1. \E where : Goto(t, where) /\ where \notin {"rejected", "review"}
    BY <1>2 DEF Read
  <2>2. QED
    BY <2>1, GotoIs, TypeParts DEF RightlyRejected
<1>3. ASSUME NEW t \in Turns, Asks(t) PROVE RightlyRejected
  <2>1. \E where : Goto(t, where) /\ where \notin {"rejected", "review"}
    BY <1>3, AsksThinks DEF Thinks
  <2>2. QED
    BY <2>1, GotoIs, TypeParts DEF RightlyRejected
<1>4. ASSUME NEW t \in Turns, Propose(t) PROVE RightlyRejected
  <2>1. \E where : Goto(t, where) /\ where \notin {"rejected", "review"}
    BY <1>4 DEF Propose
  <2>2. QED
    BY <2>1, GotoIs, TypeParts DEF RightlyRejected
<1>5. ASSUME NEW t \in Turns, Decided(t) PROVE RightlyRejected
  <2>1. up /\ lock = "free" /\ journal' = Recovered
    BY <1>5 DEF Decided, LockInv, ThreadInv
  <2>2. QED
    BY <2>1, NothingPending DEF RightlyRejected
<1>6. ASSUME NEW t \in Turns, Queried(t) PROVE RightlyRejected
  BY <1>6, QueriedJournal DEF RightlyRejected
<1>7. ASSUME NEW t \in Turns, Refused(t) PROVE RightlyRejected
  <2>1. up /\ lock = "free" /\ journal' = Recovered
    BY <1>7 DEF Refused, LockInv, ThreadInv
  <2>2. QED
    BY <2>1, NothingPending DEF RightlyRejected
<1>8. ASSUME NEW t \in Turns, Inserted(t) PROVE RightlyRejected
  <2>1. UNCHANGED pc
    BY <1>8 DEF Inserted, Insert
  <2>2. QED
    BY <2>1 DEF RightlyRejected
<1>9. ASSUME NEW t \in Turns, Review(t) PROVE RightlyRejected
  <2>1. pc[t] = "rejected" /\ Goto(t, "review")
    BY <1>9 DEF Review
  <2>2. QED
    BY <2>1, GotoIs, TypeParts DEF RightlyRejected
<1>10. ASSUME NEW t \in Turns, Record(t) PROVE RightlyRejected
  <2>1. \E where : Goto(t, where) /\ where \notin {"rejected", "review"}
    BY <1>10 DEF Record
  <2>2. QED
    BY <2>1, GotoIs, TypeParts DEF RightlyRejected
<1>11. ASSUME NEW t \in Turns, Fail(t) PROVE RightlyRejected
  <2>1. \E where : Goto(t, where) /\ where \notin {"rejected", "review"}
    BY <1>11 DEF Fail
  <2>2. QED
    BY <2>1, GotoIs, TypeParts DEF RightlyRejected
<1>12. CASE Advances
  <2>1. UNCHANGED pc
    BY <1>12 DEF Advances, Advance
  <2>2. QED
    BY <2>1 DEF RightlyRejected
<1>13. CASE GivesUp
  <2>1. applying.turn \in Turns /\ (up => Return(applying.turn, "rejected")) /\ (~up => UNCHANGED pc)
    BY <1>13, TheEntry DEF GivesUp, GiveUp, Applying
  <2>2. QED
    BY <1>13, <2>1, ReturnIs, TypeParts DEF RightlyRejected
<1>14. CASE Checks
  <2>1. UNCHANGED pc
    BY <1>14 DEF Checks
  <2>2. QED
    BY <2>1 DEF RightlyRejected
<1>15. CASE Applying /\ Write
  <2>1. UNCHANGED pc
    BY <1>15 DEF Write, Advance
  <2>2. QED
    BY <2>1 DEF RightlyRejected
<1>16. CASE Applying /\ WriteTask
  <2>1. UNCHANGED pc
    BY <1>16 DEF WriteTask, Advance
  <2>2. QED
    BY <2>1 DEF RightlyRejected
<1>17. CASE Applying /\ Commit
  <2>1. applying.turn \in Turns /\ (up => Return(applying.turn, "record")) /\ (~up => UNCHANGED pc)
    BY <1>17, TheEntry DEF Commit, Applying
  <2>2. QED
    BY <2>1, ReturnIs, TypeParts DEF RightlyRejected
<1>18. ASSUME NEW caller \in Turns \union {NoOne}, Run(caller) PROVE RightlyRejected
  <2>1. UNCHANGED pc
    BY <1>18, RunSame
  <2>2. QED
    BY <2>1 DEF RightlyRejected
<1>19. CASE GitUnchanged /\ Verify
  BY <1>19, GitPlaces, TypeParts DEF RightlyRejected
<1>20. CASE GitUnchanged /\ CommitPages
  BY <1>20, GitPlaces, TypeParts DEF RightlyRejected
<1>21. CASE GitUnchanged /\ Refresh
  BY <1>21, GitPlaces, TypeParts DEF RightlyRejected
<1>22. CASE GitUnchanged /\ Push
  BY <1>22, GitPlaces, TypeParts DEF RightlyRejected
<1>23. CASE GitUnchanged /\ NetworkFails
  BY <1>23, GitPlaces, TypeParts DEF RightlyRejected
<1>24. CASE GitUnchanged /\ Unlink
  BY <1>24, GitPlaces, TypeParts DEF RightlyRejected
<1>25. ASSUME NEW e \in Edits, NEW p \in Pages, Edit(e, p) PROVE RightlyRejected
  <2>1. UNCHANGED pc
    BY <1>25, EditedPages
  <2>2. QED
    BY <2>1 DEF RightlyRejected
<1>26. CASE Crash
  BY <1>26, CrashSame DEF RightlyRejected
<1>27. CASE Start
  <2>1. UNCHANGED pc
    BY <1>27, StartSame
  <2>2. QED
    BY <2>1 DEF RightlyRejected
<1>28. CASE Rests
  <2>1. UNCHANGED pc
    BY <1>28 DEF Rests
  <2>2. QED
    BY <2>1 DEF RightlyRejected
<1>29. QED
  BY <1>1, <1>2, <1>3, <1>4, <1>5, <1>6, <1>7, <1>8, <1>9, <1>10, <1>11, <1>12,
     <1>13, <1>14, <1>15, <1>16, <1>17, <1>18, <1>19, <1>20, <1>21, <1>22, <1>23,
     <1>24, <1>25, <1>26, <1>27, <1>28, NextCases

LEMMA NoPendingStuck ==
  ASSUME Pending' = {}
  PROVE  StuckInv'
BY DEF StuckInv

LEMMA StuckStays ==
  ASSUME TypeOK, NEW t \in Pending, Stuck(t), \A p \in Pages : work[p] \subseteq work'[p],
         journal'[t].after = journal[t].after
  PROVE  Stuck(t)'
BY DEF Stuck

LEMMA StuckSame ==
  ASSUME TypeOK, StuckInv, UNCHANGED journal, up' => up, \A p \in Pages : work[p] \subseteq work'[p],
         applying'.turn = applying.turn, applying'.at = applying.at,
         \A u \in Turns : pc'[u] \in {"rejected", "review"} => pc[u] \in {"rejected", "review"} \/ Pending' = {}
  PROVE  StuckInv'
<1>1. Pending' = Pending /\ Pending \subseteq Turns
  BY DEF Pending
<1>2. \A t \in Pending : Stuck(t) => Stuck(t)'
  BY StuckStays
<1>3. QED
  BY <1>1, <1>2 DEF StuckInv

(* An entry that is applied beyond the preflight was not rejected.         *)
LEMMA OnlyOnePending ==
  ASSUME TypeOK, EntryInv, applying.turn # NoOne, Pending' = Pending, applying'.turn = applying.turn,
         pc'[applying.turn] \notin {"rejected", "review"}
  PROVE  StuckInv'
<1>1. Pending = {applying.turn}
  BY TheEntry
<1>2. QED
  BY <1>1 DEF StuckInv

(* A pending entry that nobody applies is stuck.                           *)
LEMMA StuckStep ==
  ASSUME TypeOK, LockInv, EntryInv, StuckInv, ApplyInv, [Next]_vars
  PROVE  StuckInv'
<1>1. CASE Calm
  <2>1. CASE UNCHANGED journal
    <3>1. UNCHANGED <<up, work, applying>>
      BY <1>1 DEF Calm
    <3>2. GivesUp => applying'.turn = NoOne /\ applying.turn # NoOne
      BY EndsApplying
    <3>3. QED
      BY <2>1, <3>1, <3>2, Rejections, StuckSame DEF RightlyRejected
  <2>2. CASE up /\ lock = "free" /\ journal' = Recovered
    BY <2>2, NothingPending, NoPendingStuck
  <2>3. QED
    BY <1>1, <2>1, <2>2 DEF Calm
<1>2. ASSUME NEW t \in Turns, Queried(t) PROVE StuckInv'
  BY <1>2, QueriedJournal, NoPendingStuck
<1>3. ASSUME NEW t \in Turns, Inserted(t) PROVE StuckInv'
  <2>1. UNCHANGED pc /\ pc[t] \notin {"rejected", "review"}
    BY <1>3 DEF Inserted, Insert, LockInv, ThreadInv
  <2>2. Pending' = {t} /\ applying'.turn = t
    BY <1>3, InsertedJournal
  <2>3. QED
    BY <2>1, <2>2 DEF StuckInv
<1>4. CASE Advances
  <2> DEFINE t == applying.turn
  <2>1. /\ UNCHANGED <<pc, journal>> /\ applying'.turn = t /\ t # NoOne /\ Pending' = Pending
    BY <1>4, AdvanceIs, TypeParts DEF Advances, Applying, Advance, Pending
  <2>2. pc[t] \notin {"rejected", "review"}
    BY <1>4, <2>1, TheEntry, StuckMismatches DEF Advances, StuckInv
  <2>3. QED
    BY <2>1, <2>2, OnlyOnePending
<1>5. CASE GivesUp
  <2>1. CASE ~up
    BY <1>5, <2>1, EndsApplying, NoPendingStuck
  <2>2. CASE up
    <3>1. PICK t \in Pending : t = applying.turn /\ t # NoOne /\ Pending = {t}
      BY <1>5, TheEntry DEF GivesUp, Applying
    <3>2. Stuck(t)
      <4>1. \E p \in Pages : work[p] # journal[t].before[p] /\ work[p] # journal[t].after[p]
        BY <1>5, <3>1, OrderPages DEF GivesUp, Matches
      <4>2. QED
        BY <3>1, <4>1, MismatchIsStuck
    <3>3. /\ UNCHANGED work /\ applying'.turn = NoOne /\ Pending' \subseteq Pending
          /\ journal'[t].after = journal[t].after
      BY <1>5, <3>1, EndsApplying DEF Pending
    <3>4. Stuck(t)'
      BY <3>1, <3>2, <3>3, StuckStays
    <3>5. QED
      BY <3>1, <3>3, <3>4 DEF StuckInv
  <2>3. QED
    BY <2>1, <2>2
<1>6. CASE Checks
  <2> DEFINE t == applying.turn
  <2>1. UNCHANGED <<pc, journal>> /\ applying'.turn = t /\ t # NoOne /\ Pending' = Pending
    BY <1>6, AdvanceIs, TypeParts DEF Checks, Applying, Advance, Pending, ApplyingType
  <2>2. pc[t] \notin {"rejected", "review"}
    BY <1>6, <2>1, TheEntry DEF Checks, StuckInv
  <2>3. QED
    BY <2>1, <2>2, OnlyOnePending
<1>7. CASE Applying /\ Write
  <2> DEFINE t == applying.turn
  <2>1. UNCHANGED <<pc, journal>> /\ applying'.turn = t /\ t # NoOne /\ Pending' = Pending
    BY <1>7, AdvanceIs, TypeParts DEF Write, Applying, Advance, Pending, ApplyingType
  <2>2. pc[t] \notin {"rejected", "review"}
    BY <1>7, <2>1, TheEntry DEF Write, StuckInv
  <2>3. QED
    BY <2>1, <2>2, OnlyOnePending
<1>8. CASE Applying /\ WriteTask
  <2> DEFINE t == applying.turn
  <2>1. UNCHANGED <<pc, journal>> /\ applying'.turn = t /\ t # NoOne /\ Pending' = Pending
    BY <1>8, AdvanceIs, TypeParts DEF WriteTask, Applying, Advance, Pending,
       ApplyingType
  <2>2. pc[t] \notin {"rejected", "review"}
    BY <1>8, <2>1, TheEntry DEF WriteTask, StuckInv
  <2>3. QED
    BY <2>1, <2>2, OnlyOnePending
<1>9. CASE Applying /\ Commit
  <2>1. ~GivesUp
    BY <1>9 DEF GivesUp, Commit
  <2>2. QED
    BY <1>9, <2>1, EndsApplying, NoPendingStuck
<1>10. ASSUME NEW caller \in Turns \union {NoOne}, Run(caller) PROVE StuckInv'
  <2>1. /\ UNCHANGED <<up, journal, applying>> /\ \A p \in Pages : work[p] \subseteq work'[p]
    BY <1>10, RunSame
  <2>2. GivesUp => applying'.turn = NoOne /\ applying.turn # NoOne
    BY EndsApplying
  <2>3. QED
    BY <2>1, <2>2, Rejections, StuckSame DEF RightlyRejected
<1>11. CASE GitUnchanged /\ Verify
  <2>1. /\ UNCHANGED <<up, journal, applying>> /\ \A p \in Pages : work[p] \subseteq work'[p]
    BY <1>11, PagesSame
  <2>2. GivesUp => applying'.turn = NoOne /\ applying.turn # NoOne
    BY EndsApplying
  <2>3. QED
    BY <2>1, <2>2, Rejections, StuckSame DEF RightlyRejected
<1>12. CASE GitUnchanged /\ CommitPages
  <2>1. /\ UNCHANGED <<up, journal, applying>> /\ \A p \in Pages : work[p] \subseteq work'[p]
    BY <1>12, PagesSame
  <2>2. GivesUp => applying'.turn = NoOne /\ applying.turn # NoOne
    BY EndsApplying
  <2>3. QED
    BY <2>1, <2>2, Rejections, StuckSame DEF RightlyRejected
<1>13. CASE GitUnchanged /\ Refresh
  <2>1. /\ UNCHANGED <<up, journal, applying>> /\ \A p \in Pages : work[p] \subseteq work'[p]
    BY <1>13, RefreshedPages DEF GitUnchanged
  <2>2. GivesUp => applying'.turn = NoOne /\ applying.turn # NoOne
    BY EndsApplying
  <2>3. QED
    BY <2>1, <2>2, Rejections, StuckSame DEF RightlyRejected
<1>14. CASE GitUnchanged /\ Push
  <2>1. /\ UNCHANGED <<up, journal, applying>> /\ \A p \in Pages : work[p] \subseteq work'[p]
    BY <1>14, PagesSame
  <2>2. GivesUp => applying'.turn = NoOne /\ applying.turn # NoOne
    BY EndsApplying
  <2>3. QED
    BY <2>1, <2>2, Rejections, StuckSame DEF RightlyRejected
<1>15. CASE GitUnchanged /\ NetworkFails
  <2>1. /\ UNCHANGED <<up, journal, applying>> /\ \A p \in Pages : work[p] \subseteq work'[p]
    BY <1>15, PagesSame
  <2>2. GivesUp => applying'.turn = NoOne /\ applying.turn # NoOne
    BY EndsApplying
  <2>3. QED
    BY <2>1, <2>2, Rejections, StuckSame DEF RightlyRejected
<1>16. CASE GitUnchanged /\ Unlink
  <2>1. /\ UNCHANGED <<up, journal, applying>> /\ \A p \in Pages : work[p] \subseteq work'[p]
    BY <1>16, PagesSame
  <2>2. GivesUp => applying'.turn = NoOne /\ applying.turn # NoOne
    BY EndsApplying
  <2>3. QED
    BY <2>1, <2>2, Rejections, StuckSame DEF RightlyRejected
<1>17. ASSUME NEW e \in Edits, NEW p \in Pages, Edit(e, p) PROVE StuckInv'
  <2>1. /\ UNCHANGED <<up, journal, applying>> /\ \A q \in Pages : work[q] \subseteq work'[q]
    BY <1>17, EditedPages
  <2>2. GivesUp => applying'.turn = NoOne /\ applying.turn # NoOne
    BY EndsApplying
  <2>3. QED
    BY <2>1, <2>2, Rejections, StuckSame DEF RightlyRejected
<1>18. CASE Crash
  <2>1. UNCHANGED <<journal, work>> /\ applying'.turn = NoOne /\ ~up'
    BY <1>18, CrashSame
  <2>2. \A u \in Turns : pc'[u] \in {"rejected", "review"} => pc[u] = pc'[u]
    BY <1>18, CrashSame
  <2>3. Pending' = Pending /\ Pending \subseteq Turns /\ NoOne \notin Pending
    BY <2>1, TurnsAssumption DEF Pending
  <2>4. \A t \in Pending : Stuck(t) => Stuck(t)'
    BY <2>1, StuckStays
  <2>5. QED
    BY <2>1, <2>2, <2>3, <2>4 DEF StuckInv
<1>19. CASE Start
  <2>1. UNCHANGED <<journal, work, pc>>
    BY <1>19, StartSame
  <2>2. Pending' = Pending /\ Pending \subseteq Turns
    BY <2>1 DEF Pending
  <2>3. (up' => Pending = {}) /\ (~up' => applying'.at = 0)
    BY <1>19, StartSame
  <2>4. \A t \in Pending : Stuck(t) => Stuck(t)'
    BY <2>1, StuckStays
  <2>5. QED
    BY <2>1, <2>2, <2>3, <2>4 DEF StuckInv
<1>20. QED
  BY <1>1, <1>2, <1>3, <1>4, <1>5, <1>6, <1>7, <1>8, <1>9, <1>10, <1>11, <1>12,
     <1>13, <1>14, <1>15, <1>16, <1>17, <1>18, <1>19, Shapes

-----------------------------------------------------------------------------
(* The steps of a turn that recover the journal find it as it stands.      *)
LEMMA RecoversIn ==
  ASSUME TypeOK, LockInv, EntryInv, StuckInv, NEW t \in Turns, Begin(t) \/ Read(t) \/ Decided(t) \/ Refused(t)
  PROVE  /\ up /\ lock = "free" /\ journal' = Recovered
         /\ \A u \in Turns : /\ journal'[u].kind = journal[u].kind
                             /\ journal'[u].status = "done" <=> journal[u].status = "done"
<1>1. up /\ lock = "free" /\ journal' = Recovered
  BY ActiveIsUp DEF Begin, Read, Decided, Refused, Active, LockInv, ThreadInv
<1>2. QED
  BY <1>1, RecoveredIs DEF Pending

Deciding == {"think", "model", "propose"}

LEMMA DecisionSame ==
  ASSUME DecisionInv, UNCHANGED <<result, proposal>>,
         \A u \in Turns : /\ journal'[u].kind = journal[u].kind
                          /\ pc'[u] \in Deciding => pc'[u] = pc[u] /\ answer'[u] = answer[u]
                          /\ thread'[u] = "called" => thread[u] = "called"
  PROVE  DecisionInv'
BY DEF DecisionInv, Deciding

(* A turn's decision is its proposal, and what the journal has of it.      *)
LEMMA DecisionStep ==
  ASSUME TypeOK, LockInv, EntryInv, StuckInv, DecisionInv, [Next]_vars
  PROVE  DecisionInv'
<1>1. ASSUME NEW t \in Turns, Begin(t) PROVE DecisionInv'
  <2>1. UNCHANGED <<result, answer, proposal>> /\ \A u \in Turns : journal'[u].kind = journal[u].kind
    BY <1>1, RecoversIn DEF Begin, talk
  <2>2. \A u \in Turns : /\ pc'[u] \in Deciding => pc'[u] = pc[u] /\ answer'[u] = answer[u]
                         /\ thread'[u] = "called" => thread[u] = "called"
    BY <1>1, GotoIs, TypeParts DEF Begin, Deciding, talk
  <2>3. QED
    BY <2>1, <2>2, DecisionSame
<1>2. ASSUME NEW t \in Turns, Read(t) PROVE DecisionInv'
  <2>1. UNCHANGED <<result, answer, proposal, thread>> /\ \A u \in Turns : journal'[u].kind = journal[u].kind
    BY <1>2, RecoversIn DEF Read, talk
  <2>2. \E where : /\ Goto(t, where) /\ where # "model"
                   /\ where = "propose" => proposal[t] # "none"
                   /\ where = "think" => proposal[t] = "none"
    BY <1>2 DEF Read
  <2>3. /\ pc'[t] # "model" /\ (pc'[t] = "propose" => proposal[t] # "none")
        /\ pc'[t] = "think" => proposal[t] = "none"
        /\ \A u \in Turns : u # t => pc'[u] = pc[u]
    BY <2>2, GotoIs, TypeParts
  <2>4. QED
    BY <2>1, <2>3 DEF DecisionInv
<1>3. ASSUME NEW t \in Turns, Asks(t) PROVE DecisionInv'
  <2>1. /\ UNCHANGED <<proposal, thread, journal>> /\ proposal[t] = "none"
        /\ \A u \in Turns : u # t => pc'[u] = pc[u]
    BY <1>3, AsksThinks, GotoIs, TypeParts DEF Thinks, DecisionInv
  <2>2. result \in [Turns -> Decisions \union {"none"}] /\ answer \in [Turns -> Decisions \union {"none"}]
    BY DEF TypeOK
  <2>3. \A u \in Turns : u # t => result'[u] = result[u] /\ answer'[u] = answer[u]
    BY <1>3, <2>2 DEF Asks, Ask, Answer, Unsaid
  <2>4. /\ pc'[t] \in {"model", "propose"} /\ (pc'[t] = "model" => result'[t] = "none")
        /\ pc'[t] = "propose" => answer'[t] # "none" /\ result'[t] \in {"none", answer'[t]}
    <3>1. CASE Ask(t)
      BY <3>1, <2>2, GotoIs, TypeParts DEF Ask, Unsaid
    <3>2. CASE Answer(t)
      <4>1. result[t] = "none" /\ pc'[t] = "propose"
        BY <3>2, GotoIs, TypeParts DEF Answer, DecisionInv
      <4>2. QED
        BY <3>2, <4>1, <2>2 DEF Answer, Decisions
    <3>3. QED
      BY <1>3, <3>1, <3>2 DEF Asks
  <2>5. QED
    BY <2>1, <2>3, <2>4 DEF DecisionInv
<1>4. ASSUME NEW t \in Turns, Propose(t) PROVE DecisionInv'
  <2>1. /\ UNCHANGED <<result, journal>> /\ pc[t] = "propose" /\ pc'[t] = "publish"
        /\ \A u \in Turns : u # t => pc'[u] = pc[u] /\ thread'[u] = thread[u] /\ answer'[u] = answer[u]
    BY <1>4, GotoIs, TypeParts DEF Propose, Forgotten, ThreadType, TurnType
  <2>2. /\ proposal[t] = "none" => answer[t] # "none" /\ result[t] \in {"none", answer[t]}
        /\ proposal[t] # "none" => result[t] \in {"none", proposal[t]}
    BY <2>1 DEF DecisionInv
  <2>3. /\ proposal'[t] # "none" /\ result[t] \in {"none", proposal'[t]}
        /\ proposal[t] # "none" => proposal'[t] = proposal[t]
        /\ \A u \in Turns : u # t => proposal'[u] = proposal[u]
    BY <1>4, <2>2 DEF Propose, TypeOK
  <2>4. journal[t].kind # "none" => proposal[t] # "none"
    BY DEF DecisionInv
  <2>5. QED
    BY <2>1, <2>3, <2>4 DEF DecisionInv
<1>5. ASSUME NEW t \in Turns, Decided(t) PROVE DecisionInv'
  <2>1. UNCHANGED <<result, answer, proposal>> /\ \A u \in Turns : journal'[u].kind = journal[u].kind
    BY <1>5, RecoversIn DEF Decided, PublishUnchanged
  <2>2. \E where \in {"record", "rejected"} : Return(t, where)
    BY <1>5 DEF Decided
  <2>3. \A u \in Turns : /\ pc'[u] \in Deciding => pc'[u] = pc[u] /\ answer'[u] = answer[u]
                         /\ thread'[u] = "called" => thread[u] = "called"
    BY <2>1, <2>2, ReturnIs, TypeParts DEF Deciding
  <2>4. QED
    BY <2>1, <2>3, DecisionSame
<1>6. ASSUME NEW t \in Turns, Queried(t) PROVE DecisionInv'
  <2>1. UNCHANGED <<result, answer, proposal>> /\ proposal[t] = "query" /\ Return(t, "record")
    BY <1>6 DEF Queried, PublishUnchanged
  <2>2. \A u \in Turns : /\ pc'[u] \in Deciding => pc'[u] = pc[u] /\ answer'[u] = answer[u]
                         /\ thread'[u] = "called" => thread[u] = "called"
    BY <2>1, ReturnIs, TypeParts DEF Deciding
  <2>3. QED
    BY <1>6, <2>1, <2>2, QueriedJournal DEF DecisionInv, Deciding
<1>7. ASSUME NEW t \in Turns, Refused(t) PROVE DecisionInv'
  <2>1. UNCHANGED <<result, answer, proposal>> /\ \A u \in Turns : journal'[u].kind = journal[u].kind
    BY <1>7, RecoversIn DEF Refused, PublishUnchanged
  <2>2. \A u \in Turns : /\ pc'[u] \in Deciding => pc'[u] = pc[u] /\ answer'[u] = answer[u]
                         /\ thread'[u] = "called" => thread[u] = "called"
    BY <1>7, ReturnIs, TypeParts DEF Refused, PublishUnchanged, Deciding
  <2>3. QED
    BY <2>1, <2>2, DecisionSame
<1>8. ASSUME NEW t \in Turns, Inserted(t) PROVE DecisionInv'
  <2>1. UNCHANGED <<result, answer, proposal, pc>> /\ proposal[t] # "query" /\ thread[t] = "called"
    BY <1>8 DEF Inserted, Insert, PublishUnchanged
  <2>2. \A u \in Turns : thread'[u] = "called" => thread[u] = "called"
    BY <1>8 DEF Inserted, Insert, TypeOK
  <2>3. proposal[t] = "amend"
    BY <2>1 DEF DecisionInv, TypeOK, Decisions
  <2>4. QED
    BY <1>8, <2>1, <2>2, <2>3, InsertedJournal DEF DecisionInv
<1>9. ASSUME NEW t \in Turns, Review(t) PROVE DecisionInv'
  <2>1. UNCHANGED <<result, answer, proposal>> /\ \A u \in Turns : journal'[u].kind = journal[u].kind
    BY <1>9 DEF Review, talk
  <2>2. \A u \in Turns : /\ pc'[u] \in Deciding => pc'[u] = pc[u] /\ answer'[u] = answer[u]
                         /\ thread'[u] = "called" => thread[u] = "called"
    BY <1>9, GotoIs, TypeParts DEF Review, Deciding, talk
  <2>3. QED
    BY <2>1, <2>2, DecisionSame
<1>10. ASSUME NEW t \in Turns, Record(t) PROVE DecisionInv'
  <2>1. UNCHANGED <<result, answer, proposal>> /\ \A u \in Turns : journal'[u].kind = journal[u].kind
    BY <1>10 DEF Record, talk
  <2>2. \A u \in Turns : /\ pc'[u] \in Deciding => pc'[u] = pc[u] /\ answer'[u] = answer[u]
                         /\ thread'[u] = "called" => thread[u] = "called"
    BY <1>10, GotoIs, TypeParts DEF Record, Deciding, talk
  <2>3. QED
    BY <2>1, <2>2, DecisionSame
<1>11. ASSUME NEW t \in Turns, Fail(t) PROVE DecisionInv'
  <2>1. UNCHANGED <<result, proposal>> /\ \A u \in Turns : journal'[u].kind = journal[u].kind
    BY <1>11 DEF Fail
  <2>2. \A u \in Turns : /\ pc'[u] \in Deciding => pc'[u] = pc[u] /\ answer'[u] = answer[u]
                         /\ thread'[u] = "called" => thread[u] = "called"
    BY <1>11, GotoIs, TypeParts DEF Fail, Forgotten, TurnType, Deciding
  <2>3. QED
    BY <2>1, <2>2, DecisionSame
<1>12. CASE Advances
  <2>1. UNCHANGED <<result, answer, proposal, journal, pc, thread>>
    BY <1>12 DEF Advances, Applying, Advance
  <2>2. QED
    BY <2>1, DecisionSame
<1>13. CASE GivesUp
  <2>1. UNCHANGED <<result, answer, proposal>> /\ \A u \in Turns : journal'[u].kind = journal[u].kind
    BY <1>13, EndsApplying
  <2>2. applying.turn \in Turns /\ (UNCHANGED <<pc, thread>> \/ Return(applying.turn, "rejected"))
    BY <1>13, TheEntry DEF GivesUp, GiveUp, Applying
  <2>3. \A u \in Turns : /\ pc'[u] \in Deciding => pc'[u] = pc[u] /\ answer'[u] = answer[u]
                         /\ thread'[u] = "called" => thread[u] = "called"
    BY <2>1, <2>2, ReturnIs, TypeParts DEF Deciding
  <2>4. QED
    BY <2>1, <2>3, DecisionSame
<1>14. CASE Checks
  <2>1. UNCHANGED <<result, answer, proposal, journal, pc, thread>>
    BY <1>14 DEF Checks, Applying
  <2>2. QED
    BY <2>1, DecisionSame
<1>15. CASE Applying /\ Write
  <2>1. UNCHANGED <<result, answer, proposal, journal, pc, thread>>
    BY <1>15 DEF Write, Applying, Advance
  <2>2. QED
    BY <2>1, DecisionSame
<1>16. CASE Applying /\ WriteTask
  <2>1. UNCHANGED <<result, answer, proposal, journal, pc, thread>>
    BY <1>16 DEF WriteTask, Applying, Advance
  <2>2. QED
    BY <2>1, DecisionSame
<1>17. CASE Applying /\ Commit
  <2>1. UNCHANGED <<result, answer, proposal>> /\ \A u \in Turns : journal'[u].kind = journal[u].kind
    BY <1>17, EndsApplying
  <2>2. applying.turn \in Turns /\ (UNCHANGED <<pc, thread>> \/ Return(applying.turn, "record"))
    BY <1>17, TheEntry DEF Commit, Applying
  <2>3. \A u \in Turns : /\ pc'[u] \in Deciding => pc'[u] = pc[u] /\ answer'[u] = answer[u]
                         /\ thread'[u] = "called" => thread[u] = "called"
    BY <2>1, <2>2, ReturnIs, TypeParts DEF Deciding
  <2>4. QED
    BY <2>1, <2>3, DecisionSame
<1>18. ASSUME NEW caller \in Turns \union {NoOne}, Run(caller) PROVE DecisionInv'
  <2>1. UNCHANGED <<result, answer, proposal, journal, pc, thread>>
    BY <1>18, RunSame
  <2>2. QED
    BY <2>1, DecisionSame
<1>19. CASE GitUnchanged /\ Verify
  <2>1. UNCHANGED <<result, answer, proposal, journal, thread>>
    BY <1>19 DEF GitUnchanged, talk
  <2>2. \A u \in Turns : pc'[u] \in Deciding => pc'[u] = pc[u]
    BY <1>19, GitPlaces, TypeParts DEF Deciding
  <2>3. QED
    BY <2>1, <2>2, DecisionSame
<1>20. CASE GitUnchanged /\ CommitPages
  <2>1. UNCHANGED <<result, answer, proposal, journal, thread>>
    BY <1>20 DEF GitUnchanged, talk
  <2>2. \A u \in Turns : pc'[u] \in Deciding => pc'[u] = pc[u]
    BY <1>20, GitPlaces, TypeParts DEF Deciding
  <2>3. QED
    BY <2>1, <2>2, DecisionSame
<1>21. CASE GitUnchanged /\ Refresh
  <2>1. UNCHANGED <<result, answer, proposal, journal, thread>>
    BY <1>21 DEF GitUnchanged, talk
  <2>2. \A u \in Turns : pc'[u] \in Deciding => pc'[u] = pc[u]
    BY <1>21, GitPlaces, TypeParts DEF Deciding
  <2>3. QED
    BY <2>1, <2>2, DecisionSame
<1>22. CASE GitUnchanged /\ Push
  <2>1. UNCHANGED <<result, answer, proposal, journal, thread>>
    BY <1>22 DEF GitUnchanged, talk
  <2>2. \A u \in Turns : pc'[u] \in Deciding => pc'[u] = pc[u]
    BY <1>22, GitPlaces, TypeParts DEF Deciding
  <2>3. QED
    BY <2>1, <2>2, DecisionSame
<1>23. CASE GitUnchanged /\ NetworkFails
  <2>1. UNCHANGED <<result, answer, proposal, journal, thread>>
    BY <1>23 DEF GitUnchanged, talk
  <2>2. \A u \in Turns : pc'[u] \in Deciding => pc'[u] = pc[u]
    BY <1>23, GitPlaces, TypeParts DEF Deciding
  <2>3. QED
    BY <2>1, <2>2, DecisionSame
<1>24. CASE GitUnchanged /\ Unlink
  <2>1. UNCHANGED <<result, answer, proposal, journal, thread>>
    BY <1>24 DEF GitUnchanged, talk
  <2>2. \A u \in Turns : pc'[u] \in Deciding => pc'[u] = pc[u]
    BY <1>24, GitPlaces, TypeParts DEF Deciding
  <2>3. QED
    BY <2>1, <2>2, DecisionSame
<1>25. ASSUME NEW e \in Edits, NEW p \in Pages, Edit(e, p) PROVE DecisionInv'
  <2>1. UNCHANGED <<result, answer, proposal, journal, pc, thread>>
    BY <1>25, EditedPages
  <2>2. QED
    BY <2>1, DecisionSame
<1>26. CASE Crash
  BY <1>26, CrashSame, DecisionSame DEF Active, Deciding
<1>27. CASE Start
  <2>1. UNCHANGED <<result, answer, proposal, journal, pc, thread>>
    BY <1>27, StartSame
  <2>2. QED
    BY <2>1, DecisionSame
<1>28. CASE Rests
  <2>1. UNCHANGED <<result, answer, proposal, journal, pc, thread>>
    BY <1>28 DEF Rests
  <2>2. QED
    BY <2>1, DecisionSame
<1>29. QED
  BY <1>1, <1>2, <1>3, <1>4, <1>5, <1>6, <1>7, <1>8, <1>9, <1>10, <1>11, <1>12,
     <1>13, <1>14, <1>15, <1>16, <1>17, <1>18, <1>19, <1>20, <1>21, <1>22, <1>23,
     <1>24, <1>25, <1>26, <1>27, <1>28, NextCases

-----------------------------------------------------------------------------
LEMMA AnswerSame ==
  ASSUME AnswerInv, UNCHANGED <<thisTalk, told, reviews>>,
         \A u \in Turns : /\ journal'[u].status = "done" <=> journal[u].status = "done"
                          /\ thread[u] = "none" => thread'[u] = "none"
                          /\ pc'[u] \in {"record", "answered", "rejected", "review"} => pc'[u] = pc[u]
  PROVE  AnswerInv'
BY DEF AnswerInv

(* What a turn is told is what became of it.                               *)
LEMMA AnswerStep ==
  ASSUME TypeOK, LockInv, EntryInv, StuckInv, AnswerInv, [Next]_vars
  PROVE  AnswerInv'
<1>1. ASSUME NEW t \in Turns, Begin(t) PROVE AnswerInv'
  <2>1. /\ UNCHANGED <<thisTalk, told, reviews, thread>>
        /\ \A u \in Turns : journal'[u].status = "done" <=> journal[u].status = "done"
    BY <1>1, RecoversIn DEF Begin, talk
  <2>2. \A u \in Turns : pc'[u] \in {"record", "answered", "rejected", "review"} => pc'[u] = pc[u]
    BY <1>1, GotoIs, TypeParts DEF Begin
  <2>3. QED
    BY <2>1, <2>2, AnswerSame
<1>2. ASSUME NEW t \in Turns, Read(t) PROVE AnswerInv'
  <2>1. /\ UNCHANGED <<thisTalk, told, reviews, thread>>
        /\ \A u \in Turns : journal'[u].status = "done" <=> journal[u].status = "done"
    BY <1>2, RecoversIn DEF Read, talk
  <2>2. \E where : /\ Goto(t, where) /\ where \notin {"answered", "rejected", "review"}
                   /\ where = "record" => journal'[t].status = "done"
    BY <1>2 DEF Read
  <2>3. /\ pc'[t] \notin {"answered", "rejected", "review"} /\ (pc'[t] = "record" => journal'[t].status = "done")
        /\ \A u \in Turns : u # t => pc'[u] = pc[u]
    BY <2>2, GotoIs, TypeParts
  <2>4. QED
    BY <2>1, <2>3 DEF AnswerInv
<1>3. ASSUME NEW t \in Turns, Asks(t) PROVE AnswerInv'
  <2>1. UNCHANGED <<reviews, thread, journal>> /\ told' \in {told, told \ {t}}
    BY <1>3, AsksThinks DEF Thinks
  <2>2. /\ pc'[t] \in {"model", "propose"} /\ \A u \in Turns : u # t => pc'[u] = pc[u]
        /\ \A u \in Turns : u # t => (u \in thisTalk' <=> u \in thisTalk)
    BY <1>3, AsksThinks, GotoIs, TypeParts DEF Thinks, Asks, Ask, Answer
  <2>3. QED
    BY <2>1, <2>2 DEF AnswerInv
<1>4. ASSUME NEW t \in Turns, Propose(t) PROVE AnswerInv'
  <2>1. UNCHANGED <<thisTalk, told, reviews, journal>>
    BY <1>4 DEF Propose
  <2>2. pc'[t] = "publish" /\ \A u \in Turns : u # t => pc'[u] = pc[u] /\ thread'[u] = thread[u]
    BY <1>4, GotoIs, TypeParts DEF Propose, ThreadType
  <2>3. QED
    BY <2>1, <2>2 DEF AnswerInv
<1>5. ASSUME NEW t \in Turns, Decided(t) PROVE AnswerInv'
  <2>1. /\ UNCHANGED <<thisTalk, told, reviews>> /\ thread[t] = "called"
        /\ \A u \in Turns : journal'[u].status = "done" <=> journal[u].status = "done"
    BY <1>5, RecoversIn DEF Decided, PublishUnchanged
  <2>2. \E where \in {"record", "rejected"} :
          Return(t, where) /\ (where = "record" <=> journal'[t].status = "done")
    BY <1>5 DEF Decided
  <2>3. pc[t] \in {"publish", "failed"}
    BY <2>1 DEF LockInv, ThreadInv
  <2>4. /\ thread'[t] = "none" /\ pc'[t] \in {"record", "rejected", "failed"}
        /\ pc'[t] = "record" => journal'[t].status = "done"
        /\ pc'[t] = "rejected" => journal'[t].status # "done"
        /\ \A u \in Turns : u # t => pc'[u] = pc[u] /\ thread'[u] = thread[u]
    BY <2>2, <2>3, ReturnIs, TypeParts
  <2>5. QED
    BY <2>1, <2>4 DEF AnswerInv
<1>6. ASSUME NEW t \in Turns, Queried(t) PROVE AnswerInv'
  <2>1. UNCHANGED <<thisTalk, told, reviews>> /\ thread[t] = "called" /\ Return(t, "record")
    BY <1>6 DEF Queried, PublishUnchanged
  <2>2. pc[t] \in {"publish", "failed"}
    BY <2>1 DEF LockInv, ThreadInv
  <2>3. /\ pc'[t] \in {"record", "failed"}
        /\ \A u \in Turns : u # t => pc'[u] = pc[u] /\ thread'[u] = thread[u]
    BY <2>1, <2>2, ReturnIs, TypeParts
  <2>4. /\ journal'[t].status = "done"
        /\ \A u \in Turns : u # t => (journal'[u].status = "done" <=> journal[u].status = "done")
    BY <1>6, QueriedJournal
  <2>5. QED
    BY <2>1, <2>3, <2>4 DEF AnswerInv
<1>7. ASSUME NEW t \in Turns, Refused(t) PROVE AnswerInv'
  <2>1. /\ UNCHANGED <<thisTalk, told, reviews>> /\ thread[t] = "called"
        /\ \A u \in Turns : journal'[u].status = "done" <=> journal[u].status = "done"
    BY <1>7, RecoversIn DEF Refused, PublishUnchanged
  <2>2. \E where \in {"record", "rejected"} :
          Return(t, where) /\ (where = "record" <=> journal'[t].status = "done")
    BY <1>7 DEF Refused
  <2>3. pc[t] \in {"publish", "failed"}
    BY <2>1 DEF LockInv, ThreadInv
  <2>4. /\ thread'[t] = "none" /\ pc'[t] \in {"record", "rejected", "failed"}
        /\ pc'[t] = "record" => journal'[t].status = "done"
        /\ pc'[t] = "rejected" => journal'[t].status # "done"
        /\ \A u \in Turns : u # t => pc'[u] = pc[u] /\ thread'[u] = thread[u]
    BY <2>2, <2>3, ReturnIs, TypeParts
  <2>5. QED
    BY <2>1, <2>4 DEF AnswerInv
<1>8. ASSUME NEW t \in Turns, Inserted(t) PROVE AnswerInv'
  <2>1. UNCHANGED <<thisTalk, told, reviews, pc>> /\ thread[t] = "called"
    BY <1>8 DEF Inserted, Insert, PublishUnchanged
  <2>2. pc[t] \in {"publish", "failed"}
    BY <2>1 DEF LockInv, ThreadInv
  <2>3. \A u \in Turns : u # t => thread'[u] = thread[u]
    BY <1>8 DEF Inserted, Insert, TypeOK
  <2>4. journal[t].status # "done"
    BY <1>8, InsertedJournal DEF EntryInv
  <2>5. \A u \in Turns : u # t => (journal'[u].status = "done" <=> journal[u].status = "done")
    BY <1>8, InsertedJournal
  <2>6. QED
    BY <2>1, <2>2, <2>3, <2>4, <2>5 DEF AnswerInv
<1>9. ASSUME NEW t \in Turns, Review(t) PROVE AnswerInv'
  <2>1. UNCHANGED <<thisTalk, told, thread, journal>> /\ reviews' = reviews \union {t} /\ pc[t] = "rejected"
    BY <1>9 DEF Review, talk
  <2>2. pc'[t] = "review" /\ \A u \in Turns : u # t => pc'[u] = pc[u]
    BY <1>9, GotoIs, TypeParts DEF Review
  <2>3. QED
    BY <2>1, <2>2 DEF AnswerInv
<1>10. ASSUME NEW t \in Turns, Record(t) PROVE AnswerInv'
  <2>1. /\ UNCHANGED <<thisTalk, reviews, thread, journal>> /\ pc[t] = "record"
        /\ told' = IF t \in thisTalk THEN told \union {t} ELSE told
    BY <1>10 DEF Record, talk
  <2>2. pc'[t] = "answered" /\ \A u \in Turns : u # t => pc'[u] = pc[u]
    BY <1>10, GotoIs, TypeParts DEF Record
  <2>3. QED
    BY <2>1, <2>2 DEF AnswerInv
<1>11. ASSUME NEW t \in Turns, Fail(t) PROVE AnswerInv'
  <2>1. /\ UNCHANGED <<thisTalk, told, reviews, thread>>
        /\ \A u \in Turns : journal'[u].status = "done" <=> journal[u].status = "done"
    BY <1>11 DEF Fail
  <2>2. \A u \in Turns : pc'[u] \in {"record", "answered", "rejected", "review"} => pc'[u] = pc[u]
    BY <1>11, GotoIs, TypeParts DEF Fail
  <2>3. QED
    BY <2>1, <2>2, AnswerSame
<1>12. CASE Advances
  <2>1. /\ UNCHANGED <<thisTalk, told, reviews, thread>>
        /\ \A u \in Turns : journal'[u].status = "done" <=> journal[u].status = "done"
    BY <1>12 DEF Advances, Applying, Advance
  <2>2. \A u \in Turns : pc'[u] \in {"record", "answered", "rejected", "review"} => pc'[u] = pc[u]
    BY <1>12 DEF Advances, Advance
  <2>3. QED
    BY <2>1, <2>2, AnswerSame
<1>13. CASE GivesUp
  <2>1. PICK t \in Turns : t = applying.turn /\ t \in Pending /\ journal[t].status = "pending"
    BY <1>13, TheEntry DEF GivesUp, Applying
  <2>2. ~Commit
    BY <1>13 DEF GivesUp, Commit
  <2>3. /\ UNCHANGED <<thisTalk, told, reviews>>
        /\ \A u \in Turns : u # t => journal'[u].status = journal[u].status
        /\ journal'[t].status # "done"
    BY <1>13, <2>1, <2>2, EndsApplying
  <2>4. IF up THEN Return(t, "rejected") ELSE UNCHANGED <<pc, thread>>
    BY <1>13, <2>1 DEF GivesUp, GiveUp
  <2>5. CASE up
    <3>1. pc[t] \in {"publish", "failed"}
      BY <2>1, <2>5 DEF LockInv, ThreadInv
    <3>2. /\ pc'[t] \in {"rejected", "failed"} /\ thread'[t] = "none"
          /\ \A u \in Turns : u # t => pc'[u] = pc[u] /\ thread'[u] = thread[u]
      BY <2>4, <2>5, <3>1, ReturnIs, TypeParts
    <3>3. t \notin told
      BY <2>1 DEF AnswerInv
    <3>4. QED
      BY <2>3, <3>2, <3>3 DEF AnswerInv
  <2>6. CASE ~up
    <3>1. UNCHANGED <<pc, thread>>
      BY <2>4, <2>6
    <3>2. t \notin told /\ pc[t] \notin {"record", "answered"}
      BY <2>1 DEF AnswerInv
    <3>3. QED
      BY <2>3, <3>1, <3>2 DEF AnswerInv
  <2>7. QED
    BY <2>5, <2>6
<1>14. CASE Checks
  <2>1. /\ UNCHANGED <<thisTalk, told, reviews, thread>>
        /\ \A u \in Turns : journal'[u].status = "done" <=> journal[u].status = "done"
    BY <1>14 DEF Checks, Applying
  <2>2. \A u \in Turns : pc'[u] \in {"record", "answered", "rejected", "review"} => pc'[u] = pc[u]
    BY <1>14 DEF Checks
  <2>3. QED
    BY <2>1, <2>2, AnswerSame
<1>15. CASE Applying /\ Write
  <2>1. /\ UNCHANGED <<thisTalk, told, reviews, thread>>
        /\ \A u \in Turns : journal'[u].status = "done" <=> journal[u].status = "done"
    BY <1>15 DEF Write, Applying, Advance
  <2>2. \A u \in Turns : pc'[u] \in {"record", "answered", "rejected", "review"} => pc'[u] = pc[u]
    BY <1>15 DEF Write, Advance
  <2>3. QED
    BY <2>1, <2>2, AnswerSame
<1>16. CASE Applying /\ WriteTask
  <2>1. /\ UNCHANGED <<thisTalk, told, reviews, thread>>
        /\ \A u \in Turns : journal'[u].status = "done" <=> journal[u].status = "done"
    BY <1>16 DEF WriteTask, Applying, Advance
  <2>2. \A u \in Turns : pc'[u] \in {"record", "answered", "rejected", "review"} => pc'[u] = pc[u]
    BY <1>16 DEF WriteTask, Advance
  <2>3. QED
    BY <2>1, <2>2, AnswerSame
<1>17. CASE Applying /\ Commit
  <2>1. PICK t \in Turns : t = applying.turn /\ t \in Pending /\ journal[t].status = "pending"
    BY <1>17, TheEntry DEF Applying
  <2>2. ~GivesUp
    BY <1>17 DEF GivesUp, Commit
  <2>3. /\ UNCHANGED <<thisTalk, told, reviews>>
        /\ \A u \in Turns : u # t => journal'[u].status = journal[u].status
        /\ journal'[t].status = "done"
    BY <1>17, <2>1, <2>2, EndsApplying
  <2>4. IF up THEN Return(t, "record") ELSE UNCHANGED <<pc, thread>>
    BY <1>17, <2>1 DEF Commit
  <2>5. CASE up
    <3>1. pc[t] \in {"publish", "failed"}
      BY <2>1, <2>5 DEF LockInv, ThreadInv
    <3>2. /\ pc'[t] \in {"record", "failed"} /\ thread'[t] = "none"
          /\ \A u \in Turns : u # t => pc'[u] = pc[u] /\ thread'[u] = thread[u]
      BY <2>4, <2>5, <3>1, ReturnIs, TypeParts
    <3>3. t \notin told
      BY <2>1 DEF AnswerInv
    <3>4. QED
      BY <2>3, <3>2, <3>3 DEF AnswerInv
  <2>6. CASE ~up
    <3>1. UNCHANGED <<pc, thread>>
      BY <2>4, <2>6
    <3>2. t \notin told /\ pc[t] \notin {"record", "answered"}
      BY <2>1 DEF AnswerInv
    <3>3. pc[t] \notin {"rejected", "review"}
      BY <1>17, <2>1 DEF Commit, StuckInv
    <3>4. QED
      BY <2>3, <3>1, <3>2, <3>3 DEF AnswerInv
  <2>7. QED
    BY <2>5, <2>6
<1>18. ASSUME NEW caller \in Turns \union {NoOne}, Run(caller) PROVE AnswerInv'
  <2>1. /\ UNCHANGED <<thisTalk, told, reviews, thread>>
        /\ \A u \in Turns : journal'[u].status = "done" <=> journal[u].status = "done"
    BY <1>18, RunSame
  <2>2. \A u \in Turns : pc'[u] \in {"record", "answered", "rejected", "review"} => pc'[u] = pc[u]
    BY <1>18, RunSame
  <2>3. QED
    BY <2>1, <2>2, AnswerSame
<1>19. CASE GitUnchanged /\ Verify
  <2>1. /\ UNCHANGED <<thisTalk, told, reviews, thread>>
        /\ \A u \in Turns : journal'[u].status = "done" <=> journal[u].status = "done"
    BY <1>19 DEF GitUnchanged, talk
  <2>2. \A u \in Turns : pc'[u] \in {"record", "answered", "rejected", "review"} => pc'[u] = pc[u]
    BY <1>19, GitPlaces, TypeParts
  <2>3. QED
    BY <2>1, <2>2, AnswerSame
<1>20. CASE GitUnchanged /\ CommitPages
  <2>1. /\ UNCHANGED <<thisTalk, told, reviews, thread>>
        /\ \A u \in Turns : journal'[u].status = "done" <=> journal[u].status = "done"
    BY <1>20 DEF GitUnchanged, talk
  <2>2. \A u \in Turns : pc'[u] \in {"record", "answered", "rejected", "review"} => pc'[u] = pc[u]
    BY <1>20, GitPlaces, TypeParts
  <2>3. QED
    BY <2>1, <2>2, AnswerSame
<1>21. CASE GitUnchanged /\ Refresh
  <2>1. /\ UNCHANGED <<thisTalk, told, reviews, thread>>
        /\ \A u \in Turns : journal'[u].status = "done" <=> journal[u].status = "done"
    BY <1>21 DEF GitUnchanged, talk
  <2>2. \A u \in Turns : pc'[u] \in {"record", "answered", "rejected", "review"} => pc'[u] = pc[u]
    BY <1>21, GitPlaces, TypeParts
  <2>3. QED
    BY <2>1, <2>2, AnswerSame
<1>22. CASE GitUnchanged /\ Push
  <2>1. /\ UNCHANGED <<thisTalk, told, reviews, thread>>
        /\ \A u \in Turns : journal'[u].status = "done" <=> journal[u].status = "done"
    BY <1>22 DEF GitUnchanged, talk
  <2>2. \A u \in Turns : pc'[u] \in {"record", "answered", "rejected", "review"} => pc'[u] = pc[u]
    BY <1>22, GitPlaces, TypeParts
  <2>3. QED
    BY <2>1, <2>2, AnswerSame
<1>23. CASE GitUnchanged /\ NetworkFails
  <2>1. /\ UNCHANGED <<thisTalk, told, reviews, thread>>
        /\ \A u \in Turns : journal'[u].status = "done" <=> journal[u].status = "done"
    BY <1>23 DEF GitUnchanged, talk
  <2>2. \A u \in Turns : pc'[u] \in {"record", "answered", "rejected", "review"} => pc'[u] = pc[u]
    BY <1>23, GitPlaces, TypeParts
  <2>3. QED
    BY <2>1, <2>2, AnswerSame
<1>24. CASE GitUnchanged /\ Unlink
  <2>1. /\ UNCHANGED <<thisTalk, told, reviews, thread>>
        /\ \A u \in Turns : journal'[u].status = "done" <=> journal[u].status = "done"
    BY <1>24 DEF GitUnchanged, talk
  <2>2. \A u \in Turns : pc'[u] \in {"record", "answered", "rejected", "review"} => pc'[u] = pc[u]
    BY <1>24, GitPlaces, TypeParts
  <2>3. QED
    BY <2>1, <2>2, AnswerSame
<1>25. ASSUME NEW e \in Edits, NEW p \in Pages, Edit(e, p) PROVE AnswerInv'
  <2>1. /\ UNCHANGED <<thisTalk, told, reviews, thread>>
        /\ \A u \in Turns : journal'[u].status = "done" <=> journal[u].status = "done"
    BY <1>25, EditedPages
  <2>2. \A u \in Turns : pc'[u] \in {"record", "answered", "rejected", "review"} => pc'[u] = pc[u]
    BY <1>25, EditedPages
  <2>3. QED
    BY <2>1, <2>2, AnswerSame
<1>26. CASE Crash
  BY <1>26, CrashSame, AnswerSame DEF AnswerInv
<1>27. CASE Start
  <2>1. /\ UNCHANGED <<thisTalk, told, reviews, thread>>
        /\ \A u \in Turns : journal'[u].status = "done" <=> journal[u].status = "done"
    BY <1>27, StartSame
  <2>2. \A u \in Turns : pc'[u] \in {"record", "answered", "rejected", "review"} => pc'[u] = pc[u]
    BY <1>27, StartSame
  <2>3. QED
    BY <2>1, <2>2, AnswerSame
<1>28. CASE Rests
  <2>1. UNCHANGED <<told, reviews, thread, pc, journal>> /\ thisTalk' \subseteq thisTalk
    BY <1>28 DEF Rests
  <2>2. QED
    BY <2>1 DEF AnswerInv
<1>29. QED
  BY <1>1, <1>2, <1>3, <1>4, <1>5, <1>6, <1>7, <1>8, <1>9, <1>10, <1>11, <1>12,
     <1>13, <1>14, <1>15, <1>16, <1>17, <1>18, <1>19, <1>20, <1>21, <1>22, <1>23,
     <1>24, <1>25, <1>26, <1>27, <1>28, NextCases

-----------------------------------------------------------------------------
(* Everybody but the writer only adds to the pages of the vault.           *)
LEMMA WorkKept ==
  ASSUME TypeOK, LockInv, [Next]_vars
  PROVE  (\A p \in Pages : work[p] \subseteq work'[p]) \/ (Applying /\ Write)
<1>1. CASE UNCHANGED work
  BY <1>1
<1>2. CASE \E e \in Edits, p \in Pages : Edit(e, p)
  BY <1>2, EditedPages
<1>3. CASE GitUnchanged /\ Refresh
  BY <1>3, RefreshedPages
<1>4. Calm => UNCHANGED work
  BY DEF Calm
<1>5. \A t \in Turns : Queried(t) \/ Inserted(t) => UNCHANGED work
  BY DEF Queried, Inserted, PublishUnchanged
<1>6. Advances \/ GivesUp \/ Checks \/ WriteTask \/ Commit => UNCHANGED work
  BY DEF Advances, GivesUp, GiveUp, Checks, WriteTask, Commit
<1>7. \A caller \in Turns \union {NoOne} : Run(caller) => UNCHANGED work
  BY DEF Run
<1>8. Verify \/ CommitPages \/ Push \/ NetworkFails \/ Unlink => UNCHANGED work
  BY DEF Verify, CommitPages, Push, NetworkFails, Unlink
<1>9. Crash \/ Start => UNCHANGED work
  BY DEF Crash, Start
<1>10. QED
  BY <1>1, <1>2, <1>3, <1>4, <1>5, <1>6, <1>7, <1>8, <1>9, Shapes

(* An edit stays where it was made: the writer puts on a page what it      *)
(* found there when it looked, and what was added since is in the window.  *)
LEMMA EditsStep ==
  ASSUME TypeOK, LockInv, EntryInv, ApplyInv, EditsKept, [Next]_vars
  PROVE  EditsKept'
<1>1. \A p \in Pages : remote[p] \subseteq remote'[p]
  BY RemoteKept
<1>2. \A e \in Edits : placed[e].page \in Pages
  BY DEF TypeOK
<1>3. CASE Applying /\ Write
  <2>1. PICK p \in Pages :
          /\ work'[p] = journal[applying.turn].after[p] /\ \A q \in Pages : q # p => work'[q] = work[q]
          /\ Checked(applying.turn, p) /\ UNCHANGED placed
    BY <1>3, WriteIs
  <2>2. journal[applying.turn].before[p] \subseteq work'[p]
    BY <1>3, <2>1, TheEntry DEF Applying
  <2>3. QED
    BY <1>1, <1>2, <2>1, <2>2 DEF EditsKept, Checked
<1>4. ASSUME NEW e \in Edits, NEW p \in Pages, Edit(e, p)
      PROVE  EditsKept'
  BY <1>2, <1>4, EditedPages DEF EditsKept
<1>5. CASE UNCHANGED placed /\ \A p \in Pages : work[p] \subseteq work'[p]
  BY <1>1, <1>2, <1>5 DEF EditsKept
<1>6. UNCHANGED placed \/ \E e \in Edits, p \in Pages : Edit(e, p)
  <2>1. Calm => UNCHANGED placed
    BY DEF Calm
  <2>2. \A t \in Turns : Queried(t) \/ Inserted(t) => UNCHANGED placed
    BY DEF Queried, Inserted, PublishUnchanged
  <2>3. Advances \/ GivesUp \/ Checks \/ Applying => UNCHANGED placed
    BY DEF Advances, GivesUp, Checks, Applying
  <2>4. GitUnchanged \/ (\E caller \in Turns \union {NoOne} : Run(caller)) => UNCHANGED placed
    BY DEF Run, GitUnchanged
  <2>5. Crash \/ Start => UNCHANGED placed
    BY DEF Crash, Start
  <2>6. QED
    BY <2>1, <2>2, <2>3, <2>4, <2>5, Shapes
<1>7. QED
  BY <1>3, <1>4, <1>5, <1>6, WorkKept

DecisionKept ==
  \A t \in Turns :
    /\ result[t] # "none" /\ t \in thisTalk => result'[t] = result[t]
    /\ proposal[t] # "none" => proposal'[t] = proposal[t] /\ result'[t] = result[t]
    /\ journal'[t].kind # "none" => journal'[t].kind = proposal'[t]
    /\ t \in told' /\ t \notin told => t \in thisTalk

LEMMA DecisionsKept ==
  ASSUME TypeOK, LockInv, EntryInv, StuckInv, DecisionInv, [Next]_vars
  PROVE  DecisionKept
<1>1. \A t \in Turns : journal'[t].kind # "none" => journal'[t].kind = proposal'[t]
  <2>1. DecisionInv'
    BY DecisionStep
  <2>2. QED
    BY <2>1 DEF DecisionInv
<1>2. CASE UNCHANGED <<result, proposal, told>>
  BY <1>1, <1>2 DEF DecisionKept
<1>3. ASSUME NEW t \in Turns, Asks(t) PROVE DecisionKept
  <2>1. UNCHANGED proposal /\ proposal[t] = "none" /\ told' \subseteq told
    BY <1>3, AsksThinks DEF Thinks, DecisionInv
  <2>2. result \in [Turns -> Decisions \union {"none"}]
    BY DEF TypeOK
  <2>3. \A u \in Turns : u # t => result'[u] = result[u]
    BY <1>3, <2>2 DEF Asks, Ask, Answer, Unsaid
  <2>4. result[t] # "none" /\ t \in thisTalk => result'[t] = result[t]
    BY <1>3 DEF Asks, Ask, Answer, DecisionInv
  <2>5. QED
    BY <1>1, <2>1, <2>3, <2>4 DEF DecisionKept
<1>4. ASSUME NEW t \in Turns, Propose(t) PROVE DecisionKept
  <2>1. UNCHANGED <<result, told>> /\ (proposal[t] # "none" => UNCHANGED proposal)
    BY <1>4 DEF Propose
  <2>2. \A u \in Turns : u # t => proposal'[u] = proposal[u]
    BY <1>4 DEF Propose, TypeOK
  <2>3. QED
    BY <1>1, <2>1, <2>2 DEF DecisionKept
<1>5. ASSUME NEW t \in Turns, Record(t) PROVE DecisionKept
  <2>1. UNCHANGED <<result, proposal>> /\ \A u \in Turns : u \in told' /\ u \notin told => u \in thisTalk
    BY <1>5 DEF Record, talk
  <2>2. QED
    BY <1>1, <2>1 DEF DecisionKept
<1>6. \A t \in Turns : Begin(t) \/ Read(t) \/ Review(t) \/ Fail(t) => UNCHANGED <<result, proposal, told>>
  BY DEF Begin, Read, Review, Fail, talk
<1>7. \A t \in Turns : Decided(t) \/ Queried(t) \/ Refused(t) \/ Inserted(t) => UNCHANGED <<result, proposal, told>>
  BY DEF Decided, Queried, Refused, Inserted, PublishUnchanged
<1>8. Advances \/ GivesUp \/ Checks \/ Applying => UNCHANGED <<result, proposal, told>>
  BY DEF Advances, GivesUp, Checks, Applying
<1>9. GitUnchanged \/ (\E caller \in Turns \union {NoOne} : Run(caller)) => UNCHANGED <<result, proposal, told>>
  BY DEF Run, GitUnchanged, talk
<1>10. \A e \in Edits, p \in Pages : Edit(e, p) => UNCHANGED <<result, proposal, told>>
  BY DEF Edit, turnVars, talk
<1>11. Crash \/ Start \/ Rests => UNCHANGED <<result, proposal, told>>
  BY DEF Crash, Start, Rests, turnVars, talk
<1>12. QED
  BY <1>2, <1>3, <1>4, <1>5, <1>6, <1>7, <1>8, <1>9, <1>10, <1>11, NextCases

-----------------------------------------------------------------------------
LEMMA InitInv ==
  ASSUME Init
  PROVE  IInv
<1>1. TypeOK
  <2>1. 0 \in 0 .. MaxRestarts
    BY BoundsAssumption
  <2>2. [p \in Pages |-> {}] \in [Pages -> Contents]
    BY DEF Contents
  <2>3. JournalType /\ ApplyingType /\ GitType /\ PlacedType
    BY NoEntryType, NotApplyingType DEF Init, JournalType, ApplyingType, GitType, PlacedType, NoRun, Nowhere, Pages
  <2>4. PcType /\ ThreadType /\ TurnType /\ LockType
    BY <2>1 DEF Init, PcType, Places, ThreadType, TurnType, LockType, Unread
  <2>5. VaultType /\ HeadType /\ RemoteType
    BY <2>2 DEF Init, VaultType, HeadType, RemoteType
  <2>6. QED
    BY <2>3, <2>4, <2>5, TypeParts
<1>2. /\ \A t \in Turns : /\ journal[t].status = "none" /\ journal[t].kind = "none"
                          /\ \A p \in Pages : journal[t].after[p] = {}
      /\ Pending = {} /\ \A p \in Pages : work[p] = {} /\ head[p] = {} /\ remote[p] = {}
  BY DEF Init, NoEntry, Pending
<1>3. /\ up = FALSE /\ lock = "free" /\ applying = NotApplying /\ git = NoRun /\ outbox = {} /\ told = {}
      /\ applying.turn = NoOne /\ git.at = "idle" /\ git.tasks = {} /\ ~applying.checked
      /\ \A t \in Turns : /\ pc[t] = "accepted" /\ thread[t] = "none" /\ result[t] = "none"
                          /\ proposal[t] = "none"
  BY DEF Init, NotApplying, NoRun
<1>4. LockInv
  BY <1>3, TurnsAssumption DEF LockInv, HolderInv, ThreadInv, Active
<1>5. EntryInv
  BY <1>2, <1>3 DEF EntryInv
<1>6. AbsentInv /\ WholeInv
  BY <1>2 DEF AbsentInv, Unknown, WholeInv, Whole
<1>7. ApplyInv /\ StuckInv /\ TaskInv
  BY <1>2, <1>3 DEF ApplyInv, StuckInv, TaskInv, OutboxInv, RunInv
<1>8. DecisionInv /\ AnswerInv /\ DoneIsDelivered
  BY <1>2, <1>3 DEF DecisionInv, AnswerInv, DoneIsDelivered
<1>9. EditsKept
  BY DEF Init, EditsKept, Nowhere
<1>10. QED
  BY <1>1, <1>4, <1>5, <1>6, <1>7, <1>8, <1>9 DEF IInv

LEMMA StepInv ==
  ASSUME IInv, [Next]_vars
  PROVE  IInv'
<1>1. TypeOK /\ LockInv /\ HolderInv /\ ThreadInv /\ EntryInv /\ AbsentInv /\ WholeInv /\ ApplyInv
  BY DEF IInv, LockInv
<1>2. StuckInv /\ TaskInv /\ OutboxInv /\ RunInv /\ DecisionInv /\ AnswerInv /\ DoneIsDelivered /\ EditsKept
  BY DEF IInv, TaskInv
<1>3. PcType /\ ThreadType /\ ApplyingType /\ GitType
  BY <1>1, TypeParts
<1>4. TypeOK' /\ EntryInv' /\ AbsentInv' /\ WholeInv' /\ ApplyInv' /\ StuckInv'
  BY <1>1, <1>2, TypeOKStep, EntryStep, AbsentStep, WholeStep, ApplyingStep, StuckStep
<1>5. LockInv'
  BY <1>1, <1>3, HolderStep, ThreadStep DEF LockInv
<1>6. TaskInv'
  BY <1>1, <1>2, OutboxStep, RunStep DEF TaskInv
<1>7. DecisionInv' /\ AnswerInv' /\ DoneIsDelivered'
  BY <1>1, <1>2, DecisionStep, AnswerStep, DeliveredStep
<1>8. EditsKept'
  BY <1>1, <1>2, EditsStep
<1>9. QED
  BY <1>4, <1>5, <1>6, <1>7, <1>8 DEF IInv

(* Writer, publisher, turns and people agree in every state: whatever the  *)
(* order of their steps and wherever the gateway stops.                    *)
THEOREM Invariance == Spec => []IInv
<1>1. Init => IInv
  BY InitInv
<1>2. IInv /\ [Next]_vars => IInv'
  BY StepInv
<1>3. QED
  BY <1>1, <1>2, PTL DEF Spec

(* Journal, outbox and pages agree, whatever stopped a publication: a task *)
(* names whole publications only, half of one is never taken for done, and *)
(* what stays pending is what a person stopped (KnowledgeStore.publish and *)
(* its recovery).                                                          *)
THEOREM JournalHolds == Spec => []JournalIsWhole
<1>1. ASSUME IInv PROVE JournalIsWhole
  <2>1. TypeOK /\ EntryInv /\ LockInv /\ WholeInv /\ StuckInv /\ OutboxInv
    BY <1>1 DEF IInv, TaskInv
  <2>2. WholePublications
    BY <2>1 DEF WholePublications, OutboxInv, WholeInv, Whole
  <2>3. PendingIsStuck
    <3>1. ASSUME up, lock = "free", NEW t \in Pending PROVE ~Matches(t)
      <4>1. applying.turn = NoOne /\ t # NoOne
        BY <2>1, <3>1, TurnsAssumption DEF LockInv, HolderInv, Pending
      <4>2. Stuck(t)
        BY <2>1, <3>1, <4>1 DEF StuckInv
      <4>3. QED
        BY <2>1, <4>2, StuckMismatches
    <3>2. QED
      BY <3>1 DEF PendingIsStuck
  <2>4. QED
    BY <2>1, <2>2, <2>3 DEF JournalIsWhole
<1>2. IInv => JournalIsWhole
  BY <1>1
<1>3. QED
  BY <1>2, Invariance, PTL

(* A published note is in origin, whole, or still in the outbox: no order  *)
(* of failed pushes, crashes and replays drops it (GitSync.run_once).      *)
THEOREM NotesArrive == Spec => []DoneIsDelivered
<1>1. IInv => DoneIsDelivered
  BY DEF IInv
<1>2. QED
  BY <1>1, Invariance, PTL

(* An answer is true of the journal, in every state, and what was decided  *)
(* for a turn stays decided when it is retried in its talk, and for good   *)
(* once it was proposed (TextTurnProcessor, agents/sessions.py).           *)
THEOREM AnswersHold == Spec => AnswersStand
<1>1. ASSUME IInv PROVE AnswerIsTrue
  <2>1. TypeOK /\ EntryInv /\ AnswerInv /\ DecisionInv
    BY <1>1 DEF IInv
  <2>2. \A t \in Turns : journal[t].status = "done" => journal[t].kind # "none"
    BY <2>1 DEF EntryInv
  <2>3. QED
    BY <2>1, <2>2 DEF AnswerIsTrue, AnswerInv, DecisionInv
<1>2. ASSUME IInv, [Next]_vars PROVE DecisionKept
  BY <1>2, DecisionsKept DEF IInv
<1>3. IInv => AnswerIsTrue
  BY <1>1
<1>4. Spec => []AnswerIsTrue
  BY <1>3, Invariance, PTL
<1>5. Spec => [][DecisionKept]_vars
  BY <1>2, Invariance, PTL DEF Spec
<1>6. QED
  BY <1>4, <1>5 DEF AnswersStand, DecisionStands, DecisionKept

(* What a person wrote stays in the vault, or in origin when it was made   *)
(* there, whatever writer, replay and publisher do meanwhile; all that can *)
(* be lost is an edit between the writer's last look at a page and its     *)
(* write, since writer.lock does not bind editors (store.py).              *)
THEOREM EditsAreKept == Spec => []EditsKept
<1>1. IInv => EditsKept
  BY DEF IInv
<1>2. QED
  BY <1>1, Invariance, PTL

(* Nothing the publisher does overwrites origin: each step leaves there    *)
(* what was there, edits of others included (git_sync.py: an ordinary      *)
(* push, never a forced one).                                              *)
THEOREM NothingOverwritten == Spec => [][\A p \in Pages : remote[p] \subseteq remote'[p]]_vars
<1>1. ASSUME IInv, [Next]_vars PROVE \A p \in Pages : remote[p] \subseteq remote'[p]
  BY <1>1, RemoteKept DEF IInv
<1>2. QED
  BY <1>1, Invariance, PTL DEF Spec

=============================================================================
