--------------------------- MODULE VoiceJobs_proofs ---------------------------
(***************************************************************************)
(* Proofs about VoiceJobs for any number of requests, recordings, queue    *)
(* slots, repeated uploads and restarts.                                   *)
(***************************************************************************)
EXTENDS VoiceJobs, FiniteSetTheorems, SequenceTheorems, TLAPS

(* A function on 1..n is a sequence over any superset of its range.        *)
LEMMA FunctionIsSeq ==
  ASSUME NEW S, NEW T, T \subseteq S, NEW n \in Nat, NEW q \in [1..n -> T]
  PROVE  q \in Seq(S)
<1>1. q \in [1..n -> S]
  OBVIOUS
<1>2. QED
  BY <1>1

(* What the loss of the process leaves in memory has the right types.      *)
LEMMA LoseProcessTypes ==
  ASSUME TypeOK, LoseProcess
  PROVE  /\ up' \in BOOLEAN /\ queue' \in Seq(Requests)
         /\ active' \in Requests \cup {NoJob} /\ child' \in ChildState
         /\ killed' \in BOOLEAN /\ owners' \in [Requests -> Nat]
         /\ duplicates' \in [Requests -> Nat]
         /\ stream' \in [Requests -> StreamState] /\ restarts' \in Nat
<1>1. up' \in BOOLEAN /\ killed' \in BOOLEAN
  BY DEF LoseProcess
<1>2. queue' \in Seq(Requests) /\ active' \in Requests \cup {NoJob}
  BY DEF LoseProcess
<1>3. child' \in ChildState
  BY DEF LoseProcess, ChildState
<1>4. owners' \in [Requests -> Nat] /\ duplicates' \in [Requests -> Nat]
  BY DEF LoseProcess
<1>5. stream' \in [Requests -> StreamState]
  BY DEF LoseProcess, TypeOK, StreamState
<1>6. restarts' \in Nat
  BY DEF LoseProcess, TypeOK
<1>7. QED
  BY <1>1, <1>2, <1>3, <1>4, <1>5, <1>6

(* What WorkerDiesTaking may have done to the row before it failed.        *)
MarksHead(r) ==
  \/ status' = status
  \/ status[r] = "queued" /\ status' = [status EXCEPT ![r] = "running"]

LEMMA WorkerDiesHead ==
  ASSUME TypeOK, WorkerDiesTaking
  PROVE  \E r \in Requests : MarksHead(r)
<1>1. PICK r \in Requests : r = Head(queue)
  BY HeadTailProperties DEF WorkerDiesTaking, TypeOK
<1>2. MarksHead(r)
  BY <1>1 DEF WorkerDiesTaking, MarksHead
<1>3. QED
  BY <1>2

(* Every action keeps the variables in their types.                        *)
LEMMA TypeOKStep ==
  ASSUME TypeOK, [Next]_vars
  PROVE  TypeOK'
<1>1. CASE Start
  <2>1. IsFiniteSet({r \in Requests : status'[r] = "queued"})
    BY RequestsAssumption, FS_Subset
  <2>2. Cardinality({r \in Requests : status'[r] = "queued"}) \in Nat
    BY <2>1, FS_CardinalityType
  <2>3. queue' \in [1..Cardinality({r \in Requests : status'[r] = "queued"}) ->
                   {r \in Requests : status'[r] = "queued"}]
    BY <1>1, SMTT(30) DEF Start, InCreationOrder
  <2>4. queue' \in Seq(Requests)
    BY <2>2, <2>3, FunctionIsSeq
  <2>5. status' \in [Requests -> Status]
    BY <1>1, SMTT(30) DEF Start, Interrupted, RecoveredUpload, TypeOK, Status, Open, Active,
       Terminal
  <2>6. QED
    BY <1>1, <2>1, <2>2, <2>3, <2>4, <2>5, SMTT(30) DEF Start, TypeOK, ghosts
<1>2. CASE Crash
  BY <1>2, LoseProcessTypes, SMTT(30) DEF Crash, TypeOK, durable, ghosts
<1>3. CASE Close
  <2>1. status' \in [Requests -> Status]
    BY <1>3, SMTT(30) DEF Close, Interrupted, TypeOK, Status, Open, Active, Terminal
  <2>2. QED
    BY <1>3, <2>1, LoseProcessTypes, SMTT(30) DEF Close, TypeOK, ghosts
<1>4. CASE SkipTurn
  BY <1>4, SMTT(30) DEF SkipTurn, TypeOK, durable, ghosts
<1>5. CASE TakeTurn
  <2>1. PICK r \in Requests : r = Head(queue)
    BY <1>5, HeadTailProperties DEF TakeTurn, TypeOK
  <2>2. /\ status' = [status EXCEPT ![r] = "running"]
        /\ runs' = [runs EXCEPT ![r] = @ + 1]
        /\ active' = r
    BY <1>5, <2>1, SMTT(30) DEF TakeTurn
  <2>3. runs' \in [Requests -> Nat] /\ status' \in [Requests -> Status]
    BY <2>2, SMTT(30) DEF TypeOK, Status, Active
  <2>4. queue' \in Seq(Requests)
    BY <1>5, HeadTailProperties DEF TakeTurn, TypeOK
  <2>5. QED
    BY <1>5, <2>1, <2>2, <2>3, <2>4 DEF TakeTurn, TypeOK, ChildState, Active
<1>6. CASE ChildProgress
  BY <1>6 DEF ChildProgress, SetProgress, NextStage, TypeOK, ghosts, Status, Open,
     Active, Terminal, ChildState
<1>7. ASSUME NEW result \in {"returned", "raised", "cancelled"}, ChildEnds(result)
       PROVE TypeOK'
  BY <1>7, SMTT(30) DEF ChildEnds, TypeOK, durable, ghosts, Open, Active, Terminal, ChildState
<1>8. ASSUME NEW outcome \in {"ready", "failed", "interrupted"},
   WorkerFinishes(outcome) PROVE TypeOK'
  BY <1>8 DEF WorkerFinishes, FinishRow, TypeOK, ghosts, Status, Open, Active,
     Terminal, ChildState
<1>9. ASSUME NEW r \in Requests, ClaimNew(r) PROVE TypeOK'
  <2>1. Cardinality(Rows) \in Nat
    BY RequestsAssumption, FS_Subset, FS_CardinalityType DEF Rows
  <2>2. QED
    BY <1>9, <2>1, SMTT(30) DEF ClaimNew, TypeOK, ghosts, Status, Open
<1>10. ASSUME NEW r \in Requests, ClaimAgain(r) PROVE TypeOK'
  BY <1>10, SMTT(30) DEF ClaimAgain, TakesOver, TypeOK, ghosts, Status, Open, Active, Terminal
<1>11. ASSUME NEW r \in Requests, ClaimDuplicate(r) PROVE TypeOK'
  BY <1>11, SMTT(30) DEF ClaimDuplicate, TakesOver, TypeOK, durable, ghosts
<1>12. ASSUME NEW r \in Requests, UploadFails(r) PROVE TypeOK'
  <2>1. status' \in [Requests -> Status]
    BY <1>12 DEF UploadFails, MarkUploadFailed, TypeOK, Status, Open
  <2>2. owners' \in [Requests -> Nat]
    BY <1>12, SMTT(30) DEF UploadFails, TypeOK
  <2>3. QED
    BY <1>12, <2>1, <2>2 DEF UploadFails, TypeOK, ghosts
<1>13. ASSUME NEW r \in Requests, DuplicateRejected(r) PROVE TypeOK'
  BY <1>13, SMTT(30) DEF DuplicateRejected, TypeOK, durable, ghosts
<1>14. ASSUME NEW r \in Requests, NEW d \in Digests, UploadCompletes(r, d)
       PROVE TypeOK'
  <2>1. acked' \in [Requests -> SUBSET Digests]
    BY <1>14, SMTT(30) DEF UploadCompletes, TypeOK
  <2>2. queue' \in Seq(Requests)
    BY <1>14, SMTT(30) DEF UploadCompletes, Enqueue, TypeOK
  <2>3. QED
    BY <1>14, <2>1, <2>2, SMTT(30) DEF UploadCompletes, TypeOK, durable, ghosts, Status, Open,
       Active, Terminal, ChildState, StreamState
<1>15. ASSUME NEW r \in Requests, NEW d \in Digests, DuplicateVerified(r, d)
       PROVE TypeOK'
  <2>1. acked' \in [Requests -> SUBSET Digests]
    BY <1>15, SMTT(30) DEF DuplicateVerified, TypeOK
  <2>2. QED
    BY <1>15, <2>1, SMTT(30) DEF DuplicateVerified, TypeOK, durable
<1>16. ASSUME NEW r \in Requests, NEW d \in Digests, CommitFails(r, d) PROVE TypeOK'
  BY <1>16, SMTT(30) DEF CommitFails, QueueHasRoom, MarkUploadFailed, TypeOK, ghosts, Status,
     Open, Active, Terminal
<1>17. ASSUME NEW r \in Requests, NEW d \in Digests, CrashInComplete(r, d)
       PROVE TypeOK'
  BY <1>17, LoseProcessTypes, ZenonT(60) DEF CrashInComplete, TypeOK, durable, ghosts
<1>18. ASSUME NEW r \in Requests, CancelTurn(r) PROVE TypeOK'
  BY <1>18, SMTT(30) DEF CancelTurn, TypeOK, ghosts, Status, Open, Active, Terminal
<1>19. ASSUME NEW r \in Requests, ClaimAudioStream(r) PROVE TypeOK'
  BY <1>19, SMTT(30) DEF ClaimAudioStream, StreamClaimable, TypeOK, StreamState
<1>20. ASSUME NEW r \in Requests, StreamCompletes(r) PROVE TypeOK'
  BY <1>20, SMTT(30) DEF StreamCompletes, TypeOK, durable, ghosts, StreamState
<1>21. ASSUME NEW r \in Requests, StreamBreaks(r) PROVE TypeOK'
  BY <1>21, SMTT(30) DEF StreamBreaks, TypeOK, durable, ghosts, StreamState
<1>22. CASE WorkerDiesTaking
  <2>1. PICK r \in Requests : MarksHead(r)
    BY <1>22, WorkerDiesHead
  <2>2. status' \in [Requests -> Status]
    BY <2>1 DEF MarksHead, TypeOK, Status, Active
  <2>3. queue' \in Seq(Requests)
    BY <1>22, HeadTailProperties DEF WorkerDiesTaking, TypeOK
  <2>4. QED
    BY <1>22, <2>2, <2>3 DEF WorkerDiesTaking, TypeOK, ChildState, ghosts
<1>23. CASE WorkerDiesFinishing
  BY <1>23 DEF WorkerDiesFinishing, TypeOK, ChildState, durable, ghosts
<1>24. CASE UNCHANGED vars
  BY <1>24, SMTT(30) DEF TypeOK, durable, ghosts, Status, Open, Active, Terminal, ChildState,
     StreamState, vars, durable, process, ghosts
<1>25. QED
  BY <1>1, <1>2, <1>3, <1>4, <1>5, <1>6, <1>7, <1>8, <1>9, <1>10, <1>11, <1>12,
     <1>13, <1>14, <1>15, <1>16, <1>17, <1>18, <1>19, <1>20, <1>21, <1>22, <1>23,
     <1>24 DEF Next,
     WorkerStep, UploadStep, DeviceStep

LEMMA InitTypeOK == Init => TypeOK
<1> SUFFICES ASSUME Init PROVE TypeOK
  OBVIOUS
<1>1. queue \in Seq(Requests) /\ acked \in [Requests -> SUBSET Digests]
  BY DEF Init
<1>2. /\ status \in [Requests -> Status]
      /\ stream \in [Requests -> StreamState] /\ child \in ChildState
  BY DEF Init, Status, Open, ChildState, StreamState
<1>3. QED
  BY <1>1, <1>2 DEF Init, TypeOK

(* The variables keep their types.                                         *)
THEOREM TypeCorrect == Spec => []TypeOK
<1>1. TypeOK /\ [Next]_vars => TypeOK'
  BY TypeOKStep
<1>2. QED
  BY <1>1, InitTypeOK, PTL DEF Spec

-----------------------------------------------------------------------------
(* The inductive invariant, in the parts that later proofs use.            *)

(* A live handler owns an upload only while its row is uploading.          *)
OwnersInv == UploadHasOneOwner

(* A row has a digest, and an input.pcm of that digest, exactly when its   *)
(* upload was accepted; nothing else was answered with 202.                *)
AcceptedInv ==
  \A r \in Requests :
    /\ status[r] \in Open <=> sha[r] = NoDigest
    /\ status[r] \notin Open => file[r] = sha[r]
    /\ acked[r] \subseteq {sha[r]}

(* A turn that was not taken from the queue has had no child task.         *)
RunsInv ==
  \A r \in Requests :
    /\ runs[r] <= 1
    /\ status[r] \in Open \cup {"queued"} => runs[r] = 0

(* The durable mark counts the opened responses.                           *)
StreamInv ==
  \A r \in Requests :
    /\ opened[r] = IF claimed[r] THEN 1 ELSE 0
    /\ stream[r] # "none" => claimed[r]
    /\ stream[r] = "complete" => status[r] = "ready"

(* The worker's task, its child and the rows agree.                        *)
WorkerInv ==
  /\ WorkerOwnsActiveRow
  /\ ~up => active = NoJob
  /\ active = NoJob <=> child \in {"idle", "dead"}

(* What TakeTurn does, named for the head of the queue.                    *)
TakesHead(r) ==
  /\ status[r] = "queued"
  /\ status' = [status EXCEPT ![r] = "running"]
  /\ runs' = [runs EXCEPT ![r] = @ + 1]
  /\ active' = r

LEMMA TakeTurnHead ==
  ASSUME TypeOK, TakeTurn
  PROVE  \E r \in Requests : TakesHead(r)
<1>1. PICK r \in Requests : r = Head(queue)
  BY HeadTailProperties DEF TakeTurn, TypeOK
<1>2. TakesHead(r)
  BY <1>1 DEF TakeTurn, TakesHead
<1>3. QED
  BY <1>2

(* Claims, completions and failures keep one owner per uploading row.      *)
LEMMA OwnersStep ==
  ASSUME TypeOK, OwnersInv, [Next]_vars
  PROVE  OwnersInv'
<1>1. CASE Start
  BY <1>1 DEF Start, Interrupted, RecoveredUpload, InCreationOrder, TypeOK, ghosts,
     OwnersInv, UploadHasOneOwner, Active
<1>2. CASE Crash
  BY <1>2 DEF Crash, LoseProcess, TypeOK, durable, ghosts, OwnersInv, UploadHasOneOwner, Active
<1>3. CASE Close
  BY <1>3 DEF Close, LoseProcess, Interrupted, TypeOK, ghosts, OwnersInv, UploadHasOneOwner, Active
<1>4. CASE SkipTurn
  BY <1>4 DEF SkipTurn, TypeOK, durable, ghosts, OwnersInv, UploadHasOneOwner
<1>5. CASE TakeTurn
  <2>1. PICK r \in Requests : TakesHead(r)
    BY <1>5, TakeTurnHead
  <2>2. QED
    BY <1>5, <2>1, ZenonT(60) DEF TakeTurn, TakesHead, TypeOK, OwnersInv, UploadHasOneOwner, ghosts
<1>6. CASE ChildProgress
  BY <1>6 DEF ChildProgress, SetProgress, NextStage, TypeOK, ghosts, OwnersInv, UploadHasOneOwner, Active
<1>7. ASSUME NEW result \in {"returned", "raised", "cancelled"}, ChildEnds(result)
       PROVE OwnersInv'
  BY <1>7 DEF ChildEnds, TypeOK, durable, ghosts, OwnersInv, UploadHasOneOwner, Active
<1>8. ASSUME NEW outcome \in {"ready", "failed", "interrupted"},
   WorkerFinishes(outcome) PROVE OwnersInv'
  BY <1>8 DEF WorkerFinishes, FinishRow, TypeOK, ghosts, OwnersInv, UploadHasOneOwner, Active
<1>9. ASSUME NEW r \in Requests, ClaimNew(r) PROVE OwnersInv'
  BY <1>9 DEF ClaimNew, Rows, TypeOK, ghosts, OwnersInv, UploadHasOneOwner, Active
<1>10. ASSUME NEW r \in Requests, ClaimAgain(r) PROVE OwnersInv'
  BY <1>10 DEF ClaimAgain, TakesOver, TypeOK, ghosts, OwnersInv, UploadHasOneOwner, Active
<1>11. ASSUME NEW r \in Requests, ClaimDuplicate(r) PROVE OwnersInv'
  BY <1>11 DEF ClaimDuplicate, TakesOver, TypeOK, durable, ghosts, OwnersInv, UploadHasOneOwner
<1>12. ASSUME NEW r \in Requests, UploadFails(r) PROVE OwnersInv'
  BY <1>12 DEF UploadFails, MarkUploadFailed, TypeOK, ghosts, OwnersInv, UploadHasOneOwner, Active
<1>13. ASSUME NEW r \in Requests, DuplicateRejected(r) PROVE OwnersInv'
  BY <1>13 DEF DuplicateRejected, TypeOK, durable, ghosts, OwnersInv, UploadHasOneOwner
<1>14. ASSUME NEW r \in Requests, NEW d \in Digests, UploadCompletes(r, d)
       PROVE OwnersInv'
  BY <1>14, SMTT(30) DEF UploadCompletes, QueueHasRoom, Enqueue, TypeOK, OwnersInv, UploadHasOneOwner, Active
<1>15. ASSUME NEW r \in Requests, NEW d \in Digests, DuplicateVerified(r, d)
       PROVE OwnersInv'
  BY <1>15 DEF DuplicateVerified, SameBody, TypeOK, durable, OwnersInv, UploadHasOneOwner
<1>16. ASSUME NEW r \in Requests, NEW d \in Digests, CommitFails(r, d)
       PROVE OwnersInv'
  BY <1>16 DEF CommitFails, QueueHasRoom, MarkUploadFailed, TypeOK, ghosts,
     OwnersInv, UploadHasOneOwner, Active
<1>17. ASSUME NEW r \in Requests, NEW d \in Digests, CrashInComplete(r, d)
       PROVE OwnersInv'
  BY <1>17 DEF CrashInComplete, QueueHasRoom, LoseProcess, TypeOK, ghosts,
     OwnersInv, UploadHasOneOwner, Active
<1>18. ASSUME NEW r \in Requests, CancelTurn(r) PROVE OwnersInv'
  BY <1>18 DEF CancelTurn, TypeOK, ghosts, OwnersInv, UploadHasOneOwner, Active
<1>19. ASSUME NEW r \in Requests, ClaimAudioStream(r) PROVE OwnersInv'
  BY <1>19 DEF ClaimAudioStream, StreamClaimable, TypeOK, OwnersInv, UploadHasOneOwner
<1>20. ASSUME NEW r \in Requests, StreamCompletes(r) PROVE OwnersInv'
  BY <1>20 DEF StreamCompletes, TypeOK, durable, ghosts, OwnersInv, UploadHasOneOwner
<1>21. ASSUME NEW r \in Requests, StreamBreaks(r) PROVE OwnersInv'
  BY <1>21 DEF StreamBreaks, TypeOK, durable, ghosts, OwnersInv, UploadHasOneOwner
<1>22. CASE WorkerDiesTaking
  <2>1. PICK r \in Requests : MarksHead(r)
    BY <1>22, WorkerDiesHead
  <2>2. QED
    BY <1>22, <2>1 DEF WorkerDiesTaking, MarksHead, TypeOK, OwnersInv, UploadHasOneOwner
<1>23. CASE WorkerDiesFinishing
  BY <1>23 DEF WorkerDiesFinishing, durable, OwnersInv, UploadHasOneOwner
<1>24. CASE UNCHANGED vars
  BY <1>24 DEF TypeOK, durable, ghosts, OwnersInv, UploadHasOneOwner, Active, vars, durable, process,
     ghosts
<1>25. QED
  BY <1>1, <1>2, <1>3, <1>4, <1>5, <1>6, <1>7, <1>8, <1>9, <1>10, <1>11, <1>12,
     <1>13, <1>14, <1>15, <1>16, <1>17, <1>18, <1>19, <1>20, <1>21, <1>22, <1>23,
     <1>24 DEF Next,
     WorkerStep, UploadStep, DeviceStep

(* A digest is set once, together with input.pcm, and 202 answers it.      *)
LEMMA AcceptedStep ==
  ASSUME TypeOK, AcceptedInv, [Next]_vars
  PROVE  AcceptedInv'
<1>1. CASE Start
  BY <1>1, DigestsAssumption DEF Start, Interrupted, RecoveredUpload,
     InCreationOrder, TypeOK, ghosts, AcceptedInv, Open, Active, Terminal, Status
<1>2. CASE Crash
  BY <1>2, DigestsAssumption DEF Crash, LoseProcess, TypeOK, durable, ghosts,
     AcceptedInv, Open, Active, Terminal
<1>3. CASE Close
  BY <1>3, DigestsAssumption DEF Close, LoseProcess, Interrupted, TypeOK, ghosts,
     AcceptedInv, Open, Active, Terminal, Status
<1>4. CASE SkipTurn
  BY <1>4, DigestsAssumption DEF SkipTurn, TypeOK, durable, ghosts, AcceptedInv
<1>5. CASE TakeTurn
  <2>1. PICK r \in Requests : TakesHead(r)
    BY <1>5, TakeTurnHead
  <2>2. QED
    BY <1>5, <2>1 DEF TakeTurn, TakesHead, TypeOK, AcceptedInv, Open, ghosts
<1>6. CASE ChildProgress
  BY <1>6, DigestsAssumption DEF ChildProgress, SetProgress, NextStage, TypeOK,
     ghosts, AcceptedInv, Open, Active, Terminal, Status
<1>7. ASSUME NEW result \in {"returned", "raised", "cancelled"}, ChildEnds(result)
       PROVE AcceptedInv'
  BY <1>7, DigestsAssumption DEF ChildEnds, TypeOK, durable, ghosts, AcceptedInv,
     Open, Active, Terminal
<1>8. ASSUME NEW outcome \in {"ready", "failed", "interrupted"},
   WorkerFinishes(outcome) PROVE AcceptedInv'
  BY <1>8, DigestsAssumption DEF WorkerFinishes, FinishRow, TypeOK, ghosts,
     AcceptedInv, Open, Active, Terminal, Status
<1>9. ASSUME NEW r \in Requests, ClaimNew(r) PROVE AcceptedInv'
  BY <1>9, DigestsAssumption DEF ClaimNew, Rows, TypeOK, ghosts, AcceptedInv, Open,
     Active, Terminal, Status
<1>10. ASSUME NEW r \in Requests, ClaimAgain(r) PROVE AcceptedInv'
  BY <1>10, DigestsAssumption DEF ClaimAgain, TakesOver, TypeOK, ghosts,
     AcceptedInv, Open, Active, Terminal, Status
<1>11. ASSUME NEW r \in Requests, ClaimDuplicate(r) PROVE AcceptedInv'
  BY <1>11, DigestsAssumption DEF ClaimDuplicate, TakesOver, TypeOK, durable,
     ghosts, AcceptedInv
<1>12. ASSUME NEW r \in Requests, UploadFails(r) PROVE AcceptedInv'
  BY <1>12, DigestsAssumption DEF UploadFails, MarkUploadFailed, TypeOK, ghosts,
     AcceptedInv, Open, Active, Terminal, Status
<1>13. ASSUME NEW r \in Requests, DuplicateRejected(r) PROVE AcceptedInv'
  BY <1>13, DigestsAssumption DEF DuplicateRejected, TypeOK, durable, ghosts,
     AcceptedInv
<1>14. ASSUME NEW r \in Requests, NEW d \in Digests, UploadCompletes(r, d)
       PROVE AcceptedInv'
  <2>1. sha[r] = NoDigest /\ acked[r] \subseteq Digests
    BY <1>14 DEF UploadCompletes, TypeOK, AcceptedInv, Open
  <2>2. acked[r] = {}
    BY <2>1, DigestsAssumption DEF AcceptedInv
  <2>3. acked' = [acked EXCEPT ![r] = {d}]
    BY <1>14, <2>2 DEF UploadCompletes
  <2>4. QED
    BY <1>14, <2>3, DigestsAssumption DEF UploadCompletes, TypeOK, AcceptedInv, Open
<1>15. ASSUME NEW r \in Requests, NEW d \in Digests, DuplicateVerified(r, d)
       PROVE AcceptedInv'
  BY <1>15, DigestsAssumption DEF DuplicateVerified, SameBody, TypeOK, durable,
     AcceptedInv
<1>16. ASSUME NEW r \in Requests, NEW d \in Digests, CommitFails(r, d)
       PROVE AcceptedInv'
  BY <1>16, DigestsAssumption DEF CommitFails, QueueHasRoom, MarkUploadFailed,
     TypeOK, ghosts, AcceptedInv, Open, Active, Terminal, Status
<1>17. ASSUME NEW r \in Requests, NEW d \in Digests, CrashInComplete(r, d)
       PROVE AcceptedInv'
  BY <1>17, DigestsAssumption DEF CrashInComplete, QueueHasRoom, LoseProcess,
     TypeOK, ghosts, AcceptedInv, Open, Active, Terminal
<1>18. ASSUME NEW r \in Requests, CancelTurn(r) PROVE AcceptedInv'
  BY <1>18, DigestsAssumption DEF CancelTurn, TypeOK, ghosts, AcceptedInv, Open,
     Active, Terminal, Status
<1>19. ASSUME NEW r \in Requests, ClaimAudioStream(r) PROVE AcceptedInv'
  BY <1>19, DigestsAssumption DEF ClaimAudioStream, StreamClaimable, TypeOK,
     AcceptedInv
<1>20. ASSUME NEW r \in Requests, StreamCompletes(r) PROVE AcceptedInv'
  BY <1>20, DigestsAssumption DEF StreamCompletes, TypeOK, durable, ghosts,
     AcceptedInv
<1>21. ASSUME NEW r \in Requests, StreamBreaks(r) PROVE AcceptedInv'
  BY <1>21, DigestsAssumption DEF StreamBreaks, TypeOK, durable, ghosts, AcceptedInv
<1>22. CASE WorkerDiesTaking
  <2>1. PICK r \in Requests : MarksHead(r)
    BY <1>22, WorkerDiesHead
  <2>2. QED
    BY <1>22, <2>1 DEF WorkerDiesTaking, MarksHead, TypeOK, AcceptedInv, Open, ghosts
<1>23. CASE WorkerDiesFinishing
  BY <1>23 DEF WorkerDiesFinishing, durable, ghosts, AcceptedInv
<1>24. CASE UNCHANGED vars
  BY <1>24, DigestsAssumption DEF TypeOK, durable, ghosts, AcceptedInv, Open,
     Active, Terminal, Status, vars, durable, process, ghosts
<1>25. QED
  BY <1>1, <1>2, <1>3, <1>4, <1>5, <1>6, <1>7, <1>8, <1>9, <1>10, <1>11, <1>12,
     <1>13, <1>14, <1>15, <1>16, <1>17, <1>18, <1>19, <1>20, <1>21, <1>22, <1>23,
     <1>24 DEF Next,
     WorkerStep, UploadStep, DeviceStep

(* Only mark_running creates a child task, and no row is queued twice.     *)
LEMMA RunsStep ==
  ASSUME TypeOK, RunsInv, [Next]_vars
  PROVE  RunsInv'
<1>1. CASE Start
  BY <1>1 DEF Start, Interrupted, RecoveredUpload, InCreationOrder, TypeOK, ghosts,
     RunsInv, Open, Active, Terminal, Status
<1>2. CASE Crash
  BY <1>2 DEF Crash, LoseProcess, TypeOK, durable, ghosts, RunsInv, Open, Active,
     Terminal
<1>3. CASE Close
  BY <1>3 DEF Close, LoseProcess, Interrupted, TypeOK, ghosts, RunsInv, Open,
     Active, Terminal, Status
<1>4. CASE SkipTurn
  BY <1>4 DEF SkipTurn, TypeOK, durable, ghosts, RunsInv
<1>5. CASE TakeTurn
  <2>1. PICK r \in Requests : TakesHead(r)
    BY <1>5, TakeTurnHead
  <2>2. QED
    BY <1>5, <2>1 DEF TakesHead, TypeOK, RunsInv, Open
<1>6. CASE ChildProgress
  BY <1>6 DEF ChildProgress, SetProgress, NextStage, TypeOK, ghosts, RunsInv, Open,
     Active, Terminal, Status
<1>7. ASSUME NEW result \in {"returned", "raised", "cancelled"}, ChildEnds(result)
       PROVE RunsInv'
  BY <1>7 DEF ChildEnds, TypeOK, durable, ghosts, RunsInv, Open, Active, Terminal
<1>8. ASSUME NEW outcome \in {"ready", "failed", "interrupted"},
   WorkerFinishes(outcome) PROVE RunsInv'
  BY <1>8 DEF WorkerFinishes, FinishRow, TypeOK, ghosts, RunsInv, Open, Active,
     Terminal, Status
<1>9. ASSUME NEW r \in Requests, ClaimNew(r) PROVE RunsInv'
  BY <1>9 DEF ClaimNew, Rows, TypeOK, ghosts, RunsInv, Open, Active, Terminal, Status
<1>10. ASSUME NEW r \in Requests, ClaimAgain(r) PROVE RunsInv'
  BY <1>10 DEF ClaimAgain, TakesOver, TypeOK, ghosts, RunsInv, Open, Active,
     Terminal, Status
<1>11. ASSUME NEW r \in Requests, ClaimDuplicate(r) PROVE RunsInv'
  BY <1>11 DEF ClaimDuplicate, TakesOver, TypeOK, durable, ghosts, RunsInv
<1>12. ASSUME NEW r \in Requests, UploadFails(r) PROVE RunsInv'
  BY <1>12 DEF UploadFails, MarkUploadFailed, TypeOK, ghosts, RunsInv, Open, Active,
     Terminal, Status
<1>13. ASSUME NEW r \in Requests, DuplicateRejected(r) PROVE RunsInv'
  BY <1>13 DEF DuplicateRejected, TypeOK, durable, ghosts, RunsInv
<1>14. ASSUME NEW r \in Requests, NEW d \in Digests, UploadCompletes(r, d)
       PROVE RunsInv'
  BY <1>14 DEF UploadCompletes, QueueHasRoom, Enqueue, TypeOK, RunsInv, Open,
     Active, Terminal, Status
<1>15. ASSUME NEW r \in Requests, NEW d \in Digests, DuplicateVerified(r, d)
       PROVE RunsInv'
  BY <1>15 DEF DuplicateVerified, SameBody, TypeOK, durable, RunsInv
<1>16. ASSUME NEW r \in Requests, NEW d \in Digests, CommitFails(r, d) PROVE RunsInv'
  BY <1>16 DEF CommitFails, QueueHasRoom, MarkUploadFailed, TypeOK, ghosts, RunsInv,
     Open, Active, Terminal, Status
<1>17. ASSUME NEW r \in Requests, NEW d \in Digests, CrashInComplete(r, d)
       PROVE RunsInv'
  BY <1>17 DEF CrashInComplete, QueueHasRoom, LoseProcess, TypeOK, ghosts, RunsInv,
     Open, Active, Terminal
<1>18. ASSUME NEW r \in Requests, CancelTurn(r) PROVE RunsInv'
  BY <1>18 DEF CancelTurn, TypeOK, ghosts, RunsInv, Open, Active, Terminal, Status
<1>19. ASSUME NEW r \in Requests, ClaimAudioStream(r) PROVE RunsInv'
  BY <1>19 DEF ClaimAudioStream, StreamClaimable, TypeOK, RunsInv
<1>20. ASSUME NEW r \in Requests, StreamCompletes(r) PROVE RunsInv'
  BY <1>20 DEF StreamCompletes, TypeOK, durable, ghosts, RunsInv
<1>21. ASSUME NEW r \in Requests, StreamBreaks(r) PROVE RunsInv'
  BY <1>21 DEF StreamBreaks, TypeOK, durable, ghosts, RunsInv
<1>22. CASE WorkerDiesTaking
  <2>1. PICK r \in Requests : MarksHead(r)
    BY <1>22, WorkerDiesHead
  <2>2. QED
    BY <1>22, <2>1 DEF WorkerDiesTaking, MarksHead, TypeOK, RunsInv, Open, ghosts
<1>23. CASE WorkerDiesFinishing
  BY <1>23 DEF WorkerDiesFinishing, durable, ghosts, RunsInv
<1>24. CASE UNCHANGED vars
  BY <1>24 DEF TypeOK, durable, ghosts, RunsInv, Open, Active, Terminal, Status,
     vars, durable, process, ghosts
<1>25. QED
  BY <1>1, <1>2, <1>3, <1>4, <1>5, <1>6, <1>7, <1>8, <1>9, <1>10, <1>11, <1>12,
     <1>13, <1>14, <1>15, <1>16, <1>17, <1>18, <1>19, <1>20, <1>21, <1>22, <1>23,
     <1>24 DEF Next,
     WorkerStep, UploadStep, DeviceStep

(* Only the first claim opens a response.                                  *)
LEMMA StreamStep ==
  ASSUME TypeOK, StreamInv, [Next]_vars
  PROVE  StreamInv'
<1>1. CASE Start
  BY <1>1 DEF Start, Interrupted, RecoveredUpload, InCreationOrder, TypeOK, ghosts,
     StreamInv, Active, Status
<1>2. CASE Crash
  BY <1>2 DEF Crash, LoseProcess, TypeOK, durable, ghosts, StreamInv, StreamState,
     Active
<1>3. CASE Close
  BY <1>3 DEF Close, LoseProcess, Interrupted, TypeOK, ghosts, StreamInv,
     StreamState, Active, Status
<1>4. CASE SkipTurn
  BY <1>4 DEF SkipTurn, TypeOK, durable, ghosts, StreamInv
<1>5. CASE TakeTurn
  <2>1. PICK r \in Requests : TakesHead(r)
    BY <1>5, TakeTurnHead
  <2>2. QED
    BY <1>5, <2>1 DEF TakeTurn, TakesHead, TypeOK, StreamInv
<1>6. CASE ChildProgress
  BY <1>6 DEF ChildProgress, SetProgress, NextStage, TypeOK, ghosts, StreamInv,
     Active, Status
<1>7. ASSUME NEW result \in {"returned", "raised", "cancelled"}, ChildEnds(result)
       PROVE StreamInv'
  BY <1>7 DEF ChildEnds, TypeOK, durable, ghosts, StreamInv, Active
<1>8. ASSUME NEW outcome \in {"ready", "failed", "interrupted"},
   WorkerFinishes(outcome) PROVE StreamInv'
  BY <1>8 DEF WorkerFinishes, FinishRow, TypeOK, ghosts, StreamInv, Active, Status
<1>9. ASSUME NEW r \in Requests, ClaimNew(r) PROVE StreamInv'
  BY <1>9 DEF ClaimNew, Rows, TypeOK, ghosts, StreamInv, Active, Status
<1>10. ASSUME NEW r \in Requests, ClaimAgain(r) PROVE StreamInv'
  BY <1>10 DEF ClaimAgain, TakesOver, TypeOK, ghosts, StreamInv, Active, Status
<1>11. ASSUME NEW r \in Requests, ClaimDuplicate(r) PROVE StreamInv'
  BY <1>11 DEF ClaimDuplicate, TakesOver, TypeOK, durable, ghosts, StreamInv
<1>12. ASSUME NEW r \in Requests, UploadFails(r) PROVE StreamInv'
  BY <1>12 DEF UploadFails, MarkUploadFailed, TypeOK, ghosts, StreamInv, Active,
     Status
<1>13. ASSUME NEW r \in Requests, DuplicateRejected(r) PROVE StreamInv'
  BY <1>13 DEF DuplicateRejected, TypeOK, durable, ghosts, StreamInv
<1>14. ASSUME NEW r \in Requests, NEW d \in Digests, UploadCompletes(r, d)
       PROVE StreamInv'
  BY <1>14 DEF UploadCompletes, QueueHasRoom, Enqueue, TypeOK, StreamInv, Active,
     Status
<1>15. ASSUME NEW r \in Requests, NEW d \in Digests, DuplicateVerified(r, d)
       PROVE StreamInv'
  BY <1>15 DEF DuplicateVerified, SameBody, TypeOK, durable, StreamInv
<1>16. ASSUME NEW r \in Requests, NEW d \in Digests, CommitFails(r, d)
       PROVE StreamInv'
  BY <1>16 DEF CommitFails, QueueHasRoom, MarkUploadFailed, TypeOK, ghosts,
     StreamInv, Active, Status
<1>17. ASSUME NEW r \in Requests, NEW d \in Digests, CrashInComplete(r, d)
       PROVE StreamInv'
  BY <1>17 DEF CrashInComplete, QueueHasRoom, LoseProcess, TypeOK, ghosts,
     StreamInv, StreamState, Active
<1>18. ASSUME NEW r \in Requests, CancelTurn(r) PROVE StreamInv'
  BY <1>18 DEF CancelTurn, TypeOK, ghosts, StreamInv, Active, Status
<1>19. ASSUME NEW r \in Requests, ClaimAudioStream(r) PROVE StreamInv'
  BY <1>19 DEF ClaimAudioStream, StreamClaimable, TypeOK, StreamInv, StreamState
<1>20. ASSUME NEW r \in Requests, StreamCompletes(r) PROVE StreamInv'
  BY <1>20 DEF StreamCompletes, TypeOK, durable, ghosts, StreamInv, StreamState
<1>21. ASSUME NEW r \in Requests, StreamBreaks(r) PROVE StreamInv'
  BY <1>21 DEF StreamBreaks, TypeOK, durable, ghosts, StreamInv, StreamState
<1>22. CASE WorkerDiesTaking
  <2>1. PICK r \in Requests : MarksHead(r)
    BY <1>22, WorkerDiesHead
  <2>2. QED
    BY <1>22, <2>1 DEF WorkerDiesTaking, MarksHead, TypeOK, StreamInv, ghosts
<1>23. CASE WorkerDiesFinishing
  BY <1>23 DEF WorkerDiesFinishing, durable, ghosts, StreamInv
<1>24. CASE UNCHANGED vars
  BY <1>24 DEF TypeOK, durable, ghosts, StreamInv, StreamState, Active, Status,
     vars, durable, process, ghosts
<1>25. QED
  BY <1>1, <1>2, <1>3, <1>4, <1>5, <1>6, <1>7, <1>8, <1>9, <1>10, <1>11, <1>12,
     <1>13, <1>14, <1>15, <1>16, <1>17, <1>18, <1>19, <1>20, <1>21, <1>22, <1>23,
     <1>24 DEF Next,
     WorkerStep, UploadStep, DeviceStep

(* Only the worker's hand-over and cancellations move active rows.         *)
LEMMA WorkerInvStep ==
  ASSUME TypeOK, WorkerInv, [Next]_vars
  PROVE  WorkerInv'
<1>1. CASE Start
  BY <1>1, RequestsAssumption DEF Start, Interrupted, RecoveredUpload,
     InCreationOrder, TypeOK, ghosts, WorkerInv, WorkerOwnsActiveRow, Active,
     Terminal, Open, Status
<1>2. CASE Crash
  BY <1>2, RequestsAssumption DEF Crash, LoseProcess, TypeOK, durable, ghosts,
     WorkerInv, WorkerOwnsActiveRow, Active, ChildState, Terminal, Open
<1>3. CASE Close
  BY <1>3, RequestsAssumption DEF Close, LoseProcess, Interrupted, TypeOK, ghosts,
     WorkerInv, WorkerOwnsActiveRow, Active, ChildState, Terminal, Open, Status
<1>4. CASE SkipTurn
  BY <1>4, RequestsAssumption DEF SkipTurn, TypeOK, durable, ghosts, WorkerInv,
     WorkerOwnsActiveRow
<1>5. CASE TakeTurn
  <2>1. PICK r \in Requests : TakesHead(r)
    BY <1>5, TakeTurnHead
  <2>2. /\ up /\ up' /\ child = "idle" /\ active = NoJob
        /\ child' = "running" /\ killed' = FALSE
    BY <1>5 DEF TakeTurn, WorkerInv
  <2>3. \A s \in Requests : s # r => status'[s] = status[s] /\ status[s] \notin Active
    BY <2>1, <2>2, RequestsAssumption DEF TakesHead, TypeOK, WorkerInv,
       WorkerOwnsActiveRow
  <2>4. status'[r] = "running" /\ active' = r /\ r # NoJob
    BY <2>1, RequestsAssumption DEF TakesHead, TypeOK
  <2>5. QED
    BY <2>2, <2>3, <2>4 DEF WorkerInv, WorkerOwnsActiveRow, Active
<1>6. CASE ChildProgress
  BY <1>6, RequestsAssumption DEF ChildProgress, SetProgress, NextStage, TypeOK,
     ghosts, WorkerInv, WorkerOwnsActiveRow, Active, ChildState, Terminal, Open,
     Status
<1>7. ASSUME NEW result \in {"returned", "raised", "cancelled"}, ChildEnds(result)
       PROVE WorkerInv'
  BY <1>7, RequestsAssumption DEF ChildEnds, TypeOK, durable, ghosts, WorkerInv,
     WorkerOwnsActiveRow, Active, ChildState, Terminal, Open
<1>8. ASSUME NEW outcome \in {"ready", "failed", "interrupted"},
   WorkerFinishes(outcome) PROVE WorkerInv'
  BY <1>8, RequestsAssumption DEF WorkerFinishes, FinishRow, TypeOK, ghosts,
     WorkerInv, WorkerOwnsActiveRow, Active, ChildState, Terminal, Open, Status
<1>9. ASSUME NEW r \in Requests, ClaimNew(r) PROVE WorkerInv'
  BY <1>9, RequestsAssumption DEF ClaimNew, Rows, TypeOK, ghosts, WorkerInv,
     WorkerOwnsActiveRow, Active, Terminal, Open, Status
<1>10. ASSUME NEW r \in Requests, ClaimAgain(r) PROVE WorkerInv'
  BY <1>10, RequestsAssumption DEF ClaimAgain, TakesOver, TypeOK, ghosts, WorkerInv,
     WorkerOwnsActiveRow, Active, Terminal, Open, Status
<1>11. ASSUME NEW r \in Requests, ClaimDuplicate(r) PROVE WorkerInv'
  BY <1>11, RequestsAssumption DEF ClaimDuplicate, TakesOver, TypeOK, durable,
     ghosts, WorkerInv, WorkerOwnsActiveRow
<1>12. ASSUME NEW r \in Requests, UploadFails(r) PROVE WorkerInv'
  BY <1>12, RequestsAssumption DEF UploadFails, MarkUploadFailed, TypeOK, ghosts,
     WorkerInv, WorkerOwnsActiveRow, Active, Terminal, Open, Status
<1>13. ASSUME NEW r \in Requests, DuplicateRejected(r) PROVE WorkerInv'
  BY <1>13, RequestsAssumption DEF DuplicateRejected, TypeOK, durable, ghosts,
     WorkerInv, WorkerOwnsActiveRow
<1>14. ASSUME NEW r \in Requests, NEW d \in Digests, UploadCompletes(r, d)
       PROVE WorkerInv'
  BY <1>14, RequestsAssumption DEF UploadCompletes, QueueHasRoom, Enqueue, TypeOK,
     WorkerInv, WorkerOwnsActiveRow, Active, Terminal, Open, Status
<1>15. ASSUME NEW r \in Requests, NEW d \in Digests, DuplicateVerified(r, d)
       PROVE WorkerInv'
  BY <1>15, RequestsAssumption DEF DuplicateVerified, SameBody, TypeOK, durable,
     WorkerInv, WorkerOwnsActiveRow
<1>16. ASSUME NEW r \in Requests, NEW d \in Digests, CommitFails(r, d)
       PROVE WorkerInv'
  BY <1>16, RequestsAssumption DEF CommitFails, QueueHasRoom, MarkUploadFailed,
     TypeOK, ghosts, WorkerInv, WorkerOwnsActiveRow, Active, Terminal, Open, Status
<1>17. ASSUME NEW r \in Requests, NEW d \in Digests, CrashInComplete(r, d)
       PROVE WorkerInv'
  BY <1>17, RequestsAssumption DEF CrashInComplete, QueueHasRoom, LoseProcess,
     TypeOK, ghosts, WorkerInv, WorkerOwnsActiveRow, Active, ChildState, Terminal,
     Open
<1>18. ASSUME NEW r \in Requests, CancelTurn(r) PROVE WorkerInv'
  BY <1>18, RequestsAssumption DEF CancelTurn, TypeOK, ghosts, WorkerInv,
     WorkerOwnsActiveRow, Active, Terminal, Open, Status
<1>19. ASSUME NEW r \in Requests, ClaimAudioStream(r) PROVE WorkerInv'
  BY <1>19, RequestsAssumption DEF ClaimAudioStream, StreamClaimable, TypeOK,
     WorkerInv, WorkerOwnsActiveRow
<1>20. ASSUME NEW r \in Requests, StreamCompletes(r) PROVE WorkerInv'
  BY <1>20, RequestsAssumption DEF StreamCompletes, TypeOK, durable, ghosts,
     WorkerInv, WorkerOwnsActiveRow
<1>21. ASSUME NEW r \in Requests, StreamBreaks(r) PROVE WorkerInv'
  BY <1>21, RequestsAssumption DEF StreamBreaks, TypeOK, durable, ghosts, WorkerInv,
     WorkerOwnsActiveRow
<1>22. CASE WorkerDiesTaking
  <2>1. up' = up /\ child = "idle" /\ child' = "dead" /\ active' = active /\ up
    BY <1>22 DEF WorkerDiesTaking
  <2>2. QED
    BY <2>1 DEF WorkerInv, WorkerOwnsActiveRow, Active
<1>23. CASE WorkerDiesFinishing
  BY <1>23 DEF WorkerDiesFinishing, durable, WorkerInv, WorkerOwnsActiveRow, Active
<1>24. CASE UNCHANGED vars
  BY <1>24, RequestsAssumption DEF TypeOK, durable, ghosts, WorkerInv,
     WorkerOwnsActiveRow, Active, ChildState, Terminal, Open, Status, vars, durable,
     process, ghosts
<1>25. QED
  BY <1>1, <1>2, <1>3, <1>4, <1>5, <1>6, <1>7, <1>8, <1>9, <1>10, <1>11, <1>12,
     <1>13, <1>14, <1>15, <1>16, <1>17, <1>18, <1>19, <1>20, <1>21, <1>22, <1>23,
     <1>24 DEF Next,
     WorkerStep, UploadStep, DeviceStep

-----------------------------------------------------------------------------
IInv ==
  TypeOK /\ OwnersInv /\ AcceptedInv /\ RunsInv /\ StreamInv /\ WorkerInv

LEMMA InitIInv == Init => IInv
<1> SUFFICES ASSUME Init PROVE IInv
  OBVIOUS
<1>1. TypeOK
  BY InitTypeOK
<1>2. OwnersInv /\ RunsInv
  BY DEF Init, OwnersInv, UploadHasOneOwner, RunsInv
<1>3. AcceptedInv
  BY DEF Init, AcceptedInv, Open
<1>4. StreamInv
  BY DEF Init, StreamInv
<1>5. WorkerInv
  BY DEF Init, WorkerInv, WorkerOwnsActiveRow, Active
<1>6. QED
  BY <1>1, <1>2, <1>3, <1>4, <1>5 DEF IInv

(* Every state of the gateway satisfies the inductive invariant.           *)
THEOREM Invariance == Spec => []IInv
<1>1. IInv /\ [Next]_vars => IInv'
  BY TypeOKStep, OwnersStep, AcceptedStep, RunsStep, StreamStep, WorkerInvStep DEF
     IInv
<1>2. QED
  BY <1>1, InitIInv, PTL DEF Spec

(* Whatever was answered with 202 stays the turn's recording.              *)
THEOREM AckedAudio == Spec => []AckedAudioIsTheTurn
<1>1. IInv => AckedAudioIsTheTurn
  BY DigestsAssumption DEF IInv, TypeOK, AcceptedInv, AckedAudioIsTheTurn
<1>2. QED
  BY <1>1, Invariance, PTL

(* No turn reaches the agent twice, however often the gateway restarts.    *)
THEOREM AtMostOnce == Spec => []ProcessedAtMostOnce
<1>1. IInv => ProcessedAtMostOnce
  BY DEF IInv, RunsInv, ProcessedAtMostOnce
<1>2. QED
  BY <1>1, Invariance, PTL

(* An upload has one live handler at most, while its row is uploading.     *)
THEOREM OneOwner == Spec => []UploadHasOneOwner
<1>1. IInv => UploadHasOneOwner
  BY DEF IInv, OwnersInv
<1>2. QED
  BY <1>1, Invariance, PTL

(* A reply is streamed at most once in the lifetime of the archive.        *)
THEOREM OneStream == Spec => []StreamedAtMostOnce
<1>1. IInv => StreamedAtMostOnce
  BY DEF IInv, StreamInv, StreamedAtMostOnce
<1>2. QED
  BY <1>1, Invariance, PTL

(* The row shown as being processed is the one the worker holds.           *)
THEOREM WorkerOwns == Spec => []WorkerOwnsActiveRow
<1>1. IInv => WorkerOwnsActiveRow
  BY DEF IInv, WorkerInv
<1>2. QED
  BY <1>1, Invariance, PTL

-----------------------------------------------------------------------------
(* No action rewrites a final status.                                      *)
LEMMA FinalStep ==
  ASSUME TypeOK, [Next]_vars
  PROVE  \A q \in Requests : status[q] \in Terminal => status'[q] = status[q]
<1> DEFINE Final == \A q \in Requests : status[q] \in Terminal => status'[q] =
   status[q]
<1>1. CASE Start
  BY <1>1 DEF Start, Interrupted, RecoveredUpload, InCreationOrder, TypeOK, ghosts,
     Active, Terminal
<1>2. CASE Crash
  BY <1>2 DEF Crash, LoseProcess, TypeOK, durable, ghosts, Active, Terminal
<1>3. CASE Close
  BY <1>3 DEF Close, LoseProcess, Interrupted, TypeOK, ghosts, Active, Terminal
<1>4. CASE SkipTurn
  BY <1>4 DEF SkipTurn, TypeOK, durable, ghosts
<1>5. CASE TakeTurn
  <2>1. PICK r \in Requests : TakesHead(r)
    BY <1>5, TakeTurnHead
  <2>2. QED
    BY <1>5, <2>1 DEF TakesHead, TypeOK, Terminal
<1>6. CASE ChildProgress
  BY <1>6 DEF ChildProgress, SetProgress, NextStage, TypeOK, ghosts, Active, Terminal
<1>7. ASSUME NEW result \in {"returned", "raised", "cancelled"}, ChildEnds(result)
       PROVE Final
  BY <1>7 DEF ChildEnds, TypeOK, durable, ghosts, Active, Terminal
<1>8. ASSUME NEW outcome \in {"ready", "failed", "interrupted"},
   WorkerFinishes(outcome) PROVE Final
  BY <1>8 DEF WorkerFinishes, FinishRow, TypeOK, ghosts, Active, Terminal
<1>9. ASSUME NEW r \in Requests, ClaimNew(r) PROVE Final
  BY <1>9 DEF ClaimNew, Rows, TypeOK, ghosts, Active, Terminal
<1>10. ASSUME NEW r \in Requests, ClaimAgain(r) PROVE Final
  BY <1>10 DEF ClaimAgain, TakesOver, TypeOK, ghosts, Active, Terminal
<1>11. ASSUME NEW r \in Requests, ClaimDuplicate(r) PROVE Final
  BY <1>11 DEF ClaimDuplicate, TakesOver, TypeOK, durable, ghosts
<1>12. ASSUME NEW r \in Requests, UploadFails(r) PROVE Final
  BY <1>12 DEF UploadFails, MarkUploadFailed, TypeOK, ghosts, Active, Terminal
<1>13. ASSUME NEW r \in Requests, DuplicateRejected(r) PROVE Final
  BY <1>13 DEF DuplicateRejected, TypeOK, durable, ghosts
<1>14. ASSUME NEW r \in Requests, NEW d \in Digests, UploadCompletes(r, d) PROVE Final
  BY <1>14 DEF UploadCompletes, QueueHasRoom, Enqueue, TypeOK, Active, Terminal
<1>15. ASSUME NEW r \in Requests, NEW d \in Digests, DuplicateVerified(r, d)
       PROVE Final
  BY <1>15 DEF DuplicateVerified, SameBody, TypeOK, durable
<1>16. ASSUME NEW r \in Requests, NEW d \in Digests, CommitFails(r, d) PROVE Final
  BY <1>16 DEF CommitFails, QueueHasRoom, MarkUploadFailed, TypeOK, ghosts, Active,
     Terminal
<1>17. ASSUME NEW r \in Requests, NEW d \in Digests, CrashInComplete(r, d) PROVE Final
  BY <1>17 DEF CrashInComplete, QueueHasRoom, LoseProcess, TypeOK, ghosts, Active,
     Terminal
<1>18. ASSUME NEW r \in Requests, CancelTurn(r) PROVE Final
  BY <1>18 DEF CancelTurn, TypeOK, ghosts, Active, Terminal
<1>19. ASSUME NEW r \in Requests, ClaimAudioStream(r) PROVE Final
  BY <1>19 DEF ClaimAudioStream, StreamClaimable, TypeOK
<1>20. ASSUME NEW r \in Requests, StreamCompletes(r) PROVE Final
  BY <1>20 DEF StreamCompletes, TypeOK, durable, ghosts
<1>21. ASSUME NEW r \in Requests, StreamBreaks(r) PROVE Final
  BY <1>21 DEF StreamBreaks, TypeOK, durable, ghosts
<1>22. CASE WorkerDiesTaking
  <2>1. PICK r \in Requests : MarksHead(r)
    BY <1>22, WorkerDiesHead
  <2>2. QED
    BY <2>1 DEF MarksHead, TypeOK, Terminal
<1>23. CASE WorkerDiesFinishing
  BY <1>23 DEF WorkerDiesFinishing, durable
<1>24. CASE UNCHANGED vars
  BY <1>24 DEF TypeOK, durable, ghosts, Active, Terminal, vars, durable, process,
     ghosts
<1>25. QED
  BY <1>1, <1>2, <1>3, <1>4, <1>5, <1>6, <1>7, <1>8, <1>9, <1>10, <1>11, <1>12,
     <1>13, <1>14, <1>15, <1>16, <1>17, <1>18, <1>19, <1>20, <1>21, <1>22, <1>23,
     <1>24 DEF Next,
     WorkerStep, UploadStep, DeviceStep

(* No turn is processed twice or streamed twice.                           *)
THEOREM Once == Spec => []TurnsOnce
  BY AtMostOnce, OneStream, PTL DEF TurnsOnce

(* A final status stays what it was.                                       *)
THEOREM FinalStatus == Spec => FinalStatusIsFinal
<1>1. TypeOK /\ [Next]_vars =>
        [\A r \in Requests : status[r] \in Terminal => status'[r] = status[r]]_vars
  BY FinalStep
<1>2. QED
  BY <1>1, TypeCorrect, PTL DEF Spec, FinalStatusIsFinal

LEMMA QueuedRowsFinite == IsFiniteSet(QueuedRows)
  BY RequestsAssumption, FS_Subset DEF QueuedRows

(* Rows that leave the queue, or none, keep the bound.                     *)
LEMMA NoMoreFit ==
  ASSUME RecoveredQueueFits, QueuedRows' \subseteq QueuedRows
  PROVE  RecoveredQueueFits'
<1>1. Cardinality(QueuedRows') <= Cardinality(QueuedRows)
  BY QueuedRowsFinite, FS_Subset
<1>2. Cardinality(QueuedRows') \in Nat /\ Cardinality(QueuedRows) \in Nat
  BY QueuedRowsFinite, FS_Subset, FS_CardinalityType
<1>3. QED
  BY <1>1, <1>2, BoundsAssumption DEF RecoveredQueueFits

(* Only complete_upload queues a row, and it counts the queued rows first. *)
LEMMA QueueFitsStep ==
  ASSUME TypeOK, RecoveredQueueFits, [Next]_vars
  PROVE  RecoveredQueueFits'
<1> DEFINE Fits == RecoveredQueueFits'
<1>0. IsFiniteSet(QueuedRows)
  BY QueuedRowsFinite
<1>1. CASE Start
  <2>1. QueuedRows' \subseteq QueuedRows
    BY <1>1 DEF Start, Interrupted, RecoveredUpload, InCreationOrder, TypeOK,
       ghosts, QueuedRows, Active
  <2>2. QED
    BY <2>1, NoMoreFit
<1>2. CASE Crash
  <2>1. QueuedRows' \subseteq QueuedRows
    BY <1>2 DEF Crash, LoseProcess, TypeOK, durable, ghosts, QueuedRows, Active
  <2>2. QED
    BY <2>1, NoMoreFit
<1>3. CASE Close
  <2>1. QueuedRows' \subseteq QueuedRows
    BY <1>3 DEF Close, LoseProcess, Interrupted, TypeOK, ghosts, QueuedRows, Active
  <2>2. QED
    BY <2>1, NoMoreFit
<1>4. CASE SkipTurn
  <2>1. QueuedRows' \subseteq QueuedRows
    BY <1>4 DEF SkipTurn, TypeOK, durable, ghosts, QueuedRows
  <2>2. QED
    BY <2>1, NoMoreFit
<1>5. CASE TakeTurn
  <2>1. PICK r \in Requests : TakesHead(r)
    BY <1>5, TakeTurnHead
  <2>2. QueuedRows' \subseteq QueuedRows
    BY <2>1 DEF TakesHead, TypeOK, QueuedRows
  <2>3. QED
    BY <2>2, NoMoreFit
<1>6. CASE ChildProgress
  <2>1. QueuedRows' \subseteq QueuedRows
    BY <1>6 DEF ChildProgress, SetProgress, NextStage, TypeOK, ghosts, QueuedRows,
       Active
  <2>2. QED
    BY <2>1, NoMoreFit
<1>7. ASSUME NEW result \in {"returned", "raised", "cancelled"}, ChildEnds(result)
       PROVE Fits
  <2>1. QueuedRows' \subseteq QueuedRows
    BY <1>7 DEF ChildEnds, TypeOK, durable, ghosts, QueuedRows, Active
  <2>2. QED
    BY <2>1, NoMoreFit
<1>8. ASSUME NEW outcome \in {"ready", "failed", "interrupted"},
   WorkerFinishes(outcome) PROVE Fits
  <2>1. QueuedRows' \subseteq QueuedRows
    BY <1>8 DEF WorkerFinishes, FinishRow, TypeOK, ghosts, QueuedRows, Active
  <2>2. QED
    BY <2>1, NoMoreFit
<1>9. ASSUME NEW r \in Requests, ClaimNew(r) PROVE Fits
  <2>1. QueuedRows' \subseteq QueuedRows
    BY <1>9 DEF ClaimNew, Rows, TypeOK, ghosts, QueuedRows, Active
  <2>2. QED
    BY <2>1, NoMoreFit
<1>10. ASSUME NEW r \in Requests, ClaimAgain(r) PROVE Fits
  <2>1. QueuedRows' \subseteq QueuedRows
    BY <1>10 DEF ClaimAgain, TakesOver, TypeOK, ghosts, QueuedRows, Active
  <2>2. QED
    BY <2>1, NoMoreFit
<1>11. ASSUME NEW r \in Requests, ClaimDuplicate(r) PROVE Fits
  <2>1. QueuedRows' \subseteq QueuedRows
    BY <1>11 DEF ClaimDuplicate, TakesOver, TypeOK, durable, ghosts, QueuedRows
  <2>2. QED
    BY <2>1, NoMoreFit
<1>12. ASSUME NEW r \in Requests, UploadFails(r) PROVE Fits
  <2>1. QueuedRows' \subseteq QueuedRows
    BY <1>12 DEF UploadFails, MarkUploadFailed, TypeOK, ghosts, QueuedRows, Active
  <2>2. QED
    BY <2>1, NoMoreFit
<1>13. ASSUME NEW r \in Requests, DuplicateRejected(r) PROVE Fits
  <2>1. QueuedRows' \subseteq QueuedRows
    BY <1>13 DEF DuplicateRejected, TypeOK, durable, ghosts, QueuedRows
  <2>2. QED
    BY <2>1, NoMoreFit
<1>14. ASSUME NEW r \in Requests, NEW d \in Digests, UploadCompletes(r, d) PROVE Fits
  <2>1. QueuedRows' = QueuedRows \cup {r}
    BY <1>14 DEF UploadCompletes, TypeOK, QueuedRows
  <2>2. Cardinality(QueuedRows) \in Nat
    BY <1>0, FS_CardinalityType
  <2>3. r \notin QueuedRows /\ Cardinality(QueuedRows) < MaxQueue
    BY <1>14 DEF UploadCompletes, QueueHasRoom, QueuedRows
  <2>4. Cardinality(QueuedRows \cup {r}) = Cardinality(QueuedRows) + 1
    BY <1>0, <2>3, FS_AddElement
  <2>5. QED
    BY <2>1, <2>2, <2>3, <2>4, BoundsAssumption DEF RecoveredQueueFits
<1>15. ASSUME NEW r \in Requests, NEW d \in Digests, DuplicateVerified(r, d)
       PROVE Fits
  <2>1. QueuedRows' \subseteq QueuedRows
    BY <1>15 DEF DuplicateVerified, SameBody, TypeOK, durable, QueuedRows
  <2>2. QED
    BY <2>1, NoMoreFit
<1>16. ASSUME NEW r \in Requests, NEW d \in Digests, CommitFails(r, d) PROVE Fits
  <2>1. QueuedRows' \subseteq QueuedRows
    BY <1>16 DEF CommitFails, QueueHasRoom, MarkUploadFailed, TypeOK, ghosts,
       QueuedRows, Active
  <2>2. QED
    BY <2>1, NoMoreFit
<1>17. ASSUME NEW r \in Requests, NEW d \in Digests, CrashInComplete(r, d) PROVE Fits
  <2>1. QueuedRows' \subseteq QueuedRows
    BY <1>17 DEF CrashInComplete, QueueHasRoom, LoseProcess, TypeOK, ghosts,
       QueuedRows, Active
  <2>2. QED
    BY <2>1, NoMoreFit
<1>18. ASSUME NEW r \in Requests, CancelTurn(r) PROVE Fits
  <2>1. QueuedRows' \subseteq QueuedRows
    BY <1>18 DEF CancelTurn, TypeOK, ghosts, QueuedRows, Active
  <2>2. QED
    BY <2>1, NoMoreFit
<1>19. ASSUME NEW r \in Requests, ClaimAudioStream(r) PROVE Fits
  <2>1. QueuedRows' \subseteq QueuedRows
    BY <1>19 DEF ClaimAudioStream, StreamClaimable, TypeOK, QueuedRows
  <2>2. QED
    BY <2>1, NoMoreFit
<1>20. ASSUME NEW r \in Requests, StreamCompletes(r) PROVE Fits
  <2>1. QueuedRows' \subseteq QueuedRows
    BY <1>20 DEF StreamCompletes, TypeOK, durable, ghosts, QueuedRows
  <2>2. QED
    BY <2>1, NoMoreFit
<1>21. ASSUME NEW r \in Requests, StreamBreaks(r) PROVE Fits
  <2>1. QueuedRows' \subseteq QueuedRows
    BY <1>21 DEF StreamBreaks, TypeOK, durable, ghosts, QueuedRows
  <2>2. QED
    BY <2>1, NoMoreFit
<1>22. CASE WorkerDiesTaking
  <2>1. PICK r \in Requests : MarksHead(r)
    BY <1>22, WorkerDiesHead
  <2>2. QueuedRows' \subseteq QueuedRows
    BY <2>1 DEF MarksHead, TypeOK, QueuedRows
  <2>3. QED
    BY <2>2, NoMoreFit
<1>23. CASE WorkerDiesFinishing
  <2>1. QueuedRows' \subseteq QueuedRows
    BY <1>23 DEF WorkerDiesFinishing, durable, QueuedRows
  <2>2. QED
    BY <2>1, NoMoreFit
<1>24. CASE UNCHANGED vars
  <2>1. QueuedRows' \subseteq QueuedRows
    BY <1>24 DEF TypeOK, durable, ghosts, QueuedRows, Active, vars, durable,
       process, ghosts
  <2>2. QED
    BY <2>1, NoMoreFit
<1>25. QED
  BY <1>1, <1>2, <1>3, <1>4, <1>5, <1>6, <1>7, <1>8, <1>9, <1>10, <1>11, <1>12,
     <1>13, <1>14, <1>15, <1>16, <1>17, <1>18, <1>19, <1>20, <1>21, <1>22, <1>23,
     <1>24 DEF Next,
     WorkerStep, UploadStep, DeviceStep

(* The rows a restart finds queued fit the worker's queue.                 *)
THEOREM QueueFits == Spec => []RecoveredQueueFits
<1>1. Init => RecoveredQueueFits
  <2>1. Init => QueuedRows = {}
    BY DEF Init, QueuedRows
  <2>2. QED
    BY <2>1, FS_EmptySet, BoundsAssumption DEF RecoveredQueueFits
<1>2. TypeOK /\ RecoveredQueueFits /\ [Next]_vars => RecoveredQueueFits'
  BY QueueFitsStep
<1>3. QED
  BY <1>1, <1>2, TypeCorrect, PTL DEF Spec

-----------------------------------------------------------------------------
(* The refinement of TurnService.                                          *)

(* One worker, one turn being processed: what a restart interrupts.        *)
OneActiveRow ==
  \A r, s \in Requests : status[r] \in Active /\ status[s] \in Active => r = s

LEMMA OneActiveRowStep ==
  ASSUME TypeOK, WorkerInv, OneActiveRow, [Next]_vars
  PROVE  OneActiveRow'
<1>1. CASE Start
  BY <1>1 DEF Start, Interrupted, RecoveredUpload, InCreationOrder, TypeOK, ghosts,
     OneActiveRow, Active, WorkerInv, WorkerOwnsActiveRow
<1>2. CASE Crash
  BY <1>2 DEF Crash, LoseProcess, TypeOK, durable, ghosts, OneActiveRow, Active,
     WorkerInv, WorkerOwnsActiveRow
<1>3. CASE Close
  BY <1>3 DEF Close, LoseProcess, Interrupted, TypeOK, ghosts, OneActiveRow, Active,
     WorkerInv, WorkerOwnsActiveRow
<1>4. CASE SkipTurn
  BY <1>4 DEF SkipTurn, TypeOK, durable, ghosts, OneActiveRow, WorkerInv,
     WorkerOwnsActiveRow
<1>5. CASE TakeTurn
  <2>1. PICK r \in Requests : TakesHead(r)
    BY <1>5, TakeTurnHead
  <2>2. \A s \in Requests : status[s] \notin Active
    BY <1>5, RequestsAssumption DEF TakeTurn, WorkerInv, WorkerOwnsActiveRow
  <2>3. QED
    BY <2>1, <2>2 DEF TakesHead, TypeOK, OneActiveRow
<1>6. CASE ChildProgress
  <2>1. \A s \in Requests : status'[s] \in Active => status[s] \in Active
    BY <1>6 DEF ChildProgress, SetProgress, TypeOK
  <2>2. QED
    BY <2>1 DEF OneActiveRow
<1>7. ASSUME NEW result \in {"returned", "raised", "cancelled"}, ChildEnds(result)
       PROVE OneActiveRow'
  BY <1>7 DEF ChildEnds, TypeOK, durable, ghosts, OneActiveRow, Active, WorkerInv,
     WorkerOwnsActiveRow
<1>8. ASSUME NEW outcome \in {"ready", "failed", "interrupted"},
   WorkerFinishes(outcome) PROVE OneActiveRow'
  BY <1>8 DEF WorkerFinishes, FinishRow, TypeOK, ghosts, OneActiveRow, Active,
     WorkerInv, WorkerOwnsActiveRow
<1>9. ASSUME NEW r \in Requests, ClaimNew(r) PROVE OneActiveRow'
  BY <1>9 DEF ClaimNew, Rows, TypeOK, ghosts, OneActiveRow, Active, WorkerInv,
     WorkerOwnsActiveRow
<1>10. ASSUME NEW r \in Requests, ClaimAgain(r) PROVE OneActiveRow'
  BY <1>10 DEF ClaimAgain, TakesOver, TypeOK, ghosts, OneActiveRow, Active,
     WorkerInv, WorkerOwnsActiveRow
<1>11. ASSUME NEW r \in Requests, ClaimDuplicate(r) PROVE OneActiveRow'
  BY <1>11 DEF ClaimDuplicate, TakesOver, TypeOK, durable, ghosts, OneActiveRow,
     WorkerInv, WorkerOwnsActiveRow
<1>12. ASSUME NEW r \in Requests, UploadFails(r) PROVE OneActiveRow'
  BY <1>12, SMTT(30) DEF UploadFails, MarkUploadFailed, TypeOK, ghosts, OneActiveRow, Active,
     WorkerInv, WorkerOwnsActiveRow
<1>13. ASSUME NEW r \in Requests, DuplicateRejected(r) PROVE OneActiveRow'
  BY <1>13 DEF DuplicateRejected, TypeOK, durable, ghosts, OneActiveRow, WorkerInv,
     WorkerOwnsActiveRow
<1>14. ASSUME NEW r \in Requests, NEW d \in Digests, UploadCompletes(r, d)
       PROVE OneActiveRow'
  BY <1>14 DEF UploadCompletes, QueueHasRoom, Enqueue, TypeOK, OneActiveRow, Active,
     WorkerInv, WorkerOwnsActiveRow
<1>15. ASSUME NEW r \in Requests, NEW d \in Digests, DuplicateVerified(r, d)
       PROVE OneActiveRow'
  BY <1>15 DEF DuplicateVerified, SameBody, TypeOK, durable, OneActiveRow,
     WorkerInv, WorkerOwnsActiveRow
<1>16. ASSUME NEW r \in Requests, NEW d \in Digests, CommitFails(r, d)
       PROVE OneActiveRow'
  BY <1>16, SMTT(30) DEF CommitFails, QueueHasRoom, MarkUploadFailed, TypeOK, ghosts,
     OneActiveRow, Active, WorkerInv, WorkerOwnsActiveRow
<1>17. ASSUME NEW r \in Requests, NEW d \in Digests, CrashInComplete(r, d)
       PROVE OneActiveRow'
  BY <1>17 DEF CrashInComplete, QueueHasRoom, LoseProcess, TypeOK, ghosts,
     OneActiveRow, Active, WorkerInv, WorkerOwnsActiveRow
<1>18. ASSUME NEW r \in Requests, CancelTurn(r) PROVE OneActiveRow'
  BY <1>18 DEF CancelTurn, TypeOK, ghosts, OneActiveRow, Active, WorkerInv,
     WorkerOwnsActiveRow
<1>19. ASSUME NEW r \in Requests, ClaimAudioStream(r) PROVE OneActiveRow'
  BY <1>19 DEF ClaimAudioStream, StreamClaimable, TypeOK, OneActiveRow, WorkerInv,
     WorkerOwnsActiveRow
<1>20. ASSUME NEW r \in Requests, StreamCompletes(r) PROVE OneActiveRow'
  BY <1>20 DEF StreamCompletes, TypeOK, durable, ghosts, OneActiveRow, WorkerInv,
     WorkerOwnsActiveRow
<1>21. ASSUME NEW r \in Requests, StreamBreaks(r) PROVE OneActiveRow'
  BY <1>21 DEF StreamBreaks, TypeOK, durable, ghosts, OneActiveRow, WorkerInv,
     WorkerOwnsActiveRow
<1>22. CASE WorkerDiesTaking
  <2>1. PICK r \in Requests : MarksHead(r)
    BY <1>22, WorkerDiesHead
  <2>2. \A s \in Requests : status[s] \notin Active
    BY <1>22, RequestsAssumption DEF WorkerDiesTaking, WorkerInv, WorkerOwnsActiveRow
  <2>3. QED
    BY <2>1, <2>2 DEF MarksHead, TypeOK, OneActiveRow
<1>23. CASE WorkerDiesFinishing
  BY <1>23 DEF WorkerDiesFinishing, durable, OneActiveRow
<1>24. CASE UNCHANGED vars
  BY <1>24 DEF TypeOK, durable, ghosts, OneActiveRow, Active, WorkerInv,
     WorkerOwnsActiveRow, vars, durable, process, ghosts
<1>25. QED
  BY <1>1, <1>2, <1>3, <1>4, <1>5, <1>6, <1>7, <1>8, <1>9, <1>10, <1>11, <1>12,
     <1>13, <1>14, <1>15, <1>16, <1>17, <1>18, <1>19, <1>20, <1>21, <1>22, <1>23,
     <1>24 DEF Next,
     WorkerStep, UploadStep, DeviceStep

LEMMA OneActiveRowInvariant == Spec => []OneActiveRow
<1>1. Init => OneActiveRow
  BY DEF Init, OneActiveRow, Active
<1>2. IInv /\ OneActiveRow /\ [Next]_vars => OneActiveRow'
  BY OneActiveRowStep DEF IInv
<1>3. QED
  BY <1>1, <1>2, Invariance, PTL DEF Spec

(* A step that moves no phase is a stutter of the service.                 *)
LEMMA MappedStutter ==
  ASSUME \A q \in Requests : Phase(status'[q]) = Phase(status[q]),
         sha' = sha, claimed' = claimed
  PROVE  UNCHANGED Service!vars
  BY DEF Service!vars

(* A step that moves the phase of one row moves that one entry.            *)
LEMMA MappedMove ==
  ASSUME NEW r \in Requests, NEW p, Phase(status'[r]) = p,
         \A q \in Requests : q # r => Phase(status'[q]) = Phase(status[q])
  PROVE  [q \in Requests |-> Phase(status'[q])]
           = [[q \in Requests |-> Phase(status[q])] EXCEPT ![r] = p]
  OBVIOUS

(* The end of a turn that was being processed.                             *)
LEMMA MappedFinish ==
  ASSUME NEW r \in Requests, NEW o \in Terminal, status[r] \in Active,
         status' = [status EXCEPT ![r] = o], status \in [Requests -> Status],
         sha' = sha, claimed' = claimed
  PROVE  Service!Next
<1>1. Phase(status[r]) = "working" /\ Phase(status'[r]) = o /\ o \in Service!Outcome
  BY DEF Phase, Open, Active, Terminal, Service!Outcome
<1>2. \A q \in Requests : q # r => Phase(status'[q]) = Phase(status[q])
  OBVIOUS
<1>3. Service!Finish(r, o)
  BY <1>1, <1>2, MappedMove DEF Service!Finish
<1>4. QED
  BY <1>1, <1>3 DEF Service!Next

(* Every step is a step of the service or a stutter.                       *)
LEMMA ServiceStep ==
  ASSUME TypeOK, WorkerInv, OneActiveRow, [Next]_vars
  PROVE  [Service!Next]_(Service!vars)
<1> DEFINE Goal == [Service!Next]_(Service!vars)
<1>1. CASE Start
  <2>1. CASE \E r \in Requests : status[r] \in Active
    <3>1. PICK r \in Requests : status[r] \in Active
      BY <2>1
    <3>2. \A q \in Requests : q # r => status[q] \notin Active
      BY <3>1 DEF OneActiveRow
    <3>3. /\ Phase(status[r]) = "working" /\ Phase(status'[r]) = "interrupted"
          /\ "interrupted" \in Service!Outcome
      BY <1>1, <3>1 DEF Start, Interrupted, RecoveredUpload, Phase, Open, Active,
         Terminal,
         Service!Outcome
    <3>4. \A q \in Requests : q # r => Phase(status'[q]) = Phase(status[q])
      BY <1>1, <3>2 DEF Start, Interrupted, RecoveredUpload, Phase, Open, Active,
         Terminal, TypeOK
    <3>5. sha' = sha /\ claimed' = claimed
      BY <1>1 DEF Start
    <3>6. Service!Finish(r, "interrupted")
      BY <3>3, <3>4, <3>5, MappedMove DEF Service!Finish
    <3>7. QED
      BY <3>3, <3>6 DEF Service!Next
  <2>2. CASE ~ \E r \in Requests : status[r] \in Active
    <3>1. \A q \in Requests : Phase(status'[q]) = Phase(status[q])
      BY <1>1, <2>2 DEF Start, Interrupted, RecoveredUpload, Phase, Open, Active,
         Terminal, TypeOK
    <3>2. sha' = sha /\ claimed' = claimed
      BY <1>1 DEF Start
    <3>3. QED
      BY <3>1, <3>2, MappedStutter
  <2>3. QED
    BY <2>1, <2>2
<1>2. CASE Crash
  <2>1. \A q \in Requests : Phase(status'[q]) = Phase(status[q])
    BY <1>2 DEF Crash, TypeOK, durable, ghosts, Phase, Open, Active, Terminal,
       Status, LoseProcess
  <2>2. sha' = sha /\ claimed' = claimed
    BY <1>2 DEF Crash, durable, ghosts, LoseProcess
  <2>3. QED
    BY <2>1, <2>2, MappedStutter
<1>3. CASE Close
  <2>1. CASE \E r \in Requests : status[r] \in Active
    <3>1. PICK r \in Requests : status[r] \in Active
      BY <2>1
    <3>2. \A q \in Requests : q # r => status[q] \notin Active
      BY <3>1 DEF OneActiveRow
    <3>3. /\ Phase(status[r]) = "working" /\ Phase(status'[r]) = "interrupted"
          /\ "interrupted" \in Service!Outcome
      BY <1>3, <3>1 DEF Close, Interrupted, RecoveredUpload, Phase, Open, Active,
         Terminal,
         Service!Outcome
    <3>4. \A q \in Requests : q # r => Phase(status'[q]) = Phase(status[q])
      BY <1>3, <3>2 DEF Close, Interrupted, RecoveredUpload, Phase, Open, Active,
         Terminal, TypeOK
    <3>5. sha' = sha /\ claimed' = claimed
      BY <1>3 DEF Close
    <3>6. Service!Finish(r, "interrupted")
      BY <3>3, <3>4, <3>5, MappedMove DEF Service!Finish
    <3>7. QED
      BY <3>3, <3>6 DEF Service!Next
  <2>2. CASE ~ \E r \in Requests : status[r] \in Active
    <3>1. \A q \in Requests : Phase(status'[q]) = Phase(status[q])
      BY <1>3, <2>2 DEF Close, Interrupted, RecoveredUpload, Phase, Open, Active,
         Terminal, TypeOK
    <3>2. sha' = sha /\ claimed' = claimed
      BY <1>3 DEF Close
    <3>3. QED
      BY <3>1, <3>2, MappedStutter
  <2>3. QED
    BY <2>1, <2>2
<1>4. CASE SkipTurn
  <2>1. \A q \in Requests : Phase(status'[q]) = Phase(status[q])
    BY <1>4 DEF SkipTurn, TypeOK, durable, ghosts, Phase, Open, Active, Terminal,
       Status
  <2>2. sha' = sha /\ claimed' = claimed
    BY <1>4 DEF SkipTurn, durable, ghosts
  <2>3. QED
    BY <2>1, <2>2, MappedStutter
<1>5. CASE TakeTurn
  <2>1. PICK r \in Requests : TakesHead(r)
    BY <1>5, TakeTurnHead
  <2>2. Phase(status[r]) = "accepted" /\ Phase(status'[r]) = "working"
    BY <2>1 DEF TakesHead, TypeOK, Phase, Open, Active, Terminal
  <2>3. \A q \in Requests : q # r => Phase(status'[q]) = Phase(status[q])
    BY <2>1 DEF TakesHead, TypeOK
  <2>4. sha' = sha /\ claimed' = claimed
    BY <1>5 DEF TakeTurn
  <2>5. Service!Work(r)
    BY <2>2, <2>3, <2>4, MappedMove DEF Service!Work
  <2>6. QED
    BY <2>5 DEF Service!Next
<1>6. CASE ChildProgress
  <2>1. \A q \in Requests : Phase(status'[q]) = Phase(status[q])
    <3>1. NextStage(child) \in Active
      BY <1>6 DEF ChildProgress, NextStage, Active
    <3>2. QED
      BY <1>6, <3>1 DEF ChildProgress, SetProgress, TypeOK, Phase, Open, Active,
         Terminal
  <2>2. sha' = sha /\ claimed' = claimed
    BY <1>6 DEF ChildProgress
  <2>3. QED
    BY <2>1, <2>2, MappedStutter
<1>7. ASSUME NEW result \in {"returned", "raised", "cancelled"}, ChildEnds(result)
       PROVE Goal
  <2>1. \A q \in Requests : Phase(status'[q]) = Phase(status[q])
    BY <1>7 DEF ChildEnds, TypeOK, durable, ghosts, Phase, Open, Active, Terminal,
       Status
  <2>2. sha' = sha /\ claimed' = claimed
    BY <1>7 DEF ChildEnds, durable, ghosts
  <2>3. QED
    BY <2>1, <2>2, MappedStutter
<1>8. ASSUME NEW outcome \in {"ready", "failed", "interrupted"},
   WorkerFinishes(outcome) PROVE Goal
  <2>1. sha' = sha /\ claimed' = claimed /\ outcome \in Terminal
    BY <1>8 DEF WorkerFinishes, Terminal
  <2>2. CASE status[active] \in Active
    <3>1. active \in Requests
      BY <1>8, WorkerInv DEF WorkerFinishes, WorkerInv, TypeOK
    <3>2. status' = [status EXCEPT ![active] = outcome]
      BY <1>8, <2>2 DEF WorkerFinishes, FinishRow
    <3>3. QED
      BY <2>1, <2>2, <3>1, <3>2, MappedFinish DEF TypeOK
  <2>3. CASE status[active] \notin Active
    <3>1. status' = status
      BY <1>8, <2>3 DEF WorkerFinishes, FinishRow
    <3>2. QED
      BY <2>1, <3>1, MappedStutter
  <2>4. QED
    BY <2>2, <2>3
<1>9. ASSUME NEW r \in Requests, ClaimNew(r) PROVE Goal
  <2>1. \A q \in Requests : Phase(status'[q]) = Phase(status[q])
    BY <1>9 DEF ClaimNew, TypeOK, durable, ghosts, Phase, Open, Active, Terminal,
       Status, Rows
  <2>2. sha' = sha /\ claimed' = claimed
    BY <1>9 DEF ClaimNew, durable, ghosts, Rows
  <2>3. QED
    BY <2>1, <2>2, MappedStutter
<1>10. ASSUME NEW r \in Requests, ClaimAgain(r) PROVE Goal
  <2>1. \A q \in Requests : Phase(status'[q]) = Phase(status[q])
    BY <1>10 DEF ClaimAgain, TypeOK, durable, ghosts, Phase, Open, Active, Terminal,
       Status, TakesOver
  <2>2. sha' = sha /\ claimed' = claimed
    BY <1>10 DEF ClaimAgain, durable, ghosts, TakesOver
  <2>3. QED
    BY <2>1, <2>2, MappedStutter
<1>11. ASSUME NEW r \in Requests, ClaimDuplicate(r) PROVE Goal
  <2>1. \A q \in Requests : Phase(status'[q]) = Phase(status[q])
    BY <1>11 DEF ClaimDuplicate, TypeOK, durable, ghosts, Phase, Open, Active,
       Terminal, Status, TakesOver
  <2>2. sha' = sha /\ claimed' = claimed
    BY <1>11 DEF ClaimDuplicate, durable, ghosts, TakesOver
  <2>3. QED
    BY <2>1, <2>2, MappedStutter
<1>12. ASSUME NEW r \in Requests, UploadFails(r) PROVE Goal
  <2>1. \A q \in Requests : Phase(status'[q]) = Phase(status[q])
    BY <1>12 DEF UploadFails, TypeOK, durable, ghosts, Phase, Open, Active,
       Terminal, Status, MarkUploadFailed
  <2>2. sha' = sha /\ claimed' = claimed
    BY <1>12 DEF UploadFails, durable, ghosts, MarkUploadFailed
  <2>3. QED
    BY <2>1, <2>2, MappedStutter
<1>13. ASSUME NEW r \in Requests, DuplicateRejected(r) PROVE Goal
  <2>1. \A q \in Requests : Phase(status'[q]) = Phase(status[q])
    BY <1>13 DEF DuplicateRejected, TypeOK, durable, ghosts, Phase, Open, Active,
       Terminal, Status
  <2>2. sha' = sha /\ claimed' = claimed
    BY <1>13 DEF DuplicateRejected, durable, ghosts
  <2>3. QED
    BY <2>1, <2>2, MappedStutter
<1>14. ASSUME NEW r \in Requests, NEW d \in Digests, UploadCompletes(r, d) PROVE Goal
  <2>1. Phase(status[r]) = "open" /\ Phase(status'[r]) = "accepted"
    BY <1>14 DEF UploadCompletes, TypeOK, Phase, Open, Active, Terminal
  <2>2. \A q \in Requests : q # r => Phase(status'[q]) = Phase(status[q])
    BY <1>14 DEF UploadCompletes, TypeOK
  <2>3. sha' = [sha EXCEPT ![r] = d] /\ claimed' = claimed
    BY <1>14 DEF UploadCompletes
  <2>4. Service!Accept(r, d)
    BY <2>1, <2>2, <2>3, MappedMove DEF Service!Accept
  <2>5. QED
    BY <2>4 DEF Service!Next
<1>15. ASSUME NEW r \in Requests, NEW d \in Digests, DuplicateVerified(r, d)
       PROVE Goal
  <2>1. \A q \in Requests : Phase(status'[q]) = Phase(status[q])
    BY <1>15 DEF DuplicateVerified, TypeOK, durable, ghosts, Phase, Open, Active,
       Terminal, Status, SameBody
  <2>2. sha' = sha /\ claimed' = claimed
    BY <1>15 DEF DuplicateVerified, durable, ghosts, SameBody
  <2>3. QED
    BY <2>1, <2>2, MappedStutter
<1>16. ASSUME NEW r \in Requests, NEW d \in Digests, CommitFails(r, d) PROVE Goal
  <2>1. \A q \in Requests : Phase(status'[q]) = Phase(status[q])
    BY <1>16 DEF CommitFails, TypeOK, durable, ghosts, Phase, Open, Active,
       Terminal, Status, MarkUploadFailed
  <2>2. sha' = sha /\ claimed' = claimed
    BY <1>16 DEF CommitFails, durable, ghosts, MarkUploadFailed
  <2>3. QED
    BY <2>1, <2>2, MappedStutter
<1>17. ASSUME NEW r \in Requests, NEW d \in Digests, CrashInComplete(r, d) PROVE Goal
  <2>1. \A q \in Requests : Phase(status'[q]) = Phase(status[q])
    BY <1>17 DEF CrashInComplete, TypeOK, durable, ghosts, Phase, Open, Active,
       Terminal, Status, LoseProcess
  <2>2. sha' = sha /\ claimed' = claimed
    BY <1>17 DEF CrashInComplete, durable, ghosts, LoseProcess
  <2>3. QED
    BY <2>1, <2>2, MappedStutter
<1>18. ASSUME NEW r \in Requests, CancelTurn(r) PROVE Goal
  <2>1. /\ sha' = sha /\ claimed' = claimed
        /\ status' = [status EXCEPT ![r] = "cancelled"]
    BY <1>18 DEF CancelTurn
  <2>2. CASE status[r] \in Active
    BY <2>1, <2>2, MappedFinish DEF TypeOK, Terminal
  <2>3. CASE status[r] = "queued"
    <3>1. Phase(status[r]) = "accepted" /\ Phase(status'[r]) = "cancelled"
      BY <2>1, <2>3 DEF TypeOK, Phase, Open, Active, Terminal
    <3>2. \A q \in Requests : q # r => Phase(status'[q]) = Phase(status[q])
      BY <2>1 DEF TypeOK
    <3>3. Service!CancelAccepted(r)
      BY <2>1, <3>1, <3>2, MappedMove DEF Service!CancelAccepted
    <3>4. QED
      BY <3>3 DEF Service!Next
  <2>4. QED
    BY <1>18, <2>2, <2>3 DEF CancelTurn
<1>19. ASSUME NEW r \in Requests, ClaimAudioStream(r) PROVE Goal
  <2>1. Phase(status[r]) \in {"working", "ready"}
    BY <1>19 DEF ClaimAudioStream, StreamClaimable, Phase, Open, Active, Terminal
  <2>2. /\ status' = status /\ sha' = sha /\ ~claimed[r]
        /\ claimed' = [claimed EXCEPT ![r] = TRUE]
    BY <1>19 DEF ClaimAudioStream, StreamClaimable
  <2>3. Service!Play(r)
    BY <2>1, <2>2 DEF Service!Play
  <2>4. QED
    BY <2>3 DEF Service!Next
<1>20. ASSUME NEW r \in Requests, StreamCompletes(r) PROVE Goal
  <2>1. \A q \in Requests : Phase(status'[q]) = Phase(status[q])
    BY <1>20 DEF StreamCompletes, TypeOK, durable, ghosts, Phase, Open, Active,
       Terminal, Status
  <2>2. sha' = sha /\ claimed' = claimed
    BY <1>20 DEF StreamCompletes, durable, ghosts
  <2>3. QED
    BY <2>1, <2>2, MappedStutter
<1>21. ASSUME NEW r \in Requests, StreamBreaks(r) PROVE Goal
  <2>1. \A q \in Requests : Phase(status'[q]) = Phase(status[q])
    BY <1>21 DEF StreamBreaks, TypeOK, durable, ghosts, Phase, Open, Active,
       Terminal, Status
  <2>2. sha' = sha /\ claimed' = claimed
    BY <1>21 DEF StreamBreaks, durable, ghosts
  <2>3. QED
    BY <2>1, <2>2, MappedStutter
<1>22. CASE WorkerDiesTaking
  <2>1. PICK r \in Requests : MarksHead(r)
    BY <1>22, WorkerDiesHead
  <2>2. sha' = sha /\ claimed' = claimed
    BY <1>22 DEF WorkerDiesTaking
  <2>3. CASE status' = status
    BY <2>2, <2>3, MappedStutter
  <2>4. CASE status[r] = "queued" /\ status' = [status EXCEPT ![r] = "running"]
    <3>1. Phase(status[r]) = "accepted" /\ Phase(status'[r]) = "working"
      BY <2>4 DEF TypeOK, Phase, Open, Active, Terminal
    <3>2. \A q \in Requests : q # r => Phase(status'[q]) = Phase(status[q])
      BY <2>4 DEF TypeOK
    <3>3. Service!Work(r)
      BY <2>2, <3>1, <3>2, MappedMove DEF Service!Work
    <3>4. QED
      BY <3>3 DEF Service!Next
  <2>5. QED
    BY <2>1, <2>3, <2>4 DEF MarksHead
<1>23. CASE WorkerDiesFinishing
  BY <1>23, MappedStutter DEF WorkerDiesFinishing, durable
<1>24. CASE UNCHANGED vars
  BY <1>24, MappedStutter DEF vars, durable
<1>25. QED
  BY <1>1, <1>2, <1>3, <1>4, <1>5, <1>6, <1>7, <1>8, <1>9, <1>10, <1>11, <1>12,
     <1>13, <1>14, <1>15, <1>16, <1>17, <1>18, <1>19, <1>20, <1>21, <1>22, <1>23,
     <1>24 DEF Next,
     WorkerStep, UploadStep, DeviceStep

(* Rows, queue and worker agree after any restart.                         *)
THEOREM QueueWorker == Spec => []QueueAndWorker
  BY OneOwner, WorkerOwns, QueueFits, PTL DEF QueueAndWorker

(* The jobs implement the service: one recording, processed at most once,  *)
(* ended once, streamed at most once, across retries and restarts.         *)
THEOREM Refinement == Spec => ImplementsTurnService
<1>1. Init => Service!Init
  <2>1. Phase("none") = "open"
    BY DEF Phase, Open, Active, Terminal
  <2>2. QED
    BY <2>1 DEF Init, Service!Init
<1>2. IInv /\ OneActiveRow /\ [Next]_vars => [Service!Next]_(Service!vars)
  BY ServiceStep DEF IInv
<1>3. QED
  BY <1>1, <1>2, Invariance, OneActiveRowInvariant, PTL DEF Spec,
     ImplementsTurnService, Service!Spec
==============================================================================
