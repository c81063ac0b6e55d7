------------------------- MODULE RecorderCues_proofs -------------------------
(***************************************************************************)
(* Proofs about the recorder's cues for any number of cues and published   *)
(* generations, any sizes and any number of losses of power, failed loads  *)
(* and broken fetches: whatever the task was doing when one happened, the  *)
(* bank has one whole set, and every lease of a buffer ends exactly once.  *)
(***************************************************************************)
EXTENDS RecorderCues, TLAPS

-----------------------------------------------------------------------------
(* The inductive invariant, in parts.                                      *)

Disks == [whole : SUBSET Files, part : SUBSET Files, manifest : Gens \cup {None}]
Workers == [pc : {"loop", "clean", "get", "stage", "commit", "sweep", "record"},
            set : Sets \cup {None}, cue : Cues]

(* Who has the gate: the voice while a cue is played, the task at every    *)
(* step that uses flash or the decoder, and at no other.                   *)
GateInv ==
  /\ ~idle => gate = "voice"
  /\ gate = "storage" <=> worker.pc \in {"clean", "stage", "sweep", "record"}

(* The set the task works on is never the active one before the manifest   *)
(* names it, so what it removes is of another set; afterwards it is.       *)
WorkerInv ==
  /\ worker.pc \in {"clean", "get", "stage", "commit"} => worker.set \in Gens \ {active}
  /\ worker.pc = "sweep" => worker.set = active
  /\ worker.pc = "record" => worker.set = Single

(* A lease exists only while the main loop says that it is busy.           *)
LeaseInv ==
  /\ idle => player = Silent
  /\ player.audio # None => player.cue \in Cues

(* What ActiveSetIsPlayed says of the files and the bank, and of a lease.  *)
WholeInv ==
  active # None => /\ disk.manifest = active /\ Whole(active)
                   /\ \A cue \in Cues : bank[cue] = active
CountInv ==
  /\ player.audio # None => bank[player.cue] = player.audio
  /\ \A cue \in Cues : readers[cue] = IF player.cue = cue /\ player.audio # None THEN 1 ELSE 0

IInv == TypeOK /\ GateInv /\ WorkerInv /\ LeaseInv /\ WholeInv /\ CountInv

-----------------------------------------------------------------------------
(* No file and no bank has the number of no set.                           *)
LEMMA SetsAre ==
  /\ None \notin Sets /\ Gens \subseteq Sets /\ Single \in Sets /\ Single \notin Gens
  /\ Silent = [cue |-> 0, audio |-> None]
BY DEF None, Single, Sets, Gens, Silent

(* A file of a set, and the task at rest.                                  *)
LEMMA FilesAre ==
  ASSUME NEW set \in Sets, NEW cue \in Cues
  PROVE  File(set, cue) \in Files
BY DEF Files

LEMMA AtRestIs == CuesAssumption => AtRest \in Workers /\ AtRest.pc = "loop"
BY DEF CuesAssumption, AtRest, Workers, Cues

(* An empty partition and an empty bank.                                   *)
LEMMA InitInv == CuesAssumption /\ Init => IInv
<1> SUFFICES ASSUME CuesAssumption, Init
             PROVE  IInv
  OBVIOUS
<1>1. TypeOK
  <2>1. disk \in Disks /\ worker \in Workers
    BY AtRestIs DEF Init, Disks
  <2>2. player \in [cue : Cues \cup {0}, audio : Sets \cup {None}]
    BY DEF Init, Silent
  <2>3. QED
    <3>1. bank \in [Cues -> Sets \cup {None}] /\ readers \in [Cues -> Nat]
      BY DEF Init
    <3>2. faults \in 0 .. MaxFaults
      BY DEF CuesAssumption, Init
    <3>3. QED
      BY <2>1, <2>2, <3>2 DEF Init, TypeOK, Workers
<1>2. GateInv /\ WorkerInv /\ LeaseInv
  BY DEF Init, GateInv, WorkerInv, LeaseInv, AtRest, Silent
<1>3. WholeInv /\ CountInv
  BY DEF Init, WholeInv, CountInv, Silent
<1>4. QED
  BY <1>1, <1>2, <1>3 DEF IInv

(* The main loop: it takes the gate, plays a cue and gives the gate back.  *)
LEMMA ClaimVoiceKeeps ==
  ASSUME CuesAssumption, IInv, ClaimVoice
  PROVE  IInv'
<1>1. TypeOK'
  BY DEF IInv, TypeOK, ClaimVoice, Main
<1>2. GateInv'
  BY DEF IInv, GateInv, ClaimVoice, Main
<1>3. WorkerInv'
  BY DEF IInv, WorkerInv, ClaimVoice, Main
<1>4. LeaseInv'
  BY DEF IInv, LeaseInv, ClaimVoice
<1>5. WholeInv' /\ CountInv'
  BY DEF IInv, WholeInv, CountInv, Whole, ClaimVoice, Main
<1>6. QED
  BY <1>1, <1>2, <1>3, <1>4, <1>5 DEF IInv

LEMMA ReturnVoiceKeeps ==
  ASSUME CuesAssumption, IInv, ReturnVoice
  PROVE  IInv'
<1>1. TypeOK'
  BY DEF IInv, TypeOK, ReturnVoice, Main
<1>2. GateInv'
  BY DEF IInv, GateInv, ReturnVoice, Main
<1>3. WorkerInv'
  BY DEF IInv, WorkerInv, ReturnVoice, Main
<1>4. LeaseInv'
  BY DEF IInv, LeaseInv, ReturnVoice
<1>5. WholeInv' /\ CountInv'
  BY DEF IInv, WholeInv, CountInv, Whole, ReturnVoice, Main
<1>6. QED
  BY <1>1, <1>2, <1>3, <1>4, <1>5 DEF IInv

LEMMA UpdatesKeeps ==
  ASSUME CuesAssumption, IInv, Updates
  PROVE  IInv'
<1>1. TypeOK'
  BY DEF IInv, TypeOK, Updates, Main
<1>2. GateInv'
  BY DEF IInv, GateInv, Updates, Main
<1>3. WorkerInv'
  BY DEF IInv, WorkerInv, Updates, Main
<1>4. LeaseInv'
  BY DEF IInv, LeaseInv, Updates
<1>5. WholeInv' /\ CountInv'
  BY DEF IInv, WholeInv, CountInv, Whole, Updates, Main
<1>6. QED
  BY <1>1, <1>2, <1>3, <1>4, <1>5 DEF IInv

LEMMA CueStartsKeeps ==
  ASSUME CuesAssumption, IInv, CueStarts
  PROVE  IInv'
<1>0. PICK cue \in Cues, playable \in BOOLEAN :
        /\ player' = [cue |-> cue, audio |-> Leased(cue, playable)]
        /\ readers' = IF player'.audio = None THEN readers ELSE [readers EXCEPT ![cue] = @ + 1]
  BY DEF CueStarts
<1>a. /\ gate = "voice" /\ gate' = gate /\ idle /\ idle' = FALSE /\ player = Silent
      /\ UNCHANGED <<disk, bank, active, worker, offered, faults>>
  BY DEF CueStarts, Main, IInv, LeaseInv
<1>b. Leased(cue, playable) \in {None, bank[cue]} /\ bank[cue] \in Sets \cup {None}
  BY DEF Leased, IInv, TypeOK
<1>c. player'.cue = cue /\ player'.audio = Leased(cue, playable)
  BY <1>0
<1>d. readers \in [Cues -> Nat] /\ \A c \in Cues : readers[c] = 0
  BY <1>a DEF IInv, TypeOK, CountInv, Silent
<1>1. TypeOK'
  <2>1. player' \in [cue : Cues \cup {0}, audio : Sets \cup {None}]
    BY <1>0, <1>b
  <2>2. readers' \in [Cues -> Nat]
    BY <1>0, <1>d
  <2>3. QED
    BY <1>a, <2>1, <2>2 DEF IInv, TypeOK
<1>2. GateInv'
  BY <1>a DEF IInv, GateInv
<1>3. WorkerInv'
  BY <1>a DEF IInv, WorkerInv
<1>4. LeaseInv'
  BY <1>a, <1>c DEF LeaseInv
<1>5. WholeInv' /\ CountInv'
  <2>1. WholeInv'
    BY <1>a DEF IInv, WholeInv, Whole
  <2>2. CASE player'.audio = None
    <3>1. readers' = readers
      BY <1>0, <2>2
    <3>2. QED
      BY <1>d, <2>1, <2>2, <3>1 DEF CountInv
  <2>3. CASE player'.audio # None
    <3>1. player'.audio = bank'[player'.cue]
      BY <1>a, <1>b, <1>c, <2>3
    <3>2. readers' = [readers EXCEPT ![cue] = @ + 1]
      BY <1>0, <2>3
    <3>3. \A c \in Cues : readers'[c] = IF player'.cue = c THEN 1 ELSE 0
      BY <1>c, <1>d, <3>2
    <3>4. \A c \in Cues : readers'[c] = IF player'.cue = c /\ player'.audio # None THEN 1 ELSE 0
      BY <2>3, <3>3
    <3>5. QED
      BY <2>1, <3>1, <3>4 DEF CountInv
  <2>4. QED
    BY <2>2, <2>3
<1>6. QED
  BY <1>1, <1>2, <1>3, <1>4, <1>5 DEF IInv

LEMMA CueEndsKeeps ==
  ASSUME CuesAssumption, IInv, CueEnds
  PROVE  IInv'
<1>a. /\ gate' = gate /\ idle' /\ player' = Silent
      /\ readers' = IF player.audio # None THEN Released(player.cue) ELSE readers
      /\ UNCHANGED <<disk, bank, active, worker, offered, faults>>
  BY DEF CueEnds, Main
<1>b. readers' \in [Cues -> Nat] /\ \A cue \in Cues : readers'[cue] = 0
  BY <1>a DEF IInv, TypeOK, LeaseInv, CountInv, Released
<1>1. TypeOK'
  BY <1>a, <1>b DEF IInv, TypeOK, Silent
<1>2. GateInv'
  BY <1>a DEF IInv, GateInv
<1>3. WorkerInv'
  BY <1>a DEF IInv, WorkerInv
<1>4. LeaseInv'
  BY <1>a DEF LeaseInv, Silent
<1>5. WholeInv' /\ CountInv'
  BY <1>a, <1>b DEF IInv, WholeInv, CountInv, Whole, Silent
<1>6. QED
  BY <1>1, <1>2, <1>3, <1>4, <1>5 DEF IInv

(* The gateway publishes another generation.                               *)
LEMMA PublishKeeps ==
  ASSUME CuesAssumption, IInv, Publish
  PROVE  IInv'
<1>1. TypeOK'
  BY DEF IInv, TypeOK, Publish
<1>2. GateInv'
  BY DEF IInv, GateInv, Publish
<1>3. WorkerInv'
  BY DEF IInv, WorkerInv, Publish
<1>4. LeaseInv'
  BY DEF IInv, LeaseInv, Publish
<1>5. WholeInv' /\ CountInv'
  BY DEF IInv, WholeInv, CountInv, Whole, Publish
<1>6. QED
  BY <1>1, <1>2, <1>3, <1>4, <1>5 DEF IInv

(* The cue task gives up, and goes through the steps of a generation.      *)
LEMMA FetchFailsKeeps ==
  ASSUME CuesAssumption, IInv, FetchFails
  PROVE  IInv'
<1>1. TypeOK'
  <2>1. disk' \in Disks
    BY DEF IInv, TypeOK, Disks, FetchFails, Abandon
  <2>2. worker' \in Workers
    BY AtRestIs DEF FetchFails, Abandon
  <2>3. QED
    BY <2>2 DEF CuesAssumption, IInv, TypeOK, Workers, FetchFails, Task, Abandon
<1>2. GateInv'
  BY DEF IInv, GateInv, FetchFails, Task, Abandon, AtRest, At
<1>3. WorkerInv'
  BY DEF WorkerInv, FetchFails, Abandon, AtRest
<1>4. LeaseInv'
  BY DEF IInv, LeaseInv, FetchFails, Abandon, Task
<1>5. WholeInv' /\ CountInv'
  <2>1. WholeInv'
    BY DEF IInv, WholeInv, Whole, FetchFails, Abandon
  <2>2. CountInv'
    BY DEF IInv, CountInv, FetchFails, Task, Abandon
  <2>3. QED
    BY <2>1, <2>2
<1>6. QED
  BY <1>1, <1>2, <1>3, <1>4, <1>5 DEF IInv

LEMMA FetchManifestKeeps ==
  ASSUME CuesAssumption, IInv, FetchManifest
  PROVE  IInv'
<1>1. TypeOK'
  <2>1. disk' \in Disks
    BY DEF IInv, TypeOK, Disks, FetchManifest
  <2>2. worker' \in Workers
    <3>1. worker' = [worker EXCEPT !.pc = "clean", !.set = offered] /\ offered \in Sets
      BY DEF IInv, TypeOK, FetchManifest, Newer, Sets
    <3>2. QED
      BY <3>1 DEF IInv, TypeOK, Workers
  <2>3. QED
    BY SetsAre DEF IInv, TypeOK, FetchManifest, Task, TakesStorage
<1>2. GateInv'
  BY DEF GateInv, FetchManifest, Task, TakesStorage, Allowed
<1>3. WorkerInv'
  BY DEF IInv, TypeOK, WorkerInv, FetchManifest, Newer
<1>4. LeaseInv'
  BY DEF IInv, LeaseInv, FetchManifest, Task
<1>5. WholeInv' /\ CountInv'
  <2>1. WholeInv'
    BY DEF IInv, WholeInv, Whole, FetchManifest
  <2>2. CountInv'
    BY DEF IInv, CountInv, FetchManifest, Task
  <2>3. QED
    BY <2>1, <2>2
<1>6. QED
  BY <1>1, <1>2, <1>3, <1>4, <1>5 DEF IInv

LEMMA CleanFileKeeps ==
  ASSUME CuesAssumption, IInv, CleanFile
  PROVE  IInv'
<1>1. TypeOK'
  <2>1. disk' \in Disks
    BY DEF IInv, TypeOK, Disks, CleanFile, File
  <2>2. worker' \in Workers
    BY DEF IInv, TypeOK, Workers, CleanFile
  <2>3. QED
    BY DEF IInv, TypeOK, CleanFile, Task
<1>2. GateInv'
  BY DEF IInv, GateInv, CleanFile, Task
<1>3. WorkerInv'
  BY DEF IInv, WorkerInv, CleanFile
<1>4. LeaseInv'
  BY DEF IInv, LeaseInv, CleanFile, Task
<1>5. WholeInv' /\ CountInv'
  <2>1. WholeInv'
    BY DEF IInv, TypeOK, WholeInv, Whole, CleanFile, Garbage, File
  <2>2. CountInv'
    BY DEF IInv, CountInv, CleanFile, Task
  <2>3. QED
    BY <2>1, <2>2
<1>6. QED
  BY <1>1, <1>2, <1>3, <1>4, <1>5 DEF IInv

LEMMA BeginKeeps ==
  ASSUME CuesAssumption, IInv, Begin
  PROVE  IInv'
<1>1. TypeOK'
  <2>1. disk' \in Disks
    BY DEF IInv, TypeOK, Disks, Begin
  <2>2. worker' \in Workers
    <3>1. worker' = [worker EXCEPT !.pc = "get", !.cue = 1] /\ 1 \in Cues
      BY DEF CuesAssumption, Cues, Begin
    <3>2. QED
      BY <3>1 DEF IInv, TypeOK, Workers
  <2>3. QED
    BY <2>2 DEF IInv, TypeOK, Workers, Begin, Task
<1>2. GateInv'
  BY DEF GateInv, Begin, Task
<1>3. WorkerInv'
  BY DEF IInv, WorkerInv, Begin, At
<1>4. LeaseInv'
  BY DEF IInv, LeaseInv, Begin, Task
<1>5. WholeInv' /\ CountInv'
  <2>1. WholeInv'
    BY DEF IInv, WholeInv, Whole, Begin
  <2>2. CountInv'
    BY DEF IInv, CountInv, Begin, Task
  <2>3. QED
    BY <2>1, <2>2
<1>6. QED
  BY <1>1, <1>2, <1>3, <1>4, <1>5 DEF IInv

LEMMA NoSpaceKeeps ==
  ASSUME CuesAssumption, IInv, NoSpace
  PROVE  IInv'
<1>1. TypeOK'
  <2>1. disk' \in Disks
    BY DEF IInv, TypeOK, Disks, NoSpace, Abandon
  <2>2. worker' \in Workers
    BY AtRestIs DEF NoSpace, Abandon
  <2>3. QED
    BY <2>2 DEF IInv, TypeOK, Workers, NoSpace, Task, Abandon
<1>2. GateInv'
  BY DEF IInv, GateInv, NoSpace, Task, Abandon, AtRest, At
<1>3. WorkerInv'
  BY DEF WorkerInv, NoSpace, Abandon, AtRest
<1>4. LeaseInv'
  BY DEF IInv, LeaseInv, NoSpace, Abandon, Task
<1>5. WholeInv' /\ CountInv'
  <2>1. WholeInv'
    BY DEF IInv, WholeInv, Whole, NoSpace, Abandon
  <2>2. CountInv'
    BY DEF IInv, CountInv, NoSpace, Task, Abandon
  <2>3. QED
    BY <2>1, <2>2
<1>6. QED
  BY <1>1, <1>2, <1>3, <1>4, <1>5 DEF IInv

LEMMA StageCueKeeps ==
  ASSUME CuesAssumption, IInv, StageCue
  PROVE  IInv'
<1>1. TypeOK'
  <2>1. disk' \in Disks
    BY SetsAre, FilesAre DEF IInv, TypeOK, WorkerInv, Disks, StageCue, At
  <2>2. worker' \in Workers
    BY DEF IInv, TypeOK, Workers, StageCue, Goes
  <2>3. QED
    BY <2>1 DEF IInv, TypeOK, Disks, StageCue, Task, TakesStorage, Goes
<1>2. GateInv'
  BY DEF GateInv, StageCue, Task, TakesStorage, Allowed, Goes
<1>3. WorkerInv'
  BY DEF IInv, WorkerInv, StageCue, At, Goes
<1>4. LeaseInv'
  BY DEF IInv, LeaseInv, StageCue, Task
<1>5. WholeInv' /\ CountInv'
  <2>1. WholeInv'
    BY DEF IInv, WholeInv, Whole, StageCue
  <2>2. CountInv'
    BY DEF IInv, CountInv, StageCue, Task
  <2>3. QED
    BY <2>1, <2>2
<1>6. QED
  BY <1>1, <1>2, <1>3, <1>4, <1>5 DEF IInv

LEMMA RenameCueKeeps ==
  ASSUME CuesAssumption, IInv, RenameCue
  PROVE  IInv'
<1>1. TypeOK'
  <2>1. disk' \in Disks
    <3>1. worker.set \in Sets /\ worker.cue \in Cues
      BY SetsAre DEF IInv, TypeOK, WorkerInv, RenameCue, At
    <3>2. File(worker.set, worker.cue) \in Files
      BY <3>1, FilesAre
    <3>3. disk' = Renamed(File(worker.set, worker.cue))
      BY DEF RenameCue
    <3>4. QED
      BY <3>2, <3>3 DEF IInv, TypeOK, Disks, Renamed
  <2>2. worker' \in Workers
    <3>1. worker.cue # NCues => worker.cue + 1 \in Cues
      BY DEF CuesAssumption, IInv, TypeOK, Cues
    <3>2. QED
      BY <3>1 DEF IInv, TypeOK, Workers, RenameCue
  <2>3. QED
    BY <2>1, <2>2 DEF IInv, TypeOK, Disks, Workers, RenameCue, Task
<1>2. GateInv'
  BY DEF IInv, GateInv, RenameCue, Task, At
<1>3. WorkerInv'
  BY DEF IInv, WorkerInv, RenameCue, At
<1>4. LeaseInv'
  BY DEF IInv, LeaseInv, RenameCue, Task
<1>5. WholeInv' /\ CountInv'
  <2>1. WholeInv'
    BY DEF IInv, WholeInv, Whole, RenameCue, Renamed
  <2>2. CountInv'
    BY DEF IInv, CountInv, RenameCue, Task
  <2>3. QED
    BY <2>1, <2>2
<1>6. QED
  BY <1>1, <1>2, <1>3, <1>4, <1>5 DEF IInv

(* The manifest, with the swap of the bank.                                *)
LEMMA CommitGenerationKeeps ==
  ASSUME CuesAssumption, IInv, CommitGeneration
  PROVE  IInv'
<1>1. TypeOK'
  <2>1. disk' \in Disks
    BY DEF IInv, TypeOK, WorkerInv, Disks, CommitGeneration, At
  <2>2. worker' \in Workers
    BY DEF IInv, TypeOK, Workers, CommitGeneration, Goes
  <2>3. QED
    BY <2>1 DEF IInv, TypeOK, Disks, CommitGeneration, Task, TakesStorage, Goes
<1>2. GateInv'
  BY DEF GateInv, CommitGeneration, Task, TakesStorage, Allowed, Goes
<1>3. WorkerInv'
  BY DEF WorkerInv, CommitGeneration, Goes
<1>4. LeaseInv'
  BY DEF IInv, LeaseInv, CommitGeneration, Task
<1>5. WholeInv' /\ CountInv'
  <2>1. WholeInv'
    BY DEF WholeInv, Whole, CommitGeneration
  <2>2. CountInv'
    BY DEF IInv, LeaseInv, CountInv, CommitGeneration, Task, Unread
  <2>3. QED
    BY <2>1, <2>2
<1>6. QED
  BY <1>1, <1>2, <1>3, <1>4, <1>5 DEF IInv

LEMMA CommitFailsKeeps ==
  ASSUME CuesAssumption, IInv, CommitFails
  PROVE  IInv'
<1>1. TypeOK'
  <2>1. disk' \in Disks
    BY DEF IInv, TypeOK, Disks, CommitFails
  <2>2. worker' \in Workers
    BY AtRestIs DEF CommitFails
  <2>3. QED
    BY <2>2 DEF IInv, TypeOK, Workers, CommitFails, Task
<1>2. GateInv'
  BY DEF IInv, GateInv, CommitFails, Task, At, AtRest
<1>3. WorkerInv'
  BY DEF WorkerInv, CommitFails, AtRest
<1>4. LeaseInv'
  BY DEF IInv, LeaseInv, CommitFails, Task
<1>5. WholeInv' /\ CountInv'
  <2>1. WholeInv'
    BY DEF IInv, WholeInv, Whole, CommitFails
  <2>2. CountInv'
    BY DEF IInv, CountInv, CommitFails, Task
  <2>3. QED
    BY <2>1, <2>2
<1>6. QED
  BY <1>1, <1>2, <1>3, <1>4, <1>5 DEF IInv

LEMMA SweepEndsKeeps ==
  ASSUME CuesAssumption, IInv, SweepEnds
  PROVE  IInv'
<1>1. TypeOK'
  <2>1. disk' \in Disks
    BY DEF IInv, TypeOK, Disks, SweepEnds
  <2>2. worker' \in Workers
    BY AtRestIs DEF SweepEnds
  <2>3. QED
    BY <2>2 DEF IInv, TypeOK, Workers, SweepEnds, Task
<1>2. GateInv'
  BY DEF IInv, GateInv, SweepEnds, Task, At, AtRest
<1>3. WorkerInv'
  BY DEF WorkerInv, SweepEnds, AtRest
<1>4. LeaseInv'
  BY DEF IInv, LeaseInv, SweepEnds, Task
<1>5. WholeInv' /\ CountInv'
  <2>1. WholeInv'
    BY DEF IInv, WholeInv, Whole, SweepEnds
  <2>2. CountInv'
    BY DEF IInv, CountInv, SweepEnds, Task
  <2>3. QED
    BY <2>1, <2>2
<1>6. QED
  BY <1>1, <1>2, <1>3, <1>4, <1>5 DEF IInv

(* Single records, while there is no generation.                           *)
LEMMA RefreshCueKeeps ==
  ASSUME CuesAssumption, IInv, RefreshCue
  PROVE  IInv'
<1>1. TypeOK'
  <2>1. disk' \in Disks
    BY DEF IInv, TypeOK, Disks, RefreshCue
  <2>2. worker' \in Workers
    BY AtRestIs DEF RefreshCue
  <2>3. QED
    BY SetsAre DEF IInv, TypeOK, RefreshCue, Task
<1>2. GateInv'
  BY DEF GateInv, RefreshCue, Task, Allowed, AtRest
<1>3. WorkerInv'
  BY DEF WorkerInv, RefreshCue, AtRest
<1>4. LeaseInv'
  BY DEF IInv, LeaseInv, RefreshCue, Task
<1>5. WholeInv' /\ CountInv'
  <2>1. WholeInv'
    BY DEF WholeInv, RefreshCue
  <2>2. CountInv'
    BY DEF IInv, CountInv, RefreshCue, Task
  <2>3. QED
    BY <2>1, <2>2
<1>6. QED
  BY <1>1, <1>2, <1>3, <1>4, <1>5 DEF IInv

LEMMA PersistCueKeeps ==
  ASSUME CuesAssumption, IInv, PersistCue
  PROVE  IInv'
<1>1. TypeOK'
  <2>1. disk' \in Disks
    BY SetsAre, FilesAre DEF IInv, TypeOK, Disks, PersistCue
  <2>2. worker' \in Workers
    BY DEF IInv, TypeOK, Workers, PersistCue
  <2>3. QED
    BY <2>1 DEF IInv, TypeOK, Disks, PersistCue, Task, TakesStorage
<1>2. GateInv'
  BY DEF GateInv, PersistCue, Task, TakesStorage, Allowed
<1>3. WorkerInv'
  BY DEF WorkerInv, PersistCue
<1>4. LeaseInv'
  BY DEF IInv, LeaseInv, PersistCue, Task
<1>5. WholeInv' /\ CountInv'
  <2>1. WholeInv'
    BY DEF WholeInv, PersistCue
  <2>2. CountInv'
    BY DEF IInv, CountInv, PersistCue, Task
  <2>3. QED
    BY <2>1, <2>2
<1>6. QED
  BY <1>1, <1>2, <1>3, <1>4, <1>5 DEF IInv

LEMMA RenameRecordKeeps ==
  ASSUME CuesAssumption, IInv, RenameRecord
  PROVE  IInv'
<1>1. TypeOK'
  <2>1. disk' \in Disks
    <3>1. Single \in Sets /\ worker.cue \in Cues
      BY SetsAre DEF IInv, TypeOK
    <3>2. File(Single, worker.cue) \in Files
      BY <3>1, FilesAre
    <3>3. disk' = Renamed(File(Single, worker.cue))
      BY DEF RenameRecord
    <3>4. QED
      BY <3>2, <3>3 DEF IInv, TypeOK, Disks, Renamed
  <2>2. worker' \in Workers
    BY AtRestIs DEF RenameRecord
  <2>3. QED
    BY <2>1, <2>2 DEF IInv, TypeOK, Disks, Workers, RenameRecord, Task
<1>2. GateInv'
  BY DEF IInv, GateInv, RenameRecord, Task, At, AtRest
<1>3. WorkerInv'
  BY DEF WorkerInv, RenameRecord, AtRest
<1>4. LeaseInv'
  BY DEF IInv, LeaseInv, RenameRecord, Task
<1>5. WholeInv' /\ CountInv'
  <2>1. WholeInv'
    BY DEF IInv, WholeInv, Whole, RenameRecord, Renamed
  <2>2. CountInv'
    BY DEF IInv, CountInv, RenameRecord, Task
  <2>3. QED
    BY <2>1, <2>2
<1>6. QED
  BY <1>1, <1>2, <1>3, <1>4, <1>5 DEF IInv

(* A boot loads what the manifest names when all of it is there.           *)
LEMMA PowerLossKeeps ==
  ASSUME CuesAssumption, IInv, PowerLoss
  PROVE  IInv'
<1>0. PICK memory \in BOOLEAN :
        Preload(memory) /\ faults' = IF memory THEN faults + 1 ELSE MaxFaults
  BY DEF PowerLoss
<1> DEFINE loaded == memory /\ disk.manifest # None /\ Whole(disk.manifest)
<1>a. /\ active' = IF loaded THEN disk.manifest ELSE None
      /\ bank' = [cue \in Cues |-> IF loaded THEN disk.manifest
                                   ELSE IF Recorded(cue) THEN Single ELSE None]
  BY <1>0 DEF Preload
<1>b. /\ disk' = [disk EXCEPT !.part = @ \cap GenFiles]
      /\ readers' = [cue \in Cues |-> 0] /\ worker' = AtRest
      /\ gate' = "voice" /\ idle' = FALSE /\ player' = Silent /\ offered' = offered
  BY DEF PowerLoss
<1>1. TypeOK'
  <2>1. active' \in Gens \cup {None} /\ bank' \in [Cues -> Sets \cup {None}]
    BY <1>a, SetsAre DEF IInv, TypeOK
  <2>2. faults' \in 0 .. MaxFaults
    BY DEF CuesAssumption, IInv, TypeOK, PowerLoss
  <2>3. QED
    <3>1. disk' \in Disks /\ worker' \in Workers
      BY <1>b, AtRestIs DEF IInv, TypeOK, Disks
    <3>2. player' \in [cue : Cues \cup {0}, audio : Sets \cup {None}]
      BY <1>b DEF Silent
    <3>3. QED
      BY <1>b, <2>1, <2>2, <3>1, <3>2 DEF IInv, TypeOK, Workers
<1>2. GateInv' /\ WorkerInv' /\ LeaseInv'
  BY <1>b DEF GateInv, WorkerInv, LeaseInv, AtRest, Silent
<1>3. WholeInv'
  BY <1>a, <1>b DEF WholeInv, Whole
<1>4. CountInv'
  BY <1>b DEF CountInv, Silent
<1>5. QED
  BY <1>1, <1>2, <1>3, <1>4 DEF IInv

(* Every step keeps the invariant.                                         *)
LEMMA NextKeeps ==
  ASSUME CuesAssumption, IInv, [Next]_cueVars
  PROVE  IInv'
<1>1. CASE Publish \/ PowerLoss
  BY <1>1, PublishKeeps, PowerLossKeeps
<1>2. CASE ClaimVoice \/ CueStarts \/ CueEnds \/ ReturnVoice \/ Updates
  BY <1>2, ClaimVoiceKeeps, CueStartsKeeps, CueEndsKeeps, ReturnVoiceKeeps, UpdatesKeeps
<1>3. CASE FetchFails
  BY <1>3, FetchFailsKeeps
<1>4. CASE FetchManifest \/ CleanFile \/ Begin \/ NoSpace
  BY <1>4, FetchManifestKeeps, CleanFileKeeps, BeginKeeps, NoSpaceKeeps
<1>5. CASE StageCue \/ RenameCue
  BY <1>5, StageCueKeeps, RenameCueKeeps
<1>6. CASE CommitGeneration \/ CommitFails \/ SweepEnds
  BY <1>6, CommitGenerationKeeps, CommitFailsKeeps, SweepEndsKeeps
<1>7. CASE RefreshCue \/ PersistCue \/ RenameRecord
  BY <1>7, RefreshCueKeeps, PersistCueKeeps, RenameRecordKeeps
<1>8. CASE UNCHANGED cueVars
  BY <1>8 DEF cueVars, IInv, TypeOK, GateInv, WorkerInv, LeaseInv, WholeInv, CountInv, Whole
<1>9. QED
  BY <1>1, <1>2, <1>3, <1>4, <1>5, <1>6, <1>7, <1>8 DEF Next, Advance

(* Every state of every run is one the inductive invariant describes.      *)
THEOREM Invariance == CuesAssumption => (Spec => []IInv)
<1> SUFFICES ASSUME CuesAssumption PROVE Spec => []IInv
  OBVIOUS
<1>1. Init => IInv
  BY InitInv
<1>2. IInv /\ [Next]_cueVars => IInv'
  BY NextKeeps
<1>3. QED
  BY <1>1, <1>2, PTL DEF Spec

(* Files, bank, worker, gate and player keep their types                   *)
(* (voice_cue_store.c, voice_cue_generation.c, voice_listening_cue.c).     *)
THEOREM TypeCorrect == CuesAssumption => (Spec => []TypeOK)
<1> SUFFICES ASSUME CuesAssumption PROVE Spec => []TypeOK
  OBVIOUS
<1>1. IInv => TypeOK
  BY DEF IInv
<1>2. QED
  BY <1>1, Invariance, PTL

(* The active generation is whole in flash, named by the manifest and all  *)
(* of the bank, and a leased buffer stays in the bank until its one return *)
(* (voice_cue_cache_esp.c, voice_cue_generation.c, voice_listening_cue.c): *)
(* for every number of cues and generations, with the power going at any   *)
(* step.  The sizes and the limit of the partition play no part.           *)
THEOREM ActiveHolds == CuesAssumption => (Spec => []ActiveSetIsPlayed)
<1> SUFFICES ASSUME CuesAssumption PROVE Spec => []ActiveSetIsPlayed
  OBVIOUS
<1>1. IInv => ActiveSetIsPlayed
  BY DEF IInv, WholeInv, CountInv, ActiveSetIsPlayed
<1>2. QED
  BY <1>1, Invariance, PTL

=============================================================================
