--------------------------- MODULE RecorderCues ---------------------------
(***************************************************************************)
(* The recorder's spoken cues: single records and whole MP3 generations on *)
(* its LittleFS partition (voice_cue_store.c, voice_cue_generation.c), the *)
(* bank in RAM, the task that fetches them (voice_cue_cache_esp.c) and the *)
(* player of the main loop (voice_listening_cue.c), which leases a buffer  *)
(* of the bank.  Files survive a loss of power; everything else is built   *)
(* again by `preload`.  A cue's audio is the set it comes from: the number *)
(* of a generation, or Single for a record of its own.                     *)
(***************************************************************************)
EXTENDS Integers, FiniteSets, FiniteSetsExt

CONSTANTS
  NCues,      \* VOICE_CUE_COUNT
  NGens,      \* generations the gateway publishes, one after the other
  CueSize,    \* bytes of one cue of each set
  Limit,      \* VOICE_CUE_STORE_LIMIT
  MaxFaults   \* bound on losses of power, failed loads and broken fetches

None == -1
Single == 0
Cues == 1 .. NCues
Gens == 1 .. NGens
Sets == Gens \cup {Single}

CuesAssumption == NCues \in Nat \ {0} /\ NGens \in Nat /\ MaxFaults \in Nat
SizeAssumption == CueSize \in [Sets -> Nat] /\ Limit \in Nat

VARIABLES
  disk,     \* files: whole, staged copies, and the set the manifest names
  bank,     \* the audio of each cue in RAM
  readers,  \* the bank's count of readers of each cue
  active,   \* active_generation
  worker,   \* where the cue task stands, the set and the cue it works on
  gate,     \* voice_activity_t
  idle,     \* what the main loop last told voice_cue_cache_set_idle
  player,   \* the cue the main loop plays and the leased buffer, if any
  offered,  \* the generation the gateway publishes, None before the first
  faults

cueVars == <<disk, bank, readers, active, worker, gate, idle, player, offered, faults>>

File(set, cue) == [set |-> set, cue |-> cue]
Files == {File(set, cue) : set \in Sets, cue \in Cues}
GenFiles == {f \in Files : f.set # Single}
Whole(set) == {File(set, cue) : cue \in Cues} \subseteq disk.whole

Silent == [cue |-> 0, audio |-> None]
AtRest == [pc |-> "loop", set |-> None, cue |-> 1]

-----------------------------------------------------------------------------
(* preload: voice_cue_generation_load reads, hashes and decodes what the   *)
(* manifest names; when anything is missing, or the memory for it, only    *)
(* the single records are left.                                            *)
Recorded(cue) == File(Single, cue) \in disk.whole

Preload(memory) ==
  LET loaded == memory /\ disk.manifest # None /\ Whole(disk.manifest)
  IN  /\ active' = IF loaded THEN disk.manifest ELSE None
      /\ bank' = [cue \in Cues |->
                    IF loaded THEN disk.manifest
                    ELSE IF Recorded(cue) THEN Single ELSE None]

Init ==
  /\ disk = [whole |-> {}, part |-> {}, manifest |-> None]
  /\ bank = [cue \in Cues |-> None] /\ readers = [cue \in Cues |-> 0] /\ active = None
  /\ worker = AtRest /\ gate = "voice" /\ idle = FALSE /\ player = Silent
  /\ offered = None /\ faults = 0

(* The mount removes the staged copies of single records, and only those;  *)
(* the boot holds the gate until the image is confirmed.                   *)
PowerLoss ==
  /\ faults < MaxFaults
  /\ \E memory \in BOOLEAN :
       /\ Preload(memory)
       /\ faults' = IF memory THEN faults + 1 ELSE MaxFaults
  /\ disk' = [disk EXCEPT !.part = @ \cap GenFiles]
  /\ readers' = [cue \in Cues |-> 0] /\ worker' = AtRest
  /\ gate' = "voice" /\ idle' = FALSE /\ player' = Silent
  /\ UNCHANGED offered

Publish ==
  /\ \E g \in Gens : g > offered /\ offered' = g
  /\ UNCHANGED <<disk, bank, readers, active, worker, gate, idle, player, faults>>

-----------------------------------------------------------------------------
(* The main loop.  A cue, like a whole turn, begins under the voice gate;  *)
(* the bank's buffer is leased, and without one a built-in tone is played. *)
Main == UNCHANGED <<disk, bank, active, worker, offered, faults>>

ClaimVoice ==
  /\ gate = "idle" /\ gate' = "voice"
  /\ UNCHANGED <<readers, idle, player>> /\ Main

(* voice_cue_bank_acquire_audio, then a start: one that fails to decode or *)
(* to allocate has returned the lease before the tone is played.           *)
Leased(cue, playable) == IF playable THEN bank[cue] ELSE None

CueStarts ==
  /\ gate = "voice" /\ idle /\ idle' = FALSE
  /\ \E cue \in Cues, playable \in BOOLEAN :
       /\ player' = [cue |-> cue, audio |-> Leased(cue, playable)]
       /\ readers' = IF player'.audio = None THEN readers ELSE [readers EXCEPT ![cue] = @ + 1]
  /\ UNCHANGED gate /\ Main

Released(cue) == [readers EXCEPT ![cue] = IF @ > 0 THEN @ - 1 ELSE 0]

(* Drained, cancelled, failed in the middle or cut after eight seconds:    *)
(* each way out returns the lease.                                         *)
CueEnds ==
  /\ gate = "voice" /\ ~idle /\ idle' = TRUE
  /\ readers' = IF player.audio # None THEN Released(player.cue) ELSE readers
  /\ player' = Silent
  /\ UNCHANGED gate /\ Main

ReturnVoice ==
  /\ gate = "voice" /\ idle
  /\ gate' = "idle"
  /\ UNCHANGED <<readers, idle, player>> /\ Main

Updates ==
  /\ gate \in {"idle", "ota"} /\ gate' = IF gate = "idle" THEN "ota" ELSE "idle"
  /\ UNCHANGED <<readers, idle, player>> /\ Main

-----------------------------------------------------------------------------
(* The cue task.  A fetch needs `allowed`; flash and decoder are used      *)
(* under the storage gate.                                                 *)
Allowed == idle /\ gate # "ota"
TakesStorage == Allowed /\ gate = "idle" /\ gate' = "storage"
At(pc) == worker.pc = pc
Goes(pc) == worker' = [worker EXCEPT !.pc = pc]
Task == UNCHANGED <<readers, idle, player, offered>>

(* Not allowed any more, the network, a digest, the decoder, the memory,   *)
(* the flash: the staged copy is unlinked, the gate is given back, and the *)
(* set that was active stays.                                              *)
Abandon ==
  /\ worker' = AtRest
  /\ gate' = IF At("get") THEN gate ELSE "idle"
  /\ disk' = [disk EXCEPT !.part = @ \ {File(worker.set, worker.cue)}]
  /\ UNCHANGED <<bank, active>> /\ Task

FetchFails ==
  /\ worker.pc \in {"get", "stage", "record"}
  /\ faults < MaxFaults /\ faults' = faults + 1
  /\ Abandon

Garbage_all == disk.whole \cap GenFiles  \* mutant: the active generation is cleaned as well

(* voice_cue_generation_clean: staged copies, and the cues of every        *)
(* generation but the active one, file by file.                            *)
Garbage == {f \in disk.whole \cap GenFiles : f.set # active}
Clean == disk.part \cap GenFiles = {} /\ Garbage = {}

(* A manifest counts when it parses and names another generation.          *)
Newer == offered \notin {None, active}

FetchManifest ==
  /\ worker = AtRest /\ TakesStorage /\ Newer
  /\ worker' = [worker EXCEPT !.pc = "clean", !.set = offered]
  /\ UNCHANGED <<disk, bank, active, faults>> /\ Task

CleanFile ==
  /\ worker.pc \in {"clean", "sweep"}
  /\ \/ \E f \in disk.part \cap GenFiles : disk' = [disk EXCEPT !.part = @ \ {f}]
     \/ \E f \in Garbage : disk' = [disk EXCEPT !.whole = @ \ {f}]
  /\ UNCHANGED <<bank, active, worker, gate, faults>> /\ Task

(* voice_cue_generation_has_space: the candidate, one staged copy beside   *)
(* it, and every other file.                                               *)
HasSpace(g) ==
  NCues * CueSize[g] + CueSize[g]
    + MapThenSumSet(LAMBDA f : CueSize[f.set], {f \in disk.whole \cup disk.part : f.set # g}) <= Limit

Begin ==
  /\ At("clean") /\ Clean
  /\ idle /\ HasSpace(worker.set)
  /\ gate' = "idle" /\ worker' = [worker EXCEPT !.pc = "get", !.cue = 1]
  /\ UNCHANGED <<disk, bank, active, faults>> /\ Task

NoSpace ==
  /\ At("clean") /\ Clean /\ ~HasSpace(worker.set)
  /\ Abandon /\ UNCHANGED faults

(* One cue is fetched, its digest compared, decoded, and written to a      *)
(* staged copy ...                                                         *)
StageCue ==
  /\ At("get") /\ TakesStorage
  /\ disk' = [disk EXCEPT !.part = @ \cup {File(worker.set, worker.cue)}]
  /\ Goes("stage")
  /\ UNCHANGED <<bank, active, faults>> /\ Task

(* ... that is flushed and renamed.                                        *)
Renamed(f) == [disk EXCEPT !.part = @ \ {f}, !.whole = @ \cup {f}]

RenameCue ==
  /\ At("stage")
  /\ disk' = Renamed(File(worker.set, worker.cue))
  /\ worker' = IF worker.cue = NCues THEN [worker EXCEPT !.pc = "commit"]
               ELSE [worker EXCEPT !.pc = "get", !.cue = @ + 1]
  /\ gate' = "idle"
  /\ UNCHANGED <<bank, active, faults>> /\ Task

(* A buffer that is read stays in the bank.                                *)
Unread(cue) == readers[cue] = 0

(* The durable manifest is the only active pointer; the bank is swapped    *)
(* under its mutex, and only when nobody reads it.                         *)
CommitGeneration ==
  /\ At("commit") /\ TakesStorage
  /\ \A cue \in Cues : Unread(cue)
  /\ Whole(worker.set)
  /\ disk' = [disk EXCEPT !.manifest = worker.set]
  /\ bank' = [cue \in Cues |-> worker.set] /\ active' = worker.set
  /\ Goes("sweep")
  /\ UNCHANGED faults /\ Task

CommitFails ==
  /\ At("commit") /\ Allowed
  /\ ~Whole(worker.set) \/ \E cue \in Cues : ~Unread(cue)
  /\ worker' = AtRest
  /\ UNCHANGED <<disk, bank, active, gate, faults>> /\ Task

SweepEnds ==
  /\ At("sweep") /\ Clean
  /\ worker' = AtRest /\ gate' = "idle"
  /\ UNCHANGED <<disk, bank, active, faults>> /\ Task

(* Without a generation the task fetches single cues; one that is new to   *)
(* the bank is validated under the storage gate and published ...          *)
RefreshCue ==
  /\ worker = AtRest /\ active = None /\ Allowed /\ gate = "idle"
  /\ \E cue \in Cues :
       /\ bank[cue] = None /\ Unread(cue)
       /\ bank' = [bank EXCEPT ![cue] = Single]
  /\ UNCHANGED <<disk, active, worker, gate, faults>> /\ Task

(* ... and later written to its record: a staged copy, renamed, within the *)
(* limit of all records.                                                   *)
RecordsFit ==
  (Cardinality({f \in disk.whole : f.set = Single}) + 1) * CueSize[Single] <= Limit

PersistCue ==
  /\ worker = AtRest /\ active = None /\ TakesStorage
  /\ RecordsFit
  /\ \E cue \in Cues :
       /\ bank[cue] = Single /\ ~Recorded(cue)
       /\ disk' = [disk EXCEPT !.part = @ \cup {File(Single, cue)}]
       /\ worker' = [pc |-> "record", set |-> Single, cue |-> cue]
  /\ UNCHANGED <<bank, active, faults>> /\ Task

RenameRecord ==
  /\ At("record")
  /\ disk' = Renamed(File(Single, worker.cue))
  /\ worker' = AtRest /\ gate' = "idle"
  /\ UNCHANGED <<bank, active, faults>> /\ Task

Advance ==
  \/ FetchManifest \/ CleanFile \/ Begin \/ NoSpace \/ StageCue \/ RenameCue
  \/ CommitGeneration \/ CommitFails \/ SweepEnds
  \/ RefreshCue \/ PersistCue \/ RenameRecord

Next ==
  \/ Publish \/ PowerLoss
  \/ ClaimVoice \/ CueStarts \/ CueEnds \/ ReturnVoice \/ Updates
  \/ FetchFails \/ Advance

Spec == Init /\ [][Next]_cueVars

(* Cues, turns and installations end; again and again the recorder is idle *)
(* and has the network long enough for the task's next step.               *)
Fairness ==
  /\ WF_cueVars(CueEnds) /\ SF_cueVars(ReturnVoice) /\ WF_cueVars(gate = "ota" /\ Updates)
  /\ SF_cueVars(Advance)
FairSpec == Spec /\ Fairness

-----------------------------------------------------------------------------
TypeOK ==
  /\ disk \in [whole : SUBSET Files, part : SUBSET Files, manifest : Gens \cup {None}]
  /\ bank \in [Cues -> Sets \cup {None}] /\ readers \in [Cues -> Nat] /\ active \in Gens \cup {None}
  /\ worker \in [pc : {"loop", "clean", "get", "stage", "commit", "sweep", "record"},
                 set : Sets \cup {None}, cue : Cues]
  /\ gate \in {"idle", "voice", "ota", "storage"} /\ idle \in BOOLEAN
  /\ player \in [cue : Cues \cup {0}, audio : Sets \cup {None}]
  /\ offered \in Gens \cup {None} /\ faults \in 0 .. MaxFaults

(* The bank never mixes two sets: while the recorder names a generation to *)
(* the gateway (X-Cue-Generation), that is what it plays and what a boot   *)
(* would load, and a leased buffer belongs to the bank until it is         *)
(* released, once, by every way a cue can end.                             *)
ActiveSetIsPlayed ==
  /\ active # None => /\ disk.manifest = active /\ Whole(active)
                      /\ \A cue \in Cues : bank[cue] = active
  /\ player.audio # None => bank[player.cue] = player.audio
  /\ \A cue \in Cues : readers[cue] = IF player.cue = cue /\ player.audio # None THEN 1 ELSE 0

(* A published generation that fits beside the active one is the one the   *)
(* recorder plays in the end.                                              *)
CuesSettle == <>[](offered = None \/ bank = [cue \in Cues |-> offered])

=============================================================================
