--------------------------- MODULE CueGenerations ---------------------------
(***************************************************************************)
(* The gateway's sets of spoken cues, one for each profile of the voice    *)
(* (cues/generation.py): a background task buys every cue of the           *)
(* configured set from the provider, publishes the set as a folder and     *)
(* points to it; older sets are kept for recorders that still have them.   *)
(* The task may be killed between any two writes, a write may fail, so may *)
(* the provider, and the owner may change the profile.  Calls of the       *)
(* provider are paid for, so that the attempts are counted on disk first.  *)
(***************************************************************************)
EXTENDS Naturals, FiniteSets, FiniteSetsExt

CONSTANTS
  Profiles,     \* the sets, by the profile that they are made for
  NoSet,
  NCues,        \* cues of a set, 14 in the code
  MaxAttempts,  \* 5 in the code
  Retained,     \* sets that are kept, 3 in the code
  MaxFaults,    \* bounds kills, failed writes and calls, damaged files
  MaxChanges    \* bounds changes of the profile

GenerationsAssumption ==
  /\ Profiles # {} /\ NoSet \notin Profiles /\ NCues \in Nat \ {0} /\ MaxAttempts \in Nat \ {0}
  /\ Retained \in Nat /\ Retained >= 2 /\ MaxFaults \in Nat /\ MaxChanges \in Nat

Cues == 1 .. NCues

VARIABLES
  folders,     \* complete sets on disk: name, whether every file is sound, modification time
  staging,     \* .staging-*: cues with their metadata
  pointer,     \* active.json
  retry,       \* retry.json: set, attempts, and whether it is for later
  profile,     \* what the process is configured for
  generations, active, attempts, later,  \* of MP3CueGenerations
  pc, ready,   \* where ensure_all stands, and the cues that it has
  paid,        \* ghost: calls for each cue since the profile changed or the set was finished
  faults, changes

genVars ==
  <<folders, staging, pointer, retry, profile, generations, active, attempts, later, pc, ready, paid,
    faults, changes>>

Without(name) == {f \in folders : f.name # name}
Newer(f, S) == {g \in S : g.made > f.made}
NoRetry == [name |-> NoSet, attempts |-> 0, later |-> FALSE]

(* _load and the constructor: the newest folders, those that are sound.    *)
Newest == {f \in folders : Cardinality(Newer(f, folders)) < Retained}
LoadedSets == {f.name : f \in {g \in Newest : g.sound}}
Load(p) ==
  /\ profile' = p
  /\ generations' = LoadedSets
  /\ active' = IF pointer \in LoadedSets THEN pointer ELSE NoSet
  /\ attempts' = IF retry.name = p THEN retry.attempts ELSE 0
  /\ later' = (retry.name = p /\ retry.later)
  /\ staging' = [s \in Profiles |-> IF s = p THEN staging[s] ELSE {}]
  /\ pc' = "rest" /\ ready' = {}

Init ==
  /\ folders = {} /\ pointer = NoSet /\ retry = NoRetry
  /\ staging = [s \in Profiles |-> {}]
  /\ profile = CHOOSE p \in Profiles : TRUE
  /\ generations = {} /\ active = NoSet /\ attempts = 0 /\ later = FALSE
  /\ pc = "rest" /\ ready = {}
  /\ paid = [c \in Cues |-> 0]
  /\ faults = 0 /\ changes = 0

Disk == <<folders, staging, pointer, retry>>
Fault == faults < MaxFaults /\ faults' = faults + 1

(* _persist_retry; when it fails the exception leaves ensure_all and run,  *)
(* and no task is left.                                                    *)
Counter == [name |-> profile, attempts |-> attempts', later |-> later']
Persist(next) ==
  \/ retry' = Counter /\ pc' = next /\ UNCHANGED faults
  \/ retry' \in {retry, Counter} /\ pc' = "dead" /\ Fault

-----------------------------------------------------------------------------
(* The attempt is reserved before anything is paid.                        *)
ReserveInMemory ==  \* mutant: the attempt is not written before the provider is called
  /\ pc = "rest" /\ active # profile /\ attempts < MaxAttempts /\ ~later
  /\ attempts' = attempts + 1 /\ later' = TRUE
  /\ pc' = "folder"
  /\ UNCHANGED <<folders, staging, pointer, retry, profile, generations, active, ready, paid, faults, changes>>
Reserve ==
  /\ pc = "rest" /\ active # profile /\ attempts < MaxAttempts /\ ~later
  /\ attempts' = attempts + 1 /\ later' = TRUE
  /\ Persist("folder")
  /\ UNCHANGED <<folders, staging, pointer, profile, generations, active, ready, paid, changes>>

(* A folder that is there already needs no call, unless it is damaged.     *)
Sound(name) == \E f \in folders : f.name = name /\ f.sound
Folder ==
  /\ pc = "folder"
  /\ IF profile \in generations \/ Sound(profile)
     THEN generations' = generations \cup {profile} /\ pc' = "point" /\ UNCHANGED folders
     ELSE folders' = Without(profile) /\ pc' = "cues" /\ UNCHANGED generations
  /\ ready' = {}
  /\ UNCHANGED <<staging, pointer, retry, profile, active, attempts, later, paid, faults, changes>>

Missing == CHOOSE c \in Cues \ ready : \A d \in Cues \ ready : c <= d
Reuse ==
  /\ pc = "cues" /\ ready # Cues /\ Missing \in staging[profile]
  /\ ready' = ready \cup {Missing}
  /\ UNCHANGED <<Disk, profile, generations, active, attempts, later, pc, paid, faults, changes>>

(* A cue is bought, and its metadata written, without which it is bought   *)
(* again.                                                                  *)
Buy ==
  /\ pc = "cues" /\ ready # Cues /\ Missing \notin staging[profile]
  /\ paid' = [paid EXCEPT ![Missing] = @ + 1]
  /\ pc' = "bought"
  /\ UNCHANGED <<Disk, profile, generations, active, attempts, later, ready, faults, changes>>
Stage ==
  /\ pc = "bought"
  /\ staging' = [staging EXCEPT ![profile] = @ \cup {Missing}]
  /\ ready' = ready \cup {Missing} /\ pc' = "cues"
  /\ UNCHANGED <<folders, pointer, retry, profile, generations, active, attempts, later, paid, faults, changes>>

(* os.replace of the whole staged folder; the pointer comes after it.      *)
Now == 1 + Max({0} \cup {f.made : f \in folders})
Published == folders \cup {[name |-> profile, sound |-> TRUE, made |-> Now]}
Publish ==
  /\ pc = "cues" /\ ready = Cues
  /\ folders' = Published
  /\ staging' = [staging EXCEPT ![profile] = {}]
  /\ generations' = generations \cup {profile}
  /\ pc' = "point"
  /\ UNCHANGED <<pointer, retry, profile, active, attempts, later, ready, paid, faults, changes>>
Point ==
  /\ pc = "point"
  /\ pointer' = profile /\ pc' = "settle"
  /\ UNCHANGED <<folders, staging, retry, profile, generations, active, attempts, later, ready, paid, faults, changes>>

(* The set is in use; the attempts start over.                             *)
Settle ==
  /\ pc = "settle"
  /\ active' = profile /\ attempts' = 0 /\ later' = FALSE
  /\ retry' = Counter /\ pc' = "prune"
  /\ paid' = [c \in Cues |-> 0]
  /\ UNCHANGED <<folders, staging, pointer, profile, generations, ready, faults, changes>>
SettleFails ==
  /\ pc = "settle" /\ Fault
  /\ active' = profile /\ attempts' = 0 /\ later' = FALSE
  /\ retry' \in {retry, Counter} /\ pc' \in {"rest", "dead"}
  /\ paid' = [c \in Cues |-> 0]
  /\ UNCHANGED <<folders, staging, pointer, profile, generations, ready, changes>>

(* _prune: of the sets that the process knows the newest stay, and the one *)
(* in use.                                                                 *)
Old == {f \in folders : f.name \in generations \ {active}}
Dropped == {f.name : f \in {g \in Old : Cardinality(Newer(g, Old)) >= Retained - 1}}
Prune ==
  /\ pc = "prune"
  /\ generations' = generations \ Dropped
  /\ folders' = {f \in folders : f.name \notin Dropped}
  /\ pc' = "rest"
  /\ UNCHANGED <<staging, pointer, retry, profile, active, attempts, later, ready, paid, faults, changes>>

(* The provider, a file or a validation fails: the attempt is lost, the    *)
(* counter is written once more as it is.  What a failed write was for may *)
(* be on disk.                                                             *)
Fails ==
  /\ pc \in {"folder", "cues", "bought", "point"} /\ Fault
  /\ pc' \in {"rest", "dead"}
  /\ pointer' \in {pointer} \cup (IF pc = "point" THEN {profile} ELSE {})
  /\ UNCHANGED <<folders, staging, retry, profile, generations, active, attempts, later, ready, paid, changes>>
PublishFails ==
  /\ pc = "cues" /\ ready = Cues /\ Fault
  /\ folders' = Published
  /\ staging' = [staging EXCEPT ![profile] = {}]
  /\ pc' \in {"rest", "dead"}
  /\ UNCHANGED <<pointer, retry, profile, generations, active, attempts, later, ready, paid, changes>>
PruneFails ==
  /\ pc = "prune" /\ Dropped # {} /\ Fault
  /\ generations' = generations \ Dropped
  /\ \E sound \in BOOLEAN :
       folders' = {IF f.name \in Dropped THEN [f EXCEPT !.sound = sound /\ @] ELSE f : f \in folders}
  /\ pc' = "rest"
  /\ UNCHANGED <<staging, pointer, retry, profile, active, attempts, later, ready, paid, changes>>

Time ==
  /\ later \/ retry.later
  /\ later' = FALSE /\ retry' = [retry EXCEPT !.later = FALSE]
  /\ UNCHANGED <<folders, staging, pointer, profile, generations, active, attempts, pc, ready, paid, faults, changes>>

-----------------------------------------------------------------------------
(* The gateway is killed and starts again, or with another profile.        *)
Killed == Fault /\ Load(profile) /\ UNCHANGED <<folders, pointer, retry, paid, changes>>
Changed ==
  /\ changes < MaxChanges /\ changes' = changes + 1
  /\ \E p \in Profiles \ {profile} : Load(p)
  /\ paid' = [c \in Cues |-> 0]
  /\ UNCHANGED <<folders, pointer, retry, faults>>

(* A file of a set is damaged while the gateway is down.                   *)
Damaged ==
  /\ Fault
  /\ \E f \in folders :
       /\ f.sound /\ folders' = (folders \ {f}) \cup {[f EXCEPT !.sound = FALSE]}
       /\ profile' = profile /\ generations' = LoadedSets \ {f.name}
       /\ active' = IF pointer \in LoadedSets \ {f.name} THEN pointer ELSE NoSet
  /\ attempts' = IF retry.name = profile THEN retry.attempts ELSE 0
  /\ later' = (retry.name = profile /\ retry.later)
  /\ pc' = "rest" /\ ready' = {}
  /\ UNCHANGED <<staging, pointer, retry, paid, changes>>

Task == Reserve \/ Folder \/ Reuse \/ Buy \/ Stage \/ Publish \/ Point \/ Settle \/ Prune
Next == Task \/ SettleFails \/ Fails \/ PublishFails \/ PruneFails \/ Time \/ Killed \/ Changed \/ Damaged

Spec == Init /\ [][Next]_genVars
Fairness == WF_genVars(Task) /\ WF_genVars(Time)

-----------------------------------------------------------------------------
TypeOK ==
  /\ pointer \in Profiles \cup {NoSet} /\ active \in Profiles \cup {NoSet} /\ profile \in Profiles
  /\ generations \subseteq Profiles /\ staging \in [Profiles -> SUBSET Cues]
  /\ attempts \in 0 .. MaxAttempts /\ retry.attempts \in 0 .. MaxAttempts
  /\ ready \subseteq Cues /\ later \in BOOLEAN
  /\ \A f, g \in folders : f.name = g.name => f = g

(* What the gateway offers is on disk and whole; a set that a recorder may *)
(* still ask for is not taken away while it is known.                      *)
OfferedIsThere ==
  /\ active # NoSet => active \in generations
  /\ \A s \in generations : Sound(s)

(* No cue is bought more often than there are attempts, whatever is killed *)
(* or fails.                                                               *)
PaidBounded == \A c \in Cues : paid[c] <= MaxAttempts

(* No kill, failure or change of the profile leaves a recorder without     *)
(* cues once there were some: a set goes out of use for another one, or    *)
(* because it is damaged.  (Beyond `Retained' sets it may: a kill between  *)
(* the folder of a new set and the pointer to it leaves one set more than  *)
(* are loaded, and the one in use may be the oldest.)                      *)
SetIsKept ==
  [][active # NoSet /\ active' = NoSet =>
       \/ \A f \in folders' : f.name = pointer => ~f.sound
       \/ Cardinality(folders) > Retained]_genVars

(* The configured set comes into use, unless every attempt was spent or    *)
(* the task is gone.                                                       *)
SetComes ==
  []<>(active = profile \/ pc = "dead" \/ (attempts >= MaxAttempts /\ faults + changes >= MaxAttempts))
=============================================================================
