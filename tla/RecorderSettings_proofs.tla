----------------------- MODULE RecorderSettings_proofs -----------------------
(***************************************************************************)
(* Proofs about the recorder's settings for any number of forms, turns,    *)
(* losses of power and failed writes: whatever the three tasks save, and   *)
(* in whatever order, a factory reset that was answered is final.          *)
(***************************************************************************)
EXTENDS RecorderSettings, TLAPS

-----------------------------------------------------------------------------
(* The inductive invariant, in parts.                                      *)
Pcs == {"idle", "turn", "save", "reset", "copy", "answer", "restart"}
Settings == [Fields -> Nat]

TypesInv ==
  /\ nvs \in [Fields \cup {"brightness"} -> Int] /\ ram \in Settings
  /\ task \in [Tasks -> [pc : Pcs, key : 1 .. 5, copy : Settings]]
  /\ lock \in Tasks \cup {"free"} /\ pending \in BOOLEAN
  /\ wiped \in {"no", "answered", "restarted"}
  /\ counts \in [forms : Nat, turns : Nat, faults : Nat]

(* A value is of a form that was posted, a turn is one that was begun, and *)
(* the last turn that was begun has its request_id only until its turn_id  *)
(* is known.                                                               *)
Known(s) ==
  /\ \A f \in Credentials : s[f] <= counts.forms
  /\ s["turn"] <= 2 * counts.turns

BoundsInv ==
  /\ counts.forms \in 1 .. MaxForms + 1 /\ counts.turns <= MaxTurns
  /\ Known(nvs) /\ Known(ram) /\ \A t \in Tasks : Known(task[t].copy)
  /\ \A f \in Fields : nvs[f] >= -1
  /\ nvs["brightness"] \in {-1, 0, 1}

(* Who holds the lock is in voice_settings_save or _reset; the others are  *)
(* at their first key.  Only the portal resets, with the clean settings.   *)
LockInv ==
  /\ lock # "free" => task[lock].pc \in {"save", "reset"}
  /\ \A t \in Tasks : lock # t /\ task[t].pc \in {"save", "reset"} => task[t].key = 1
  /\ \A t \in Tasks : task[t].pc = "reset" => t = "portal" /\ task[t].copy = Clean

(* While the reset holds the lock the keys before its next one are empty.  *)
(* From its end to the restart nobody has the lock and all are empty; the  *)
(* portal is on its way to the answer or to the restart.                   *)
Emptied == \A f \in Credentials : nvs[f] = 0
ResetInv ==
  /\ task["portal"].pc = "reset" =>
       \A i \in 1 .. 4 : i < task["portal"].key => nvs[Keys[i]] = 0
  /\ pending => /\ lock = "free" /\ Emptied /\ nvs["brightness"] = 0
                /\ task["portal"].pc \in {"answer", "restart"}

(* What was answered stays true: in flash until the restart, in flash and  *)
(* in RAM after it, until the portal saves again.                          *)
WipedInv ==
  /\ lock = "portal" \/ task["portal"].pc = "copy" => wiped = "no"
  /\ wiped = "answered" => pending
  /\ wiped = "restarted" => Emptied /\ \A f \in Credentials : ram[f] = 0

IInv == TypesInv /\ BoundsInv /\ LockInv /\ ResetInv /\ WipedInv

-----------------------------------------------------------------------------
(* The order in which the keys are written.                                *)
LEMMA KeysAre ==
  /\ Len(Keys) = 4
  /\ Keys[1] = "wifi" /\ Keys[2] = "gateway" /\ Keys[3] = "token" /\ Keys[4] = "turn"
BY DEF Keys

(* The settings after a factory reset, and those of a first boot.          *)
LEMMA CleanIs ==
  /\ Clean \in Settings /\ Defaults \in Settings
  /\ Free \in [pc : Pcs, key : 1 .. 5, copy : Settings]
BY DEF Clean, Settings, Defaults, Compiled, Free, Pcs

(* The first boot.                                                         *)
LEMMA InitInv == BoundsAssumption /\ Init => IInv
<1> SUFFICES ASSUME BoundsAssumption, Init
             PROVE  IInv
  OBVIOUS
<1> USE CleanIs DEF BoundsAssumption, Init, Settings, Fields, Credentials, Tasks, Absent, Clean,
        Defaults, Compiled, Free, Pcs
<1>1. nvs \in [Fields \cup {"brightness"} -> Int] /\ ram \in Settings
  OBVIOUS
<1>2. task \in [Tasks -> [pc : Pcs, key : 1 .. 5, copy : Settings]]
  OBVIOUS
<1>3. TypesInv
  BY <1>1 DEF TypesInv
<1>4. BoundsInv
  BY DEF BoundsInv, Known
<1>5. LockInv
  BY DEF LockInv
<1>6. ResetInv
  BY DEF ResetInv
<1>7. WipedInv
  BY DEF WipedInv
<1>8. QED
  BY <1>3, <1>4, <1>5, <1>6, <1>7 DEF IInv

(* A form changes credentials only, to its own values.                     *)
LEMMA ChangedIs ==
  ASSUME NEW s \in Settings, NEW n \in Nat, NEW next \in Changed(s, n)
  PROVE  /\ next \in Settings /\ next["turn"] = s["turn"]
         /\ \A f \in Credentials : next[f] \in {s[f], n}
BY DEF Changed, Settings, Fields, Credentials

(* What a boot loads is a value of flash or the compiled one.              *)
LEMMA LoadIs ==
  ASSUME TypesInv, BoundsInv
  PROVE  /\ Load(nvs) \in Settings
         /\ \A f \in Fields : Load(nvs)[f] = IF nvs[f] = Absent THEN Defaults[f] ELSE nvs[f]
BY DEF TypesInv, BoundsInv, Load, Settings, Defaults, Compiled, Absent

(* Every task starts again, and the worker with the turn that flash has.   *)
LEMMA BootIs ==
  ASSUME TypesInv, BoundsInv, Boot
  PROVE  /\ ram' = Load(nvs) /\ nvs' = nvs /\ lock' = "free" /\ pending' = FALSE
         /\ wiped' = IF wiped = "no" THEN "no" ELSE "restarted"
         /\ task' \in [Tasks -> [pc : Pcs, key : 1 .. 5, copy : Settings]]
         /\ \A t \in Tasks : /\ task'[t].key = 1 /\ task'[t].copy = Clean
                             /\ task'[t].pc \in {"idle", "turn"}
         /\ task'["portal"].pc = "idle"
BY CleanIs DEF Boot, Free, Pcs, Tasks

(* What the end of a save or of a reset means for the portal's task.       *)
LEMMA AfterIs ==
  ASSUME TypesInv, NEW t \in Tasks
  PROVE  /\ t # "portal" => \A ok \in BOOLEAN : After(t, ok)["portal"] = task["portal"]
         /\ t = "portal" => /\ After(t, FALSE)["portal"] = Free
                           /\ After(t, TRUE)["portal"].pc = IF task["portal"].pc = "save"
                                                             THEN "copy" ELSE "answer"
<1>1. CASE t = "main"
  BY DEF After, TypesInv, Tasks
<1>2. CASE t = "worker"
  BY <1>2 DEF After
<1>3. CASE t = "portal"
  <2>1. DOMAIN task = Tasks /\ "portal" \in Tasks /\ "pc" \in DOMAIN task["portal"]
    BY DEF TypesInv, Tasks
  <2>2. After(t, FALSE)["portal"] = Free
    BY <1>3, <2>1 DEF After
  <2>3. After(t, TRUE)["portal"].pc = IF task["portal"].pc = "save" THEN "copy" ELSE "answer"
    BY <1>3, <2>1 DEF After
  <2>4. QED
    BY <1>3, <2>2, <2>3
<1>4. QED
  BY <1>1, <1>2, <1>3 DEF Tasks

(* What the main loop and the worker do with their turn.                   *)
LEMMA BeginTurnKeeps ==
  ASSUME BoundsAssumption, IInv, BeginTurn
  PROVE  IInv'
<1>1. TypesInv'
  BY CleanIs DEF IInv, TypesInv, BeginTurn, Saves, Settings, Pcs, Tasks
<1>2. BoundsInv'
  BY DEF BoundsAssumption, IInv, TypesInv, BoundsInv, BeginTurn, Saves, Settings, Fields,
     Credentials, Known, Clean
<1>3. LockInv'
  BY DEF IInv, LockInv, BeginTurn, Saves
<1>4. ResetInv'
  BY DEF IInv, ResetInv, BeginTurn, Saves, Emptied
<1>5. WipedInv'
  BY DEF IInv, WipedInv, BeginTurn, Saves, Credentials, Emptied
<1>6. QED
  BY <1>1, <1>2, <1>3, <1>4, <1>5 DEF IInv

LEMMA SaveIdKeeps ==
  ASSUME BoundsAssumption, IInv, SaveId
  PROVE  IInv'
<1>1. TypesInv'
  BY CleanIs DEF IInv, TypesInv, SaveId, Saves, Settings, Pcs, Tasks
<1>2. BoundsInv'
  BY DEF IInv, TypesInv, BoundsInv, SaveId, Saves, Settings, Fields, Tasks, Credentials,
     Known, Clean
<1>3. LockInv'
  BY DEF IInv, LockInv, SaveId, Saves
<1>4. ResetInv'
  BY DEF IInv, ResetInv, SaveId, Saves, Emptied
<1>5. WipedInv'
  BY DEF IInv, WipedInv, SaveId, Saves, Credentials, Emptied
<1>6. QED
  BY <1>1, <1>2, <1>3, <1>4, <1>5 DEF IInv

LEMMA ClearIdsKeeps ==
  ASSUME BoundsAssumption, IInv, ClearIds
  PROVE  IInv'
<1>1. TypesInv'
  BY CleanIs DEF IInv, TypesInv, ClearIds, Saves, Settings, Pcs, Tasks
<1>2. BoundsInv'
  BY DEF IInv, TypesInv, BoundsInv, ClearIds, Saves, Fields, Credentials, Known, Clean
<1>3. LockInv'
  BY DEF IInv, LockInv, ClearIds, Saves
<1>4. ResetInv'
  BY DEF IInv, ResetInv, ClearIds, Saves, Emptied
<1>5. WipedInv'
  BY DEF IInv, WipedInv, ClearIds, Saves, Credentials, Emptied
<1>6. QED
  BY <1>1, <1>2, <1>3, <1>4, <1>5 DEF IInv

(* KEY2 writes its own key, and only before a reset.                       *)
LEMMA BrightnessKeeps ==
  ASSUME BoundsAssumption, IInv, Brightness
  PROVE  IInv'
<1>1. TypesInv'
  BY DEF IInv, TypesInv, Brightness
<1>2. BoundsInv'
  BY DEF IInv, BoundsInv, Brightness, Fields, Credentials, Known
<1>3. LockInv'
  BY DEF IInv, LockInv, Brightness
<1>4. ResetInv'
  BY DEF IInv, LockInv, ResetInv, Brightness, Tasks
<1>5. WipedInv'
  BY DEF IInv, WipedInv, Brightness, Credentials, Emptied
<1>6. QED
  BY <1>1, <1>2, <1>3, <1>4, <1>5 DEF IInv

(* The setup page's form and its factory reset.                            *)
LEMMA PostKeeps ==
  ASSUME BoundsAssumption, IInv, Post
  PROVE  IInv'
<1>0. PICK next \in Changed(ram, counts.forms + 1) : Saves("portal", next)
  BY DEF Post
<1> next \in Settings /\ next["turn"] = ram["turn"] /\ counts.forms \in Nat
    /\ \A f \in Credentials : next[f] \in {ram[f], counts.forms + 1}
  BY ChangedIs DEF IInv, TypesInv
<1> counts' = [counts EXCEPT !.forms = @ + 1] /\ counts.forms < MaxForms + 1
    /\ UNCHANGED <<nvs, ram, lock, pending, wiped>> /\ task["portal"].pc = "idle"
  BY DEF Post
<1> task' = [task EXCEPT !["portal"] = [pc |-> "save", key |-> 1, copy |-> next]]
  BY <1>0 DEF Saves
<1>1. TypesInv'
  BY DEF IInv, TypesInv, Pcs, Tasks
<1>2. BoundsInv'
  <2>1. counts'.forms = counts.forms + 1 /\ counts'.turns = counts.turns
    OBVIOUS
  <2>2. /\ \A f \in Credentials : next[f] <= counts.forms + 1
        /\ next["turn"] <= 2 * counts.turns
    BY DEF IInv, BoundsInv, Known, Credentials, Fields, Settings
  <2>3. \A t \in Tasks : Known(task[t].copy)'
    <3>1. TAKE t \in Tasks
    <3>2. CASE t = "portal"
      BY <2>2, <3>2 DEF IInv, TypesInv, Known
    <3>3. CASE t # "portal"
      <4>1. task'[t] = task[t]
        BY <3>3
      <4>2. Known(task[t].copy) /\ task[t].copy \in Settings
        BY DEF IInv, TypesInv, BoundsInv
      <4>3. QED
        BY <4>1, <4>2 DEF Known, Credentials, Fields, Settings
    <3>4. QED
      BY <3>2, <3>3
  <2>4. Known(nvs)' /\ Known(ram)'
    BY DEF IInv, TypesInv, BoundsInv, Known, Credentials, Fields, Settings
  <2>5. QED
    BY <2>3, <2>4 DEF BoundsAssumption, IInv, BoundsInv
<1>3. LockInv'
  BY DEF IInv, LockInv
<1>4. ResetInv'
  BY DEF IInv, ResetInv
<1>5. WipedInv'
  BY DEF IInv, WipedInv, Emptied
<1>6. QED
  BY <1>1, <1>2, <1>3, <1>4, <1>5 DEF IInv

LEMMA ResetKeeps ==
  ASSUME BoundsAssumption, IInv, Reset
  PROVE  IInv'
<1>1. TypesInv'
  BY CleanIs DEF IInv, TypesInv, Reset, Pcs, Tasks
<1>2. BoundsInv'
  BY DEF IInv, TypesInv, BoundsInv, Reset, Fields, Credentials, Known, Clean
<1>3. LockInv'
  BY DEF IInv, LockInv, Reset
<1>4. ResetInv'
  BY DEF IInv, ResetInv, Reset
<1>5. WipedInv'
  BY DEF IInv, WipedInv, Reset, Emptied
<1>6. QED
  BY <1>1, <1>2, <1>3, <1>4, <1>5 DEF IInv

(* The portal's copy to RAM and its answer.                                *)
LEMMA CopyKeeps ==
  ASSUME BoundsAssumption, IInv, Copy
  PROVE  IInv'
<1>1. TypesInv'
  BY DEF IInv, TypesInv, Copy, Pcs, Tasks
<1>2. BoundsInv'
  BY DEF IInv, BoundsInv, Copy, Tasks, Known
<1>3. LockInv'
  BY DEF IInv, LockInv, Copy
<1>4. ResetInv'
  BY DEF IInv, ResetInv, Copy
<1>5. WipedInv'
  BY DEF IInv, WipedInv, Copy
<1>6. QED
  BY <1>1, <1>2, <1>3, <1>4, <1>5 DEF IInv

LEMMA AnswerKeeps ==
  ASSUME BoundsAssumption, IInv, Answer
  PROVE  IInv'
<1>1. TypesInv'
  BY DEF IInv, TypesInv, Answer, Pcs
<1>2. BoundsInv'
  BY DEF IInv, BoundsInv, Answer, Known
<1>3. LockInv'
  BY DEF IInv, LockInv, Answer
<1>4. ResetInv'
  BY DEF IInv, ResetInv, Answer, Emptied
<1>5. WipedInv'
  BY DEF IInv, ResetInv, WipedInv, Answer, Emptied
<1>6. QED
  BY <1>1, <1>2, <1>3, <1>4, <1>5 DEF IInv

(* A boot keeps the invariant: what it loads is what flash has, where the   *)
(* reset left empty values, and nobody holds the lock.                     *)
LEMMA BootKeeps ==
  ASSUME BoundsAssumption, IInv, Boot,
         counts' \in [forms : Nat, turns : Nat, faults : Nat],
         counts'.forms = counts.forms, counts'.turns = counts.turns
  PROVE  IInv'
<1> USE DEF IInv
<1>b. /\ ram' = Load(nvs) /\ nvs' = nvs /\ lock' = "free" /\ pending' = FALSE
      /\ wiped' = IF wiped = "no" THEN "no" ELSE "restarted"
      /\ task' \in [Tasks -> [pc : Pcs, key : 1 .. 5, copy : Settings]]
      /\ task'["portal"].pc = "idle"
  BY BootIs
<1>t. \A t \in Tasks : /\ task'[t].key = 1 /\ task'[t].copy = Clean
                       /\ task'[t].pc \in {"idle", "turn"}
  BY BootIs
<1>l. \A f \in Fields : ram'[f] = IF nvs[f] = Absent THEN Defaults[f] ELSE nvs[f]
  BY <1>b, LoadIs
<1>1. TypesInv'
  BY <1>b, LoadIs DEF TypesInv
<1>2. BoundsInv'
  <2>1. Known(ram)'
    BY <1>l DEF BoundsInv, Known, Defaults, Compiled, Credentials, Fields
  <2>2. \A t \in Tasks : Known(task[t].copy)'
    BY <1>t DEF Known, Clean, Credentials, Fields
  <2>3. Known(nvs)'
    BY <1>b DEF BoundsInv, Known
  <2>4. QED
    BY <1>b, <2>1, <2>2, <2>3 DEF BoundsInv
<1>3. LockInv'
  BY <1>b, <1>t DEF LockInv
<1>4. ResetInv'
  BY <1>b DEF ResetInv
<1>5. WipedInv'
  <2>1. wiped # "no" => Emptied
    BY DEF TypesInv, ResetInv, WipedInv
  <2>2. wiped' = "restarted" => \A f \in Credentials : ram'[f] = 0 /\ nvs'[f] = 0
    BY <1>b, <1>l, <2>1 DEF Emptied, Credentials, Fields, Absent
  <2>3. QED
    BY <1>b, <2>2 DEF WipedInv, Emptied
<1>6. QED
  BY <1>1, <1>2, <1>3, <1>4, <1>5

LEMMA RestartKeeps ==
  ASSUME BoundsAssumption, IInv, Restart
  PROVE  IInv'
<1>1. Boot /\ UNCHANGED counts
  BY DEF Restart
<1>2. QED
  BY <1>1, BootKeeps DEF IInv, TypesInv

LEMMA PowerLossKeeps ==
  ASSUME BoundsAssumption, IInv, PowerLoss
  PROVE  IInv'
<1>1. Boot /\ counts' = [counts EXCEPT !.faults = @ + 1]
  BY DEF PowerLoss
<1>2. counts \in [forms : Nat, turns : Nat, faults : Nat]
  BY DEF IInv, TypesInv
<1>3. /\ counts' \in [forms : Nat, turns : Nat, faults : Nat]
      /\ counts'.forms = counts.forms /\ counts'.turns = counts.turns
  BY <1>1, <1>2
<1>4. QED
  BY <1>1, <1>3, BootKeeps

(* The mutex, each key, a failed write, and the end of a save or reset.    *)
LEMMA LockKeeps ==
  ASSUME BoundsAssumption, IInv, NEW t \in Tasks, Lock(t)
  PROVE  IInv'
<1>1. TypesInv'
  BY CleanIs DEF IInv, TypesInv, Lock, After, Pcs
<1>2. BoundsInv'
  BY DEF IInv, TypesInv, BoundsInv, Lock, After, Free, Fields, Tasks, Credentials, Known,
     Clean
<1>3. LockInv'
  BY DEF IInv, TypesInv, LockInv, Lock, After, Free, Tasks
<1>4. ResetInv'
  BY DEF IInv, TypesInv, LockInv, ResetInv, Lock, Refuses, After, Tasks, Emptied
<1>5. WipedInv'
  BY DEF IInv, TypesInv, WipedInv, Lock, After, Free, Tasks, Emptied
<1>6. QED
  BY <1>1, <1>2, <1>3, <1>4, <1>5 DEF IInv

LEMMA WriteKeeps ==
  ASSUME BoundsAssumption, IInv, NEW t \in Tasks, Write(t)
  PROVE  IInv'
<1> DEFINE n == task[t].key
           k == Keys[n]
<1>0. n \in 1 .. 4 /\ k \in Fields
  BY KeysAre DEF IInv, TypesInv, Write, Fields
<1>n. /\ nvs' = [nvs EXCEPT ![k] = Saving(t)[k]]
      /\ task' = [task EXCEPT ![t].key = @ + 1]
      /\ lock = t /\ UNCHANGED <<ram, lock, pending, wiped, counts>>
  BY DEF Write
<1>s. Saving(t) \in Settings /\ Known(Saving(t))
  BY DEF IInv, TypesInv, BoundsInv, Saving
<1>1. TypesInv'
  BY KeysAre DEF IInv, TypesInv, Write, Saving, Settings, Fields
<1>2. BoundsInv'
  <2>1. /\ Known(nvs)' /\ \A f \in Fields : nvs'[f] >= -1
        /\ nvs'["brightness"] = nvs["brightness"]
    BY <1>0, <1>n, <1>s DEF IInv, TypesInv, BoundsInv, Known, Settings, Fields, Credentials
  <2>2. \A u \in Tasks : Known(task[u].copy)'
    BY <1>n DEF IInv, TypesInv, BoundsInv, Known
  <2>3. Known(ram)'
    BY <1>n DEF IInv, BoundsInv, Known
  <2>4. QED
    BY <1>n, <2>1, <2>2, <2>3 DEF IInv, BoundsInv
<1>3. LockInv'
  BY DEF IInv, LockInv, Write
<1>4. ResetInv'
  <2>1. ~pending /\ pending' = pending
    BY <1>n DEF IInv, ResetInv, Tasks
  <2>2. CASE task["portal"].pc = "reset" /\ t = "portal"
    <3>1. Saving(t)[k] = 0
      BY <1>0, <2>2 DEF IInv, LockInv, Saving, Clean
    <3>2. \A i \in 1 .. 4 : i < n \/ i = n => nvs'[Keys[i]] = 0
      BY <1>0, <1>n, <2>2, <3>1, KeysAre DEF IInv, TypesInv, ResetInv, Fields
    <3>3. task'["portal"].key = n + 1
      BY <1>0, <1>n, <2>2 DEF IInv, TypesInv
    <3>4. QED
      BY <1>0, <2>1, <3>2, <3>3 DEF ResetInv
  <2>3. CASE task["portal"].pc = "reset" /\ t # "portal"
    BY <1>n, <2>1, <2>3 DEF IInv, TypesInv, LockInv, ResetInv, Tasks
  <2>4. CASE task["portal"].pc # "reset"
    BY <1>n, <2>1, <2>4 DEF IInv, TypesInv, ResetInv, Tasks
  <2>5. QED
    BY <2>2, <2>3, <2>4
<1>5. WipedInv'
  BY DEF IInv, WipedInv, Write, Saving, Emptied
<1>6. QED
  BY <1>1, <1>2, <1>3, <1>4, <1>5 DEF IInv

LEMMA WriteFailsKeeps ==
  ASSUME BoundsAssumption, IInv, NEW t \in Tasks, WriteFails(t)
  PROVE  IInv'
<1>1. TypesInv'
  BY CleanIs DEF IInv, TypesInv, WriteFails, After, Pcs, Tasks
<1>2. BoundsInv'
  BY DEF IInv, TypesInv, BoundsInv, WriteFails, After, Free, Fields, Credentials, Known,
     Clean
<1>3. LockInv'
  BY DEF IInv, TypesInv, LockInv, WriteFails, After, Free
<1>4. ResetInv'
  BY DEF IInv, TypesInv, ResetInv, WriteFails, After, Free, Tasks
<1>5. WipedInv'
  BY DEF IInv, TypesInv, WipedInv, WriteFails, After, Tasks, Emptied
<1>6. QED
  BY <1>1, <1>2, <1>3, <1>4, <1>5 DEF IInv

LEMMA WrittenKeeps ==
  ASSUME BoundsAssumption, IInv, NEW t \in Tasks, Written(t)
  PROVE  IInv'
<1>1. TypesInv'
  BY CleanIs DEF IInv, TypesInv, Written, After, Pcs, Tasks
<1>2. BoundsInv'
  BY DEF IInv, TypesInv, BoundsInv, Written, After, Free, Fields, Credentials, Known, Clean
<1>3. LockInv'
  BY DEF IInv, TypesInv, LockInv, Written, After, Free
<1>4. ResetInv'
  <2>2. CASE task[t].pc = "reset"
    <3>1. t = "portal" /\ \A i \in 1 .. 4 : nvs[Keys[i]] = 0
      BY <2>2, KeysAre DEF IInv, TypesInv, LockInv, ResetInv, Written
    <3>2. nvs' = [nvs EXCEPT !["brightness"] = 0] /\ pending' /\ lock' = "free"
      BY <2>2 DEF Written
    <3>3. task'["portal"].pc = "answer"
      BY <2>2, <3>1, AfterIs DEF IInv, Written
    <3>4. Emptied' /\ nvs'["brightness"] = 0
      BY <3>1, <3>2, KeysAre DEF IInv, TypesInv, Emptied, Credentials
    <3>5. QED
      BY <3>2, <3>3, <3>4 DEF ResetInv
  <2>3. CASE task[t].pc # "reset"
    <3>1. nvs' = nvs /\ lock' = "free" /\ pending' = pending
      BY <2>3 DEF Written, IInv, TypesInv
    <3>2. ~pending
      BY DEF Written, IInv, ResetInv, Tasks
    <3>3. task'["portal"].pc # "reset" \/ task'["portal"].key = 1
      <4>1. CASE t = "portal"
        BY <4>1, AfterIs DEF IInv, Written
      <4>2. CASE t # "portal"
        <5>1. task'["portal"] = task["portal"]
          BY <4>2, AfterIs DEF IInv, Written
        <5>2. task["portal"].pc # "reset" \/ task["portal"].key = 1
          BY <4>2 DEF IInv, LockInv, Written, Tasks
        <5>3. QED
          BY <5>1, <5>2
      <4>3. QED
        BY <4>1, <4>2
    <3>4. QED
      BY <3>1, <3>2, <3>3 DEF ResetInv
  <2>4. QED
    BY <2>2, <2>3
<1>5. WipedInv'
  BY DEF IInv, TypesInv, WipedInv, Written, After, Tasks, Credentials, Emptied
<1>6. QED
  BY <1>1, <1>2, <1>3, <1>4, <1>5 DEF IInv

-----------------------------------------------------------------------------
(* Every step keeps the invariant.                                         *)
LEMMA NextKeeps ==
  ASSUME BoundsAssumption, IInv, [Next]_settingsVars
  PROVE  IInv'
<1>1. CASE BeginTurn
  BY <1>1, BeginTurnKeeps
<1>2. CASE SaveId
  BY <1>2, SaveIdKeeps
<1>3. CASE ClearIds
  BY <1>3, ClearIdsKeeps
<1>4. CASE Brightness
  BY <1>4, BrightnessKeeps
<1>5. CASE Post
  BY <1>5, PostKeeps
<1>6. CASE Reset
  BY <1>6, ResetKeeps
<1>7. CASE Copy
  BY <1>7, CopyKeeps
<1>8. CASE Answer
  BY <1>8, AnswerKeeps
<1>9. CASE Restart
  BY <1>9, RestartKeeps
<1>10. CASE PowerLoss
  BY <1>10, PowerLossKeeps
<1>11. CASE \E t \in Tasks : Lock(t) \/ Write(t) \/ WriteFails(t) \/ Written(t)
  BY <1>11, LockKeeps, WriteKeeps, WriteFailsKeeps, WrittenKeeps
<1>12. CASE UNCHANGED settingsVars
  BY <1>12 DEF settingsVars, IInv, TypesInv, BoundsInv, LockInv, ResetInv, WipedInv, Known,
     Emptied
<1>13. QED
  BY <1>1, <1>2, <1>3, <1>4, <1>5, <1>6, <1>7, <1>8, <1>9, <1>10, <1>11, <1>12 DEF Next

(* Every state of every run is one the inductive invariant describes.      *)
THEOREM Invariance == BoundsAssumption => (Spec => []IInv)
<1> SUFFICES ASSUME BoundsAssumption PROVE Spec => []IInv
  OBVIOUS
<1>1. Init => IInv
  BY InitInv
<1>2. IInv /\ [Next]_settingsVars => IInv'
  BY NextKeeps
<1>3. QED
  BY <1>1, <1>2, PTL DEF Spec

LEMMA TypesAre == ASSUME BoundsAssumption, IInv PROVE TypeOK
  BY KeysAre DEF BoundsAssumption, IInv, TypesInv, BoundsInv, Known, TypeOK, Values,
     Settings, Pcs, Fields, Credentials

(* A value of NVS or of voice_settings is one that was saved: absent, the  *)
(* empty string, the compiled one, a posted form's or a turn's, and every  *)
(* task is at one of its steps (voice_settings.c, main.c,                  *)
(* voice_config_httpd.c).                                                  *)
THEOREM TypeCorrect == BoundsAssumption => (Spec => []TypeOK)
<1> SUFFICES ASSUME BoundsAssumption PROVE Spec => []TypeOK
  OBVIOUS
<1>1. IInv => TypeOK
  BY TypesAre
<1>2. QED
  BY <1>1, Invariance, PTL

(* A factory reset that was answered with 202 is final (h_config_reset,    *)
(* voice_settings_reset): no save that was waiting for the lock, no value  *)
(* compiled into the image and no loss of power brings a credential back.  *)
THEOREM ResetHolds == BoundsAssumption => (Spec => []ResetIsFinal)
<1> SUFFICES ASSUME BoundsAssumption PROVE Spec => []ResetIsFinal
  OBVIOUS
<1>1. IInv => ResetIsFinal
  BY DEF IInv, TypesInv, ResetInv, WipedInv, Emptied, ResetIsFinal
<1>2. QED
  BY <1>1, Invariance, PTL

=============================================================================
