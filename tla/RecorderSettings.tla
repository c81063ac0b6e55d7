-------------------------- MODULE RecorderSettings --------------------------
(***************************************************************************)
(* The recorder's settings: one structure in memory (voice_settings) that  *)
(* the main loop, the turn worker and the setup portal's server task share *)
(* without a lock, and its copy in NVS, written key by key under           *)
(* settings_mutex (voice_settings.c).  The power may go at any time.       *)
(*                                                                         *)
(* A value is a number: 0 is the empty string, Compiled the provisioning   *)
(* value built into the image, larger ones come from forms.  The five      *)
(* networks are one field, and so are a turn's request_id and turn_id:     *)
(* turn n is 2n - 1 with its request_id alone and 2n with both.            *)
(***************************************************************************)
EXTENDS Integers, Sequences, FiniteSets

CONSTANTS
  MaxForms,  \* bounds the forms that are posted
  MaxTurns,  \* bounds the turns that are begun
  MaxFaults  \* bounds power losses and failed NVS writes

BoundsAssumption ==
  MaxForms \in Nat /\ MaxTurns \in Nat /\ MaxFaults \in Nat

VARIABLES
  nvs,       \* the "hermes" namespace
  ram,       \* voice_settings
  task,      \* what each task is doing: pc, key to be written next, copy
  lock,      \* the holder of settings_mutex
  pending,   \* reset_pending
  wiped,     \* a reset was answered with 202; and the device restarted since
  counts     \* forms, turns, faults so far

settingsVars == <<nvs, ram, task, lock, pending, wiped, counts>>

Absent == -1
Compiled == 1
Tasks == {"main", "worker", "portal"}
Keys == <<"wifi", "gateway", "token", "turn">>
Fields == {"wifi", "gateway", "token", "turn"}
Credentials == {"wifi", "gateway", "token"}

Defaults == [f \in Fields |-> IF f = "turn" THEN 0 ELSE Compiled]

(* voice_settings_factory_defaults: explicit empty values, so that the     *)
(* compiled ones do not come back.                                         *)
Clean == [f \in Fields |-> 0]

(* voice_settings_load: a key that is not there keeps its default.         *)
Load(stored) ==
  [f \in Fields |-> IF stored[f] = Absent THEN Defaults[f] ELSE stored[f]]

Free == [pc |-> "idle", key |-> 1, copy |-> Clean]

Init ==
  /\ nvs = [f \in Fields \cup {"brightness"} |-> Absent]
  /\ ram = Defaults
  /\ task = [t \in Tasks |-> Free]
  /\ lock = "free" /\ pending = FALSE
  /\ wiped = "no"
  /\ counts = [forms |-> 1, turns |-> 0, faults |-> 0]

-----------------------------------------------------------------------------
(* Who saves, and what.  The main loop and the worker pass voice_settings  *)
(* itself, which is read while the keys are written.  The portal passes    *)
(* its own copy, a reset the clean one.                                    *)
Saves(t, s) == task' = [task EXCEPT ![t] = [pc |-> "save", key |-> 1, copy |-> s]]
Saving(t) == IF t = "portal" THEN task[t].copy ELSE ram

(* begin_turn_request; the main loop starts a worker once it is saved.     *)
BeginTurn ==
  /\ task["main"].pc = "idle" /\ task["worker"].pc = "idle" /\ counts.turns < MaxTurns
  /\ counts' = [counts EXCEPT !.turns = @ + 1]
  /\ ram' = [ram EXCEPT !.turn = 2 * (counts.turns + 1) - 1]
  /\ Saves("main", Clean)
  /\ UNCHANGED <<nvs, lock, pending, wiped>>

(* turn_save_id, and turn_clear_ids when the turn is over.                 *)
SaveId ==
  /\ task["worker"].pc = "turn" /\ ram.turn % 2 = 1
  /\ ram' = [ram EXCEPT !.turn = @ + 1]
  /\ Saves("worker", Clean)
  /\ UNCHANGED <<nvs, lock, pending, wiped, counts>>

ClearIds ==
  /\ task["worker"].pc = "turn"
  /\ ram' = [ram EXCEPT !.turn = 0]
  /\ Saves("worker", Clean)
  /\ UNCHANGED <<nvs, lock, pending, wiped, counts>>

(* A press of KEY2 changes the brightness, which has a key of its own: 0   *)
(* is the default, 1 any other level.                                      *)
Brightness ==
  /\ task["main"].pc = "idle" /\ lock = "free" /\ ~pending /\ nvs.brightness # 1
  /\ nvs' = [nvs EXCEPT !.brightness = 1]
  /\ UNCHANGED <<ram, task, lock, pending, wiped, counts>>

(* h_config_post: the form changes the networks, or the gateway together   *)
(* with its token, in a copy of voice_settings (voice_config_parse_form    *)
(* refuses another gateway without a token, and what                       *)
(* voice_settings_valid does not accept).                                  *)
Changed(s, n) ==
  {[s EXCEPT !.wifi = n], [s EXCEPT !.gateway = n], [s EXCEPT !.gateway = n, !.token = n],
   [s EXCEPT !.wifi = n, !.gateway = n, !.token = n]}

FormAccepted(old, next) ==
  /\ next.gateway # old.gateway => next.token # old.token
  /\ \A f \in Credentials : next[f] # 0

Post ==
  /\ task["portal"].pc = "idle" /\ counts.forms < MaxForms + 1
  /\ \E next \in Changed(ram, counts.forms + 1) : FormAccepted(ram, next) /\ Saves("portal", next)
  /\ counts' = [counts EXCEPT !.forms = @ + 1]
  /\ UNCHANGED <<nvs, ram, lock, pending, wiped>>

(* h_config_reset.                                                         *)
Reset ==
  /\ task["portal"].pc = "idle"
  /\ task' = [task EXCEPT !["portal"] = [pc |-> "reset", key |-> 1, copy |-> Clean]]
  /\ UNCHANGED <<nvs, ram, lock, pending, wiped, counts>>

-----------------------------------------------------------------------------
(* voice_settings_save and voice_settings_reset.  After a save that failed *)
(* the main loop and the worker go on with turn_storage_failed.            *)
Refuses_never == FALSE  \* mutant: no look at reset_pending
Refuses == pending

After(t, ok) ==
  CASE t = "main" -> [task EXCEPT ![t] = Free, !["worker"].pc = IF ok THEN "turn" ELSE "idle"]
    [] t = "worker" -> [task EXCEPT ![t] = [Free EXCEPT !.pc = IF ok /\ ram.turn # 0 THEN "turn" ELSE "idle"]]
    [] OTHER -> IF ok THEN [task EXCEPT ![t].pc = IF @ = "save" THEN "copy" ELSE "answer"]
                ELSE [task EXCEPT ![t] = Free]

Lock(t) ==
  /\ task[t].pc \in {"save", "reset"} /\ lock = "free"
  /\ IF Refuses /\ task[t].pc = "save"
       THEN task' = After(t, FALSE) /\ UNCHANGED <<lock, wiped>>
       ELSE /\ lock' = t /\ UNCHANGED task
            /\ wiped' = IF t = "portal" THEN "no" ELSE wiped
  /\ UNCHANGED <<nvs, ram, pending, counts>>

Write(t) ==
  /\ lock = t /\ task[t].key <= Len(Keys)
  /\ nvs' = [nvs EXCEPT ![Keys[task[t].key]] = Saving(t)[Keys[task[t].key]]]
  /\ task' = [task EXCEPT ![t].key = @ + 1]
  /\ UNCHANGED <<ram, lock, pending, wiped, counts>>

WriteFails(t) ==
  /\ lock = t /\ counts.faults < MaxFaults
  /\ counts' = [counts EXCEPT !.faults = @ + 1]
  /\ lock' = "free" /\ task' = After(t, FALSE)
  /\ UNCHANGED <<nvs, ram, pending, wiped>>

Written(t) ==
  /\ lock = t /\ task[t].key > Len(Keys)
  /\ nvs' = IF task[t].pc = "reset" THEN [nvs EXCEPT !.brightness = 0] ELSE nvs
  /\ pending' = (task[t].pc = "reset" \/ pending)
  /\ lock' = "free" /\ task' = After(t, TRUE)
  /\ UNCHANGED <<ram, wiped, counts>>

(* *s_settings = next, and the answer.                                     *)
Copy ==
  /\ task["portal"].pc = "copy"
  /\ ram' = task["portal"].copy
  /\ task' = [task EXCEPT !["portal"].pc = "answer"]
  /\ UNCHANGED <<nvs, lock, pending, wiped, counts>>

Answer ==
  /\ task["portal"].pc = "answer"
  /\ wiped' = IF pending THEN "answered" ELSE wiped
  /\ task' = [task EXCEPT !["portal"].pc = "restart"]
  /\ UNCHANGED <<nvs, ram, lock, pending, counts>>

(* A restart loads what NVS has and takes up the turn it finds.            *)
Boot ==
  /\ ram' = Load(nvs)
  /\ task' = [t \in Tasks |-> IF t = "worker" /\ Load(nvs).turn # 0
                                THEN [Free EXCEPT !.pc = "turn"] ELSE Free]
  /\ lock' = "free" /\ pending' = FALSE
  /\ wiped' = IF wiped = "no" THEN "no" ELSE "restarted"
  /\ UNCHANGED <<nvs>>

Restart == task["portal"].pc = "restart" /\ Boot /\ UNCHANGED counts

PowerLoss ==
  /\ counts.faults < MaxFaults /\ Boot
  /\ counts' = [counts EXCEPT !.faults = @ + 1]

Next ==
  \/ BeginTurn \/ SaveId \/ ClearIds \/ Brightness
  \/ Post \/ Reset \/ Copy \/ Answer \/ Restart \/ PowerLoss
  \/ \E t \in Tasks : Lock(t) \/ Write(t) \/ WriteFails(t) \/ Written(t)

Spec == Init /\ [][Next]_settingsVars

-----------------------------------------------------------------------------
Values == -1 .. MaxForms + 2
TypeOK ==
  /\ \A f \in Credentials : nvs[f] \in Values /\ ram[f] \in Values \ {-1}
  /\ nvs.turn \in -1 .. 2 * MaxTurns /\ ram.turn \in 0 .. 2 * MaxTurns
  /\ nvs.brightness \in {-1, 0, 1}
  /\ \A t \in Tasks :
       /\ task[t].pc \in {"idle", "turn", "save", "reset", "copy", "answer", "restart"}
       /\ task[t].key \in 1 .. Len(Keys) + 1
  /\ lock \in Tasks \cup {"free"} /\ pending \in BOOLEAN
  /\ wiped \in {"no", "answered", "restarted"}

(* Once a factory reset is answered with 202, no credential comes back by  *)
(* itself: not by the save of a worker or the main loop that still has the *)
(* old structure, not from the values compiled into the image after the    *)
(* restart, and the next boot starts without them and with the default     *)
(* brightness.                                                             *)
ResetIsFinal ==
  /\ wiped # "no" => \A f \in Credentials : nvs[f] = 0
  /\ wiped = "answered" => nvs.brightness = 0
  /\ wiped = "restarted" => \A f \in Credentials : ram[f] = 0

=============================================================================
