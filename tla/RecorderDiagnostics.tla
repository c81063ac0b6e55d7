------------------------ MODULE RecorderDiagnostics -------------------------
(***************************************************************************)
(* The recorder's journal of numbered events (voice_diagnostics.c), the    *)
(* last error kept in NVS (voice_diagnostics_esp.c), the task that sends a *)
(* report of it when nothing is recorded or played                         *)
(* (voice_diag_delivery_esp.c and its policy), and the gateway's inbox,    *)
(* which takes a repeated report and refuses a different one under the     *)
(* same number (diagnostics/store.py).                                     *)
(*                                                                         *)
(* An event is its code; a report is the number of its making, because the *)
(* uptime and the heap in it make any two of them different.               *)
(***************************************************************************)
EXTENDS Integers, Sequences

CONSTANTS
  Capacity,   \* VOICE_DIAG_EVENT_CAPACITY
  Tries,      \* attempts of voice_diag_delivery_due
  Keep,       \* reports the gateway keeps of a device
  MaxTurns,   \* bounds the recordings
  MaxFaults   \* bounds power losses, failed writes and changes of the network

DiagnosticsAssumption ==
  /\ Capacity \in Nat \ {0} /\ Tries \in Nat \ {0} /\ Keep \in Nat \ {0}
  /\ MaxTurns \in Nat /\ MaxFaults \in Nat

VARIABLES
  app,       \* voice_state_t, error_reported, recordings so far
  diag,      \* last_error_code, session_error_set and the ring of events
  history,   \* every event since the start
  stored,    \* stored_code in RAM and last_error in NVS
  delivery,  \* delivery_task: revisions, attempts, report, place in the loop
  reports,   \* boot_id, sequence, reports made
  inbox,     \* device_diagnostics of the gateway, and whether it saw a conflict
  net,       \* the network
  faults

diagVars == <<app, diag, history, stored, delivery, reports, inbox, net, faults>>

Started == 1
Socket == 4
Completed == 8
Failed == 9
None == 0
Errors == {Socket, Failed}

Empty == [last |-> None, own |-> FALSE, head |-> 0, count |-> 0,
          slots |-> [i \in 0 .. Capacity - 1 |-> None]]
Delivery(requested) ==
  [pending |-> requested, active |-> 0, sent |-> 0, attempts |-> 0, report |-> 0, at |-> "look"]

Init ==
  /\ app = [state |-> "idle", reported |-> FALSE, turns |-> 0]
  /\ diag = Empty /\ history = << >>
  /\ stored = [ram |-> None, nvs |-> None]
  /\ delivery = Delivery(0)
  /\ reports = [boot |-> 0, sequence |-> 0, made |-> 0]
  /\ inbox = [kept |-> << >>, conflict |-> FALSE]
  /\ net = "good" /\ faults = 0

-----------------------------------------------------------------------------
(* The journal: add_event on the ring, voice_diag_snapshot.                *)
Advance_never(d) == d.head  \* mutant: a full ring keeps its head
Advance(d) == IF d.count = Capacity THEN (d.head + 1) % Capacity ELSE d.head

Added(d, code) ==
  [ last  |-> IF code \in Errors THEN code ELSE d.last,
    own   |-> d.own \/ code \in Errors,
    head  |-> Advance(d),
    count |-> IF d.count = Capacity THEN d.count ELSE d.count + 1,
    slots |-> [d.slots EXCEPT ![(d.head + d.count) % Capacity] = code] ]

Snapshot == [i \in 1 .. diag.count |-> diag.slots[(diag.head + i - 1) % Capacity]]

Log(d, code) == diag' = Added(d, code) /\ history' = Append(history, code)

(* The main loop: voice_diag_begin_recording, what the capture and the     *)
(* upload note, voice_diag_ensure_error on the way to ERROR,               *)
(* voice_diag_clear_current_error on the way to IDLE.                      *)
Begin ==
  /\ app.state = "idle" /\ app.turns < MaxTurns
  /\ app' = [app EXCEPT !.state = "turn", !.turns = @ + 1]
  /\ Log([diag EXCEPT !.own = FALSE], Started)
  /\ UNCHANGED <<stored, delivery, reports, inbox, net, faults>>

Note(code) ==
  /\ app.state = "turn" /\ app' = [app EXCEPT !.state = "noted"] /\ Log(diag, code)
  /\ UNCHANGED <<stored, delivery, reports, inbox, net, faults>>

Fail ==
  /\ app.state \in {"turn", "noted"} /\ app' = [app EXCEPT !.state = "error"]
  /\ IF ~diag.own THEN Log(diag, Failed) ELSE UNCHANGED <<diag, history>>
  /\ UNCHANGED <<stored, delivery, reports, inbox, net, faults>>

ToIdle ==
  /\ app.state \in {"turn", "noted"} \/ (app.state = "error" /\ app.reported)
  /\ app' = [app EXCEPT !.state = "idle", !.reported = FALSE]
  /\ diag' = [diag EXCEPT !.own = FALSE]
  /\ UNCHANGED <<history, stored, delivery, reports, inbox, net, faults>>

(* voice_main_loop on the first tick in ERROR: persist, then request.      *)
Report(written) ==
  /\ app.state = "error" /\ ~app.reported /\ app' = [app EXCEPT !.reported = TRUE]
  /\ stored' = IF diag.last = stored.ram \/ ~written THEN stored
               ELSE [ram |-> diag.last, nvs |-> diag.last]
  /\ delivery' = [delivery EXCEPT !.pending = @ + 1]
  /\ faults' = IF written THEN faults ELSE faults + 1
  /\ written \/ faults < MaxFaults
  /\ UNCHANGED <<diag, history, reports, inbox, net>>

-----------------------------------------------------------------------------
(* delivery_task: a new revision starts over; a report is made at the      *)
(* first try of its revision and posted again as it is.                    *)
Look(d) == [d EXCEPT !.active = d.pending, !.attempts = 0, !.report = 0]

Observe ==
  /\ delivery.at = "look" /\ delivery.pending # delivery.active
  /\ delivery' = Look(delivery)
  /\ UNCHANGED <<app, diag, history, stored, reports, inbox, net, faults>>

Quiet == app.state \in {"idle", "error"}
Due ==
  /\ delivery.active # 0 /\ delivery.active # delivery.sent /\ delivery.attempts < Tries
  /\ net # "down" /\ Quiet

Try ==
  /\ delivery.at = "look" /\ delivery.pending = delivery.active /\ Due
  /\ IF delivery.report # 0
       THEN delivery' = [delivery EXCEPT !.at = "post"] /\ UNCHANGED reports
       ELSE /\ reports' = [reports EXCEPT !.sequence = @ + 1, !.made = @ + 1]
            /\ delivery' = [delivery EXCEPT !.at = "post", !.report = reports'.made]
  /\ UNCHANGED <<app, diag, history, stored, inbox, net, faults>>

(* DiagnosticsStore.save.                                                  *)
Row == [boot |-> reports.boot, sequence |-> reports.sequence, body |-> delivery.report]
Same(a, b) == a.boot = b.boot /\ a.sequence = b.sequence
Old == {i \in DOMAIN inbox.kept : Same(inbox.kept[i], Row)}
Kept(s) == IF Len(s) > Keep THEN Tail(s) ELSE s

Saved ==
  IF Old = {} THEN [inbox EXCEPT !.kept = Kept(Append(@, Row))]
  ELSE [inbox EXCEPT !.conflict = @ \/ \E i \in Old : inbox.kept[i] # Row]

Tried(sent) ==
  [delivery EXCEPT !.at = "look", !.attempts = @ + 1, !.sent = IF sent THEN delivery.active ELSE @]

Post ==
  /\ delivery.at = "post"
  /\ \/ /\ net = "good" /\ inbox' = Saved /\ delivery' = Tried(~inbox'.conflict)
     \/ /\ net = "lossy" /\ inbox' \in {inbox, Saved} /\ delivery' = Tried(FALSE)
     \/ /\ net = "down" /\ UNCHANGED inbox /\ delivery' = Tried(FALSE)
  /\ UNCHANGED <<app, diag, history, stored, reports, net, faults>>

-----------------------------------------------------------------------------
(* voice_diag_load_last_error and the request of app_init.                 *)
Reboot ==
  /\ faults < MaxFaults /\ faults' = faults + 1
  /\ app' = [app EXCEPT !.state = "idle", !.reported = FALSE]
  /\ diag' = [Empty EXCEPT !.last = stored.nvs] /\ history' = << >>
  /\ stored' = [stored EXCEPT !.ram = stored.nvs]
  /\ delivery' = Delivery(IF stored.nvs = None THEN 0 ELSE 1)
  /\ reports' = [reports EXCEPT !.boot = @ + 1, !.sequence = 0]
  /\ UNCHANGED <<inbox, net>>

NetChanges ==
  /\ faults < MaxFaults /\ faults' = faults + 1
  /\ net' \in {"good", "lossy", "down"} \ {net}
  /\ UNCHANGED <<app, diag, history, stored, delivery, reports, inbox>>

App ==
  \/ Begin \/ Note(Socket) \/ Note(Completed) \/ Fail \/ ToIdle
  \/ Report(TRUE) \/ Report(FALSE)

Task == Observe \/ Try \/ Post

Next == App \/ Task \/ Reboot \/ NetChanges

Spec == Init /\ [][Next]_diagVars

(* Both tasks are scheduled; a turn and the ERROR screen end.              *)
Fairness == WF_diagVars(App) /\ WF_diagVars(Observe) /\ WF_diagVars(Post) /\ WF_diagVars(Try)

-----------------------------------------------------------------------------
TypeOK ==
  /\ app.state \in {"idle", "turn", "noted", "error"} /\ app.turns \in 0 .. MaxTurns
  /\ diag.last \in Errors \cup {None} /\ diag.head \in 0 .. Capacity - 1 /\ diag.count \in 0 .. Capacity
  /\ delivery.attempts \in 0 .. Tries /\ delivery.at \in {"look", "post"}
  /\ Len(inbox.kept) <= Keep

(* The error shown and reported is one of this recording, and the journal  *)
(* that goes with it is the end of what happened, in order, through any    *)
(* number of turns of the ring.                                            *)
JournalIsTrue ==
  /\ Snapshot = SubSeq(history, Len(history) - diag.count + 1, Len(history))
  /\ app.state = "error" =>
       \E i \in DOMAIN history :
         history[i] = diag.last /\ \A j \in i + 1 .. Len(history) : history[j] # Started

(* The gateway never meets two different reports under one number, which   *)
(* it would refuse: a retry sends the report it sent before.               *)
NoConflict == ~inbox.conflict

(* An error requested while the network works is reported, although the    *)
(* attempts of an earlier one were used up.                                *)
ErrorsAreTold ==
  (delivery.pending # delivery.active /\ [](net = "good")) ~> (delivery.sent = delivery.pending)

=============================================================================
