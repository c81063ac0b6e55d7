----------------------------- MODULE SetupPage -----------------------------
(***************************************************************************)
(* The setup page that the recorder serves (the script in k_html of        *)
(* voice_config_httpd.c), open in several browsers, and the form that      *)
(* comes back (voice_config_form.c).  Passwords never leave the recorder:  *)
(* a page learns that there is one, and a slot that is sent without one    *)
(* keeps it.  A page knows the recorder as it was when the page was        *)
(* loaded; its requests and their answers may be lost, and it asks again.  *)
(*                                                                         *)
(* The slots of the networks are 1 .. Slots.  A password is named by the   *)
(* network that it opens; the user types the right one or none.  The       *)
(* server's address and its token, which the page takes only together,     *)
(* are one version number, 0 while there is none.                          *)
(***************************************************************************)
EXTENDS Naturals, FiniteSets

CONSTANTS
  Pages, Ssids, None,
  Devices,    \* settings that the recorder may have at first
  Slots,      \* five in the code
  MaxEdits,   \* bounds what is typed
  MaxServers, \* bounds the addresses that are typed
  MaxLoads,   \* bounds how often pages are loaded
  MaxFaults   \* bounds lost requests and answers

PageAssumption ==
  /\ None \notin Ssids /\ Slots \in Nat \ {0}
  /\ MaxEdits \in Nat /\ MaxServers \in Nat /\ MaxLoads \in Nat /\ MaxFaults \in Nat

VARIABLES
  device,  \* the networks and the server that the recorder has
  page,    \* the variables of each page's script
  editor,  \* each page's editor of one network, None while hidden
  touched, \* the slots edited on each page since it was loaded
  limits   \* loads, edits and faults so far

pageVars == <<device, page, editor, touched, limits>>

Slot == 1 .. Slots
NoNetwork == [ssid |-> None, pw |-> None]
Unnamed == [ssid |-> None, pw |-> None, open |-> FALSE]
Blank == [saved |-> [i \in Slot |-> NoNetwork], list |-> [i \in Slot |-> Unnamed],
          hasServer |-> FALSE, server |-> 0, sent |-> None, saving |-> FALSE, pc |-> "unloaded"]

NoSettings == [wifi |-> [i \in Slot |-> NoNetwork], server |-> 0]

(* voice_settings_valid and voice_wifi_profiles_valid.                     *)
Valid(d) ==
  /\ d.server # 0
  /\ \E i \in Slot : d.wifi[i].ssid # None
  /\ \A i, j \in Slot : i # j /\ d.wifi[i].ssid # None => d.wifi[i].ssid # d.wifi[j].ssid

(* A recorder has no settings, or valid ones.                              *)
Networks == {NoNetwork} \cup [ssid : Ssids, pw : {None}] \cup {[ssid |-> s, pw |-> s] : s \in Ssids}
DevicesAssumption ==
  \A d \in Devices : d = NoSettings \/ (Valid(d) /\ d.server = 1 /\ \A i \in Slot : d.wifi[i] \in Networks)

Init ==
  /\ device \in Devices
  /\ page = [p \in Pages |-> Blank]
  /\ editor = [p \in Pages |-> None]
  /\ touched = [p \in Pages |-> {}]
  /\ limits = [loads |-> 0, edits |-> 0, faults |-> 0]

-----------------------------------------------------------------------------
(* load: h_config_get gives each slot's name and whether it has a          *)
(* password, which `saved' keeps as the password itself: the script looks  *)
(* no closer than at its presence.  A reload forgets all that was typed.   *)
IsOpen(n) == n.ssid # None /\ n.pw = None

Load(p) ==
  /\ limits.loads < MaxLoads
  /\ limits' = [limits EXCEPT !.loads = @ + 1]
  /\ page' = [page EXCEPT ![p] = [Blank EXCEPT
       !.saved = device.wifi, !.hasServer = device.server # 0, !.pc = "ready",
       !.list = [i \in Slot |-> [ssid |-> device.wifi[i].ssid, pw |-> None, open |-> IsOpen(device.wifi[i])]]]]
  /\ editor' = [editor EXCEPT ![p] = None]
  /\ touched' = [touched EXCEPT ![p] = {}]
  /\ UNCHANGED device

(* editWifi, of a network in the list or of another one (index 0), and     *)
(* what the user types into the form: a password that was typed before is  *)
(* still there while the name is.                                          *)
Loaded(p) == page[p].pc # "unloaded"
Edits == limits.edits < MaxEdits
SlotsOf(p, s) == {i \in Slot : page[p].list[i].ssid = s}

editWifi(p, index, s, pw, open) ==
  /\ Loaded(p) /\ editor[p] = None /\ Edits
  /\ index # 0 => page[p].list[index].ssid # None
  /\ editor' = [editor EXCEPT ![p] = [index |-> index, ssid |-> s, pw |-> pw, open |-> open]]
  /\ limits' = [limits EXCEPT !.edits = @ + 1]
  /\ UNCHANGED <<device, page, touched>>

closeWifi(p) ==
  /\ editor[p] # None
  /\ editor' = [editor EXCEPT ![p] = None]
  /\ UNCHANGED <<device, page, touched, limits>>

(* applyWifi: one name once, the slot of the network or the first free     *)
(* one, and no empty password but for an open network or one whose saved   *)
(* password stays.                                                         *)
FreeSlot(p) == CHOOSE i \in SlotsOf(p, None) : \A j \in SlotsOf(p, None) : i <= j
Retains(p, i, s) == page[p].saved[i].ssid = s /\ page[p].saved[i].pw # None

Applies(p, e, i) ==
  /\ SlotsOf(p, e.ssid) \subseteq {e.index}
  /\ IF e.index = 0 THEN SlotsOf(p, None) # {} /\ i = FreeSlot(p) ELSE i = e.index
  /\ e.open \/ e.pw # None \/ Retains(p, i, e.ssid)

Applied(p, e, i) ==
  [page[p].list EXCEPT ![i] = [ssid |-> e.ssid, pw |-> IF e.open THEN None ELSE e.pw, open |-> e.open]]

applyWifi(p) ==
  /\ editor[p] # None
  /\ \E i \in Slot :
       /\ Applies(p, editor[p], i)
       /\ page' = [page EXCEPT ![p].list = Applied(p, editor[p], i)]
       /\ touched' = [touched EXCEPT ![p] = @ \cup {i}]
  /\ editor' = [editor EXCEPT ![p] = None]
  /\ UNCHANGED <<device, limits>>

removeWifi(p) ==
  /\ editor[p] # None /\ editor[p].index # 0
  /\ page' = [page EXCEPT ![p].list[editor[p].index] = Unnamed]
  /\ touched' = [touched EXCEPT ![p] = @ \cup {editor[p].index}]
  /\ editor' = [editor EXCEPT ![p] = None]
  /\ UNCHANGED <<device, limits>>

(* The user types the address and the token of a new server.               *)
TypeServer(p) ==
  /\ Loaded(p) /\ Edits
  /\ device.server < MaxServers /\ page' = [page EXCEPT ![p].server = device.server + 1]
  /\ limits' = [limits EXCEPT !.edits = @ + 1]
  /\ UNCHANGED <<device, editor, touched>>

(* saveCfg: an open editor is applied first, the form is made of the list  *)
(* as it is, and no second one is sent before an answer that refuses it.   *)
saveCfg(p) ==
  /\ Loaded(p) /\ ~page[p].saving
  /\ page[p].server # 0 \/ page[p].hasServer
  /\ \E i \in Slot, list \in {page[p].list} \cup {Applied(p, editor[p], j) : j \in {k \in Slot : editor[p] # None}} :
       /\ IF editor[p] = None THEN i = 1 /\ list = page[p].list
          ELSE Applies(p, editor[p], i) /\ list = Applied(p, editor[p], i)
       /\ \E j \in Slot : list[j].ssid # None
       /\ page' = [page EXCEPT ![p].list = list, ![p].saving = TRUE, ![p].pc = "request",
                               ![p].sent = [wifi |-> list, server |-> page[p].server]]
       /\ touched' = IF editor[p] = None THEN touched ELSE [touched EXCEPT ![p] = @ \cup {i}]
  /\ editor' = [editor EXCEPT ![p] = None]
  /\ UNCHANGED <<device, limits>>

-----------------------------------------------------------------------------
(* voice_config_parse_form, in a copy of the settings: a slot without a    *)
(* name or marked open loses its password, a slot that gets another name   *)
(* needs one; then what is left has to be valid.                           *)
Slotted(n, s) ==
  [ssid |-> s.ssid,
   pw |-> IF s.ssid = None \/ s.open THEN None ELSE IF s.pw # None THEN s.pw ELSE n.pw]

Named_any(n, s) == TRUE  \* mutant: a renamed network keeps the password
Named(n, s) == s.ssid = None \/ s.open \/ s.ssid = n.ssid \/ s.pw # None

Form(d, form) ==
  [wifi |-> [i \in Slot |-> Slotted(d.wifi[i], form.wifi[i])],
   server |-> IF form.server = 0 THEN d.server ELSE form.server]

Accepted(d, form) ==
  /\ \A i \in Slot : Named(d.wifi[i], form.wifi[i])
  /\ Valid(Form(d, form))

(* h_config_post: saved, answered, restarted; or refused.                  *)
h_config_post(p) ==
  /\ page[p].pc = "request"
  /\ LET ok == Accepted(device, page[p].sent)
     IN  /\ device' = IF ok THEN Form(device, page[p].sent) ELSE device
         /\ page' = [page EXCEPT ![p].pc = IF ok THEN "202" ELSE "400"]
  /\ UNCHANGED <<editor, touched, limits>>

(* The request or its answer is lost: fetch fails.                         *)
Lost(p) ==
  /\ page[p].pc \in {"request", "202", "400"} /\ limits.faults < MaxFaults
  /\ page' = [page EXCEPT ![p].pc = "400"]
  /\ limits' = [limits EXCEPT !.faults = @ + 1]
  /\ UNCHANGED <<device, editor, touched>>

(* saveCfg goes on: after an answer that accepts the form the page forgets *)
(* what was typed, and saves no more before it is loaded again.            *)
Answered(p) ==
  /\ page[p].pc \in {"202", "400"}
  /\ page' = [page EXCEPT ![p] =
       IF page[p].pc = "400" THEN [@ EXCEPT !.saving = FALSE, !.pc = "ready", !.sent = None]
       ELSE [@ EXCEPT !.server = 0, !.sent = None, !.pc = "saved", !.list = [i \in Slot |-> [@[i] EXCEPT !.pw = None]]]]
  /\ UNCHANGED <<device, editor, touched, limits>>

(* resetCfg and h_config_reset: the answer may be lost, and the user asks  *)
(* again.                                                                  *)
resetCfg(p) ==
  /\ Loaded(p) /\ device.server # 0 /\ limits.faults < MaxFaults
  /\ device' = NoSettings
  /\ limits' = [limits EXCEPT !.faults = @ + 1]
  /\ UNCHANGED <<page, editor, touched>>

PageStep(p) ==
  \/ Load(p) \/ closeWifi(p) \/ applyWifi(p) \/ removeWifi(p) \/ TypeServer(p) \/ saveCfg(p)
  \/ h_config_post(p) \/ Lost(p) \/ Answered(p) \/ resetCfg(p)
  \/ \E index \in 0 .. Slots, s \in Ssids, open \in BOOLEAN :
       \E pw \in IF open THEN {None} ELSE {None, s} : editWifi(p, index, s, pw, open)

Next == \E p \in Pages : PageStep(p)

Spec == Init /\ [][Next]_pageVars

-----------------------------------------------------------------------------
Network == [ssid : Ssids \cup {None}, pw : Ssids \cup {None}]
TypeOK ==
  /\ device.server \in 0 .. MaxServers /\ \A i \in Slot : device.wifi[i] \in Network
  /\ \A p \in Pages :
       /\ page[p].pc \in {"unloaded", "ready", "request", "202", "400", "saved"}
       /\ page[p].saving \in BOOLEAN /\ page[p].server \in 0 .. MaxServers
       /\ \A i \in Slot :
            page[p].list[i] \in [ssid : Ssids \cup {None}, pw : Ssids \cup {None}, open : BOOLEAN]
       /\ editor[p] # None => editor[p].index \in 0 .. Slots

(* A network that is renamed, moved to another slot or saved from a page   *)
(* that no longer knows the recorder never gets the password of another    *)
(* one, and a password is gone only where the form says open or removed.   *)
PasswordsBelong == \A i \in Slot : device.wifi[i].pw \in {None, device.wifi[i].ssid}

(* A form that was accepted and is sent again, because its answer was      *)
(* lost, is accepted again and changes nothing.                            *)
Retriable ==
  \A p \in Pages : page[p].pc = "request" /\ Accepted(device, page[p].sent) =>
    LET d == Form(device, page[p].sent) IN Accepted(d, page[p].sent) /\ Form(d, page[p].sent) = d

(* A save leaves every slot alone that its page did not edit, as long as   *)
(* the recorder has in it what it had when the page was loaded: no         *)
(* password is lost by leaving its field empty.                            *)
UntouchedIsKept ==
  [][\A p \in Pages, i \in Slot :
       page[p].pc = "request" /\ page'[p].pc = "202" /\ i \notin touched[p]
         /\ device.wifi[i] = page[p].saved[i]
         => device'.wifi[i] = device.wifi[i]]_pageVars

=============================================================================
