--------------------------- MODULE CaptivePortal ---------------------------
(***************************************************************************)
(* What makes a phone in the setup network open the setup page: the DHCP   *)
(* server has to tell it to ask the recorder for names, and the recorder's *)
(* DNS task answers every name with its own address (voice_captive_dns.c;  *)
(* the redirection of unknown paths by the web server is not part of it).  *)
(* voice_captive_dns_start runs in a scan's task, at each scan while the   *)
(* setup network is up: the DHCP server is stopped for the options and     *)
(* started again, and every call may fail.                                 *)
(*                                                                         *)
(* A packet is its header's fields and the bytes after them; a label has   *)
(* up to MaxLabel bytes.                                                   *)
(***************************************************************************)
EXTENDS Naturals, Sequences, FiniteSets

CONSTANTS
  MaxLabel,   \* 63 in the code
  Bytes,      \* values of a byte
  MaxBody,    \* bytes after the header, 500 in the code
  MaxPhones,  \* bounds the leases
  MaxCalls    \* bounds how often the portal is started

PortalAssumption ==
  MaxLabel \in Nat \ {0} /\ {0, 1} \subseteq Bytes /\ Bytes \subseteq Nat /\ MaxBody \in Nat /\ MaxPhones \in Nat
    /\ MaxCalls \in Nat

VARIABLES
  dhcp,     \* the server: running, the options it offers
  portal,   \* voice_captive_dns_start: where it is, what it found, its error
  task,     \* s_task: "none", "starting" (not bound to the port yet) or "serving"
  phones,   \* the leases given: what each phone was told
  asked,    \* the last query, and the answer to it
  history   \* calls so far, whether the server's start ever failed, whether the last call did

portalVars == <<dhcp, portal, task, phones, asked, history>>

Options == {"dns", "address", "uri"}
NoAnswer == [question |-> <<>>, answers |-> 0, address |-> "none", size |-> 0]
NoQuery == [packet |-> [response |-> TRUE, opcode |-> 0, questions |-> 0, body |-> <<>>], answer |-> NoAnswer]

Init ==
  /\ dhcp = [running |-> TRUE, options |-> {}]
  /\ portal = [pc |-> "idle", found |-> FALSE, err |-> FALSE]
  /\ task = "none" /\ phones = <<>> /\ asked = NoQuery
  /\ history = [calls |-> 0, startFailed |-> FALSE, clean |-> FALSE, bindFailed |-> FALSE]

-----------------------------------------------------------------------------
(* voice_captive_dns_start: nothing while the task is there; the options   *)
(* until one fails; the server started again if it ran; then the task.     *)
Restarts_onSuccess(p) == p.found /\ ~p.err  \* mutant: an option that fails leaves the server stopped
Restarts(p) == p.found

Start ==
  /\ portal.pc = "idle" /\ history.calls < MaxCalls
  /\ history' = [history EXCEPT !.calls = @ + 1, !.clean = TRUE]
  /\ portal' = IF task # "none" THEN portal ELSE [pc |-> "stop", found |-> dhcp.running, err |-> FALSE]
  /\ UNCHANGED <<dhcp, task, phones, asked>>

Fails == portal' = [portal EXCEPT !.pc = "idle"] /\ history' = [history EXCEPT !.clean = FALSE]

Stop ==
  /\ portal.pc = "stop"
  /\ \/ Fails /\ UNCHANGED dhcp
     \/ /\ portal' = [portal EXCEPT !.pc = "options"] /\ dhcp' = [dhcp EXCEPT !.running = FALSE]
        /\ UNCHANGED history
  /\ UNCHANGED <<task, phones, asked>>

SetOptions ==
  /\ portal.pc = "options"
  /\ \E set \in {{}, {"dns"}, {"dns", "address"}, Options} :
       /\ dhcp' = [dhcp EXCEPT !.options = @ \cup set]
       /\ portal' = [portal EXCEPT !.pc = "restart", !.err = set # Options]
       /\ history' = [history EXCEPT !.clean = set = Options]
  /\ UNCHANGED <<task, phones, asked>>

Restart ==
  /\ portal.pc = "restart"
  /\ IF ~Restarts(portal)
       THEN /\ portal' = [portal EXCEPT !.pc = IF portal.err THEN "idle" ELSE "task"]
            /\ UNCHANGED <<dhcp, history>>
       ELSE \/ /\ dhcp' = [dhcp EXCEPT !.running = TRUE]
               /\ portal' = [portal EXCEPT !.pc = IF portal.err THEN "idle" ELSE "task"]
               /\ UNCHANGED history
            \/ /\ portal' = [portal EXCEPT !.pc = "idle"]
               /\ history' = [history EXCEPT !.startFailed = TRUE, !.clean = FALSE]
               /\ UNCHANGED dhcp
  /\ UNCHANGED <<task, phones, asked>>

CreateTask ==
  /\ portal.pc = "task"
  /\ \/ Fails /\ UNCHANGED task
     \/ /\ task' = "starting" /\ portal' = [portal EXCEPT !.pc = "idle"]
        /\ history' = [history EXCEPT !.bindFailed = FALSE]
  /\ UNCHANGED <<dhcp, phones, asked>>

(* dns_task: without a socket on the port it ends, and the next start      *)
(* makes another one.                                                      *)
Bind ==
  /\ task = "starting"
  /\ \/ task' = "serving" /\ UNCHANGED history
     \/ task' = "none" /\ history' = [history EXCEPT !.bindFailed = TRUE]
  /\ UNCHANGED <<dhcp, portal, phones, asked>>

(* A phone asks for an address.                                            *)
Lease ==
  /\ dhcp.running /\ Len(phones) < MaxPhones
  /\ phones' = Append(phones, dhcp.options)
  /\ UNCHANGED <<dhcp, portal, task, asked, history>>

-----------------------------------------------------------------------------
(* dns_reply: the labels one after the other; 0 if a label is too long or  *)
(* leaves the packet.                                                      *)
RECURSIVE RootLabel(_, _)
RootLabel(b, i) ==
  CASE i > Len(b) -> 0
    [] i <= Len(b) /\ b[i] = 0 -> i
    [] OTHER -> IF b[i] > MaxLabel \/ i + b[i] >= Len(b) THEN 0 ELSE RootLabel(b, i + 1 + b[i])

QuestionEnd(p) == RootLabel(p.body, 1) + 4
Answers(p) ==
  /\ Len(p.body) >= 5 /\ ~p.response /\ p.opcode = 0 /\ p.questions = 1
  /\ RootLabel(p.body, 1) # 0 /\ QuestionEnd(p) <= Len(p.body)
IsA(p) == SubSeq(p.body, QuestionEnd(p) - 3, QuestionEnd(p)) = <<0, 1, 0, 1>>

dns_reply(p) ==
  [question |-> SubSeq(p.body, 1, QuestionEnd(p)), answers |-> IF IsA(p) THEN 1 ELSE 0,
   address |-> IF IsA(p) THEN "recorder" ELSE "none", size |-> 12 + QuestionEnd(p) + IF IsA(p) THEN 16 ELSE 0]

Bodies == UNION {[1 .. n -> Bytes] : n \in 0 .. MaxBody}
Questions == [response : {FALSE}, opcode : {0}, questions : {1}, body : Bodies]
Others ==
  [response : BOOLEAN, opcode : {0, 1}, questions : {0, 1, 2, 256}, body : {<<1, 1, 0, 0, 1, 0, 1>>}]

Query ==
  /\ task = "serving" /\ history.calls = 1 /\ phones = <<>>
  /\ \E p \in Questions \cup Others :
       asked' = [packet |-> p, answer |-> IF Answers(p) THEN dns_reply(p) ELSE NoAnswer]
  /\ UNCHANGED <<dhcp, portal, task, phones, history>>

(* One query is enough, at the first start, and is a behaviour's last step. *)
Next ==
  /\ asked = NoQuery
  /\ Start \/ Stop \/ SetOptions \/ Restart \/ CreateTask \/ Bind \/ Lease \/ Query

Spec == Init /\ [][Next]_portalVars

-----------------------------------------------------------------------------
TypeOK ==
  /\ dhcp.running \in BOOLEAN /\ dhcp.options \subseteq Options
  /\ portal.pc \in {"idle", "stop", "options", "restart", "task"} /\ task \in {"none", "starting", "serving"}
  /\ \A n \in DOMAIN phones : phones[n] \subseteq Options

(* Whatever option fails, phones get addresses again when the call is      *)
(* over, unless the server itself refused to start; a call in which        *)
(* nothing failed leaves every option set and a task to ask for names,     *)
(* unless the task got no port.                                            *)
PhonesAreServed ==
  portal.pc = "idle" =>
    /\ history.startFailed \/ dhcp.running
    /\ history.clean => (task # "none" \/ history.bindFailed) /\ dhcp.options = Options

(* The question of a packet by the format alone: the places where labels   *)
(* begin, of which each leads to the next.                                 *)
Named(b, n) ==
  /\ n \in DOMAIN b /\ b[n] = 0 /\ n + 4 <= Len(b)
  /\ \E starts \in SUBSET (1 .. n) :
       /\ {1, n} \subseteq starts
       /\ \A i \in starts \ {n} :
            /\ b[i] \in 1 .. MaxLabel /\ i + b[i] + 1 \in starts
            /\ starts \cap (i + 1 .. i + b[i]) = {}

(* A query is answered exactly when it holds one whole question, which is  *)
(* given back; and only who asks for an IPv4 address gets one.             *)
QueriesAreAnswered ==
  asked # NoQuery =>
    LET p == asked.packet
        ends == {n \in 1 .. Len(p.body) : Named(p.body, n)}
        good == ~p.response /\ p.opcode = 0 /\ p.questions = 1 /\ ends # {}
    IN  IF ~good THEN asked.answer = NoAnswer
        ELSE \A n \in ends :
               /\ asked.answer.question = SubSeq(p.body, 1, n + 4)
               /\ asked.answer.address = "recorder" <=> SubSeq(p.body, n + 1, n + 4) = <<0, 1, 0, 1>>
               /\ asked.answer.size <= 12 + Len(p.body) + 16

=============================================================================
