----------------------------- MODULE SetupServer -----------------------------
(***************************************************************************)
(* The recorder's web server: whom it serves (allow_setup_client and       *)
(* voice_setup_access.c), how a page comes by the list of networks while   *)
(* others ask for scans of their own (voice_config_httpd.c), and the name  *)
(* and services it is announced by (voice_mdns.c).                         *)
(*                                                                         *)
(* Four tasks meet at s_scan_running, which is atomic, and at the cached   *)
(* list with s_scan_ready, which a mutex protects: the server, with one    *)
(* request at a time, the task that started it, the Wi-Fi manager and the  *)
(* scan.  What is in a list is told in ScanList; it may be an empty one.   *)
(***************************************************************************)
EXTENDS Naturals, Sequences, FiniteSets, Bitwise

CONSTANTS
  Bits,      \* of an IPv4 address
  Peers,     \* addresses that sockets have: [family, address]
  Networks   \* what each interface gets: [ip, host], host being the bits of a host

ServerAssumption ==
  /\ Bits \in Nat
  /\ Peers \subseteq [family : {"ipv4", "mapped", "ipv6"}, address : 0 .. 2 ^ Bits - 1]
  /\ Networks \in [{"WIFI_AP_DEF", "WIFI_STA_DEF"} -> [ip : 1 .. 2 ^ Bits - 1, host : 0 .. Bits - 1]]

VARIABLES
  announced, \* what mdns answers for
  nets,      \* the two interfaces, with their addresses
  scan,      \* s_scan_running, s_scan_ready, and wifi_scan_task
  asker,     \* where the other two callers are: "main" starts the server, "manager" the setup network
  page       \* the request that is served, and what the last list said

serverVars == <<announced, nets, scan, asker, page>>

Down == [ip |-> 0, host |-> 0]
Nobody == [family |-> "ipv6", address |-> 0]

Init ==
  /\ announced = {}
  /\ nets = [i \in DOMAIN Networks |-> Down]
  /\ scan = [running |-> FALSE, ready |-> FALSE, task |-> "none"]
  /\ asker = [main |-> "start", manager |-> "asked"]
  /\ page = [pc |-> "idle", peer |-> Nobody, got |-> "none"]

Up == asker.main # "start" /\ asker.main # "down"  \* s_server

-----------------------------------------------------------------------------
(* voice_setup_ipv4_allowed, and the two interfaces it is asked for.       *)
Netmask(net) == 2 ^ Bits - 2 ^ net.host
ipv4_allowed(peer, net) ==
  /\ peer.family \in {"ipv4", "mapped"}
  /\ peer.address & Netmask(net) = net.ip & Netmask(net)

allow_setup_client(peer) == \E i \in DOMAIN nets : nets[i].ip # 0 /\ ipv4_allowed(peer, nets[i])

NetChanges ==
  /\ \E i \in DOMAIN nets : nets' = [nets EXCEPT ![i] = IF @ = Down THEN Networks[i] ELSE Down]
  /\ UNCHANGED <<announced, scan, asker, page>>

-----------------------------------------------------------------------------
(* voice_config_httpd_setup_ap_started, step by step for the caller that   *)
(* is at pc in it and goes on at "asked".                                  *)
Asked(pc, next) ==
  \/ /\ pc = "ask" /\ scan.running /\ next = "asked" /\ UNCHANGED scan
  \/ /\ pc = "ask" /\ ~scan.running /\ next = "own" /\ scan' = [scan EXCEPT !.running = TRUE]
  \/ /\ pc = "own" /\ next = "create" /\ scan' = [scan EXCEPT !.ready = FALSE]
  \/ /\ pc = "create" /\ next = "asked" /\ scan' = [scan EXCEPT !.task = "scans"]
  \/ /\ pc = "create" /\ next = "failed" /\ scan' = [scan EXCEPT !.running = FALSE]
  \/ /\ pc = "failed" /\ next = "asked" /\ scan' = [scan EXCEPT !.ready = TRUE]

Steps == {"own", "create", "failed", "asked"}
AskerAsks ==
  /\ \E a \in DOMAIN asker, next \in Steps :
       Asked(asker[a], next) /\ asker' = [asker EXCEPT ![a] = next]
  /\ UNCHANGED <<announced, nets, page>>

(* The end of wifi_scan_task.                                              *)
ScanPublishes ==
  /\ scan.task = "scans"
  /\ scan' = [scan EXCEPT !.ready = TRUE, !.task = "published"]
  /\ UNCHANGED <<announced, nets, asker, page>>

ScanEnds ==
  /\ scan.task = "published"
  /\ scan' = [scan EXCEPT !.running = FALSE, !.task = "none"]
  /\ UNCHANGED <<announced, nets, asker, page>>

(* The manager opened the setup network.                                   *)
SetupNetwork ==
  /\ Up /\ asker.manager = "asked"
  /\ asker' = [asker EXCEPT !.manager = "ask"]
  /\ UNCHANGED <<announced, nets, scan, page>>

-----------------------------------------------------------------------------
(* voice_mdns_start: the address, the responder, two names, two services,  *)
(* one call after the other; one that fails takes back those before it.    *)
Calls == <<"address", "responder", "hostname", "instance", "_zateya", "_http">>
voice_mdns_start(failing) == IF failing <= Len(Calls) THEN {} ELSE {Calls[n] : n \in 2 .. Len(Calls)}

(* voice_config_httpd_start, once: without a mutex or a server nothing is  *)
(* served until the next restart.                                          *)
Starts ==
  /\ asker.main = "start"
  /\ \E next \in {"down", "ask", "asked"} : asker' = [asker EXCEPT !.main = next]
  /\ UNCHANGED <<announced, nets, scan, page>>

Announces ==
  /\ asker.main = "asked"
  /\ \E failing \in 1 .. Len(Calls) + 1 : announced' = voice_mdns_start(failing)
  /\ asker' = [asker EXCEPT !.main = "done"]
  /\ UNCHANGED <<nets, scan, page>>

-----------------------------------------------------------------------------
(* scanWifi, the script of the page: with refresh=1 for the button, which  *)
(* asks for a scan first, without it at the start and, every second, after *)
(* an answer that was only a placeholder.                                  *)
scanWifi == {"ask", "copy"}

(* A request: who is not allowed gets 403; the other pages have nothing to *)
(* wait for.                                                               *)
Request ==
  /\ Up /\ page.pc = "idle"
  /\ \E peer \in Peers, next \in {"answered"} \cup scanWifi :
       page' = [peer |-> peer, got |-> "none", pc |-> IF allow_setup_client(peer) THEN next ELSE "refused"]
  /\ UNCHANGED <<announced, nets, scan, asker>>

Answered ==
  /\ page.pc \in {"answered", "refused"}
  /\ page' = [page EXCEPT !.pc = "idle", !.peer = Nobody]
  /\ UNCHANGED <<announced, nets, scan, asker>>

(* h_wifi_scan: refresh, if asked for; the copy; and, if that was only a   *)
(* placeholder, a scan, before it is sent.                                 *)
PageAsks ==
  /\ \E next \in Steps :
       /\ Asked(page.pc, next)
       /\ page' = [page EXCEPT !.peer = Nobody,
                              !.pc = IF next # "asked" THEN next ELSE IF page.got = "none" THEN "copy" ELSE "answered"]
  /\ UNCHANGED <<announced, nets, asker>>

h_wifi_scan ==
  /\ page.pc = "copy"
  /\ page' = [pc |-> IF scan.ready THEN "answered" ELSE "ask", peer |-> Nobody,
              got |-> IF scan.ready THEN "list" ELSE "scanning"]
  /\ UNCHANGED <<announced, nets, scan, asker>>

Next ==
  \/ NetChanges \/ AskerAsks \/ ScanPublishes \/ ScanEnds \/ SetupNetwork
  \/ Starts \/ Announces \/ Request \/ Answered \/ PageAsks \/ h_wifi_scan

Spec == Init /\ [][Next]_serverVars

-----------------------------------------------------------------------------
TypeOK ==
  /\ announced \in {{}, {Calls[n] : n \in 2 .. Len(Calls)}}
  /\ \A i \in DOMAIN nets : nets[i] \in {Networks[i], Down}
  /\ scan \in [running : BOOLEAN, ready : BOOLEAN,
               task : {"none", "scans", "published"}]
  /\ asker.main \in Steps \cup {"start", "down", "ask", "done"} /\ asker.manager \in Steps \cup {"ask"}
  /\ page.pc \in Steps \cup {"idle", "ask", "copy", "answered", "refused"} /\ page.peer \in Peers \cup {Nobody}
  /\ page.got \in {"none", "scanning", "list"}

(* A page that was told to wait for a list does not wait for ever: a scan  *)
(* runs, or the next request gets a list.  Nobody starts a second scan     *)
(* beside the first, whoever asks meanwhile and whichever task cannot be   *)
(* created.                                                                *)
Owners == {a \in DOMAIN asker : asker[a] \in {"own", "create"}} \cup
  (IF page.pc \in {"own", "create"} THEN {"page"} ELSE {}) \cup (IF scan.task # "none" THEN {"task"} ELSE {})

ListsCome ==
  /\ page.pc = "idle" /\ page.got = "scanning" =>
       scan.running \/ scan.ready \/ \E a \in DOMAIN asker : asker[a] = "failed"
  /\ scan.running <=> Owners # {}
  /\ Cardinality(Owners) <= 1

(* The pages are served to the networks that the recorder is in, by their  *)
(* first bits, also when the socket maps IPv4 to IPv6, and to nobody else. *)
Local(peer) ==
  /\ peer.family # "ipv6"
  /\ \E i \in DOMAIN nets : LET size == 2 ^ nets[i].host
                           IN nets[i] # Down /\ peer.address \div size = nets[i].ip \div size

ServedIsLocal ==
  [][page.pc = "idle" /\ page'.pc # "idle" => (page'.pc # "refused" <=> Local(page'.peer))]_serverVars
=============================================================================
