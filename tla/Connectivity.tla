---------------------------- MODULE Connectivity ----------------------------
(***************************************************************************)
(* How the recorder gets to its gateway: the Wi-Fi manager task            *)
(* (board_sticks3.c) that goes through the saved networks and opens the    *)
(* setup network when none answers, the setup portal's scan                *)
(* (voice_config_httpd.c), the clock and the readiness probe               *)
(* (voice_tls.c, voice_gateway_health.c).  Four tasks and the driver's     *)
(* events, which share flags without a lock.                               *)
(*                                                                         *)
(* A round of the manager is the unit of time; the 15 s of an attempt, the *)
(* 60 s before the setup network and the 15 s between probes are scaled.   *)
(***************************************************************************)
EXTENDS Integers, FiniteSets

CONSTANTS
  Count,       \* VOICE_WIFI_PROFILE_COUNT
  Attempt,     \* VOICE_WIFI_ATTEMPT_MS
  SetupDelay,  \* SETUP_AP_DELAY_MS
  MaxChanges   \* bounds what happens to the networks, and scans

ConnectivityAssumption ==
  /\ Count \in Nat \ {0} /\ Attempt \in Nat \ {0} /\ SetupDelay \in Nat /\ MaxChanges \in Nat

VARIABLES
  saved,     \* the profiles that name a network
  air,       \* saved networks in range, servers that answer, changes so far
  sta,       \* the driver: link, profile it is configured for
  connected, \* s_wifi_connected, as the events have it
  setup,     \* voice_wifi_setup_t, and s_manual_setup
  selector,  \* voice_wifi_selector_t
  manager,   \* where the manager is in its round
  scan,      \* wifi_scan_task: none, waiting for the radio, with it
  health     \* clock set, probe attempted, s_health_status

netVars == <<saved, air, sta, connected, setup, selector, manager, scan, health>>

Profiles == 0 .. Count - 1
Up(n, top) == IF n < top THEN n + 1 ELSE n

Init ==
  /\ saved \in SUBSET Profiles
  /\ air = [range |-> saved, servers |-> FALSE, changes |-> 0]
  /\ sta = [link |-> "off", profile |-> -1]
  /\ connected = FALSE
  /\ setup = [connected |-> FALSE, ap |-> saved = {}, away |-> 0, manual |-> FALSE]
  /\ selector = [current |-> -1, age |-> 0, connected |-> FALSE]
  /\ manager = "setup"
  /\ scan = "none"
  /\ health = [clock |-> FALSE, attempted |-> FALSE, status |-> 0]

-----------------------------------------------------------------------------
(* voice_config_httpd_setup_ap_started: one scan at a time.                *)
ScanAsked(s) == IF s = "none" THEN "wait" ELSE s

(* The first half of a round: voice_wifi_setup_set_connected, then the     *)
(* setup network comes or goes.  The driver may refuse the mode.           *)
Seen_always(s) == [s EXCEPT !.connected = connected, !.away = 0]  \* mutant: no early return
Seen(s) ==
  IF s.connected = connected THEN [s EXCEPT !.away = Up(@, SetupDelay)]
  ELSE [s EXCEPT !.connected = connected, !.away = 0]

Stops(s) == ~s.manual /\ s.ap /\ s.connected
Starts(s) == ~s.ap /\ (s.manual \/ (~s.connected /\ (saved = {} \/ s.away >= SetupDelay)))

SetupNetwork ==
  /\ manager = "setup" /\ manager' = "select"
  /\ LET s == Seen(setup)
     IN  \/ /\ Stops(s) /\ setup' = [s EXCEPT !.ap = FALSE] /\ UNCHANGED <<scan, air>>
         \/ /\ Starts(s) /\ setup' = [s EXCEPT !.ap = TRUE] /\ scan' = ScanAsked(scan) /\ UNCHANGED air
         \/ /\ ~Stops(s) /\ ~Starts(s) /\ setup' = s /\ UNCHANGED <<scan, air>>
         \/ /\ (Stops(s) \/ Starts(s)) /\ air.changes < MaxChanges
            /\ setup' = s /\ air' = [air EXCEPT !.changes = @ + 1] /\ UNCHANGED scan
  /\ UNCHANGED <<saved, sta, connected, selector, health>>

(* The second half: a scan owns the radio, else voice_wifi_selector_tick.  *)
(* An attempt at a network in range is over before its time is.            *)
Scanning == scan # "none"

NextProfile(c) ==
  LET ahead(p) == IF p > c THEN p - c ELSE p - c + Count
  IN  CHOOSE p \in saved : \A q \in saved : ahead(p) <= ahead(q)

InTime ==
  ~( /\ sta.link = "up" \/ (sta.link = "joining" /\ sta.profile \in air.range)
     /\ ~connected /\ selector.age + 1 >= Attempt )

Select ==
  /\ manager = "select" /\ InTime
  /\ IF Scanning
       THEN selector' = [selector EXCEPT !.age = 0] /\ manager' = "setup"
     ELSE IF connected
       THEN selector' = [selector EXCEPT !.connected = TRUE] /\ manager' = "setup"
     ELSE IF selector.connected
       THEN selector' = [selector EXCEPT !.connected = FALSE, !.age = 0] /\ manager' = "connect"
     ELSE IF saved = {} \/ (selector.current >= 0 /\ selector.age + 1 < Attempt)
       THEN selector' = [selector EXCEPT !.age = Up(@, Attempt)] /\ manager' = "setup"
     ELSE selector' = [selector EXCEPT !.current = NextProfile(@), !.age = 0] /\ manager' = "connect"
  /\ UNCHANGED <<saved, air, sta, connected, setup, scan, health>>

Connect ==
  /\ manager = "connect" /\ manager' = "setup"
  /\ sta' = [link |-> "joining", profile |-> selector.current]
  /\ UNCHANGED <<saved, air, connected, setup, selector, scan, health>>

-----------------------------------------------------------------------------
(* The driver, and the handler of its events.                              *)
Join ==
  /\ sta.link = "joining" /\ scan # "radio"
  /\ sta' = [sta EXCEPT !.link = IF sta.profile \in air.range THEN "up" ELSE "off"]
  /\ UNCHANGED <<saved, air, connected, setup, selector, manager, scan, health>>

wifi_event_handler ==
  /\ connected # (sta.link = "up") /\ connected' = ~connected
  /\ UNCHANGED <<saved, air, sta, setup, selector, manager, scan, health>>

(* wifi_scan_task.  Its 500 ms are longer than a round of the manager that *)
(* had looked before the scan was asked for.                               *)
ScanBegins ==
  /\ scan = "wait" /\ manager # "connect"
  /\ scan' = "radio"
  /\ sta' = IF sta.link = "up" THEN sta ELSE [sta EXCEPT !.link = "off"]
  /\ UNCHANGED <<saved, air, connected, setup, selector, manager, health>>

(* The networks found, or an error: no task, a mode without a station, the *)
(* driver, fifteen seconds.                                                *)
ScanEnds ==
  /\ scan # "none" /\ scan' = "none"
  /\ UNCHANGED <<saved, air, sta, connected, setup, selector, manager, health>>

h_wifi_scan ==
  /\ air.changes < MaxChanges /\ air' = [air EXCEPT !.changes = @ + 1]
  /\ scan' = ScanAsked(scan)
  /\ UNCHANGED <<saved, sta, connected, setup, selector, manager, health>>

-----------------------------------------------------------------------------
(* health_task: the clock, then a probe when one is due; and               *)
(* voice_gateway_health_status, which other tasks call.                    *)
Status == IF ~connected THEN 0 ELSE IF ~health.clock THEN -2 ELSE health.status

HealthRound ==
  /\ health' = IF ~connected THEN [health EXCEPT !.attempted = FALSE, !.status = 0]
               ELSE IF ~health.clock THEN [health EXCEPT !.attempted = FALSE, !.status = -2]
               ELSE [health EXCEPT !.attempted = TRUE, !.status = IF air.servers THEN 200 ELSE 503]
  /\ UNCHANGED <<saved, air, sta, connected, setup, selector, manager, scan>>

ClockSet ==
  /\ health.status = -2 /\ ~health.clock /\ sta.link = "up"
  /\ health' = [health EXCEPT !.clock = TRUE]
  /\ UNCHANGED <<saved, air, sta, connected, setup, selector, manager, scan>>

-----------------------------------------------------------------------------
(* The world: networks come and go, a link breaks, servers answer from     *)
(* some time on; the long press of KEY2 opens the portal for five minutes. *)
World ==
  /\ air.changes < MaxChanges
  /\ \/ \E n \in saved :
          /\ air' = [air EXCEPT !.range = IF n \in @ THEN @ \ {n} ELSE @ \cup {n}, !.changes = @ + 1]
          /\ sta' = (IF sta.profile = n THEN [sta EXCEPT !.link = "off"] ELSE sta)
          /\ UNCHANGED setup
     \/ /\ setup' = [setup EXCEPT !.manual = ~@] /\ air' = [air EXCEPT !.changes = @ + 1]
        /\ UNCHANGED sta
     \/ /\ sta.link = "up" /\ sta' = [sta EXCEPT !.link = "off"]
        /\ air' = [air EXCEPT !.changes = @ + 1] /\ UNCHANGED setup
  /\ UNCHANGED <<saved, connected, selector, manager, scan, health>>

ServersUp ==
  /\ ~air.servers /\ air' = [air EXCEPT !.servers = TRUE]
  /\ UNCHANGED <<saved, sta, connected, setup, selector, manager, scan, health>>

Manager == SetupNetwork \/ Select \/ Connect

Next ==
  \/ Manager \/ Join \/ wifi_event_handler
  \/ ScanBegins \/ ScanEnds \/ h_wifi_scan
  \/ HealthRound \/ ClockSet \/ World \/ ServersUp

Spec == Init /\ [][Next]_netVars

(* The tasks run on, the driver answers, a scan ends.                      *)
Fairness ==
  /\ WF_netVars(Manager) /\ WF_netVars(Join) /\ WF_netVars(wifi_event_handler)
  /\ WF_netVars(ScanBegins \/ ScanEnds) /\ WF_netVars(HealthRound) /\ WF_netVars(ClockSet)

-----------------------------------------------------------------------------
TypeOK ==
  /\ saved \subseteq Profiles /\ air.range \subseteq saved /\ air.changes \in 0 .. MaxChanges
  /\ sta.link \in {"off", "joining", "up"} /\ sta.profile \in Profiles \cup {-1}
  /\ selector.current \in saved \cup {-1} /\ selector.age \in 0 .. Attempt
  /\ setup.away \in 0 .. SetupDelay
  /\ scan \in {"none", "wait", "radio"} /\ health.status \in {-2, 0, 200, 503}

(* While a scan has the radio the manager does not begin a connection, and *)
(* none is in progress.                                                    *)
ScanUndisturbed == scan = "radio" => manager # "connect" /\ sta.link # "joining"

(* With a saved network that stays in range and servers that answer, the   *)
(* recorder gets ready and stays so, in whatever order its networks went   *)
(* and came, links broke and scans ran.                                    *)
GetsReady ==
  (\E n \in Profiles : <>[](n \in air.range)) /\ <>[]air.servers => <>[](Status = 200)

(* A recorder that stays without a connection can be set up; one that      *)
(* stays connected does not keep its open network.                         *)
SetupFollows ==
  /\ <>[](~connected) => <>[]setup.ap
  /\ <>[](connected /\ ~setup.manual) => <>[](~setup.ap)

=============================================================================
