----------------------------- MODULE PowerSleep -----------------------------
(***************************************************************************)
(* Sleep on battery and the second key: board_sticks3_power_tick, which    *)
(* the main loop calls in every round, with power_policy.c, the portal's   *)
(* key (voice_wifi_profiles.c) and the brightness key                      *)
(* (screen_brightness.c).  The way into deep sleep is a row of PMIC        *)
(* accesses; a cable may be plugged in, a key pressed, a delivery begun    *)
(* between any two of them, and each may fail.  Deep sleep ends in a boot. *)
(*                                                                         *)
(* A round is the unit of time; the debounce, the three seconds of a long  *)
(* press, the portal's five minutes and the sleep timeout are scaled.      *)
(***************************************************************************)
EXTENDS Naturals, FiniteSets

CONSTANTS
  Timeout,    \* sleep_timeout_seconds
  Debounce,   \* of the brightness key
  LongPress,  \* KEY2 held opens the portal; shorter ones dim the screen
  PortalTime, \* the portal stays open
  MaxFaults   \* bounds failed PMIC accesses

TimesAssumption ==
  /\ Timeout \in Nat \ {0} /\ Debounce \in Nat \ {0} /\ PortalTime \in Nat \ {0}
  /\ LongPress \in Nat /\ LongPress > Debounce /\ MaxFaults \in Nat

VARIABLES
  at,         \* where power_tick is, or "asleep"
  env,        \* cable, key1, key2
  irq,        \* the PMIC's insertion interrupt: armed, latched
  busy,       \* the main loop's work, delivery, search (grace and boot hold)
  policy,     \* power_policy_t: tracking, rounds since idle_since_ms
  dimmer,     \* screen_brightness_t
  portal,     \* voice_wifi_portal_t
  screen,     \* the backlight is on
  faults,     \* failed accesses so far
  since,      \* rounds since the recorder last had work (history)
  did         \* what the present press of KEY2 has done (history)

powerVars == <<at, env, irq, busy, policy, dimmer, portal, screen, faults, since, did>>

Longest == LongPress + Debounce
Up(n, top) == IF n < top THEN n + 1 ELSE n

NoDimmer == [known |-> FALSE, raw |-> FALSE, down |-> FALSE, changed |-> 0, pressed |-> 0, armed |-> FALSE]
NoPortal == [held |-> FALSE, fired |-> FALSE, active |-> FALSE, since |-> 0, open |-> 0]

Init ==
  /\ at = "loop" /\ screen = TRUE /\ faults = 0 /\ since = 0 /\ did = {}
  /\ env = [cable |-> TRUE, key1 |-> FALSE, key2 |-> FALSE]
  /\ irq = [armed |-> FALSE, latched |-> FALSE]
  /\ busy = [main |-> FALSE, delivery |-> FALSE, search |-> TRUE]
  /\ policy = [tracking |-> FALSE, idle |-> 0]
  /\ dimmer = NoDimmer /\ portal = NoPortal

-----------------------------------------------------------------------------
(* screen_brightness_tick and voice_wifi_portal_tick, on KEY2.             *)
Short(d) == d.armed /\ d.pressed - d.changed < LongPress

DimmerTick(d, down) ==
  LET raw == IF d.raw = down THEN [d EXCEPT !.changed = Up(@, Debounce)]
             ELSE [d EXCEPT !.raw = down, !.changed = 0]
      aged == IF d.armed THEN [raw EXCEPT !.pressed = Up(@, Longest)] ELSE raw
      settled == d.down # down /\ aged.changed >= Debounce
  IN  IF ~d.known
        THEN [level |-> FALSE, d |-> [NoDimmer EXCEPT !.known = TRUE, !.raw = down, !.down = down]]
      ELSE IF ~settled THEN [level |-> FALSE, d |-> aged]
      ELSE IF down
        THEN [level |-> FALSE, d |-> [aged EXCEPT !.down = TRUE, !.armed = TRUE, !.pressed = aged.changed]]
        ELSE [level |-> Short(aged), d |-> [aged EXCEPT !.down = FALSE, !.armed = FALSE, !.pressed = 0]]

PortalFires(p) == p.held /\ p.since + 1 >= LongPress

PortalTick(p, down, working) ==
  LET q == IF p.active /\ p.open + 1 >= PortalTime THEN [p EXCEPT !.active = FALSE, !.open = 0]
           ELSE [p EXCEPT !.open = IF p.active THEN @ + 1 ELSE 0]
  IN  IF ~down \/ working THEN [q EXCEPT !.held = FALSE, !.fired = FALSE, !.since = 0]
      ELSE IF ~p.held THEN [q EXCEPT !.held = TRUE, !.since = 0]
      ELSE IF ~p.fired /\ PortalFires(p)
        THEN [q EXCEPT !.active = TRUE, !.fired = TRUE, !.open = 0, !.since = 0]
      ELSE [q EXCEPT !.since = Up(@, LongPress)]

(* power_policy_should_sleep, once a poll.                                 *)
Reset == [tracking |-> FALSE, idle |-> 0]

Tracked(p) == IF p.tracking THEN [p EXCEPT !.idle = Up(@, Timeout)] ELSE [tracking |-> TRUE, idle |-> 0]

Asked(battery, working) == IF battery /\ ~working THEN Tracked(policy) ELSE Reset

(* The first part of a round, up to the decision to sleep.  battery is     *)
(* what the PMIC said: confirmed, or not, or no answer.                    *)
Round ==
  /\ at = "loop"
  /\ LET dim == DimmerTick(dimmer, env.key2)
         open == PortalTick(portal, env.key2, busy.main)
         working == busy.main \/ open.active \/ busy.search \/ busy.delivery \/ env.key1 \/ env.key2
     IN  /\ dimmer' = dim.d /\ portal' = open
         /\ did' = did \cup (IF dim.level THEN {"dimmed"} ELSE {})
                       \cup (IF open.active /\ ~portal.active THEN {"opened"} ELSE {})
         /\ since' = IF busy.main \/ open.active THEN 0 ELSE Up(since, Timeout)
         /\ \E fails \in IF faults < MaxFaults THEN {0, 1} ELSE {0} :
              /\ faults' = faults + fails
              /\ policy' = Asked(fails = 0 /\ ~env.cable, working)
         /\ at' = IF policy'.tracking /\ policy'.idle >= Timeout THEN "arm" ELSE "loop"
  /\ UNCHANGED <<env, irq, busy, screen>>

-----------------------------------------------------------------------------
(* Into sleep.  An access that fails puts it off.                          *)
Defer ==
  /\ at' = "loop" /\ policy' = Reset

Untouched == UNCHANGED <<env, busy, dimmer, portal, since, did>>

Fails(step) ==
  /\ at = step /\ faults < MaxFaults
  /\ faults' = faults + 1 /\ Defer
  /\ UNCHANGED <<irq, screen>> /\ Untouched

(* The interrupt for inserted power is enabled, then its old latches are   *)
(* cleared.                                                                *)
Arm ==
  /\ at = "arm" /\ at' = "clear"
  /\ irq' = [irq EXCEPT !.armed = TRUE]
  /\ UNCHANGED <<policy, screen, faults>> /\ Untouched

Clear ==
  /\ at = "clear" /\ at' = "recheck"
  /\ irq' = [irq EXCEPT !.latched = FALSE]
  /\ UNCHANGED <<policy, screen, faults>> /\ Untouched

(* A cable may have arrived while the interrupt was set up.                *)
Recheck ==
  /\ at = "recheck"
  /\ IF env.cable THEN Defer ELSE at' = "dark" /\ UNCHANGED policy
  /\ UNCHANGED <<irq, screen, faults>> /\ Untouched

(* The wake pins are armed, the backlight and the codec are off.           *)
Dark ==
  /\ at = "dark" /\ at' = "rails"
  /\ screen' = FALSE
  /\ UNCHANGED <<irq, policy, faults>> /\ Untouched

(* The audio rail, then the radio: after this the recorder sleeps.         *)
Asleep ==
  /\ at = "rails" /\ at' = "asleep"
  /\ UNCHANGED <<irq, policy, screen, faults>> /\ Untouched

WakePin == irq.latched \/ env.key1 \/ env.key2

Wake ==
  /\ at = "asleep" /\ WakePin
  /\ at' = "loop" /\ screen' = TRUE /\ policy' = Reset
  /\ busy' = [main |-> FALSE, delivery |-> FALSE, search |-> TRUE]
  /\ dimmer' = NoDimmer /\ portal' = NoPortal /\ since' = 0 /\ did' = {}
  /\ UNCHANGED <<env, irq, faults>>

PowerTick ==
  \/ Round \/ Arm \/ Clear \/ Recheck \/ Dark \/ Asleep \/ Wake
  \/ \E step \in {"arm", "clear", "recheck", "dark", "rails"} : Fails(step)

-----------------------------------------------------------------------------
(* Around it.  The main loop takes and ends work between two calls; the    *)
(* delivery task begins by itself, once the main loop has said it is idle. *)
Work ==
  /\ at = "loop" /\ busy' = [busy EXCEPT !.main = ~@]
  /\ UNCHANGED <<at, env, irq, policy, dimmer, portal, screen, faults, since, did>>

Deliver ==
  /\ at # "asleep" /\ (busy.delivery \/ ~busy.main)
  /\ busy' = [busy EXCEPT !.delivery = ~@]
  /\ UNCHANGED <<at, env, irq, policy, dimmer, portal, screen, faults, since, did>>

Found ==
  /\ at # "asleep" /\ busy.search /\ busy' = [busy EXCEPT !.search = FALSE]
  /\ UNCHANGED <<at, env, irq, policy, dimmer, portal, screen, faults, since, did>>

Plug ==
  /\ env' = [env EXCEPT !.cable = ~@]
  /\ irq' = [irq EXCEPT !.latched = @ \/ (irq.armed /\ ~env.cable)]
  /\ UNCHANGED <<at, busy, policy, dimmer, portal, screen, faults, since, did>>

Key(k) ==
  /\ env' = [env EXCEPT ![k] = ~@]
  /\ did' = IF k = "key2" /\ ~env.key2 /\ ~dimmer.down THEN {} ELSE did
  /\ UNCHANGED <<at, irq, busy, policy, dimmer, portal, screen, faults, since>>

Next == PowerTick \/ Work \/ Deliver \/ Found \/ Plug \/ Key("key1") \/ Key("key2")

Spec == Init /\ [][Next]_powerVars

(* The main loop runs on, and the search has a time limit of its own.      *)
Fairness == WF_powerVars(PowerTick) /\ WF_powerVars(Found)

-----------------------------------------------------------------------------
TypeOK ==
  /\ at \in {"loop", "arm", "clear", "recheck", "dark", "rails", "asleep"}
  /\ env \in [cable : BOOLEAN, key1 : BOOLEAN, key2 : BOOLEAN]
  /\ irq \in [armed : BOOLEAN, latched : BOOLEAN]
  /\ busy \in [main : BOOLEAN, delivery : BOOLEAN, search : BOOLEAN]
  /\ policy.idle \in 0 .. Timeout /\ screen \in BOOLEAN
  /\ faults \in 0 .. MaxFaults /\ since \in 0 .. Timeout

(* A cable plugged in while the recorder goes to sleep is not missed: when *)
(* it sleeps with external power, the wake pin is low.  And it goes to     *)
(* sleep only after the whole timeout without work.                        *)
NoLostWakeup ==
  /\ at = "asleep" /\ env.cable => irq.latched
  /\ at \notin {"loop", "asleep"} => since >= Timeout

(* A press of KEY2 dims the screen or opens the portal, never both, though *)
(* the two time it separately and one of them without a debounce.          *)
OneMeaning == Cardinality(did) <= 1

(* On battery, without work and without keys the recorder comes to sleep,  *)
(* however often failed accesses put it off.                               *)
Quiet == ~env.cable /\ ~env.key1 /\ ~env.key2 /\ ~busy.main /\ ~busy.delivery
ComesToSleep == <>[]Quiet => <>(at = "asleep")

=============================================================================
