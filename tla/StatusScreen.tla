---------------------------- MODULE StatusScreen ----------------------------
(***************************************************************************)
(* The status screen: board_sticks3_display_update, which the main loop    *)
(* calls in every round with its state, and screen_ui.c, which says what   *)
(* is to be seen.  An update copies the flags that other tasks set,        *)
(* returns when nothing differs from what it drew last, and draws          *)
(* otherwise.  Whether Wi-Fi is connected it does not copy: it looks at    *)
(* that flag to compare, for the words, for the icon and to remember it,   *)
(* while the driver's task may change it.                                  *)
(*                                                                         *)
(* Time is the animation's phase of 180 ms; a round is shorter.  Pixels,   *)
(* colours and wording are left out; a picture is what its parts tell.     *)
(***************************************************************************)
EXTENDS Integers

CONSTANTS
  Phases,    \* the phase is a number modulo Phases
  MaxEvents  \* bounds changes of flags, and refusals of the display and of its buffer

ScreenAssumption ==
  Phases \in Nat /\ Phases > 1 /\ MaxEvents \in Nat

VARIABLES
  world,   \* what the flags say; the phase
  step,    \* where the update is
  copy,    \* the flags it has copied, its phase, its words
  drawn,   \* what it remembers of the last picture
  panel,   \* what the panel shows
  events   \* changes and refusals so far

screenVars == <<world, step, copy, drawn, panel, events>>

(* The main loop's own flags change between updates only.  A recording or  *)
(* a reply has words of its own, as an error has, and adds no case.        *)
Domain ==
  [state |-> {"boot", "idle", "processing", "error"}, phase |-> {"transcribing", "thinking"},
   wake |-> {"off", "word", "wait", "speak"}, power |-> {"battery", "usb"},
   wifi |-> BOOLEAN, backend |-> {-1, 200, 503}, diag |-> BOOLEAN,
   ota |-> BOOLEAN, pending |-> BOOLEAN, percent |-> {"0", "50"}, setup |-> BOOLEAN, rotation |-> {0, 3},
   error |-> {"none", "failed"}]
Flags == DOMAIN Domain
Own == {"state", "phase", "wake", "power"}
Watched == Flags \ {"power", "error", "wifi"}

Start ==
  [state |-> "boot", phase |-> "thinking", wake |-> "off", power |-> "battery", wifi |-> FALSE,
   backend |-> -1, diag |-> FALSE, ota |-> FALSE, pending |-> FALSE, percent |-> "0", setup |-> FALSE,
   rotation |-> 0, error |-> "none"]

Nothing == [what |-> "nothing"]

(* screen_ui_view_with_network and _with_phase, and the overrides of       *)
(* display_update, the last of which wins.  The hint that the wake word is *)
(* listened for stands under whatever title an idle recorder has.          *)
View(title, hint) == [title |-> title, hint |-> hint]

Ordinary(f, wifi) ==
  CASE f.state = "processing" -> View(f.state, f.phase)
    [] f.state = "idle" /\ ~wifi -> View("network", "waiting")
    [] f.state = "idle" /\ wifi /\ f.backend # 200 ->
         View("server", CASE f.backend = -1 -> "checking" [] f.backend = 0 -> "no link"
                          [] f.backend = 503 -> "not ready" [] OTHER -> "server error")
    [] OTHER -> View(f.state, "button")

Overridden(f, view, error) ==
  CASE f.state = "error" -> View("error", error)
    [] f.state # "idle" -> view
    [] f.pending -> View("checking", "after the update")
    [] f.ota /\ ~f.pending -> View("updating", f.percent)
    [] f.diag /\ ~(f.ota \/ f.pending) -> View("reporting", "sending")
    [] OTHER -> CASE f.wake \in {"wait", "speak"} -> View("listening", f.wake)
                  [] f.wake = "word" -> View(view.title, "say the word")
                  [] OTHER -> view

(* screen_render: the code of the setup network, or the words and the      *)
(* indicators, which are drawn on the side of the front button when the    *)
(* recorder lies on its side.                                              *)
Wide(rotation) == rotation % 2 = 1
ButtonLeft(rotation) == Wide(rotation) /\ rotation = 3

Picture(f, view, wifi, power) ==
  IF f.setup /\ f.state \in {"idle", "boot"} THEN [what |-> "setup", rotation |-> f.rotation]
  ELSE [what |-> "status", rotation |-> f.rotation, left |-> ButtonLeft(f.rotation), view |-> view,
        icons |-> <<wifi, power, f.backend>>, mode |-> IF f.wake = "off" THEN "button" ELSE "voice"]

Seen(f, wifi, error) == Overridden(f, Ordinary(f, wifi), error)
TruePicture == Picture(world, Seen(world, world.wifi, world.error), world.wifi, world.power)

Init ==
  /\ world = [f \in Flags \cup {"now", "ticked"} |->
                CASE f = "now" -> 0 [] f = "ticked" -> FALSE [] OTHER -> Start[f]]
  /\ step = "round" /\ copy = Nothing /\ drawn = Nothing /\ panel = Nothing
  /\ events = 0

-----------------------------------------------------------------------------
(* Flags change, and time passes: never a whole cycle of phases between    *)
(* two updates.                                                            *)
Flip ==
  /\ events < MaxEvents
  /\ \E f \in Flags : \E v \in Domain[f] \ {world[f]} :
       /\ f \in Own => step = "round"
       /\ world' = [world EXCEPT ![f] = v]
  /\ events' = events + 1
  /\ UNCHANGED <<step, copy, drawn, panel>>

Tick ==
  /\ ~world.ticked
  /\ world' = [world EXCEPT !.now = (@ + 1) % Phases, !.ticked = TRUE]
  /\ UNCHANGED <<step, copy, drawn, panel, events>>

(* lcd_init fails, or there is no memory for the picture: the next round   *)
(* tries again.                                                            *)
Refused ==
  /\ step \in {"round", "draw"} /\ panel = Nothing /\ events < MaxEvents
  /\ step' = "round" /\ copy' = Nothing
  /\ events' = events + 1
  /\ UNCHANGED <<world, drawn, panel>>

Copy ==
  /\ step = "round" /\ step' = "compare"
  /\ copy' = [f \in Watched \cup {"now"} |-> world[f]]
  /\ world' = [world EXCEPT !.ticked = FALSE]
  /\ UNCHANGED <<drawn, panel, events>>

Same_still(c) == drawn # Nothing /\ \A f \in Watched : c[f] = drawn[f]  \* mutant: without the phase
Same(c) == drawn # Nothing /\ \A f \in Watched \cup {"now"} : c[f] = drawn[f]

Compare ==
  /\ step = "compare"
  /\ IF Same(copy) /\ drawn.wifi = world.wifi
       THEN step' = "round" /\ copy' = Nothing ELSE step' = "draw" /\ UNCHANGED copy
  /\ UNCHANGED <<world, drawn, panel, events>>

Choose ==
  /\ step = "draw" /\ step' = "render"
  /\ copy' = [f \in DOMAIN copy \cup {"view"} |->
                IF f = "view" THEN Seen(copy, world.wifi, world.error) ELSE copy[f]]
  /\ UNCHANGED <<world, drawn, panel, events>>

Render ==
  /\ step = "render" /\ step' = "remember"
  /\ panel' = Picture(copy, copy.view, world.wifi, world.power)
  /\ UNCHANGED <<world, copy, drawn, events>>

Remember ==
  /\ step = "remember" /\ step' = "round"
  /\ drawn' = [f \in Watched \cup {"now", "wifi"} |-> IF f = "wifi" THEN world.wifi ELSE copy[f]]
  /\ copy' = Nothing
  /\ UNCHANGED <<world, panel, events>>

Update == Copy \/ Compare \/ Choose \/ Render \/ Remember

Next == Flip \/ Tick \/ Refused \/ Update

(* The main loop goes round every 10 ms, and the clock runs.               *)
Fairness == WF_screenVars(Update) /\ WF_screenVars(Tick)

Spec == Init /\ [][Next]_screenVars /\ Fairness

-----------------------------------------------------------------------------
TypeOK ==
  /\ \A f \in Flags : world[f] \in Domain[f]
  /\ world.now \in 0 .. Phases - 1 /\ world.ticked \in BOOLEAN
  /\ step \in {"round", "compare", "draw", "render", "remember"}
  /\ panel.what \in {"nothing", "setup", "status"}
  /\ events \in 0 .. MaxEvents

(* Whatever flags change in the middle of an update, the panel shows in    *)
(* the end what they say: the words, the setup network's code, the icons   *)
(* of Wi-Fi, of the server and of the battery, and which way up.           *)
ShowsTheTruth == <>[](panel = TruePicture)

=============================================================================
