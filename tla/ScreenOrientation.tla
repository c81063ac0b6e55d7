------------------------- MODULE ScreenOrientation -------------------------
(***************************************************************************)
(* Which way up the screen is drawn: the task of board_orientation.c reads *)
(* the accelerometer every 100 ms and gives the sample to                  *)
(* screen_orientation_sample, which turns the screen only after the        *)
(* recorder was held for half a second, and screen_orientation_index,      *)
(* which puts a picture of either shape on the panel.                      *)
(*                                                                         *)
(* A sample is the side that it says is up, or None: the read failed, the  *)
(* recorder moves, lies flat or leans between two sides.  Time is a count  *)
(* of milliseconds of w bits, here a number modulo Clock.                  *)
(***************************************************************************)
EXTENDS Integers

CONSTANTS
  None,
  Clock,    \* the clock wraps around at this time
  Settle,   \* 500 ms in the code
  Late,     \* the longest time between two samples
  Columns,  \* 135 in the code
  Rows      \* 240 in the code

OrientationAssumption ==
  /\ Clock \in Nat /\ Settle \in Nat /\ Late \in Nat \ {0} /\ Settle + Late < Clock
  /\ Columns \in Nat \ {0} /\ Rows \in Nat \ {0}

Rotations == 0 .. 3  \* quarter turns

VARIABLES
  now,     \* the clock
  sensor,  \* the sensor's initialisation: TRUE once it worked, which is tried once
  policy,  \* screen_orientation_t: rotation, candidate, since, pending
  shown,   \* the rotation that the screen's owner reads
  held     \* the last sample and for how long it has been the same, up to Clock

orientationVars == <<now, sensor, policy, shown, held>>

Init ==
  /\ now = 0 /\ sensor \in BOOLEAN
  /\ policy = [rotation |-> 0, candidate |-> 0, since |-> 0, pending |-> FALSE]
  /\ shown = 0 /\ held = [pose |-> None, for |-> 0]

-----------------------------------------------------------------------------
(* screen_orientation_sample.                                              *)
Elapsed(t, since) == (t - since) % Clock

Sample_restarted(p, pose, t) ==  \* mutant: a break does not end a pose that has begun
  CASE pose = None -> p
    [] pose = p.rotation -> [p EXCEPT !.pending = FALSE]
    [] pose \notin {None, p.rotation} /\ (~p.pending \/ pose # p.candidate) ->
         [p EXCEPT !.candidate = pose, !.since = t, !.pending = TRUE]
    [] OTHER -> IF Elapsed(t, p.since) < Settle THEN p
                ELSE [p EXCEPT !.rotation = pose, !.pending = FALSE]

Sample(p, pose, t) ==
  CASE pose \in {None, p.rotation} -> [p EXCEPT !.pending = FALSE]
    [] pose \notin {None, p.rotation} /\ (~p.pending \/ pose # p.candidate) ->
         [p EXCEPT !.candidate = pose, !.since = t, !.pending = TRUE]
    [] OTHER -> IF Elapsed(t, p.since) < Settle THEN p
                ELSE [p EXCEPT !.rotation = pose, !.pending = FALSE]

(* task: it ends when the sensor cannot be set up, and the screen stays    *)
(* upright.                                                                *)
AtMost(n) == IF n > Clock THEN Clock ELSE n

Task ==
  /\ sensor
  /\ \E pose \in Rotations \cup {None}, passed \in 1 .. Late :
       LET t == (now + passed) % Clock
       IN  /\ now' = t
           /\ policy' = Sample(policy, pose, t)
           /\ shown' = Sample(policy, pose, t).rotation
           /\ held' = [pose |-> pose, for |-> IF pose = held.pose THEN AtMost(held.for + passed) ELSE 0]
  /\ UNCHANGED sensor

Next == Task

Spec == Init /\ [][Next]_orientationVars

-----------------------------------------------------------------------------
(* screen_orientation_index: where in the picture the panel's pixel (x, y) *)
(* is; the picture's own shape; and how screen_render chooses the side of  *)
(* the indicators.                                                         *)
Width(r) == IF r % 2 = 1 THEN Rows ELSE Columns
Height(r) == IF r % 2 = 1 THEN Columns ELSE Rows

Index(r, x, y) ==
  CASE r = 0 -> y * Columns + x
    [] r = 1 -> (Columns - 1 - x) * Rows + y
    [] r = 2 -> (Rows - 1 - y) * Columns + Columns - 1 - x
    [] r = 3 -> x * Rows + Rows - 1 - y

ButtonLeft(r) == r = 3

TypeOK ==
  /\ now \in 0 .. Clock - 1 /\ shown \in Rotations /\ held.for \in 0 .. Clock
  /\ policy \in [rotation : Rotations, candidate : Rotations, since : 0 .. Clock - 1, pending : BOOLEAN]

(* A pose that was held for half a second and one sample more is the one   *)
(* that is drawn, wherever the clock wraps around meanwhile.               *)
FollowsThePose == held.pose # None /\ held.for >= Settle + Late => shown = held.pose

(* The screen turns only to a pose that every sample of the last half      *)
(* second said; a shake, a failed read or a look in between starts the     *)
(* half second again.                                                      *)
TurnsAreSettled ==
  [][shown' # shown => held'.pose = shown' /\ held'.for >= Settle]_orientationVars

(* Every pixel of the panel shows one point of the picture and every point *)
(* is shown; a neighbour on the panel is one in the picture, turned by     *)
(* quarters; and the indicators stand at the edge with the front button,   *)
(* the panel's last row.                                                   *)
Panel == (0 .. Columns - 1) \X (0 .. Rows - 1)
Column(r, i) == i % Width(r)
Row(r, i) == i \div Width(r)

PictureIsWhole ==
  \A r \in Rotations :
    LET at(p) == Index(r, p[1], p[2])
    IN  /\ {at(p) : p \in Panel} = 0 .. Columns * Rows - 1
        /\ \A p, q \in Panel : p[1] + 1 = q[1] /\ p[2] = q[2] =>
             <<Column(r, at(q)) - Column(r, at(p)), Row(r, at(q)) - Row(r, at(p))>>
               = CASE r = 0 -> <<1, 0>> [] r = 1 -> <<0, -1>> [] r = 2 -> <<-1, 0>> [] r = 3 -> <<0, 1>>
        /\ r % 2 = 1 => \A x \in 0 .. Columns - 1 :
             Column(r, Index(r, x, Rows - 1)) = IF ButtonLeft(r) THEN 0 ELSE Width(r) - 1

=============================================================================
