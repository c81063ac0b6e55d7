----------------------------- MODULE NoiseFloor -----------------------------
(***************************************************************************)
(* How the detector of speech knows the noise of a place: for each channel *)
(* WebRtcVad_FindMinimum keeps the smallest values of the last 100 loud    *)
(* frames, with their ages, and follows the third of them.  The recorder   *)
(* initialises the detector once for a recording of up to ten minutes.     *)
(*                                                                         *)
(* One channel; a value is a number below Big.  An age is a number of w    *)
(* bits with a sign, here one of -Wrap .. Wrap - 1.  An entry that a       *)
(* removal moves down is not made older in that frame, so that a value     *)
(* stays longer than the comment says; how much longer is what the         *)
(* property is about.                                                      *)
(***************************************************************************)
EXTENDS Integers, Sequences, SequencesExt

CONSTANTS
  Values,  \* of the feature, which are below Big
  Big,     \* 10000 in the code, for an entry without a value
  Keep,    \* 16 in the code
  MaxAge,  \* 100 in the code
  Wrap     \* 2^15 in the code

FloorAssumption ==
  /\ Big \in Nat /\ Values \subseteq 0 .. Big - 1 /\ Keep \in Nat /\ Keep > 2
  /\ MaxAge \in Nat \ {0} /\ Wrap \in Nat /\ MaxAge + 1 < Wrap

VARIABLES
  kept,    \* low_value_vector and index_vector: values and ages, the smallest first; and for
           \* how many frames each has truly been there
  median,  \* the value that the mean follows
  frames   \* frame_counter, up to 3

floorVars == <<kept, median, frames>>

NoValue(age) == [value |-> Big, age |-> age, since |-> 0]
Initial == [i \in 1 .. Keep |-> NoValue(0)]

Init == kept = Initial /\ median = Big /\ frames = 0

(* WebRtcVad_InitCore, at the begin of each capture.                       *)
InitCore == kept' = Initial /\ median' = Big /\ frames' = 0

(* The first loop: an entry gets older, or is removed and the larger ones  *)
(* move down, the next of which is passed over.                            *)
Older(age) == IF age = Wrap - 1 THEN -Wrap ELSE age + 1

Aged_stay(entries, i) ==  \* mutant: the values move down, the ages do not
  IF entries[i].age # MaxAge THEN [entries EXCEPT ![i].age = Older(@)]
  ELSE LET moved == Append(RemoveAt(entries, i), NoValue(MaxAge + 1))
       IN  [j \in 1 .. Keep |-> [moved[j] EXCEPT !.age = IF j < Keep THEN entries[j].age ELSE @]]
Aged(entries, i) ==
  IF entries[i].age # MaxAge THEN [entries EXCEPT ![i].age = Older(@)]
  ELSE Append(RemoveAt(entries, i), NoValue(MaxAge + 1))

AllAged(entries) ==
  LET older == FoldLeft(Aged, entries, [i \in 1 .. Keep |-> i])
  IN  [i \in 1 .. Keep |-> [older[i] EXCEPT !.since = IF older[i].value = Big THEN 0 ELSE @ + 1]]

(* The search by halves, which finds the first larger entry; the rest      *)
(* moves up.                                                               *)
Larger(entries, v) == {i \in 1 .. Keep : v < entries[i].value}

Inserted(entries, v) ==
  IF Larger(entries, v) = {} THEN entries
  ELSE LET at == CHOOSE i \in Larger(entries, v) : \A j \in Larger(entries, v) : i <= j
       IN  SubSeq(InsertAt(entries, at, [value |-> v, age |-> 1, since |-> 1]), 1, Keep)

(* The third smallest value, after three frames; at first the smallest.    *)
Median(entries, n) == IF n > 2 THEN entries[3].value ELSE IF n > 0 THEN entries[1].value ELSE Big

FindMinimum(v) ==
  /\ kept' = Inserted(AllAged(kept), v)
  /\ median' = Median(kept', frames)
  /\ frames' = IF frames < 3 THEN frames + 1 ELSE 3

Next == InitCore \/ \E v \in Values : FindMinimum(v)

Spec == Init /\ [][Next]_floorVars

-----------------------------------------------------------------------------
TypeOK ==
  /\ Len(kept) = Keep /\ frames \in 0 .. 3 /\ median \in Values \cup {Big}
  /\ \A i \in 1 .. Keep : kept[i].value \in Values \cup {Big} /\ kept[i].age \in -Wrap .. Wrap - 1

(* The entries are sorted, and none outstays its time by more than a frame *)
(* for each smaller value that can have left before it.                    *)
HasValue(e) == e.value # Big
Rounds(n) == (n + MaxAge - 1) \div MaxAge

FloorIsRecent ==
  /\ \A i \in 1 .. Keep - 1 : kept[i].value <= kept[i + 1].value
  /\ \A i \in 1 .. Keep :
       HasValue(kept[i]) => kept[i].since <= MaxAge + (Keep - 1) * Rounds(kept[i].since)

(* A value leaves when its time is over, or pushed out by as many that are *)
(* no larger as there are entries; and a new one is left out only so.      *)
Stays(e) == \E i \in 1 .. Keep : kept'[i].since = e.since + 1
NothingIsLost ==
  [][frames' >= frames /\ frames' # 0 =>
       /\ \A i \in 1 .. Keep :
            HasValue(kept[i]) => Stays(kept[i]) \/ kept[i].since >= MaxAge \/ kept'[Keep].value <= kept[i].value
       /\ \E v \in Values : (\E i \in 1 .. Keep : kept'[i] = [value |-> v, age |-> 1, since |-> 1])
                               \/ kept'[Keep].value <= v]_floorVars

=============================================================================
