---------------------------- MODULE MCAliceQueue ----------------------------
(* The webhook requests in progress are alike.                             *)
EXTENDS AliceQueue, TLC

SlotSymmetry == Permutations(Slots)
=============================================================================
