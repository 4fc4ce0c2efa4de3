------------------------------ MODULE MCDelayGraph ------------------------------
(* Three units, in two chains or groups of three members at most, or of none. *)
EXTENDS DelayGraph, TLC

Alike == Permutations(Delayable)
=============================================================================
