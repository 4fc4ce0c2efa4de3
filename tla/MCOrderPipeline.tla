-------------------------- MODULE MCOrderPipeline --------------------------
(* An order with a few steps, and two transactions at a time. *)
EXTENDS OrderPipeline, TLC

CONSTANTS w1, w2

Workers == Permutations(Worker)
=============================================================================
