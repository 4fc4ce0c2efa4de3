----------------------------- MODULE MCJobGraph -----------------------------
(* Two parents and their child, with the buttons of the users or without. *)
EXTENDS JobGraph, TLC

CONSTANTS a, b, c

\* a and b in parallel, then c
Join == (a :> {}) @@ (b :> {}) @@ (c :> {a, b})
=============================================================================
