----------------------------- MODULE MCJobQueue -----------------------------
(* Instances of JobQueue for TLC. *)
EXTENDS JobQueue, TLC

CONSTANTS j1, j2, w1, w2

\* Jobs that may be tried once.
OneMaxRetries == (j1 :> 1)

Workers == Permutations({w1, w2})

=============================================================================
