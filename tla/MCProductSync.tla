---------------------------- MODULE MCProductSync ----------------------------
(* A product with two contents, edited on both sides. *)
EXTENDS ProductSync, TLC

CONSTANTS c1, c2, c3, w1, w2

\* Codes are given in their order.  After three acts there are more only while nothing
\* was dropped and one worker is enough; after four, the store has had one product.
Scene ==
    /\ product'[c2] # None => product'[c1] # None
    /\ product'[c3] # None => product'[c2] # None
    /\ acts' > 3 => doing'[w2] = Idle
    /\ acts' > 4 => product'[c2] = None
    /\ acts' > 3 /\ acts' # acts => excused' = None

Sync == Init /\ [][Next /\ Scene]_vars /\ Fairness
=============================================================================
