---------------------------- MODULE MCOrderImport ----------------------------
(* A store with a few orders. *)
EXTENDS OrderImport, TLC

CONSTANTS o1, o2, o3, w1, w2

Placed(o) == store'[o] # Unknown

\* Three orders, placed in their order, and one transaction at a time without
\* webhooks, or one order and two transactions with them.
Scene ==
    IF topics = {}
    THEN /\ doing'[w2] = Idle
         /\ Placed(o3) => Placed(o2)
         /\ Placed(o2) => Placed(o1)
         /\ \A o \in Order : store'[o].status # "fulfilled"
    ELSE clock' = 0 /\ ~Placed(o2) /\ ~Placed(o3)

Import == Init /\ [][Next /\ Scene]_vars /\ Fairness(w1)
=============================================================================
