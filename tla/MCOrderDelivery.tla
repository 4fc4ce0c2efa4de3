---------------------------- MODULE MCOrderDelivery ----------------------------
(* An order of two units, of one line or of two, delivered in parts. *)
EXTENDS OrderDelivery, TLC

CONSTANTS x, y, w1, w2

SmallOrders == {(x :> 2) @@ (y :> 0), (x :> 1) @@ (y :> 1)}

\* Workers are taken in their order.
Delivery == Init /\ [][Next /\ (Asleep(w2) /\ doing'[w2] # Idle => ~Asleep(w1))]_vars /\ Fairness
=============================================================================
