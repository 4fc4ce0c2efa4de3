----------------------------- MODULE MCStockSync -----------------------------
(* A part, a product made of it, and a kit of that product. *)
EXTENDS StockSync, TLC

CONSTANTS part, made, kit, m1, w1, w2

NoBom == [type |-> "none", needs |-> <<>>]

Chain ==
    (part :> NoBom) @@ (made :> [type |-> "normal", needs |-> (part :> 1)])
    @@ (kit :> [type |-> "phantom", needs |-> (made :> 1)])

\* One part in the beginning; workers are taken in their order.
Start == Init /\ onHand[part] = 1 /\ (made \in Product => onHand[made] = 0)
Scene ==
    /\ Asleep(w2) /\ doing'[w2] # Idle => ~Asleep(w1)

Sync == Start /\ [][Next /\ Scene]_vars /\ Fairness
=============================================================================
