---------------------------- MODULE MCProductMatch ----------------------------
(* A template with two variants and one with a single one, for two products. *)
EXTENDS ProductMatch, TLC

CONSTANTS t1, t2, p1, p2, w1, w2

Templates == (1 :> t1) @@ (2 :> t1) @@ (3 :> t2)
Products == (1 :> p1) @@ (2 :> p1) @@ (3 :> p2)

\* The first variants have the same attributes.
Attributes == {<<1, 1>>}

\* The second variant may come later.
StoreStart == {(1 :> "a") @@ (2 :> x) @@ (3 :> "c") : x \in {"b", New}}
StockStart == {(1 :> "a") @@ (2 :> x) @@ (3 :> "c") : x \in {"b", Nothing}}

\* Workers are taken in their order.
Matching == MatchInit /\ [][MatchNext /\ (Asleep(w2) /\ ~(doing'[w2] = Idle) => ~Asleep(w1))]_matchVars /\ MatchFairness
=============================================================================
