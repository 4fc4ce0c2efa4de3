-------------------------- MODULE OrderDeliveryProofs --------------------------
(***************************************************************************)
(* Proofs about OrderDelivery, for every order, number of exports in       *)
(* progress, and sequence of validations, webhooks and failures: which     *)
(* fulfillments validate a delivery, and how often.                        *)
(*                                                                         *)
(* The quantities play no part: what is proved follows from the states of  *)
(* deliveries and of records, and from which export has made what.         *)
(***************************************************************************)
EXTENDS OrderDelivery, SequenceTheorems, WellFoundedInduction, TLAPS

-----------------------------------------------------------------------------
(* The inductive invariant *)

\* Deliveries and fulfillments with quantities, and the latter with deliveries, of a set Q:
\* the sums of quantities that the code computes need no type here.
Row(Q) == [state : {"open", "done", "cancel"}, qty : Q, sent : BOOLEAN, ref : BOOLEAN,
           by : Nat, twice : BOOLEAN]
FulfillmentRow(Q) == [qty : Q, for : Q]
Rows(ps) == \E Q : ps \in Seq(Row(Q))

ExportJob == [does : {"send", "track"}, pickings : SUBSET Nat]
HookJob == [does : {"hook"}, pickings : {{}}, seen : Nat]
Doing(T) == [job : ExportJob \cup {NoJob}, todo : T, made : SUBSET Nat, stale : BOOLEAN]

\* The deliveries and the records that a transaction handles.
Shape(s) ==
    /\ \E P, R : s \in [picking : P, record : R]
    /\ Rows(s.picking)
    /\ s.record \in [DOMAIN fulfillment -> RecordState]

ShapeInv ==
    /\ Rows(picking) /\ (\E Q : fulfillment \in Seq(FulfillmentRow(Q)))
    /\ record \in [DOMAIN fulfillment -> RecordState]
    /\ jobs \subseteq ExportJob \cup HookJob
    /\ \E T : doing \in [Worker -> Doing(T)]
    /\ \A w \in Worker : doing[w].made \subseteq DOMAIN fulfillment
    /\ \A w \in Worker : doing[w].job = NoJob => Asleep(w)
    /\ excused \in Excuse \cup {None} /\ confirmed \in BOOLEAN
    /\ ~confirmed => picking = <<>>

\* The tracking of all deliveries is exported when nothing is left to deliver, and that
\* stays so.
ShippedInv ==
    \A j \in jobs \cup {doing[w].job : w \in Worker} :
        j.does = "track" => confirmed /\ OpenOnes(picking) = {}

\* A fulfillment that has validated a delivery is done, is not one of Odoo's, and has
\* validated no other delivery.
Once(ps, rs) ==
    \A p \in DOMAIN ps : ps[p].by # 0 =>
        /\ ps[p].by \in DOMAIN fulfillment
        /\ fulfillment[ps[p].by].for = 0
        /\ rs[ps[p].by] = "done"
        /\ \A r \in DOMAIN ps : ps[r].by = ps[p].by => r = p

\* A record that can still be applied is of a fulfillment of the staff.
Theirs(rs) == \A f \in DOMAIN rs : rs[f] \in {"draft", "failed"} => fulfillment[f].for = 0

\* A fulfillment of Odoo without a record is one of an export in progress.
MadeInv ==
    \A f \in DOMAIN fulfillment : record[f] = None /\ fulfillment[f].for # 0 =>
        \E w \in Worker : f \in doing[w].made

EchoInv == excused = None => Once(picking, record) /\ Theirs(record) /\ MadeInv

IInv == ShapeInv /\ ShippedInv /\ EchoInv

-----------------------------------------------------------------------------
(* Sequences *)

\* A set of natural numbers has a least one.
LEMMA LeastExists ==
    ASSUME NEW T, T \subseteq Nat, T # {}
    PROVE  \E t \in T : \A u \in T : t <= u
<1>1. \E t \in T : \A u \in T : <<u, t>> \notin OpToRel(<, Nat)
  BY WFMin, NatLessThanWellFounded, Zenon
<1>2. PICK t \in T : \A u \in T : ~(u < t)
  BY <1>1 DEF OpToRel
<1> QED
  BY <1>2

\* A set of numbers with zero and the successor of each of its members below n holds all
\* up to n.
LEMMA UpTo ==
    ASSUME NEW n \in Nat, NEW T, 0 \in T, \A k \in T : k \in Nat /\ k < n => k + 1 \in T
    PROVE  0..n \subseteq T
<1> DEFINE Out == (0..n) \ T
<1> SUFFICES ASSUME Out # {}
             PROVE  FALSE
  BY Zenon
<1>0. Out \subseteq Nat
  OBVIOUS
<1>1. PICK k \in Out : \A u \in Out : k <= u
  BY <1>0, LeastExists, Zenon
<1>2. k # 0 /\ k - 1 \in 0..n /\ k - 1 < n
  OBVIOUS
<1>3. k - 1 \in T
  BY <1>1, <1>2
<1>4. k - 1 + 1 \in T
  BY <1>2, <1>3
<1> QED
  BY <1>2, <1>4

LEMMA MinOf ==
    ASSUME NEW T, T \subseteq Nat, T # {}
    PROVE  Min(T) \in T
BY LeastExists, Zenon DEF Min

LEMMA FunctionIsSeq ==
    ASSUME NEW S, NEW n \in Nat, NEW s \in [1..n -> S]
    PROVE  s \in Seq(S)
BY SeqDef, Zenon

LEMMA Wider ==
    ASSUME NEW ps, NEW Q, ps \in Seq(Row(Q)), NEW q
    PROVE  ps \in Seq(Row(Q \cup {q}))
<1>1. Row(Q) \subseteq Row(Q \cup {q})
  BY DEF Row
<1> QED
  BY <1>1, SeqMonotonic

LEMMA Domain ==
    ASSUME NEW ps, Rows(ps)
    PROVE  /\ Len(ps) \in Nat /\ DOMAIN ps = 1..Len(ps)
           /\ OpenOnes(ps) \subseteq Nat /\ Unsent(ps) \subseteq Nat
           /\ \A p \in DOMAIN ps : ps[p].by \in Nat
<1>1. PICK Q : ps \in Seq(Row(Q))
  BY DEF Rows
<1>2. Len(ps) \in Nat /\ DOMAIN ps = 1..Len(ps) /\ \A p \in DOMAIN ps : ps[p] \in Row(Q)
  BY <1>1, LenProperties, ElementOfSeq
<1> QED
  BY <1>2 DEF Row, OpenOnes, Unsent

\* A delivery is replaced by another one.
LEMMA PutRows ==
    ASSUME NEW ps, NEW Q, ps \in Seq(Row(Q)), NEW p \in DOMAIN ps, NEW x \in Row(Q)
    PROVE  /\ Put(ps, p, x) \in Seq(Row(Q))
           /\ DOMAIN Put(ps, p, x) = DOMAIN ps
           /\ Put(ps, p, x)[p] = x
           /\ \A r \in DOMAIN ps \ {p} : Put(ps, p, x)[r] = ps[r]
<1>1. Len(ps) \in Nat /\ DOMAIN ps = 1..Len(ps) /\ \A r \in DOMAIN ps : ps[r] \in Row(Q)
  BY LenProperties, ElementOfSeq
<1>2. Put(ps, p, x) \in [1..Len(ps) -> Row(Q)]
  BY <1>1 DEF Put
<1>3. Put(ps, p, x) \in Seq(Row(Q))
  BY <1>1, <1>2, FunctionIsSeq, Zenon
<1> QED
  BY <1>1, <1>3 DEF Put

-----------------------------------------------------------------------------
(* Fulfillments applied to deliveries *)

\* A validation keeps what the deliveries were validated for; the backorder was for none.
LEMMA ValidatedKeeps ==
    ASSUME NEW ps, Rows(ps), NEW p \in DOMAIN ps, NEW q, NEW keep
    PROVE  LET v == Validated(ps, p, q, keep)
           IN  /\ Rows(v) /\ DOMAIN ps \subseteq DOMAIN v
               /\ \A r \in DOMAIN v : v[r].by = IF r \in DOMAIN ps THEN ps[r].by ELSE 0
<1>1. PICK Q : ps \in Seq(Row(Q))
  BY DEF Rows
<1> DEFINE rest == [l \in Line |-> ps[p].qty[l] - q[l]]
           R == (Q \cup {q}) \cup {rest}
           x == [ps[p] EXCEPT !.state = "done", !.qty = q]
           over == Put(ps, p, x)
<1>2. ps \in Seq(Row(R))
  <2> HIDE DEF rest
  <2> QED
    BY <1>1, Wider
<1>3. Len(ps) \in Nat /\ DOMAIN ps = 1..Len(ps) /\ ps[p] \in Row(R)
  BY <1>2, LenProperties, ElementOfSeq
<1>4. q \in R /\ rest \in R
  OBVIOUS
<1> HIDE DEF R, rest
<1>5. x \in Row(R) /\ x.by = ps[p].by
  BY <1>3, <1>4 DEF Row
<1>6. Open(rest) \in Row(R) /\ Open(rest).by = 0
  BY <1>4 DEF Row, Open
<1> HIDE DEF x
<1>7. /\ over \in Seq(Row(R)) /\ DOMAIN over = DOMAIN ps
      /\ \A r \in DOMAIN ps : over[r].by = ps[r].by
  <2>1. \A y \in Row(R) :
           /\ Put(ps, p, y) \in Seq(Row(R)) /\ DOMAIN Put(ps, p, y) = DOMAIN ps
           /\ Put(ps, p, y)[p] = y /\ \A r \in DOMAIN ps \ {p} : Put(ps, p, y)[r] = ps[r]
    BY <1>2, PutRows
  <2> QED
    BY <1>5, <2>1
<1> HIDE DEF over
<1>8. CASE Validated(ps, p, q, keep) = over
  BY <1>7, <1>8 DEF Rows
<1>9. CASE Validated(ps, p, q, keep) = Append(over, Open(rest))
  <2> DEFINE v == Append(over, Open(rest))
  <2>1. Len(over) = Len(ps)
    BY <1>3, <1>7, LenProperties
  <2>2. /\ v \in Seq(Row(R)) /\ Len(v) = Len(ps) + 1 /\ v[Len(ps) + 1] = Open(rest)
        /\ \A r \in 1..Len(ps) : v[r] = over[r]
    BY <1>6, <1>7, <2>1, AppendProperties
  <2>3. DOMAIN v = 1..(Len(ps) + 1)
    BY <2>2, LenProperties
  <2> HIDE DEF v
  <2>4. \A r \in DOMAIN v : v[r].by = IF r \in DOMAIN ps THEN ps[r].by ELSE 0
    BY <1>3, <1>6, <1>7, <2>2, <2>3
  <2> QED
    BY <1>3, <1>9, <2>2, <2>3, <2>4 DEF v, Rows
<1> QED
  BY <1>8, <1>9 DEF Validated, over, rest, x

\* What the application of fulfillments makes of the deliveries and the records.
Progress(s, t) ==
    /\ Shape(t)
    /\ OpenOnes(s.picking) = {} => t.picking = s.picking
    /\ \A f \in DOMAIN fulfillment : t.record[f] = None <=> s.record[f] = None
    /\ Theirs(s.record) => Theirs(t.record)
    /\ Once(s.picking, s.record) /\ (OpenOnes(s.picking) = {} \/ Theirs(s.record))
           => Once(t.picking, t.record)

\* A fulfillment that is applied validates at most one delivery, and only one of the
\* staff finds an open delivery.
LEMMA ValidateProgress ==
    ASSUME NEW s, Shape(s), DOMAIN fulfillment \subseteq Nat \ {0},
           NEW f \in DOMAIN fulfillment, NEW ready
    PROVE  Progress(s, Validate(s, f, ready))
<1> DEFINE ps == s.picking
           rs == s.record
           open == OpenOnes(ps)
           asked == fulfillment[f].qty
           fitting == {p \in open : Fits(ps, p, asked)}
           p == Min(fitting)
           q == [l \in Line |-> IF l \in ready THEN Min({asked[l], ps[p].qty[l]}) ELSE 0]
           over == Validated(ps, p, q, TRUE)
           t == Validate(s, f, ready)
<1>1. /\ s = [picking |-> ps, record |-> rs] /\ Rows(ps)
      /\ rs \in [DOMAIN fulfillment -> RecordState]
  BY DEF Shape
<1>2. /\ t = s
      \/ /\ rs[f] \notin {None, "done"}
         /\ t \in {[s EXCEPT !.record = Put(@, f, "done")], [s EXCEPT !.record = Put(@, f, "failed")]}
      \/ /\ rs[f] \notin {None, "done"} /\ fitting # {}
         /\ t = [picking |-> Put(over, p, [over[p] EXCEPT !.sent = TRUE, !.by = f]),
                 record |-> Put(s.record, f, "done")]
  <2> HIDE DEF over, q, p
  <2> QED
    BY DEF Validate, over, q, p
<1>3. \A state \in {"done", "failed"} : Put(rs, f, state) \in [DOMAIN fulfillment -> RecordState]
  BY <1>1 DEF Put, RecordState
<1>4. CASE t = s
  BY <1>1, <1>4 DEF Progress, Shape
<1>5. CASE \E state \in {"done", "failed"} :
              rs[f] \notin {None, "done"} /\ t = [s EXCEPT !.record = Put(@, f, state)]
  <2>1. PICK state \in {"done", "failed"} :
              rs[f] \notin {None, "done"} /\ t = [s EXCEPT !.record = Put(@, f, state)]
    BY <1>5
  <2>2. t = [picking |-> ps, record |-> Put(rs, f, state)]
    BY <1>1, <2>1
  <2> HIDE DEF t
  <2>3. \A g \in DOMAIN fulfillment : Put(rs, f, state)[g] = IF g = f THEN state ELSE rs[g]
    BY <1>1 DEF Put
  <2> DEFINE rs2 == Put(rs, f, state)
  <2>4. Shape(t)
    BY <1>1, <1>3, <2>2 DEF Shape
  <2>5. t.picking = ps /\ t.record = rs2
    BY <2>2
  <2> HIDE DEF rs2
  <2>6. \A g \in DOMAIN fulfillment : rs2[g] = IF g = f THEN state ELSE rs[g]
    BY <2>3 DEF rs2
  <2>7. \A g \in DOMAIN fulfillment : rs2[g] = None <=> rs[g] = None
    BY <2>1, <2>6 DEF None
  <2>8. Theirs(rs) => Theirs(rs2)
    BY <1>1, <1>3, <2>1, <2>6 DEF Theirs, RecordState, rs2
  <2>9. Once(ps, rs) => Once(ps, rs2)
    BY <2>1, <2>6 DEF Once
  <2>10. Progress(s, t)
    BY <2>4, <2>5, <2>7, <2>8, <2>9 DEF Progress
  <2> QED
    BY <2>10 DEF t
<1>6. CASE /\ rs[f] \notin {None, "done"} /\ fitting # {}
           /\ t = [picking |-> Put(over, p, [over[p] EXCEPT !.sent = TRUE, !.by = f]),
                   record |-> Put(s.record, f, "done")]
  <2> DEFINE over2 == Put(over, p, [over[p] EXCEPT !.sent = TRUE, !.by = f])
             rs2 == Put(rs, f, "done")
  <2>1. p \in open /\ p \in DOMAIN ps
    <3>1. fitting \subseteq Nat
      BY <1>1, Domain
    <3> HIDE DEF fitting
    <3>2. p \in fitting
      BY <1>6, <3>1, MinOf
    <3> QED
      BY <3>2 DEF fitting, OpenOnes
  <2> HIDE DEF p, q
  <2>2. /\ Rows(over) /\ DOMAIN ps \subseteq DOMAIN over
        /\ \A r \in DOMAIN over : over[r].by = IF r \in DOMAIN ps THEN ps[r].by ELSE 0
    BY <1>1, <2>1, ValidatedKeeps
  <2> HIDE DEF over
  <2>3. /\ Rows(over2) /\ DOMAIN over2 = DOMAIN over
        /\ \A r \in DOMAIN over : over2[r].by = IF r = p THEN f ELSE over[r].by
    <3>1. PICK Q : over \in Seq(Row(Q))
      BY <2>2 DEF Rows
    <3> DEFINE x == [over[p] EXCEPT !.sent = TRUE, !.by = f]
    <3>2. over[p] \in Row(Q) /\ p \in DOMAIN over
      BY <2>1, <2>2, <3>1, LenProperties, ElementOfSeq
    <3>3. f \in Nat
      OBVIOUS
    <3>4. x \in Row(Q) /\ x.by = f
      BY <3>2, <3>3 DEF Row
    <3> HIDE DEF x
    <3>5. \A y \in Row(Q) :
             /\ Put(over, p, y) \in Seq(Row(Q)) /\ DOMAIN Put(over, p, y) = DOMAIN over
             /\ Put(over, p, y)[p] = y /\ \A r \in DOMAIN over \ {p} : Put(over, p, y)[r] = over[r]
      BY <3>1, <3>2, PutRows
    <3> QED
      BY <3>4, <3>5 DEF Rows, x
  <2>4. \A g \in DOMAIN fulfillment : rs2[g] = IF g = f THEN "done" ELSE rs[g]
    BY <1>1 DEF Put
  <2>5. t = [picking |-> over2, record |-> rs2]
    BY <1>6
  <2>6. rs2 \in [DOMAIN fulfillment -> RecordState]
    BY <1>3
  <2>7. open # {}
    BY <2>1
  <2>8. f # 0
    OBVIOUS
  <2> HIDE DEF over2, rs2, t, open
  <2>9. ASSUME Once(ps, rs), Theirs(rs)
        PROVE  Once(over2, rs2)
    <3>1. fulfillment[f].for = 0
      BY <1>1, <1>6, <2>9 DEF Theirs, RecordState
    <3>2. \A r \in DOMAIN over2 : r # p /\ over2[r].by # 0 => r \in DOMAIN ps /\ over2[r].by = ps[r].by
      BY <2>2, <2>3
    <3>3. \A r \in DOMAIN ps : ps[r].by # f
      BY <1>6, <2>8, <2>9 DEF Once
    <3> HIDE DEF ps, rs
    <3> QED
      BY <2>1, <2>2, <2>3, <2>4, <2>8, <2>9, <3>1, <3>2, <3>3 DEF Once
  <2>10. Shape(t)
    BY <2>3, <2>5, <2>6 DEF Shape
  <2>11. Theirs(rs) => Theirs(rs2)
    BY <1>1, <2>4, <2>6 DEF Theirs
  <2>12. \A g \in DOMAIN fulfillment : rs2[g] = None <=> rs[g] = None
    BY <1>6, <2>4 DEF None
  <2>13. t.picking = over2 /\ t.record = rs2
    BY <2>5
  <2>14. Progress(s, t)
    BY <2>7, <2>9, <2>10, <2>11, <2>12, <2>13 DEF Progress, open
  <2> QED
    BY <2>14 DEF t
<1> QED
  BY <1>2, <1>4, <1>5, <1>6

LEMMA ProgressFollows ==
    ASSUME NEW s, NEW t, NEW u, Progress(s, t), Progress(t, u)
    PROVE  Progress(s, u)
BY DEF Progress

LEMMA NoProgress ==
    ASSUME NEW s, Shape(s)
    PROVE  Progress(s, s)
BY DEF Progress

\* The states of the loop over n records.
Loop(g, n, s, ready) == g = [f \in 0..n |-> IF f = 0 THEN s ELSE Validate(g[f - 1], f, ready)]

\* They exist: what a loop over n of them reaches is
\* extended by one more.
LEMMA LoopExists ==
    ASSUME NEW n \in Nat, NEW s, NEW ready
    PROVE  \E g : Loop(g, n, s, ready)
<1> DEFINE T == {k \in Nat : \E g : Loop(g, k, s, ready)}
<1>1. 0 \in T
  <2>1. Loop([f \in 0..0 |-> s], 0, s, ready)
    BY DEF Loop
  <2> QED
    BY <2>1
<1>2. ASSUME NEW k \in T
      PROVE  k + 1 \in T
  <2>1. PICK g : Loop(g, k, s, ready)
    OBVIOUS
  <2> DEFINE h == [f \in 0..(k + 1) |-> IF f = k + 1 THEN Validate(g[k], k + 1, ready) ELSE g[f]]
  <2>2. k \in Nat
    OBVIOUS
  <2>3. \A f \in 0..(k + 1) : h[f] = IF f = 0 THEN s ELSE Validate(h[f - 1], f, ready)
    <3>1. \A f \in 0..k : g[f] = IF f = 0 THEN s ELSE Validate(g[f - 1], f, ready)
      BY <2>1 DEF Loop
    <3>2. ASSUME NEW f \in 0..(k + 1), f = k + 1
          PROVE  h[f] = IF f = 0 THEN s ELSE Validate(h[f - 1], f, ready)
      <4>1. h[f] = Validate(g[k], k + 1, ready) /\ h[f - 1] = g[k] /\ f # 0
        BY <2>2, <3>2
      <4> QED
        BY <3>2, <4>1
    <3>3. ASSUME NEW f \in 0..(k + 1), f # k + 1
          PROVE  h[f] = IF f = 0 THEN s ELSE Validate(h[f - 1], f, ready)
      <4>1. f \in 0..k /\ h[f] = g[f]
        BY <2>2, <3>3
      <4>2. f # 0 => h[f - 1] = g[f - 1]
        BY <2>2, <3>3
      <4> QED
        BY <3>1, <4>1, <4>2
    <3> QED
      BY <3>2, <3>3
  <2>4. DOMAIN h = 0..(k + 1) /\ h = [f \in 0..(k + 1) |-> h[f]]
    OBVIOUS
  <2> HIDE DEF h
  <2>5. Loop(h, k + 1, s, ready)
    BY <2>3, <2>4 DEF Loop
  <2> QED
    BY <2>2, <2>5
<1> HIDE DEF T
<1>3. n \in T
  BY <1>1, <1>2, UpTo
<1> QED
  BY <1>3 DEF T

\* The whole loop.
LEMMA AppliedProgress ==
    ASSUME NEW s, Shape(s), NEW Q, fulfillment \in Seq(FulfillmentRow(Q)), NEW ready
    PROVE  Progress(s, Applied(s, ready))
<1> DEFINE n == Len(s.record)
           after == CHOOSE g : Loop(g, n, s, ready)
<1>1. n \in Nat /\ DOMAIN fulfillment = 1..n
  <2>1. Len(fulfillment) \in Nat /\ DOMAIN fulfillment = 1..Len(fulfillment)
    BY LenProperties
  <2>2. s.record \in [1..Len(fulfillment) -> RecordState]
    BY <2>1 DEF Shape
  <2>3. s.record \in Seq(RecordState)
    BY <2>1, <2>2, FunctionIsSeq
  <2>4. n \in Nat /\ DOMAIN s.record = 1..n
    BY <2>3, LenProperties
  <2> QED
    BY <2>1, <2>2, <2>4
<1>2. Applied(s, ready) = IF apply THEN after[n] ELSE s
  BY DEF Applied, Loop
<1> HIDE DEF n
<1>3. Loop(after, n, s, ready)
  <2>1. \E g : Loop(g, n, s, ready)
    BY <1>1, LoopExists, Zenon
  <2> QED
    BY <2>1, Zenon
<1> HIDE DEF after
<1> DEFINE T == {k \in 0..n : Progress(s, after[k])}
<1>4. 0 \in T
  <2>1. after[0] = s /\ 0 \in 0..n
    BY <1>1, <1>3 DEF Loop
  <2> QED
    BY <2>1, NoProgress
<1>5. ASSUME NEW k \in T, k < n
      PROVE  k + 1 \in T
  <2>1. k + 1 \in 1..n /\ k + 1 \in 0..n /\ k \in 0..n /\ k + 1 # 0 /\ k + 1 - 1 = k
    BY <1>1, <1>5
  <2>2. after[k + 1] = Validate(after[k], k + 1, ready)
    BY <1>3, <2>1 DEF Loop
  <2>3. Progress(s, after[k])
    OBVIOUS
  <2>4. Progress(after[k], after[k + 1])
    <3>1. Shape(after[k])
      BY <2>3 DEF Progress
    <3>2. k + 1 \in DOMAIN fulfillment /\ DOMAIN fulfillment \subseteq Nat \ {0}
      BY <1>1, <2>1
    <3> QED
      BY <2>2, <3>1, <3>2, ValidateProgress
  <2>5. Progress(s, after[k + 1])
    BY <2>3, <2>4, ProgressFollows
  <2> QED
    BY <2>1, <2>5
<1>6. Progress(s, after[n])
  <2> HIDE DEF T
  <2>1. n \in T
    BY <1>1, <1>4, <1>5, UpTo
  <2> QED
    BY <2>1 DEF T
<1> QED
  BY <1>2, <1>6, NoProgress

-----------------------------------------------------------------------------
(* Parts of the steps *)

LEMMA Lengths ==
    ASSUME ShapeInv
    PROVE  /\ Len(fulfillment) \in Nat /\ DOMAIN fulfillment = 1..Len(fulfillment)
           /\ record \in Seq(RecordState) /\ Len(record) = Len(fulfillment)
           /\ DOMAIN record = DOMAIN fulfillment
<1>1. Len(fulfillment) \in Nat /\ DOMAIN fulfillment = 1..Len(fulfillment)
  BY LenProperties DEF ShapeInv
<1>2. record \in Seq(RecordState)
  BY <1>1, FunctionIsSeq DEF ShapeInv
<1>3. Len(record) \in Nat /\ DOMAIN record = 1..Len(record) /\ DOMAIN record = DOMAIN fulfillment
  BY <1>2, LenProperties DEF ShapeInv
<1>4. Len(record) = Len(fulfillment)
  <2> DEFINE n == Len(record)
             m == Len(fulfillment)
  <2>1. n \in Nat /\ m \in Nat /\ 1..n = 1..m
    BY <1>1, <1>3
  <2> HIDE DEF n, m
  <2>2. (n # 0 => n \in 1..m) /\ (m # 0 => m \in 1..n)
    BY <2>1
  <2>3. n = m
    BY <2>1, <2>2
  <2> QED
    BY <2>3 DEF n, m
<1> QED
  BY <1>1, <1>2, <1>3, <1>4

\* The first excuse stays.
LEMMA ExcusesKept ==
    ASSUME excused \in Excuse \cup {None}, NEW why \in Excuse, NEW condition, Excuses(condition, why)
    PROVE  /\ excused' \in Excuse \cup {None}
           /\ excused' = None => excused = None /\ ~condition
BY DEF Excuses, Excuse, None

\* Each transaction goes on with its job and what it has made.
Undisturbed ==
    /\ \E T : doing' \in [Worker -> Doing(T)]
    /\ \A w \in Worker : /\ doing'[w].job = doing[w].job /\ doing'[w].made = doing[w].made
                         /\ doing[w] = Idle => doing'[w] = Idle

LEMMA TouchedKeeps ==
    ASSUME NEW T, NEW d \in Doing(T)
    PROVE  /\ Touched(d) \in Doing(T) /\ Touched(d).job = d.job /\ Touched(d).made = d.made
           /\ d = Idle => Touched(d) = Idle
BY DEF Touched, Doing

LEMMA TouchDisturbsNone ==
    ASSUME ShapeInv, Touch \/ UNCHANGED doing
    PROVE  Undisturbed
<1>1. PICK T : doing \in [Worker -> Doing(T)]
  BY DEF ShapeInv
<1>2. CASE UNCHANGED doing
  BY <1>1, <1>2 DEF Undisturbed
<1>3. CASE Touch
  BY <1>1, <1>3, TouchedKeeps DEF Undisturbed, Touch
<1> QED
  BY <1>2, <1>3

\* Deliveries ps are written and jobs asked, those of tracking only when all is delivered.
Asked(ps) ==
    /\ Rows(picking') /\ DOMAIN picking' = DOMAIN ps
    /\ \A p \in DOMAIN ps : picking'[p].by = ps[p].by
    /\ OpenOnes(picking') = OpenOnes(ps)
    /\ \E J \in SUBSET ExportJob :
           jobs' = jobs \cup J /\ \A j \in J : j.does = "track" => OpenOnes(ps) = {}

LEMMA AskKeeps ==
    ASSUME NEW ps, Rows(ps), NEW j \in ExportJob, j.does = "track" => OpenOnes(ps) = {}, Ask(ps, j)
    PROVE  Asked(ps)
<1>1. PICK Q : ps \in Seq(Row(Q))
  BY DEF Rows
<1>2. Len(ps) \in Nat /\ DOMAIN ps = 1..Len(ps) /\ \A p \in DOMAIN ps : ps[p] \in Row(Q)
  BY <1>1, LenProperties, ElementOfSeq
<1>3. /\ jobs' = jobs \cup {j}
      /\ picking' = [p \in DOMAIN ps |-> IF p \in Held(j) THEN [ps[p] EXCEPT !.twice = TRUE] ELSE ps[p]]
  BY DEF Ask
<1>4. \A p \in DOMAIN ps : /\ picking'[p] \in Row(Q) /\ picking'[p].by = ps[p].by
                           /\ picking'[p].state = ps[p].state
  BY <1>2, <1>3 DEF Row
<1>5. picking' \in [1..Len(ps) -> Row(Q)] /\ DOMAIN picking' = DOMAIN ps
  BY <1>2, <1>3, <1>4
<1>6. picking' \in Seq(Row(Q))
  BY <1>2, <1>5, FunctionIsSeq
<1>7. OpenOnes(picking') = OpenOnes(ps)
  BY <1>4, <1>5 DEF OpenOnes
<1>8. \E J \in SUBSET ExportJob :
          jobs' = jobs \cup J /\ \A k \in J : k.does = "track" => OpenOnes(ps) = {}
  <2>1. {j} \in SUBSET ExportJob /\ \A k \in {j} : k.does = "track" => OpenOnes(ps) = {}
    OBVIOUS
  <2> QED
    BY <1>3, <2>1
<1> QED
  BY <1>4, <1>5, <1>6, <1>7, <1>8 DEF Asked, Rows

LEMMA NothingAsked ==
    ASSUME NEW ps, Rows(ps), UNCHANGED jobs, picking' = ps
    PROVE  Asked(ps)
<1>1. {} \in SUBSET ExportJob /\ jobs' = jobs \cup {}
  OBVIOUS
<1> QED
  BY <1>1 DEF Asked

LEMMA TrackAllKeeps ==
    ASSUME NEW ps, Rows(ps), Shipped(ps), TrackAll(ps)
    PROVE  Asked(ps)
<1> DEFINE j == ExportTracking(Unsent(ps))
<1>1. j \in ExportJob
  BY Domain DEF ExportTracking, ExportJob
<1>2. OpenOnes(ps) = {}
  BY DEF Shipped
<1>3. Ask(ps, j) => Asked(ps)
  BY <1>1, <1>2, AskKeeps
<1> QED
  BY <1>3, NothingAsked DEF TrackAll

LEMMA PickingHooksKeep ==
    ASSUME NEW ps, Rows(ps), NEW p \in DOMAIN ps, PickingHooks(ps, p)
    PROVE  Asked(ps)
<1> DEFINE j == SendPicking(p)
<1>1. j \in ExportJob /\ j.does # "track"
  BY Domain DEF SendPicking, ExportJob
<1>2. Ask(ps, j) => Asked(ps)
  BY <1>1, AskKeeps
<1> HIDE DEF j
<1>3. \/ Shipped(ps) /\ TrackAll(ps)
      \/ Ask(ps, j)
      \/ UNCHANGED jobs /\ picking' = ps
  BY DEF PickingHooks, j
<1> QED
  BY <1>2, <1>3, TrackAllKeeps, NothingAsked

-----------------------------------------------------------------------------
(* Steps of users *)

\* A step of a user that leaves the fulfillments and their records alone.
LEMMA UserStep ==
    ASSUME IInv, NEW ps, Rows(ps), Asked(ps), Undisturbed, confirmed,
           UNCHANGED <<confirmed, fulfillment, record>>,
           excused' \in Excuse \cup {None}, excused' = None => excused = None,
           \A p \in DOMAIN ps : ps[p].by # 0 => p \in DOMAIN picking /\ ps[p].by = picking[p].by,
           OpenOnes(picking) = {} => OpenOnes(ps) = {}
    PROVE  IInv'
<1>1. ShapeInv'
  BY DEF IInv, ShapeInv, Asked, Undisturbed, Asleep
<1>2. ShippedInv'
  BY DEF IInv, ShippedInv, Asked, Undisturbed
<1>3. ASSUME excused' = None
      PROVE  Once(picking, record)' /\ Theirs(record)' /\ MadeInv'
  <2>1. Once(picking, record) /\ Theirs(record) /\ MadeInv
    BY <1>3 DEF IInv, EchoInv
  <2>2. \A p \in DOMAIN picking' :
            picking'[p].by # 0 => p \in DOMAIN picking /\ picking'[p].by = picking[p].by
    BY DEF Asked
  <2>3. Once(picking, record)'
    BY <2>1, <2>2 DEF Once
  <2>4. Theirs(record)' /\ MadeInv'
    BY <2>1 DEF Theirs, MadeInv, Undisturbed
  <2> QED
    BY <2>3, <2>4
<1> QED
  BY <1>1, <1>2, <1>3 DEF IInv, EchoInv

\* A delivery of a confirmed order.
LEMMA Confirmed ==
    ASSUME IInv, NEW p \in DOMAIN picking
    PROVE  confirmed /\ Rows(picking)
BY DEF IInv, ShapeInv

LEMMA ButtonValidateStep ==
    ASSUME IInv, NEW p \in DOMAIN picking, NEW q, NEW keep, ButtonValidate(p, q, keep)
    PROVE  IInv'
<1> DEFINE ps == Validated(picking, p, q, keep)
<1>1. confirmed /\ Rows(picking)
  BY Confirmed
<1>2. /\ Rows(ps) /\ p \in DOMAIN ps
      /\ \A r \in DOMAIN ps : ps[r].by = IF r \in DOMAIN picking THEN picking[r].by ELSE 0
  BY <1>1, ValidatedKeeps
<1>3. PickingHooks(ps, p) /\ TouchIf(ps) /\ Excuses(Coming, "crossed")
      /\ UNCHANGED <<confirmed, fulfillment, record>> /\ picking[p].state = "open"
  BY DEF ButtonValidate
<1> HIDE DEF ps
<1>4. Asked(ps)
  BY <1>2, <1>3, PickingHooksKeep
<1>5. Undisturbed
  BY <1>3, TouchDisturbsNone DEF TouchIf, IInv
<1>6. excused' \in Excuse \cup {None} /\ (excused' = None => excused = None)
  <2>1. excused \in Excuse \cup {None} /\ "crossed" \in Excuse
    BY DEF IInv, ShapeInv, Excuse
  <2> QED
    BY <1>3, <2>1, ExcusesKept
<1>7. OpenOnes(picking) # {}
  BY <1>3 DEF OpenOnes
<1> QED
  BY <1>1, <1>2, <1>3, <1>4, <1>5, <1>6, <1>7, UserStep

LEMMA CancelPickingStep ==
    ASSUME IInv, NEW p \in DOMAIN picking, CancelPicking(p)
    PROVE  IInv'
<1> DEFINE x == [picking[p] EXCEPT !.state = "cancel"]
           ps == Put(picking, p, x)
<1>1. confirmed /\ Rows(picking)
  BY Confirmed
<1>2. /\ Rows(ps) /\ DOMAIN ps = DOMAIN picking
      /\ \A r \in DOMAIN ps : ps[r].by = picking[r].by
  <2>1. PICK Q : picking \in Seq(Row(Q))
    BY <1>1 DEF Rows
  <2>2. picking[p] \in Row(Q)
    BY <2>1, LenProperties, ElementOfSeq
  <2>3. x \in Row(Q) /\ x.by = picking[p].by
    BY <2>2 DEF Row
  <2> HIDE DEF x
  <2>4. \A y \in Row(Q) :
           /\ Put(picking, p, y) \in Seq(Row(Q)) /\ DOMAIN Put(picking, p, y) = DOMAIN picking
           /\ Put(picking, p, y)[p] = y
           /\ \A r \in DOMAIN picking \ {p} : Put(picking, p, y)[r] = picking[r]
    BY <2>1, PutRows
  <2> QED
    BY <2>3, <2>4 DEF Rows
<1>3. PickingHooks(ps, p) /\ TouchIf(ps) /\ Excuses(Coming, "crossed")
      /\ UNCHANGED <<confirmed, fulfillment, record>> /\ picking[p].state = "open"
  BY DEF CancelPicking
<1> HIDE DEF ps
<1>4. Asked(ps)
  BY <1>2, <1>3, PickingHooksKeep
<1>5. Undisturbed
  BY <1>3, TouchDisturbsNone DEF TouchIf, IInv
<1>6. excused' \in Excuse \cup {None} /\ (excused' = None => excused = None)
  <2>1. excused \in Excuse \cup {None} /\ "crossed" \in Excuse
    BY DEF IInv, ShapeInv, Excuse
  <2> QED
    BY <1>3, <2>1, ExcusesKept
<1>7. OpenOnes(picking) # {}
  BY <1>3 DEF OpenOnes
<1> QED
  BY <1>1, <1>2, <1>3, <1>4, <1>5, <1>6, <1>7, UserStep

LEMMA AutoValidateStep ==
    ASSUME IInv, NEW p \in DOMAIN picking, NEW ready, AutoValidate(p, ready)
    PROVE  IInv'
<1> DEFINE q == [l \in Line |-> IF l \in ready THEN picking[p].qty[l] ELSE 0]
           ps == Validated(picking, p, q, TRUE)
<1>1. confirmed /\ Rows(picking)
  BY Confirmed
<1>2. /\ Rows(ps)
      /\ \A r \in DOMAIN ps : ps[r].by = IF r \in DOMAIN picking THEN picking[r].by ELSE 0
  <2> HIDE DEF q
  <2> QED
    BY <1>1, ValidatedKeeps
<1>3. /\ picking' = ps /\ UNCHANGED jobs
      /\ TouchIf(ps) /\ Excuses(Coming \/ Delivered(ps) # Fulfilled, "auto")
      /\ UNCHANGED <<confirmed, fulfillment, record>> /\ picking[p].state = "open"
  BY DEF AutoValidate
<1> HIDE DEF ps
<1>4. Asked(ps)
  BY <1>2, <1>3, NothingAsked
<1>5. Undisturbed
  BY <1>3, TouchDisturbsNone DEF TouchIf, IInv
<1>6. excused' \in Excuse \cup {None} /\ (excused' = None => excused = None)
  <2>1. excused \in Excuse \cup {None} /\ "auto" \in Excuse
    BY DEF IInv, ShapeInv, Excuse
  <2> QED
    BY <1>3, <2>1, ExcusesKept
<1>7. OpenOnes(picking) # {}
  BY <1>3 DEF OpenOnes
<1> QED
  BY <1>1, <1>2, <1>3, <1>4, <1>5, <1>6, <1>7, UserStep

LEMMA SetTrackingStep ==
    ASSUME IInv, NEW p \in DOMAIN picking, SetTracking(p)
    PROVE  IInv'
<1> DEFINE x == [picking[p] EXCEPT !.ref = TRUE]
           ps == Put(picking, p, x)
<1>1. confirmed /\ Rows(picking)
  BY Confirmed
<1>2. /\ Rows(ps) /\ DOMAIN ps = DOMAIN picking
      /\ \A r \in DOMAIN ps : ps[r].by = picking[r].by /\ ps[r].state = picking[r].state
  <2>1. PICK Q : picking \in Seq(Row(Q))
    BY <1>1 DEF Rows
  <2>2. picking[p] \in Row(Q)
    BY <2>1, LenProperties, ElementOfSeq
  <2>3. x \in Row(Q) /\ x.by = picking[p].by /\ x.state = picking[p].state
    BY <2>2 DEF Row
  <2> HIDE DEF x
  <2>4. \A y \in Row(Q) :
           /\ Put(picking, p, y) \in Seq(Row(Q)) /\ DOMAIN Put(picking, p, y) = DOMAIN picking
           /\ Put(picking, p, y)[p] = y
           /\ \A r \in DOMAIN picking \ {p} : Put(picking, p, y)[r] = picking[r]
    BY <2>1, PutRows
  <2> QED
    BY <2>3, <2>4 DEF Rows
<1>3. /\ (Shipped(ps) /\ TrackAll(ps)) \/ (UNCHANGED jobs /\ picking' = ps)
      /\ UNCHANGED <<confirmed, fulfillment, record, doing, excused>>
  BY DEF SetTracking
<1> HIDE DEF ps
<1>4. Asked(ps)
  BY <1>2, <1>3, TrackAllKeeps, NothingAsked
<1>5. Undisturbed
  BY <1>3, TouchDisturbsNone DEF IInv
<1>6. excused \in Excuse \cup {None}
  BY DEF IInv, ShapeInv
<1>7. OpenOnes(picking) = OpenOnes(ps)
  BY <1>2 DEF OpenOnes
<1> QED
  BY <1>1, <1>2, <1>3, <1>4, <1>5, <1>6, <1>7, UserStep

LEMMA ConfirmStep ==
    ASSUME IInv, NEW ready, Confirm(ready)
    PROVE  IInv'
<1> DEFINE s == [picking |-> <<Open(ordered)>>, record |-> record]
           t == Applied(s, ready)
<1>1. /\ ~confirmed /\ confirmed' = TRUE
      /\ picking' = t.picking /\ record' = t.record /\ Excuses(Short(t), "short")
      /\ UNCHANGED <<fulfillment, jobs, doing>>
  BY DEF Confirm, Write
<1>2. Shape(s) /\ s.record = record /\ \A p \in DOMAIN s.picking : s.picking[p].by = 0
  <2>1. Open(ordered) \in Row({ordered}) /\ Open(ordered).by = 0
    BY DEF Open, Row
  <2>2. <<Open(ordered)>> \in Seq(Row({ordered})) /\ DOMAIN <<Open(ordered)>> = {1}
    BY <2>1
  <2>3. Rows(<<Open(ordered)>>)
    BY <2>2 DEF Rows
  <2>4. s \in [picking : {<<Open(ordered)>>}, record : {record}]
    OBVIOUS
  <2>5. record \in [DOMAIN fulfillment -> RecordState]
    BY DEF IInv, ShapeInv
  <2>6. s.picking = <<Open(ordered)>> /\ s.record = record
    OBVIOUS
  <2> HIDE DEF s
  <2>7. Shape(s)
    BY <2>3, <2>4, <2>5, <2>6 DEF Shape
  <2> QED
    BY <2>1, <2>2, <2>6, <2>7
<1> HIDE DEF s
<1>3. Progress(s, t)
  <2>1. PICK Q : fulfillment \in Seq(FulfillmentRow(Q))
    BY DEF IInv, ShapeInv
  <2> QED
    BY <1>2, <2>1, AppliedProgress
<1> HIDE DEF t
<1>4. excused' \in Excuse \cup {None} /\ (excused' = None => excused = None)
  <2>1. excused \in Excuse \cup {None} /\ "short" \in Excuse
    BY DEF IInv, ShapeInv, Excuse
  <2> QED
    BY <1>1, <2>1, ExcusesKept
<1>5. ShapeInv'
  BY <1>1, <1>3, <1>4 DEF IInv, ShapeInv, Progress, Shape, Asleep
<1>6. ShippedInv'
  BY <1>1 DEF IInv, ShippedInv
<1>7. ASSUME excused' = None
      PROVE  Once(picking, record)' /\ Theirs(record)' /\ MadeInv'
  <2>1. Once(s.picking, record) /\ Theirs(record) /\ MadeInv
    BY <1>2, <1>4, <1>7 DEF IInv, EchoInv, Once
  <2>2. Once(t.picking, t.record) /\ Theirs(t.record)
        /\ \A f \in DOMAIN fulfillment : t.record[f] = None <=> record[f] = None
    BY <1>2, <1>3, <2>1 DEF Progress
  <2> QED
    BY <1>1, <2>1, <2>2 DEF Once, Theirs, MadeInv
<1> QED
  BY <1>5, <1>6, <1>7 DEF IInv, EchoInv

-----------------------------------------------------------------------------
(* Steps of exports *)

LEMMA BeginStep ==
    ASSUME IInv, NEW w \in Worker, NEW j \in jobs, Begin(w, j)
    PROVE  IInv'
<1> DEFINE todo == SetToSortSeq(j.pickings, LAMBDA p, q : p < q)
           d == [Idle EXCEPT !.job = j, !.todo = todo]
<1>1. /\ doing[w] = Idle /\ j.does # "hook" /\ jobs' = jobs \ {j}
      /\ doing' = [doing EXCEPT ![w] = d]
      /\ UNCHANGED <<confirmed, picking, record, fulfillment, excused>>
  BY DEF Begin, Asleep, order
<1> HIDE DEF todo
<1>2. PICK T : doing \in [Worker -> Doing(T)]
  BY DEF IInv, ShapeInv
<1>3. j \in ExportJob
  BY <1>1 DEF IInv, ShapeInv, HookJob
<1>4. d \in Doing(T \cup {todo}) /\ d.job = j /\ d.made = {}
  BY <1>3 DEF Doing, Idle, NoJob
<1> HIDE DEF d
<1>5. doing' \in [Worker -> Doing(T \cup {todo})]
  BY <1>1, <1>2, <1>4 DEF Doing
<1>6. doing[w].made = {}
  BY <1>1 DEF Idle
<1>7. \A v \in Worker : doing'[v].made = doing[v].made /\ doing'[v].job = IF v = w THEN j ELSE doing[v].job
  BY <1>1, <1>2, <1>4, <1>6
<1>8. ShapeInv'
  <2>1. j # NoJob
    BY <1>3 DEF ExportJob, NoJob, None
  <2>2. \A v \in Worker : doing'[v].job = NoJob => doing'[v] = Idle
    BY <1>1, <1>2, <1>7, <2>1 DEF IInv, ShapeInv, Asleep
  <2> QED
    BY <1>1, <1>5, <1>7, <2>2 DEF IInv, ShapeInv, Asleep
<1>9. ShippedInv'
  BY <1>1, <1>7 DEF IInv, ShippedInv
<1>10. EchoInv'
  BY <1>1, <1>7 DEF IInv, EchoInv, Once, Theirs, MadeInv
<1> QED
  BY <1>8, <1>9, <1>10 DEF IInv

\* A fulfillment x is made in the store, of a delivery by an export, or by the staff.
LEMMA AppendStep ==
    ASSUME IInv, NEW x, NEW Q, x \in FulfillmentRow(Q),
           fulfillment' = Append(fulfillment, x), record' = Append(record, None),
           UNCHANGED <<confirmed, picking, jobs>>,
           excused' \in Excuse \cup {None}, excused' = None => excused = None,
           NEW T, doing' \in [Worker -> Doing(T)],
           \A v \in Worker : /\ doing'[v].job = doing[v].job
                             /\ doing[v].made \subseteq doing'[v].made
                             /\ doing'[v].made \subseteq doing[v].made \cup {Len(record) + 1}
                             /\ doing[v] = Idle => doing'[v] = Idle,
           x.for # 0 => \E v \in Worker : Len(record) + 1 \in doing'[v].made
    PROVE  IInv'
<1> DEFINE n == Len(fulfillment)
<1>1. /\ n \in Nat /\ DOMAIN fulfillment = 1..n /\ record \in Seq(RecordState)
      /\ Len(record) = n /\ DOMAIN record = 1..n
  BY Lengths DEF IInv
<1>2. PICK P : fulfillment \in Seq(FulfillmentRow(P))
  BY DEF IInv, ShapeInv
<1>3. /\ fulfillment' \in Seq(FulfillmentRow(P \cup Q)) /\ DOMAIN fulfillment' = 1..(n + 1)
      /\ fulfillment'[n + 1] = x /\ \A f \in 1..n : fulfillment'[f] = fulfillment[f]
  <2>1. FulfillmentRow(P) \subseteq FulfillmentRow(P \cup Q) /\ x \in FulfillmentRow(P \cup Q)
    BY DEF FulfillmentRow
  <2>2. fulfillment \in Seq(FulfillmentRow(P \cup Q))
    BY <1>2, <2>1, SeqMonotonic
  <2>3. fulfillment' \in Seq(FulfillmentRow(P \cup Q)) /\ Len(fulfillment') = n + 1
        /\ fulfillment'[n + 1] = x /\ \A f \in 1..n : fulfillment'[f] = fulfillment[f]
    BY <2>1, <2>2, AppendProperties
  <2> QED
    BY <2>3, LenProperties
<1>4. /\ record' \in [1..(n + 1) -> RecordState]
      /\ record'[n + 1] = None /\ \A f \in 1..n : record'[f] = record[f]
  <2>1. None \in RecordState
    BY DEF RecordState
  <2>2. record' \in Seq(RecordState) /\ Len(record') = n + 1
        /\ record'[n + 1] = None /\ \A f \in 1..n : record'[f] = record[f]
    BY <1>1, <2>1, AppendProperties
  <2> QED
    BY <2>2, LenProperties
<1>5. \A v \in Worker : doing'[v].made \subseteq 1..(n + 1)
  BY <1>1 DEF IInv, ShapeInv
<1> HIDE DEF n
<1>6. ShapeInv'
  BY <1>3, <1>4, <1>5 DEF IInv, ShapeInv, Asleep
<1>7. ShippedInv'
  BY DEF IInv, ShippedInv
<1>8. ASSUME excused' = None
      PROVE  Once(picking, record)' /\ Theirs(record)' /\ MadeInv'
  <2>1. Once(picking, record) /\ Theirs(record) /\ MadeInv
    BY <1>8 DEF IInv, EchoInv
  <2>2. \A f \in 1..(n + 1) : f \in 1..n \/ f = n + 1
    BY <1>1
  <2>3. Once(picking, record)'
    BY <1>1, <1>3, <1>4, <2>1 DEF Once
  <2>4. Theirs(record)'
    BY <1>1, <1>3, <1>4, <2>1, <2>2 DEF Theirs, None
  <2>5. ASSUME NEW f \in 1..(n + 1), record'[f] = None, fulfillment'[f].for # 0
        PROVE  \E v \in Worker : f \in doing'[v].made
    <3>1. CASE f \in 1..n
      <4>1. \E v \in Worker : f \in doing[v].made
        BY <1>1, <1>3, <1>4, <2>1, <2>5, <3>1 DEF MadeInv
      <4> QED
        BY <4>1
    <3>2. CASE f = n + 1
      BY <1>1, <1>3, <2>5, <3>2
    <3> QED
      BY <2>2, <3>1, <3>2
  <2>6. MadeInv'
    BY <1>3, <2>5 DEF MadeInv
  <2> QED
    BY <2>3, <2>4, <2>6
<1> QED
  BY <1>6, <1>7, <1>8 DEF IInv, EchoInv

LEMMA CallStoreStep ==
    ASSUME IInv, NEW w \in Worker, CallStore(w)
    PROVE  IInv'
<1> DEFINE d == doing[w]
           p == Head(d.todo)
           q == Least(picking[p].qty, Remaining)
           rest == Tail(d.todo)
           x == [qty |-> q, for |-> p]
           n == Len(record) + 1
<1>1. UNCHANGED <<confirmed, picking, jobs>> /\ d # Idle
  BY DEF CallStore, Asleep
<1>2. PICK T : doing \in [Worker -> Doing(T)]
  BY DEF IInv, ShapeInv
<1> DEFINE U == T \cup {rest}
<1>3. /\ [d EXCEPT !.todo = rest] \in Doing(U)
      /\ n \in Nat => [d EXCEPT !.todo = rest, !.made = @ \cup {n}] \in Doing(U)
  BY <1>2 DEF Doing
<1>4. n \in Nat
  BY Lengths DEF IInv
<1>5. \/ /\ doing' = [doing EXCEPT ![w] = [d EXCEPT !.todo = rest]]
         /\ UNCHANGED <<fulfillment, record, excused>>
      \/ /\ fulfillment' = Append(fulfillment, x) /\ record' = Append(record, None)
         /\ doing' = [doing EXCEPT ![w] = [d EXCEPT !.todo = rest, !.made = @ \cup {n}]]
         /\ \E c : Excuses(c, "both")
  <2> HIDE DEF q
  <2> QED
    BY <1>2 DEF CallStore, Doing, q
<1> HIDE DEF rest, n, q
<1>6. CASE /\ doing' = [doing EXCEPT ![w] = [d EXCEPT !.todo = rest]]
           /\ UNCHANGED <<fulfillment, record, excused>>
  <2>1. doing' \in [Worker -> Doing(U)]
    BY <1>2, <1>3, <1>6 DEF Doing
  <2>2. \A v \in Worker : /\ doing'[v].job = doing[v].job /\ doing'[v].made = doing[v].made
                          /\ doing[v] = Idle => doing'[v] = Idle
    BY <1>1, <1>2, <1>6 DEF Doing
  <2> HIDE DEF U
  <2> QED
    BY <1>1, <1>6, <2>1, <2>2 DEF IInv, ShapeInv, ShippedInv, EchoInv, Once, Theirs, MadeInv, Asleep
<1>7. CASE /\ fulfillment' = Append(fulfillment, x) /\ record' = Append(record, None)
           /\ doing' = [doing EXCEPT ![w] = [d EXCEPT !.todo = rest, !.made = @ \cup {n}]]
           /\ \E c : Excuses(c, "both")
  <2>1. doing' \in [Worker -> Doing(U)]
    BY <1>2, <1>3, <1>4, <1>7 DEF Doing
  <2>2. /\ \A v \in Worker : /\ doing'[v].job = doing[v].job
                             /\ doing[v].made \subseteq doing'[v].made
                             /\ doing'[v].made \subseteq doing[v].made \cup {n}
                             /\ doing[v] = Idle => doing'[v] = Idle
        /\ n \in doing'[w].made
    BY <1>1, <1>2, <1>7 DEF Doing
  <2>3. x \in FulfillmentRow({q, p})
    BY DEF FulfillmentRow
  <2>4. excused' \in Excuse \cup {None} /\ (excused' = None => excused = None)
    <3>1. excused \in Excuse \cup {None} /\ "both" \in Excuse
      BY DEF IInv, ShapeInv, Excuse
    <3> QED
      BY <1>7, <3>1, ExcusesKept
  <2> HIDE DEF U, x
  <2> QED
    BY <1>1, <1>7, <2>1, <2>2, <2>3, <2>4, AppendStep DEF n
<1> QED
  BY <1>5, <1>6, <1>7

\* A transaction ends with nothing written: what it has made is forgotten, which is an
\* excuse, and its job waits again or is dropped.
LEMMA EndStep ==
    ASSUME IInv, NEW w \in Worker, ~Asleep(w), doing' = [doing EXCEPT ![w] = Idle],
           jobs' \subseteq jobs \cup {doing[w].job},
           UNCHANGED <<confirmed, picking, record, fulfillment>>,
           excused' \in Excuse \cup {None},
           excused' = None => excused = None /\ doing[w].made = {}
    PROVE  IInv'
<1>1. PICK T : doing \in [Worker -> Doing(T)]
  BY DEF IInv, ShapeInv
<1>2. Idle \in Doing(T \cup {<<>>}) /\ Idle.made = {} /\ Idle.job = NoJob /\ NoJob.does = None
  BY DEF Doing, Idle, NoJob
<1>3. doing' \in [Worker -> Doing(T \cup {<<>>})]
  BY <1>1, <1>2 DEF Doing
<1>4. \A v \in Worker : doing'[v] = IF v = w THEN Idle ELSE doing[v]
  BY <1>1
<1>5. doing[w].job \in ExportJob
  BY <1>1 DEF Doing, IInv, ShapeInv
<1>6. ShapeInv'
  BY <1>2, <1>3, <1>4, <1>5 DEF IInv, ShapeInv, Asleep
<1>7. ShippedInv'
  BY <1>2, <1>4 DEF IInv, ShippedInv, None
<1>8. EchoInv'
  BY <1>4 DEF IInv, EchoInv, Once, Theirs, MadeInv
<1> QED
  BY <1>6, <1>7, <1>8 DEF IInv

LEMMA RetryStep ==
    ASSUME IInv, NEW w \in Worker, ~Asleep(w), Retry(w)
    PROVE  IInv'
<1>1. /\ doing' = [doing EXCEPT ![w] = Idle] /\ jobs' = jobs \cup {doing[w].job}
      /\ Excuses(doing[w].made # {}, "retried")
      /\ UNCHANGED <<confirmed, picking, record, fulfillment>>
  BY DEF Retry, order
<1>2. excused \in Excuse \cup {None} /\ "retried" \in Excuse
  BY DEF IInv, ShapeInv, Excuse
<1> QED
  BY <1>1, <1>2, ExcusesKept, EndStep

LEMMA RefusedStep ==
    ASSUME IInv, NEW w \in Worker, Refused(w)
    PROVE  IInv'
<1>1. /\ ~Asleep(w) /\ doing' = [doing EXCEPT ![w] = Idle] /\ jobs' = jobs
      /\ Excuses(TRUE, "failed")
      /\ UNCHANGED <<confirmed, picking, record, fulfillment>>
  BY DEF Refused, order
<1>2. excused \in Excuse \cup {None} /\ "failed" \in Excuse
  BY DEF IInv, ShapeInv, Excuse
<1> QED
  BY <1>1, <1>2, ExcusesKept, EndStep

\* What an export that has made something writes.
LEMMA SentProgress ==
    ASSUME IInv, NEW w \in Worker, ~Asleep(w), NEW ready
    PROVE  LET t == Sent(doing[w], ready)
           IN  /\ Shape(t)
               /\ OpenOnes(picking) = {} => OpenOnes(t.picking) = {}
               /\ picking = <<>> => t.picking = <<>>
               /\ \A f \in DOMAIN fulfillment :
                      t.record[f] = None <=> record[f] = None /\ f \notin doing[w].made
               /\ Once(picking, record) /\ Theirs(record)
                      => Once(t.picking, t.record) /\ Theirs(t.record)
<1> DEFINE d == doing[w]
           ps == [p \in DOMAIN picking |->
                     IF p \in d.job.pickings THEN [picking[p] EXCEPT !.sent = TRUE] ELSE picking[p]]
           rs == [f \in DOMAIN record |-> IF f \in d.made THEN SentStatus(d.job.does) ELSE record[f]]
           s == [picking |-> ps, record |-> rs]
           t == Applied(s, ready)
           done == [f \in DOMAIN t.record |-> IF t.record[f] = None THEN None ELSE "done"]
<1>1. Sent(d, ready) = IF d.job.does = "send" THEN t ELSE [t EXCEPT !.record = done]
  BY DEF Sent
<1>2. SentStatus(d.job.does) = IF d.job.does = "send" THEN "done" ELSE "draft"
  BY DEF SentStatus
<1>3. PICK Q : picking \in Seq(Row(Q))
  BY DEF IInv, ShapeInv, Rows
<1>4. Len(picking) \in Nat /\ DOMAIN picking = 1..Len(picking) /\ \A p \in DOMAIN picking : picking[p] \in Row(Q)
  BY <1>3, LenProperties, ElementOfSeq
<1>5. /\ Rows(ps) /\ DOMAIN ps = DOMAIN picking
      /\ \A p \in DOMAIN picking : ps[p].by = picking[p].by /\ ps[p].state = picking[p].state
  <2>1. \A p \in DOMAIN picking : /\ ps[p] \in Row(Q) /\ ps[p].by = picking[p].by
                                  /\ ps[p].state = picking[p].state
    BY <1>4 DEF Row
  <2>2. ps \in [1..Len(picking) -> Row(Q)]
    BY <1>4, <2>1
  <2> HIDE DEF ps
  <2>3. ps \in Seq(Row(Q))
    BY <1>4, <2>2, FunctionIsSeq
  <2> QED
    BY <1>4, <2>1, <2>2, <2>3 DEF Rows
<1>6. /\ rs \in [DOMAIN fulfillment -> RecordState]
      /\ \A f \in DOMAIN fulfillment :
             rs[f] = IF f \in d.made THEN SentStatus(d.job.does) ELSE record[f]
  BY <1>2 DEF IInv, ShapeInv, RecordState
<1>7. s.picking = ps /\ s.record = rs /\ s \in [picking : {ps}, record : {rs}]
  OBVIOUS
<1> HIDE DEF s, ps, rs
<1>8. OpenOnes(ps) = OpenOnes(picking)
  BY <1>5 DEF OpenOnes
<1>9. Shape(s)
  BY <1>5, <1>6, <1>7 DEF Shape
<1>10. Progress(s, t)
  <2>1. PICK P : fulfillment \in Seq(FulfillmentRow(P))
    BY DEF IInv, ShapeInv
  <2> QED
    BY <1>9, <2>1, AppliedProgress
<1> HIDE DEF t
<1>11. /\ Shape(t) /\ (OpenOnes(picking) = {} => t.picking = ps)
       /\ \A f \in DOMAIN fulfillment : t.record[f] = None <=> record[f] = None /\ f \notin d.made
  BY <1>2, <1>6, <1>7, <1>8, <1>10 DEF Progress, None
<1>12. picking = <<>> => OpenOnes(picking) = {} /\ ps = <<>>
  <2> SUFFICES ASSUME picking = <<>>
               PROVE  OpenOnes(picking) = {} /\ ps = <<>>
    OBVIOUS
  <2>1. DOMAIN picking = {}
    BY EmptySeq, LenProperties
  <2>2. PICK P : ps \in Seq(Row(P))
    BY <1>5 DEF Rows
  <2>3. Len(ps) \in Nat /\ 1..Len(ps) = {}
    BY <1>5, <2>1, <2>2, LenProperties
  <2>4. Len(ps) = 0
    BY <2>3
  <2>5. ps = <<>>
    BY <2>2, <2>4, EmptySeq
  <2> QED
    BY <2>1, <2>5 DEF OpenOnes
<1>13. CASE d.job.does = "send"
  <2>1. ASSUME Once(picking, record), Theirs(record)
        PROVE  Once(ps, rs) /\ Theirs(rs)
    BY <1>2, <1>5, <1>6, <1>13, <2>1 DEF Once, Theirs, IInv, ShapeInv
  <2> QED
    BY <1>1, <1>7, <1>8, <1>10, <1>11, <1>12, <1>13, <2>1 DEF Progress
<1>14. CASE d.job.does # "send"
  <2>1. OpenOnes(picking) = {}
    <3>1. PICK T : doing \in [Worker -> Doing(T)]
      BY DEF IInv, ShapeInv
    <3>2. d.job.does = "track"
      BY <1>14, <3>1 DEF Doing, ExportJob, IInv, ShapeInv
    <3> QED
      BY <3>2 DEF IInv, ShippedInv
  <2>2. t.picking = ps
    BY <1>7, <1>8, <1>10, <2>1 DEF Progress
  <2>3. Sent(d, ready) = [picking |-> ps, record |-> done]
    BY <1>1, <1>11, <1>14, <2>2 DEF Shape
  <2>4. \A f \in DOMAIN fulfillment : done[f] = IF t.record[f] = None THEN None ELSE "done"
    BY <1>11 DEF Shape
  <2>5. done \in [DOMAIN fulfillment -> RecordState]
    BY <1>11, <2>4 DEF Shape, RecordState
  <2> DEFINE u == Sent(d, ready)
  <2>6. u.picking = ps /\ u.record = done /\ u \in [picking : {ps}, record : {done}]
    BY <2>3
  <2> HIDE DEF done, u
  <2>7. Shape(u)
    BY <1>5, <2>5, <2>6 DEF Shape
  <2>8. \A f \in DOMAIN fulfillment : done[f] = None <=> record[f] = None /\ f \notin d.made
    BY <1>11, <2>4 DEF None
  <2>9. Theirs(done)
    BY <2>4, <2>5 DEF Theirs, None
  <2>10. ASSUME Once(picking, record)
         PROVE  Once(ps, done)
    BY <1>2, <1>5, <1>6, <1>7, <1>10, <2>4, <2>8, <2>10, <1>14 DEF Once, None, Progress
  <2> QED
    BY <1>8, <1>12, <2>1, <2>6, <2>7, <2>8, <2>9, <2>10 DEF u
<1> QED
  BY <1>13, <1>14

LEMMA CommitStep ==
    ASSUME IInv, NEW w \in Worker, NEW ready, Commit(w, ready)
    PROVE  IInv'
<1> DEFINE d == doing[w]
           s == IF d.made = {} THEN [picking |-> picking, record |-> record] ELSE Sent(d, ready)
<1>1. /\ ~Asleep(w) /\ picking' = s.picking /\ record' = s.record /\ Excuses(Short(s), "short")
      /\ doing' = [v \in Worker |->
             IF v = w THEN Idle ELSE IF d.made = {} THEN doing[v] ELSE Touched(doing[v])]
      /\ UNCHANGED <<confirmed, fulfillment, jobs>>
  BY DEF Commit, Write
<1>2. /\ Rows(s.picking) /\ s.record \in [DOMAIN fulfillment -> RecordState]
      /\ OpenOnes(picking) = {} => OpenOnes(s.picking) = {}
      /\ picking = <<>> => s.picking = <<>>
      /\ \A f \in DOMAIN fulfillment : s.record[f] = None => record[f] = None /\ f \notin d.made
      /\ Once(picking, record) /\ Theirs(record) => Once(s.picking, s.record) /\ Theirs(s.record)
  <2>1. CASE d.made = {}
    BY <2>1 DEF IInv, ShapeInv
  <2>2. CASE d.made # {}
    <3> DEFINE t == Sent(d, ready)
    <3>1. /\ Shape(t)
          /\ OpenOnes(picking) = {} => OpenOnes(t.picking) = {}
          /\ picking = <<>> => t.picking = <<>>
          /\ \A f \in DOMAIN fulfillment :
                 t.record[f] = None <=> record[f] = None /\ f \notin doing[w].made
          /\ Once(picking, record) /\ Theirs(record)
                 => Once(t.picking, t.record) /\ Theirs(t.record)
      BY <1>1, SentProgress
    <3> HIDE DEF t
    <3>2. s = t
      BY <2>2 DEF t
    <3> HIDE DEF s
    <3> QED
      BY <3>1, <3>2 DEF Shape
  <2> QED
    BY <2>1, <2>2
<1> HIDE DEF s
<1>3. PICK T : doing \in [Worker -> Doing(T)]
  BY DEF IInv, ShapeInv
<1> DEFINE U == T \cup {<<>>}
<1>4. Idle \in Doing(U) /\ Idle.made = {} /\ Idle.job = NoJob /\ NoJob.does = None
  BY DEF Doing, Idle, NoJob
<1>5. \A v \in Worker : doing[v] \in Doing(U)
  BY <1>3 DEF Doing
<1>6. \A v \in Worker : Touched(doing[v]) \in Doing(U) /\ Touched(doing[v]).job = doing[v].job
          /\ Touched(doing[v]).made = doing[v].made /\ (doing[v] = Idle => Touched(doing[v]) = Idle)
  BY <1>5, TouchedKeeps
<1> HIDE DEF U
<1>7. doing' \in [Worker -> Doing(U)] /\ doing'[w] = Idle
  BY <1>1, <1>4, <1>5, <1>6
<1>8. \A v \in Worker \ {w} : /\ doing'[v].job = doing[v].job /\ doing'[v].made = doing[v].made
                              /\ doing[v] = Idle => doing'[v] = Idle
  BY <1>1, <1>6
<1>9. excused' \in Excuse \cup {None} /\ (excused' = None => excused = None)
  <2>1. excused \in Excuse \cup {None} /\ "short" \in Excuse
    BY DEF IInv, ShapeInv, Excuse
  <2> QED
    BY <1>1, <2>1, ExcusesKept
<1>10. ShapeInv'
  <2>1. ~confirmed => s.picking = <<>>
    BY <1>2 DEF IInv, ShapeInv
  <2> QED
    BY <1>1, <1>2, <1>4, <1>7, <1>8, <1>9, <2>1 DEF IInv, ShapeInv, Asleep
<1>11. ShippedInv'
  BY <1>1, <1>2, <1>4, <1>7, <1>8 DEF IInv, ShippedInv, None
<1>12. ASSUME excused' = None
       PROVE  Once(picking, record)' /\ Theirs(record)' /\ MadeInv'
  <2>1. Once(picking, record) /\ Theirs(record) /\ MadeInv
    BY <1>9, <1>12 DEF IInv, EchoInv
  <2>2. Once(picking, record)' /\ Theirs(record)'
    BY <1>1, <1>2, <2>1 DEF Once, Theirs
  <2>3. ASSUME NEW f \in DOMAIN fulfillment, s.record[f] = None, fulfillment[f].for # 0
        PROVE  \E v \in Worker : f \in doing'[v].made
    <3>1. record[f] = None /\ f \notin doing[w].made
      BY <1>2, <2>3
    <3>2. PICK v \in Worker : f \in doing[v].made
      BY <2>1, <2>3, <3>1 DEF MadeInv
    <3> QED
      BY <1>8, <3>1, <3>2
  <2>4. MadeInv'
    BY <1>1, <2>3 DEF MadeInv
  <2> QED
    BY <2>2, <2>4
<1> QED
  BY <1>10, <1>11, <1>12 DEF IInv, EchoInv

-----------------------------------------------------------------------------
(* Steps of the store and of webhooks *)

LEMMA FulfilStep ==
    ASSUME IInv, NEW q, Fulfil(q)
    PROVE  IInv'
<1> DEFINE x == [qty |-> q, for |-> 0]
<1>1. /\ fulfillment' = Append(fulfillment, x) /\ record' = Append(record, None)
      /\ \E c : Excuses(c, "crossed")
      /\ UNCHANGED <<confirmed, picking, jobs, doing>>
  BY DEF Fulfil
<1>2. x \in FulfillmentRow({q, 0}) /\ x.for = 0
  BY DEF FulfillmentRow
<1> HIDE DEF x
<1>3. PICK T : doing \in [Worker -> Doing(T)]
  BY DEF IInv, ShapeInv
<1>4. excused' \in Excuse \cup {None} /\ (excused' = None => excused = None)
  <2>1. excused \in Excuse \cup {None} /\ "crossed" \in Excuse
    BY DEF IInv, ShapeInv, Excuse
  <2> QED
    BY <1>1, <2>1, ExcusesKept
<1> QED
  BY <1>1, <1>2, <1>3, <1>4, AppendStep

LEMMA ReceiveStep ==
    ASSUME IInv, Receive
    PROVE  IInv'
<1>1. UNCHANGED <<confirmed, picking, record, fulfillment, doing>>
      /\ jobs' \in {jobs, jobs \cup {ProcessPipeline(Len(fulfillment))}}
      /\ (UNCHANGED excused \/ \E c : Excuses(c, "dropped"))
  BY DEF Receive, order
<1>2. ProcessPipeline(Len(fulfillment)) \in HookJob
  BY Lengths DEF ProcessPipeline, HookJob, IInv
<1>3. excused' \in Excuse \cup {None} /\ (excused' = None => excused = None)
  <2>1. excused \in Excuse \cup {None} /\ "dropped" \in Excuse
    BY DEF IInv, ShapeInv, Excuse
  <2> QED
    BY <1>1, <2>1, ExcusesKept
<1>4. ShapeInv'
  BY <1>1, <1>2, <1>3 DEF IInv, ShapeInv, Asleep
<1>5. ShippedInv'
  BY <1>1, <1>2 DEF IInv, ShippedInv, HookJob
<1>6. EchoInv'
  BY <1>1, <1>3 DEF IInv, EchoInv, Once, Theirs, MadeInv
<1> QED
  BY <1>4, <1>5, <1>6 DEF IInv

LEMMA LoseStep ==
    ASSUME IInv, Lose
    PROVE  IInv'
<1>1. UNCHANGED <<confirmed, picking, record, fulfillment, doing, jobs>> /\ Excuses(TRUE, "lost")
  BY DEF Lose, order
<1>2. excused' \in Excuse \cup {None} /\ excused' # None
  <2>1. excused \in Excuse \cup {None} /\ "lost" \in Excuse
    BY DEF IInv, ShapeInv, Excuse
  <2> QED
    BY <1>1, <2>1, ExcusesKept
<1> QED
  BY <1>1, <1>2 DEF IInv, ShapeInv, ShippedInv, EchoInv, Asleep

LEMMA ApplyValuesStep ==
    ASSUME IInv, NEW j \in HookJobs, NEW ready, ApplyValues(j, ready)
    PROVE  IInv'
<1> DEFINE known == [f \in DOMAIN record |->
                        IF f <= j.seen /\ record[f] = None THEN "draft" ELSE record[f]]
           s == [picking |-> picking, record |-> known]
           t == IF confirmed THEN Applied(s, ready) ELSE s
           echo == \E w \in Worker : \E f \in doing[w].made : f <= j.seen
<1>1. /\ jobs' = jobs \ {j} /\ picking' = t.picking /\ record' = t.record /\ Touch
      /\ Excuses(echo \/ Short(t), IF echo THEN "echo" ELSE "short")
      /\ UNCHANGED <<confirmed, fulfillment>>
  BY DEF ApplyValues, Write
<1>2. known \in [DOMAIN fulfillment -> RecordState]
  BY DEF IInv, ShapeInv, RecordState
<1>3. \A f \in DOMAIN fulfillment :
          known[f] = IF f <= j.seen /\ record[f] = None THEN "draft" ELSE record[f]
  BY DEF IInv, ShapeInv
<1>4. Shape(s) /\ s.picking = picking /\ s.record = known
  <2>1. s.picking = picking /\ s.record = known /\ s \in [picking : {picking}, record : {known}]
    OBVIOUS
  <2> HIDE DEF s, known
  <2> QED
    BY <1>2, <2>1 DEF Shape, IInv, ShapeInv
<1> HIDE DEF s, known
<1>5. Progress(s, t) /\ (~confirmed => t.picking = picking)
  <2>1. PICK Q : fulfillment \in Seq(FulfillmentRow(Q))
    BY DEF IInv, ShapeInv
  <2>2. Progress(s, Applied(s, ready)) /\ Progress(s, s)
    BY <1>4, <2>1, AppliedProgress, NoProgress
  <2> QED
    BY <1>4, <2>2
<1> HIDE DEF t, echo
<1>6. Undisturbed
  BY <1>1, TouchDisturbsNone DEF IInv
<1>7. excused' \in Excuse \cup {None} /\ (excused' = None => excused = None /\ ~echo)
  <2>1. excused \in Excuse \cup {None} /\ (IF echo THEN "echo" ELSE "short") \in Excuse
    BY DEF IInv, ShapeInv, Excuse
  <2> QED
    BY <1>1, <2>1, ExcusesKept
<1>8. ShapeInv'
  <2>1. Rows(t.picking) /\ t.record \in [DOMAIN fulfillment -> RecordState]
    BY <1>5 DEF Progress, Shape
  <2> QED
    BY <1>1, <1>5, <1>6, <1>7, <2>1 DEF IInv, ShapeInv, Undisturbed, Asleep
<1>9. ShippedInv'
  <2>1. OpenOnes(picking) = {} => t.picking = picking
    BY <1>4, <1>5 DEF Progress
  <2> QED
    BY <1>1, <1>6, <2>1 DEF IInv, ShippedInv, Undisturbed
<1>10. ASSUME excused' = None
       PROVE  Once(picking, record)' /\ Theirs(record)' /\ MadeInv'
  <2>1. Once(picking, record) /\ Theirs(record) /\ MadeInv /\ ~echo
    BY <1>7, <1>10 DEF IInv, EchoInv
  <2>2. Once(picking, known)
    BY <1>3, <2>1 DEF Once, None
  <2>3. ASSUME NEW f \in DOMAIN fulfillment, known[f] \in {"draft", "failed"}
        PROVE  fulfillment[f].for = 0
    <3>1. CASE f <= j.seen /\ record[f] = None
      BY <2>1, <3>1 DEF MadeInv, echo
    <3>2. CASE ~(f <= j.seen /\ record[f] = None)
      BY <1>3, <2>1, <2>3, <3>2 DEF Theirs, IInv, ShapeInv
    <3> QED
      BY <3>1, <3>2
  <2>4. Theirs(known)
    BY <1>2, <2>3 DEF Theirs
  <2>5. Once(t.picking, t.record) /\ Theirs(t.record)
    BY <1>4, <1>5, <2>2, <2>4 DEF Progress
  <2>6. \A f \in DOMAIN fulfillment : t.record[f] = None => record[f] = None
    BY <1>3, <1>4, <1>5 DEF Progress, None
  <2>7. MadeInv'
    BY <1>1, <1>6, <2>1, <2>6 DEF MadeInv, Undisturbed
  <2> QED
    BY <1>1, <2>5, <2>7 DEF Once, Theirs
<1> QED
  BY <1>8, <1>9, <1>10 DEF IInv, EchoInv

-----------------------------------------------------------------------------
(* The theorem *)

LEMMA Initially == Init => IInv
<1> SUFFICES ASSUME Init
             PROVE  IInv
  OBVIOUS
<1>1. <<>> \in Seq(Row({})) /\ <<>> \in Seq(FulfillmentRow({})) /\ DOMAIN <<>> = {}
  BY EmptySeq
<1>2. Idle \in Doing({<<>>}) /\ Idle.made = {} /\ Idle.job = NoJob /\ NoJob.does = None
  BY DEF Doing, Idle, NoJob
<1>3. ShapeInv
  <2>1. Rows(picking) /\ \E Q : fulfillment \in Seq(FulfillmentRow(Q))
    BY <1>1 DEF Init, Rows
  <2>2. doing \in [Worker -> Doing({<<>>})]
    BY <1>2 DEF Init
  <2>3. record \in [DOMAIN fulfillment -> RecordState]
    BY <1>1 DEF Init
  <2>4. \A w \in Worker : doing[w] = Idle
    BY DEF Init
  <2> QED
    BY <1>1, <1>2, <2>1, <2>2, <2>3, <2>4 DEF Init, ShapeInv, Asleep
<1>4. ShippedInv
  BY <1>2 DEF Init, ShippedInv, None
<1>5. EchoInv
  BY <1>1 DEF Init, EchoInv, Once, Theirs, MadeInv
<1> QED
  BY <1>3, <1>4, <1>5 DEF IInv

LEMMA Stepwise == IInv /\ [Next]_vars => IInv'
<1> SUFFICES ASSUME IInv, [Next]_vars
             PROVE  IInv'
  OBVIOUS
<1>1. CASE Users
  BY <1>1, ConfirmStep, ButtonValidateStep, CancelPickingStep, SetTrackingStep, AutoValidateStep DEF Users
<1>2. CASE Store
  BY <1>2, ReceiveStep, LoseStep, FulfilStep DEF Store
<1>3. CASE Webhooks
  BY <1>3, ApplyValuesStep DEF Webhooks
<1>4. ASSUME NEW w \in Worker, Export(w) \/ Killed(w) \/ Refused(w)
      PROVE  IInv'
  BY <1>4, BeginStep, CallStoreStep, CommitStep, RetryStep, RefusedStep DEF Export, Conflict, Killed
<1>5. CASE UNCHANGED vars
  BY <1>5 DEF vars, order, IInv, ShapeInv, ShippedInv, EchoInv, Once, Theirs, MadeInv, Asleep
<1> QED
  BY <1>1, <1>2, <1>3, <1>4, <1>5 DEF Next

LEMMA Always == Spec => []IInv
BY Initially, Stepwise, PTL DEF Spec

\* A fulfillment that Odoo has made does not come back and validate a second delivery, and
\* none of the staff validates two: whatever is validated, cancelled, exported, sent by
\* webhook and applied in whichever order, for every order, number of lines and of exports
\* in progress, unless a webhook overtook the export that made the fulfillment, or an
\* export was done again.
THEOREM EchoesApplyNothing == Spec => []AppliedOnce
<1>1. IInv => AppliedOnce
  BY DEF IInv, EchoInv, Once, AppliedOnce
<1> QED
  BY <1>1, Always, PTL
=============================================================================
