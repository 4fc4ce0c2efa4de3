--------------------------- MODULE StockSyncProofs ---------------------------
(***************************************************************************)
(* Proofs about StockSync, for any bills of materials without cycles, any  *)
(* number of moves, orders, workers and products, and any quantities: what *)
(* has moved is exported, with what is made of it.                         *)
(*                                                                         *)
(* How much there is plays no part: quantities are not typed.  What is     *)
(* proved follows from which products a quantity depends on.               *)
(***************************************************************************)
EXTENDS StockSync, FiniteSetTheorems, SequenceTheorems, WellFoundedInduction, TLAPS

-----------------------------------------------------------------------------
(* Bills of materials *)

\* A set of natural numbers has a least one.
LEMMA LeastExists ==
    ASSUME NEW T, T \subseteq Nat, T # {}
    PROVE  \E t \in T : \A u \in T : t <= u
<1>1. \E t \in T : \A u \in T : <<u, t>> \notin OpToRel(<, Nat)
  BY WFMin, NatLessThanWellFounded, Zenon
<1>2. PICK t \in T : \A u \in T : ~(u < t)
  BY <1>1 DEF OpToRel
<1> QED
  BY <1>2

\* Sets of products that hold what is made of their members.
Upward(ps) == ps \subseteq Product /\ Users(ps) \subseteq ps

\* A product and its parents are such a set.
LEMMA ParentsUpward ==
    ASSUME NEW p \in Product
    PROVE  Upward({p} \cup ParentsOf[p])
<1>1. ParentsOf[p] = {q \in Product :
          \A up \in SUBSET Product : Users({p} \cup up) \subseteq up => q \in up}
  BY DEF ParentsOf
<1>2. ASSUME NEW q \in Users({p} \cup ParentsOf[p]), NEW up \in SUBSET Product,
             Users({p} \cup up) \subseteq up
      PROVE  q \in up
  <2>1. ParentsOf[p] \subseteq up
    BY <1>1, <1>2
  <2>2. q \in Users({p} \cup up)
    BY <2>1 DEF Users
  <2> QED
    BY <1>2, <2>2
<1>3. Users({p} \cup ParentsOf[p]) \subseteq ParentsOf[p]
  BY <1>1, <1>2 DEF Users
<1> QED
  BY <1>1, <1>3 DEF Upward

\* A kit is a parent of its parts.
LEMMA KitIsParent ==
    ASSUME NEW k \in Product, IsKit(k), NEW c \in Parts(k)
    PROVE  k \in ParentsOf[c]
<1>1. c \in Product
  BY BomAssumption
<1>2. k \in Users({c} \cup ParentsOf[c])
  BY DEF Users, IsKit
<1>3. c # k
  <2>1. {k} \in SUBSET Product /\ {k} # {}
    OBVIOUS
  <2>2. Parts(k) \cap {k} = {}
    BY <2>1, BomAssumption
  <2> QED
    BY <2>2
<1> QED
  BY <1>1, <1>2, <1>3, ParentsUpward DEF Upward

-----------------------------------------------------------------------------
(* What can be made: the recursion ends, and depends on the parts alone *)

OneMade(qty, make, p) ==
    LET available == [c \in Parts(p) |-> qty[c] + IF Bom[c].type = "none" THEN 0 ELSE make[c]]
    IN  IF Bom[p].type # "normal" THEN qty[p]
        ELSE IF \E c \in Parts(p) : available[c] <= 0 THEN 0
        ELSE Possible(p, available)

LEMMA OneMadeSame ==
    ASSUME NEW q1, NEW q2, NEW m1, NEW m2, NEW p, q1[p] = q2[p],
           \A c \in Parts(p) : q1[c] = q2[c] /\ m1[c] = m2[c]
    PROVE  OneMade(q1, m1, p) = OneMade(q2, m2, p)
<1> DEFINE a1 == [c \in Parts(p) |-> q1[c] + IF Bom[c].type = "none" THEN 0 ELSE m1[c]]
           a2 == [c \in Parts(p) |-> q2[c] + IF Bom[c].type = "none" THEN 0 ELSE m2[c]]
<1>1. a1 = a2
  OBVIOUS
<1>2. /\ OneMade(q1, m1, p) = IF Bom[p].type # "normal" THEN q1[p]
                              ELSE IF \E c \in Parts(p) : a1[c] <= 0 THEN 0 ELSE Possible(p, a1)
      /\ OneMade(q2, m2, p) = IF Bom[p].type # "normal" THEN q2[p]
                              ELSE IF \E c \in Parts(p) : a2[c] <= 0 THEN 0 ELSE Possible(p, a2)
  BY DEF OneMade
<1> HIDE DEF a1, a2
<1> QED
  BY <1>1, <1>2

\* What can be made of the products of ps, which hold their parts.
Computed(qty, ps, make) ==
    /\ ps \subseteq Product /\ \A p \in ps : Parts(p) \subseteq ps
    /\ make = [p \in ps |-> OneMade(qty, make, p)]

LEMMA ComputedMore ==
    ASSUME NEW qty, NEW ps, NEW make, Computed(qty, ps, make),
           NEW q \in Product \ ps, Parts(q) \subseteq ps
    PROVE  \E more : Computed(qty, ps \cup {q}, more)
<1> DEFINE more == [p \in ps \cup {q} |-> IF p = q THEN OneMade(qty, make, q) ELSE make[p]]
<1>1. \A p \in ps : more[p] = make[p]
  OBVIOUS
<1>2. \A p \in ps : make[p] = OneMade(qty, make, p)
  BY DEF Computed
<1>3. more[q] = OneMade(qty, make, q)
  OBVIOUS
<1>4. DOMAIN more = ps \cup {q} /\ more = [p \in ps \cup {q} |-> more[p]]
  OBVIOUS
<1> HIDE DEF more
<1>5. ASSUME NEW p \in ps \cup {q}
      PROVE  more[p] = OneMade(qty, more, p)
  <2>1. Parts(p) \subseteq ps
    BY DEF Computed
  <2>2. OneMade(qty, more, p) = OneMade(qty, make, p)
    BY <1>1, <2>1, OneMadeSame
  <2> QED
    BY <1>1, <1>2, <1>3, <2>2
<1>6. Computed(qty, ps \cup {q}, more)
  BY <1>4, <1>5 DEF Computed
<1> QED
  BY <1>6

LEMMA ComputedAll ==
    ASSUME NEW qty
    PROVE  \E make : Computed(qty, Product, make)
<1> DEFINE Reached == {ps \in SUBSET Product : \E make : Computed(qty, ps, make)}
           Left == {Cardinality(Product \ ps) : ps \in Reached}
<1>1. {} \in Reached
  <2>1. Computed(qty, {}, [p \in {} |-> 0])
    BY DEF Computed
  <2> QED
    BY <2>1
<1>2. \A ps \in SUBSET Product : IsFiniteSet(Product \ ps) /\ Cardinality(Product \ ps) \in Nat
  <2>1. ASSUME NEW ps \in SUBSET Product PROVE IsFiniteSet(Product \ ps)
    BY BomAssumption, FS_Subset
  <2> QED
    BY <2>1, FS_CardinalityType
<1>3. PICK ps \in Reached : \A rs \in Reached : Cardinality(Product \ ps) <= Cardinality(Product \ rs)
  <2>1. Left \subseteq Nat /\ Left # {}
    BY <1>1, <1>2
  <2>2. \E t \in Left : \A u \in Left : t <= u
    BY <2>1, LeastExists
  <2> QED
    BY <2>2
<1>4. PICK make : Computed(qty, ps, make)
  OBVIOUS
<1>5. ASSUME ps # Product
      PROVE  FALSE
  <2>1. Product \ ps \in SUBSET Product /\ Product \ ps # {}
    BY <1>5
  <2>2. PICK q \in Product \ ps : Parts(q) \cap (Product \ ps) = {}
    BY <2>1, BomAssumption
  <2>3. Parts(q) \subseteq ps
    BY <2>2, BomAssumption
  <2>4. ps \cup {q} \in Reached
    BY <1>4, <2>3, ComputedMore
  <2>5. Product \ (ps \cup {q}) = (Product \ ps) \ {q}
    OBVIOUS
  <2>6. /\ Cardinality(Product \ (ps \cup {q})) = Cardinality(Product \ ps) - 1
        /\ Cardinality(Product \ ps) \in Nat
    BY <1>2, <2>5, FS_RemoveElement
  <2>7. Cardinality(Product \ ps) <= Cardinality(Product \ (ps \cup {q}))
    BY <1>3, <2>4
  <2> QED
    BY <2>6, <2>7
<1> QED
  BY <1>4, <1>5

\* Producible does what its code says.
LEMMA ProducibleIs ==
    ASSUME NEW qty, NEW p \in Product
    PROVE  Producible(qty)[p] = OneMade(qty, Producible(qty), p)
<1> DEFINE make == CHOOSE m : m = [q \in Product |-> OneMade(qty, m, q)]
<1>1. Producible(qty) = make
  BY DEF Producible, OneMade
<1>2. \E m : m = [q \in Product |-> OneMade(qty, m, q)]
  BY ComputedAll DEF Computed
<1>3. make = [q \in Product |-> OneMade(qty, make, q)]
  BY <1>2, Zenon
<1> HIDE DEF make
<1> QED
  BY <1>1, <1>3

\* What can be made of a product that uses none of those whose quantity changed is the same.
LEMMA ProducibleSame ==
    ASSUME NEW q1, NEW q2, NEW ps, Upward(ps),
           \A p \in Product \ ps : q1[p] = q2[p]
    PROVE  \A p \in Product \ ps : Producible(q1)[p] = Producible(q2)[p]
<1> DEFINE m1 == Producible(q1)
           m2 == Producible(q2)
           Other == {p \in Product \ ps : m1[p] # m2[p]}
<1>1. \A p \in Product : m1[p] = OneMade(q1, m1, p) /\ m2[p] = OneMade(q2, m2, p)
  BY ProducibleIs
<1> HIDE DEF m1, m2
<1>2. ASSUME Other # {}
      PROVE  FALSE
  <2>1. Other \in SUBSET Product
    OBVIOUS
  <2>2. PICK p \in Other : Parts(p) \cap Other = {}
    BY <1>2, <2>1, BomAssumption
  <2>3. CASE Bom[p].type = "normal"
    <3>1. Parts(p) \cap ps = {}
      BY <2>3 DEF Upward, Users
    <3>2. \A c \in Parts(p) : q1[c] = q2[c] /\ m1[c] = m2[c]
      BY <2>2, <3>1, BomAssumption
    <3>3. OneMade(q1, m1, p) = OneMade(q2, m2, p)
      BY <3>2, OneMadeSame
    <3> QED
      BY <1>1, <3>3
  <2>4. CASE Bom[p].type # "normal"
    <3>1. OneMade(q1, m1, p) = q1[p] /\ OneMade(q2, m2, p) = q2[p]
      BY <2>4 DEF OneMade
    <3> QED
      BY <1>1, <3>1
  <2> QED
    BY <2>3, <2>4
<1> QED
  BY <1>2 DEF m1, m2

-----------------------------------------------------------------------------
(* Which quantities change *)

\* The quantities of the products outside ps, and of the parts of kits outside ps, stay.
OwnKept(ps) ==
    /\ setting' = setting
    /\ \A c \in Product \ ps : ~IsKit(c) => Own(c)' = Own(c)

LEMMA FieldKept ==
    ASSUME NEW ps, Upward(ps), OwnKept(ps), NEW p \in Product \ ps
    PROVE  QtyField'[p] = QtyField[p]
<1>1. CASE IsKit(p)
  <2>1. Parts(p) \cap ps = {}
    BY <1>1 DEF Upward, Users, IsKit
  <2>2. \A c \in Parts(p) : Own(c)' = Own(c)
    BY <2>1, BomAssumption DEF OwnKept
  <2> DEFINE a1 == [c \in Parts(p) |-> Own(c)]
             a2 == [c \in Parts(p) |-> Own(c)']
  <2>3. a2 = a1
    BY <2>2
  <2>4. QtyField[p] = Possible(p, a1) /\ QtyField'[p] = Possible(p, a2)
    BY <1>1 DEF QtyField
  <2> HIDE DEF a1, a2
  <2> QED
    BY <2>3, <2>4
<1>2. CASE ~IsKit(p)
  <2>1. QtyField[p] = Own(p) /\ QtyField'[p] = Own(p)'
    BY <1>2 DEF QtyField
  <2> QED
    BY <1>2, <2>1 DEF OwnKept
<1> QED
  BY <1>1, <1>2

LEMMA ExportedKept ==
    ASSUME NEW ps, Upward(ps), OwnKept(ps), NEW p \in Product \ ps
    PROVE  Exported(p)' = Exported(p)
<1> DEFINE q1 == QtyField
           q2 == QtyField'
<1>1. \A r \in Product \ ps : q1[r] = q2[r]
  BY FieldKept
<1> HIDE DEF q1, q2
<1>2. Producible(q1)[p] = Producible(q2)[p]
  BY <1>1, ProducibleSame
<1>3. Exported(p) = IF setting.made /\ Bom[p].type # "none" /\ ~IsKit(p)
                    THEN Producible(q1)[p] + q1[p] ELSE q1[p]
  BY DEF Exported, q1
<1>4. Exported(p)' = IF setting'.made /\ Bom[p].type # "none" /\ ~IsKit(p)
                     THEN Producible(q2)[p] + q2[p] ELSE q2[p]
  BY DEF Exported, q2
<1> QED
  BY <1>1, <1>2, <1>3, <1>4 DEF OwnKept

LEMMA NothingUpward == Upward({})
  BY DEF Upward, Users

Fields == {"free_qty", "qty_available", "virtual_available"}

\* A move counts for a product, in states and kinds.
Counts(m, p, kinds, states) ==
    move[m].product = p /\ move[m].kind \in kinds /\ move[m].state \in states

LEMMA MovesSame ==
    ASSUME NEW p, NEW kinds, NEW states,
           \A m \in Move : Counts(m, p, kinds, states)' <=> Counts(m, p, kinds, states)
    PROVE  MovesOf(p, kinds, states)' = MovesOf(p, kinds, states)
<1> DEFINE s1 == {m \in Move : move[m].product = p /\ move[m].kind \in kinds /\ move[m].state \in states}
           s2 == {m \in Move : move'[m].product = p /\ move'[m].kind \in kinds /\ move'[m].state \in states}
<1>1. s1 = s2
  BY DEF Counts
<1>2. MovesOf(p, kinds, states) = Cardinality(s1) /\ MovesOf(p, kinds, states)' = Cardinality(s2)
  BY DEF MovesOf
<1> HIDE DEF s1, s2
<1> QED
  BY <1>1, <1>2

\* The quantities of a product whose moves count as before.
LEMMA OwnSame ==
    ASSUME setting' = setting, setting.field \in Fields, NEW p, onHand'[p] = onHand[p],
           \A m \in Move :
               Counts(m, p, {"order", "delivery"}, {"assigned"})'
                   <=> Counts(m, p, {"order", "delivery"}, {"assigned"}),
           \/ setting.field # "virtual_available"
           \/ \A kinds \in {{"order", "delivery"}, {"receipt", "production"}} : \A m \in Move :
                  Counts(m, p, kinds, Active)' <=> Counts(m, p, kinds, Active)
    PROVE  Own(p)' = Own(p)
<1>1. Free(p)' = Free(p)
  <2>1. Reserved(p)' = Reserved(p)
    BY MovesSame DEF Reserved
  <2> QED
    BY <2>1 DEF Free
<1>2. setting.field = "virtual_available" => Virtual(p)' = Virtual(p)
  <2> SUFFICES ASSUME setting.field = "virtual_available" PROVE Virtual(p)' = Virtual(p)
    OBVIOUS
  <2>1. MovesOf(p, {"receipt", "production"}, Active)' = MovesOf(p, {"receipt", "production"}, Active)
    BY MovesSame DEF Active
  <2>2. MovesOf(p, {"order", "delivery"}, Active)' = MovesOf(p, {"order", "delivery"}, Active)
    BY MovesSame DEF Active
  <2> QED
    BY <2>1, <2>2 DEF Virtual
<1>3. CASE setting.field = "free_qty"
  BY <1>1, <1>3 DEF Own
<1>4. CASE setting.field = "qty_available"
  BY <1>4 DEF Own
<1>5. CASE setting.field = "virtual_available"
  BY <1>2, <1>5 DEF Own
<1> QED
  BY <1>3, <1>4, <1>5 DEF Fields

-----------------------------------------------------------------------------
(* The inductive invariant *)

Moved == {p \in Product : ~IsKit(p)}

\* A move is of a product that is no kit, an order is of what was sold.
MoveRow == [kind : Kind, product : Moved, sold : Product \cup {None}, state : MoveState \ {"new"}]
MoveShape(r) ==
    \/ r = NewMove
    \/ /\ r \in MoveRow
       /\ r.kind = "order" => r.sold \in Product /\ r.product = Delivered(r.sold)
       /\ r.state \in {"placed", "cancelled"} => r.kind = "order"

ShapeInv ==
    /\ setting.field \in Fields
    /\ \E Q : onHand \in [Moved -> Q]
    /\ \E Q : store \in [Product -> Q]
    /\ \E Q : doing \in [Worker -> Q]
    /\ \E Q : move \in [Move -> Q]
    /\ \A m \in Move : MoveShape(move[m])

Waits(p) == \E j \in jobs : Exporting(j) /\ p \in j.products
Handles(w, p) == ~Asleep(w) /\ p \in doing[w].job.products
Owed(p) == \E m \in Move : move[m].state = "placed" /\ move[m].sold = p

\* A product that the store does not have as Odoo has it waits for its export, is being
\* exported, or was sold by an order that is not imported.
TakenCare == \A p \in Product : Matches(p) \/ Waits(p) \/ Owed(p) \/ \E w \in Worker : Handles(w, p)

\* An export sends what Odoo has, or another one waits.
SentRight ==
    \A w \in Worker : \A p \in Product : Handles(w, p) => doing[w].qty[p] = Exported(p) \/ Waits(p)

\* A product is exported once at a time.
OneAtATime ==
    \A p \in Product : \A v, w \in Worker : Handles(v, p) /\ Handles(w, p) => v = w

CareInv == TakenCare /\ SentRight /\ OneAtATime
StoreInv == excused = None => CareInv

IInv == ShapeInv /\ StoreInv

-----------------------------------------------------------------------------
(* Parts of the steps *)

\* The first excuse stays.
LEMMA ExcusesKept ==
    ASSUME NEW why \in Excuse, NEW condition, Excuses(condition, why), excused' = None
    PROVE  excused = None /\ ~condition
BY DEF Excuses, Excuse, None

\* What is sold is delivered from what it is made of.
LEMMA SoldIsCovered ==
    ASSUME NEW m \in Move, MoveShape(move[m]), move[m].kind = "order"
    PROVE  /\ move[m].sold \in Product /\ move[m].product \in Moved
           /\ move[m].sold \in {move[m].product} \cup ParentsOf[move[m].product]
<1> DEFINE sold == move[m].sold
<1>1. sold \in Product /\ move[m].product \in Moved /\ move[m].product = Delivered(sold)
  BY DEF MoveShape, NewMove, None, MoveRow
<1>2. CASE IsKit(sold)
  <2>1. Delivered(sold) \in Parts(sold)
    BY <1>1, <1>2, BomAssumption DEF Delivered
  <2> QED
    BY <1>1, <1>2, <2>1, KitIsParent
<1>3. CASE ~IsKit(sold)
  BY <1>1, <1>3 DEF Delivered
<1> QED
  BY <1>1, <1>2, <1>3

\* The jobs of one product are one job of that product.
LEMMA OneBlock ==
    ASSUME NEW p, NEW cron
    PROVE  BlockJob({p}, cron) \in Blocks({p}, cron)
<1> DEFINE order == SetToSeq({p})
           one == [k \in {1} |-> p]
<1>1. Cardinality({p}) = 1 /\ 1..1 = {1}
  <2>1. Cardinality({p}) = 1
    BY FS_Singleton, Zenon
  <2> QED
    BY <2>1
<1>2. one \in [1..Cardinality({p}) -> {p}] /\ IsInjective(one)
  BY <1>1 DEF IsInjective
<1>3. order \in [{1} -> {p}]
  <2>1. order = CHOOSE f \in [1..Cardinality({p}) -> {p}] : IsInjective(f)
    BY DEF SetToSeq
  <2> HIDE DEF order, one
  <2>2. order \in [1..Cardinality({p}) -> {p}]
    BY <1>2, <2>1
  <2> QED
    BY <1>1, <2>2
<1> HIDE DEF order
<1>4. Len(order) = 1 /\ order[1] = p
  <2>1. order \in [1..1 -> {p}]
    BY <1>1, <1>3
  <2>2. DOMAIN order = 1..1 /\ order[1] = p
    BY <1>3, <2>1
  <2>3. order \in Seq({p})
    BY <2>1, SeqDef, Zenon
  <2>4. Len(order) \in Nat /\ DOMAIN order = 1..Len(order)
    BY <2>3, LenProperties
  <2> QED
    BY <2>2, <2>4
<1>5. 1 \in Starts(Len(order))
  BY <1>4, SettingAssumption DEF Starts
<1>6. Block(order, 1, cron) = BlockJob({p}, cron)
  <2>1. (IF 1 + BlockSize - 1 > Len(order) THEN Len(order) ELSE 1 + BlockSize - 1) = 1
    BY <1>4, SettingAssumption
  <2>2. {order[k] : k \in 1..1} = {p}
    BY <1>1, <1>4
  <2> QED
    BY <2>1, <2>2 DEF Block
<1> QED
  BY <1>5, <1>6 DEF Blocks, order

\* The products whose job is asked for wait.
LEMMA ExportCovers ==
    ASSUME NEW p, NEW more, Export(p, more), excused' = None
    PROVE  /\ excused = None /\ jobs \subseteq jobs' /\ more \subseteq jobs'
           /\ \A q \in {p} \cup ParentsOf[p] : Waits(q)'
<1>1. PICK stale \in SUBSET BegunFor(p) :
        /\ jobs' = jobs \cup (Triggered(p) \ stale) \cup more
        /\ Excuses(stale # {}, "stale key")
  BY DEF Export
<1>2. excused = None /\ stale = {}
  BY <1>1, ExcusesKept DEF Excuse
<1>3. ASSUME NEW q \in {p} \cup ParentsOf[p]
      PROVE  Waits(q)'
  <2>1. SingleJob(q) \in jobs'
    BY <1>1, <1>2 DEF Triggered
  <2>2. Exporting(SingleJob(q)) /\ q \in SingleJob(q).products
    BY DEF Exporting, SingleJob
  <2> QED
    BY <2>1, <2>2 DEF Waits, Exporting
<1> QED
  BY <1>1, <1>2, <1>3

\* When quantities change outside the exports, those that change wait.
LEMMA StillCare ==
    ASSUME CareInv, NEW ps, Upward(ps), OwnKept(ps),
           \A p \in ps : Waits(p)',
           jobs \subseteq jobs', store' = store, doing' = doing,
           \A m \in Move : move[m].state = "placed" => move'[m] = move[m] \/ move[m].sold \in ps
    PROVE  CareInv'
<1>1. \A p \in Product \ ps : Exported(p)' = Exported(p)
  BY ExportedKept
<1>2. \A p : Waits(p) => Waits(p)'
  BY DEF Waits
<1>3. \A w, p : Handles(w, p)' <=> Handles(w, p)
  BY DEF Handles, Asleep
<1>4. ASSUME NEW p \in Product \ ps
      PROVE  (Owed(p) => Owed(p)') /\ (Matches(p) => Matches(p)')
  BY <1>1 DEF Owed, Matches
<1>5. TakenCare'
  BY <1>2, <1>3, <1>4 DEF TakenCare, CareInv
<1>6. SentRight'
  BY <1>1, <1>2, <1>3 DEF SentRight, CareInv
<1>7. OneAtATime'
  BY <1>3 DEF OneAtATime, CareInv
<1> QED
  BY <1>5, <1>6, <1>7 DEF CareInv

\* Moves that change are of this product, or were new, or keep what they count for.
ChangesOnly(p) ==
    /\ setting' = setting
    /\ \A c \in Moved \ {p} : onHand'[c] = onHand[c]
    /\ \A m \in Move : \/ move'[m] = move[m]
                       \/ move'[m].product = p /\ (move[m].product = p \/ move[m].kind = None)

LEMMA OthersKept ==
    ASSUME ShapeInv, NEW p, ChangesOnly(p), NEW c \in Moved \ {p}
    PROVE  Own(c)' = Own(c)
<1>1. ASSUME NEW m \in Move, NEW kinds \in {{"order", "delivery"}, {"receipt", "production"}},
             NEW states
      PROVE  Counts(m, c, kinds, states)' <=> Counts(m, c, kinds, states)
  BY <1>1 DEF ChangesOnly, Counts, None
<1> QED
  BY <1>1, OwnSame DEF ShapeInv, ChangesOnly

\* A product changes, and its export and that of its parents are asked for.
LEMMA ChangeIsExported ==
    ASSUME ShapeInv, StoreInv, NEW p \in Moved, ChangesOnly(p),
           NEW more, Export(p, more), store' = store, doing' = doing,
           \A m \in Move : move[m].state = "placed" =>
               move'[m] = move[m] \/ move[m].sold \in {p} \cup ParentsOf[p]
    PROVE  StoreInv'
<1> SUFFICES ASSUME excused' = None PROVE CareInv'
  BY DEF StoreInv
<1>1. /\ excused = None /\ jobs \subseteq jobs'
      /\ \A q \in {p} \cup ParentsOf[p] : Waits(q)'
  BY ExportCovers
<1>2. OwnKept({p} \cup ParentsOf[p])
  BY OthersKept DEF OwnKept, ChangesOnly, Moved
<1>3. Upward({p} \cup ParentsOf[p])
  BY ParentsUpward DEF Moved
<1> QED
  BY <1>1, <1>2, <1>3, StillCare DEF StoreInv

\* No quantity changes, and jobs are added.
LEMMA NothingChanges ==
    ASSUME ShapeInv, StoreInv, \A c \in Moved : Own(c)' = Own(c), setting' = setting,
           jobs \subseteq jobs', store' = store, doing' = doing, excused' = None => excused = None,
           \A m \in Move : move[m].state = "placed" => move'[m] = move[m]
    PROVE  StoreInv'
<1> SUFFICES ASSUME excused' = None PROVE CareInv'
  BY DEF StoreInv
<1>1. OwnKept({})
  BY DEF OwnKept, Moved
<1> QED
  BY <1>1, NothingUpward, StillCare DEF StoreInv

-----------------------------------------------------------------------------
(* Moves *)

MovesShape == (\E Q : move \in [Move -> Q]) /\ \A m \in Move : MoveShape(move[m])

LEMMA MoveReplaced ==
    ASSUME MovesShape, NEW m \in Move, NEW r, MoveShape(r), move' = [move EXCEPT ![m] = r]
    PROVE  /\ MovesShape' /\ move'[m] = r
           /\ \A n \in Move \ {m} : move'[n] = move[n]
<1>1. PICK Q : move \in [Move -> Q]
  BY DEF MovesShape
<1>2. move'[m] = r /\ \A n \in Move \ {m} : move'[n] = move[n]
  BY <1>1
<1>3. move' \in [Move -> Q \cup {r}]
  BY <1>1
<1>4. \A n \in Move : MoveShape(move'[n])
  BY <1>2 DEF MovesShape
<1>5. MovesShape'
  BY <1>3, <1>4 DEF MovesShape, MoveShape
<1> QED
  BY <1>2, <1>5

LEMMA MoveBecomes ==
    ASSUME MovesShape, NEW m \in Move, move[m].state # "new",
           NEW s \in MoveState \ {"new"}, s \in {"placed", "cancelled"} => move[m].kind = "order",
           Becomes(m, s)
    PROVE  /\ MovesShape'
           /\ move'[m].kind = move[m].kind /\ move'[m].product = move[m].product
           /\ move'[m].sold = move[m].sold /\ move'[m].state = s
           /\ move[m].kind \in Kind /\ move[m].product \in Moved
           /\ \A n \in Move \ {m} : move'[n] = move[n]
<1>1. /\ move[m] \in MoveRow
      /\ move[m].kind = "order" => move[m].sold \in Product /\ move[m].product = Delivered(move[m].sold)
  BY DEF MovesShape, MoveShape, NewMove
<1> DEFINE r == [move[m] EXCEPT !.state = s]
<1>2. /\ r \in MoveRow /\ r.kind = move[m].kind /\ r.product = move[m].product
      /\ r.sold = move[m].sold /\ r.state = s
  BY <1>1 DEF MoveRow
<1>3. move' = [move EXCEPT ![m] = r]
  BY DEF Becomes
<1> HIDE DEF r
<1>4. MoveShape(r)
  BY <1>1, <1>2 DEF MoveShape
<1>5. MovesShape' /\ move'[m] = r /\ \A n \in Move \ {m} : move'[n] = move[n]
  BY <1>3, <1>4, MoveReplaced
<1> QED
  BY <1>1, <1>2, <1>5 DEF MoveRow

LEMMA ConfirmStep ==
    ASSUME IInv, NEW m \in Move, NEW p \in Product, NEW kind \in Kind \ {"order"}, Confirm(m, kind, p)
    PROVE  IInv'
<1> DEFINE reserves == kind = "delivery" /\ Free(p) > 0
           r == [kind |-> kind, product |-> p, sold |-> None,
                 state |-> IF reserves THEN "assigned" ELSE "waiting"]
<1>1. /\ move[m] = NewMove /\ p \in Moved /\ MoveTrigger(p, reserves)
      /\ move' = [move EXCEPT ![m] = r]
      /\ UNCHANGED <<onHand, store, setting, doing>>
  BY DEF Confirm, Moved
<1>2. MoveShape(r)
  BY <1>1 DEF MoveShape, MoveRow, MoveState
<1>3. /\ r.product = p /\ r.kind = kind
      /\ r.state = IF reserves THEN "assigned" ELSE "waiting"
  OBVIOUS
<1> HIDE DEF r, reserves
<1>4. MovesShape' /\ move'[m] = r /\ \A n \in Move \ {m} : move'[n] = move[n]
  BY <1>1, <1>2, MoveReplaced DEF IInv, ShapeInv, MovesShape
<1>5. ShapeInv'
  BY <1>1, <1>4 DEF IInv, ShapeInv, MovesShape, Moved, MoveShape
<1>6. \A n \in Move : move[n].state = "placed" => move'[n] = move[n]
  BY <1>1, <1>4 DEF NewMove
<1>7. CASE reserves \/ setting.field = "virtual_available"
  <2>1. Export(p, {})
    BY <1>1, <1>7 DEF MoveTrigger
  <2>2. ChangesOnly(p)
    BY <1>1, <1>3, <1>4 DEF ChangesOnly, NewMove
  <2>3. StoreInv'
    BY <1>1, <1>6, <2>1, <2>2, ChangeIsExported DEF IInv
  <2> QED
    BY <1>5, <2>3 DEF IInv
<1>8. CASE ~(reserves \/ setting.field = "virtual_available")
  <2>1. UNCHANGED <<jobs, excused>>
    BY <1>1, <1>8 DEF MoveTrigger
  <2>2. ASSUME NEW c \in Moved, NEW n \in Move
        PROVE  Counts(n, c, {"order", "delivery"}, {"assigned"})'
                   <=> Counts(n, c, {"order", "delivery"}, {"assigned"})
    BY <1>1, <1>3, <1>4, <1>8 DEF Counts, NewMove, None
  <2>3. \A c \in Moved : Own(c)' = Own(c)
    BY <1>1, <1>8, <2>2, OwnSame DEF IInv, ShapeInv
  <2>4. StoreInv'
    BY <1>1, <1>6, <2>1, <2>3, NothingChanges DEF IInv
  <2> QED
    BY <1>5, <2>4 DEF IInv
<1> QED
  BY <1>7, <1>8

\* A move changes its state, which is exported.
LEMMA MovedStep ==
    ASSUME IInv, NEW m \in Move, move[m].state # "new",
           NEW s \in MoveState \ {"new"}, s \in {"placed", "cancelled"} => move[m].kind = "order",
           Becomes(m, s), setting' = setting,
           \E Q : onHand' \in [Moved -> Q],
           \A c \in Moved \ {move[m].product} : onHand'[c] = onHand[c],
           NEW more, Export(move[m].product, more), store' = store, doing' = doing
    PROVE  IInv'
<1> DEFINE p == move[m].product
<1>1. /\ MovesShape'
      /\ move'[m].product = p /\ p \in Moved
      /\ \A n \in Move \ {m} : move'[n] = move[n]
  BY MoveBecomes DEF IInv, ShapeInv, MovesShape
<1>2. ShapeInv'
  BY <1>1 DEF IInv, ShapeInv, MovesShape, Moved, MoveShape
<1>3. ChangesOnly(p)
  BY <1>1 DEF ChangesOnly
<1>4. move[m].state = "placed" => move[m].sold \in {p} \cup ParentsOf[p]
  <2> SUFFICES ASSUME move[m].state = "placed" PROVE move[m].sold \in {p} \cup ParentsOf[p]
    OBVIOUS
  <2>1. MoveShape(move[m])
    BY DEF IInv, ShapeInv
  <2>2. move[m].kind = "order"
    BY <2>1 DEF MoveShape, NewMove
  <2> QED
    BY <2>1, <2>2, SoldIsCovered
<1>5. \A n \in Move : move[n].state = "placed" => move'[n] = move[n] \/ move[n].sold \in {p} \cup ParentsOf[p]
  BY <1>1, <1>4
<1> HIDE DEF p
<1>6. Export(p, more)
  BY DEF p
<1>7. StoreInv'
  BY <1>1, <1>3, <1>5, <1>6, ChangeIsExported DEF IInv
<1> QED
  BY <1>2, <1>7 DEF IInv

\* A move changes its state in a way that counts for nothing.
LEMMA UncountedStep ==
    ASSUME IInv, NEW m \in Move, move[m].state \notin {"new", "placed"},
           NEW s \in MoveState \ {"new"}, s \in {"placed", "cancelled"} => move[m].kind = "order",
           Becomes(m, s), UNCHANGED <<onHand, store, setting, doing>>, jobs \subseteq jobs',
           excused' = None => excused = None,
           move[m].state # "assigned" /\ s # "assigned",
           \/ setting.field # "virtual_available"
           \/ move[m].state \notin Active /\ s \notin Active
    PROVE  IInv'
<1>1. /\ MovesShape'
      /\ move'[m].state = s
      /\ \A n \in Move \ {m} : move'[n] = move[n]
  BY MoveBecomes DEF IInv, ShapeInv, MovesShape
<1>2. ShapeInv'
  BY <1>1 DEF IInv, ShapeInv, MovesShape, Moved, MoveShape
<1>3. ASSUME NEW c \in Moved, NEW kinds, NEW states, NEW n \in Move,
             move[m].state \notin states /\ s \notin states
      PROVE  Counts(n, c, kinds, states)' <=> Counts(n, c, kinds, states)
  BY <1>1, <1>3 DEF Counts
<1>4. \A c \in Moved : Own(c)' = Own(c)
  <2> TAKE c \in Moved
  <2>1. \A n \in Move : Counts(n, c, {"order", "delivery"}, {"assigned"})'
                            <=> Counts(n, c, {"order", "delivery"}, {"assigned"})
    BY <1>3
  <2>2. \/ setting.field # "virtual_available"
        \/ \A kinds \in {{"order", "delivery"}, {"receipt", "production"}} : \A n \in Move :
               Counts(n, c, kinds, Active)' <=> Counts(n, c, kinds, Active)
    BY <1>3
  <2> QED
    BY <2>1, <2>2, OwnSame DEF IInv, ShapeInv
<1>5. \A n \in Move : move[n].state = "placed" => move'[n] = move[n]
  BY <1>1
<1>6. StoreInv'
  BY <1>4, <1>5, NothingChanges DEF IInv
<1> QED
  BY <1>2, <1>6 DEF IInv

LEMMA ReserveStep ==
    ASSUME IInv, NEW m \in Move, Reserve(m)
    PROVE  IInv'
<1>1. /\ move[m].state = "waiting" /\ Becomes(m, "assigned") /\ Export(move[m].product, {})
      /\ UNCHANGED <<onHand, store, setting, doing>>
  BY DEF Reserve, MoveTrigger
<1>2. "assigned" \in MoveState \ {"new"} /\ "assigned" \notin {"placed", "cancelled"}
  BY DEF MoveState
<1>3. \E Q : onHand' \in [Moved -> Q]
  BY <1>1 DEF IInv, ShapeInv
<1> QED
  BY <1>1, <1>2, <1>3, MovedStep

LEMMA DoneStep ==
    ASSUME IInv, NEW m \in Move, Done(m)
    PROVE  IInv'
<1> DEFINE p == move[m].product
           q == IF IsOut(m) THEN onHand[p] - 1 ELSE onHand[p] + 1
<1>1. /\ move[m].state \in {"assigned", "waiting"} /\ Becomes(m, "over") /\ Export(p, {})
      /\ onHand' = [onHand EXCEPT ![p] = q]
      /\ UNCHANGED <<store, setting, doing>>
  BY DEF Done
<1>2. "over" \in MoveState \ {"new"} /\ "over" \notin {"placed", "cancelled"}
  BY DEF MoveState
<1> HIDE DEF q
<1>3. (\E Q : onHand' \in [Moved -> Q]) /\ \A c \in Moved \ {p} : onHand'[c] = onHand[c]
  <2>1. PICK Q : onHand \in [Moved -> Q]
    BY DEF IInv, ShapeInv
  <2>2. onHand' \in [Moved -> Q \cup {q}]
    BY <1>1, <2>1
  <2> QED
    BY <1>1, <2>1, <2>2
<1> QED
  BY <1>1, <1>2, <1>3, MovedStep

LEMMA CancelStep ==
    ASSUME IInv, NEW m \in Move, Cancel(m)
    PROVE  IInv'
<1>1. /\ move[m].state \in {"waiting", "assigned"} /\ Becomes(m, "over")
      /\ UNCHANGED <<onHand, store, setting, doing>>
  BY DEF Cancel, Active
<1>2. "over" \in MoveState \ {"new"} /\ "over" \notin {"placed", "cancelled"}
  BY DEF MoveState
<1>3. \E Q : onHand' \in [Moved -> Q]
  BY <1>1 DEF IInv, ShapeInv
<1>4. CASE CancelSeen(m)
  <2>1. Export(move[m].product, {})
    BY <1>4 DEF Cancel
  <2> QED
    BY <1>1, <1>2, <1>3, <2>1, MovedStep
<1>5. CASE ~CancelSeen(m)
  <2>1. jobs' = jobs /\ Excuses(setting.field = "virtual_available", "unreserved")
    BY <1>5 DEF Cancel
  <2>2. move[m].state = "waiting"
    BY <1>1, <1>5 DEF CancelSeen
  <2>3. CASE setting.field # "virtual_available"
    <3>1. excused' = None => excused = None
      BY <2>1, ExcusesKept DEF Excuse
    <3> QED
      BY <1>1, <1>2, <2>1, <2>2, <2>3, <3>1, UncountedStep
  <2>4. CASE setting.field = "virtual_available"
    <3>1. excused' # None
      BY <2>1, <2>4, ExcusesKept DEF Excuse
    <3>2. MovesShape'
      BY <1>1, <1>2, MoveBecomes DEF IInv, ShapeInv, MovesShape
    <3>3. ShapeInv'
      BY <1>1, <3>2 DEF IInv, ShapeInv, MovesShape, MoveShape
    <3> QED
      BY <3>1, <3>3 DEF IInv, StoreInv
  <2> QED
    BY <2>3, <2>4
<1> QED
  BY <1>4, <1>5

LEMMA AdjustStep ==
    ASSUME IInv, NEW p \in Product, NEW q, Adjust(p, q)
    PROVE  IInv'
<1>1. /\ p \in Moved /\ onHand' = [onHand EXCEPT ![p] = q] /\ Export(p, {})
      /\ UNCHANGED <<move, store, setting, doing>>
  BY DEF Adjust, Moved
<1>2. (\E Q : onHand' \in [Moved -> Q]) /\ \A c \in Moved \ {p} : onHand'[c] = onHand[c]
  <2>1. PICK Q : onHand \in [Moved -> Q]
    BY DEF IInv, ShapeInv
  <2>2. onHand' \in [Moved -> Q \cup {q}]
    BY <1>1, <2>1
  <2> QED
    BY <1>1, <2>1, <2>2
<1>3. ShapeInv'
  BY <1>1, <1>2 DEF IInv, ShapeInv
<1>4. ChangesOnly(p)
  BY <1>1, <1>2 DEF ChangesOnly
<1>5. StoreInv'
  BY <1>1, <1>4, ChangeIsExported DEF IInv
<1> QED
  BY <1>3, <1>5 DEF IInv

-----------------------------------------------------------------------------
(* Orders *)

LEMMA PlaceOrderStep ==
    ASSUME IInv, NEW m \in Move, NEW sold \in Product, PlaceOrder(m, sold)
    PROVE  IInv'
<1> DEFINE r == [kind |-> "order", product |-> Delivered(sold), sold |-> sold, state |-> "placed"]
<1>1. /\ move[m] = NewMove /\ move' = [move EXCEPT ![m] = r]
      /\ store' = [store EXCEPT ![sold] = @ - 1]
      /\ UNCHANGED <<onHand, setting, jobs, doing, excused>>
  BY DEF PlaceOrder
<1>2. Delivered(sold) \in Moved
  BY BomAssumption DEF Delivered, Moved
<1>3. MoveShape(r)
  BY <1>2 DEF MoveShape, MoveRow, MoveState, Kind
<1>4. r.kind = "order" /\ r.sold = sold /\ r.state = "placed"
  OBVIOUS
<1> HIDE DEF r
<1>5. MovesShape' /\ move'[m] = r /\ \A n \in Move \ {m} : move'[n] = move[n]
  BY <1>1, <1>3, MoveReplaced DEF IInv, ShapeInv, MovesShape
<1>6. (\E Q : store' \in [Product -> Q]) /\ \A p \in Product \ {sold} : store'[p] = store[p]
  <2>1. PICK Q : store \in [Product -> Q]
    BY DEF IInv, ShapeInv
  <2>2. store' \in [Product -> Q \cup {store[sold] - 1}]
    BY <1>1, <2>1
  <2> QED
    BY <1>1, <2>1, <2>2
<1>7. ShapeInv'
  BY <1>1, <1>5, <1>6 DEF IInv, ShapeInv, MovesShape, MoveShape
<1>8. \A c \in Moved : Own(c)' = Own(c)
  <2>1. ASSUME NEW c \in Moved, NEW kinds,
               NEW states \in {{"assigned"}, Active}, NEW n \in Move,
               kinds \in {{"order", "delivery"}, {"receipt", "production"}}
        PROVE  Counts(n, c, kinds, states)' <=> Counts(n, c, kinds, states)
    BY <1>1, <1>4, <1>5, <2>1 DEF Counts, NewMove, Active
  <2> QED
    BY <1>1, <2>1, OwnSame DEF IInv, ShapeInv
<1>9. OwnKept({})
  BY <1>1, <1>8 DEF OwnKept, Moved
<1>10. \A p \in Product : Exported(p)' = Exported(p)
  BY <1>9, NothingUpward, ExportedKept
<1>11. /\ \A p : Waits(p)' <=> Waits(p)
       /\ \A w, p : Handles(w, p)' <=> Handles(w, p)
       /\ \A p : Owed(p) => Owed(p)'
       /\ Owed(sold)'
  BY <1>1, <1>4, <1>5 DEF Waits, Handles, Asleep, Owed, NewMove
<1>12. ASSUME CareInv
       PROVE  CareInv'
  <2>1. TakenCare'
    BY <1>6, <1>10, <1>11, <1>12 DEF CareInv, TakenCare, Matches
  <2>2. SentRight'
    BY <1>1, <1>10, <1>11, <1>12 DEF CareInv, SentRight
  <2>3. OneAtATime'
    BY <1>11, <1>12 DEF CareInv, OneAtATime
  <2> QED
    BY <2>1, <2>2, <2>3 DEF CareInv
<1> QED
  BY <1>1, <1>7, <1>12 DEF IInv, StoreInv

LEMMA ImportOrderStep ==
    ASSUME IInv, NEW m \in Move, ImportOrder(m)
    PROVE  IInv'
<1>1. PICK s \in {"assigned", "waiting"} :
        /\ move[m].state = "placed" /\ Becomes(m, s)
        /\ Export(move[m].product, {}) \/ (jobs' = jobs /\ Excuses(TRUE, "oversold"))
        /\ UNCHANGED <<onHand, store, setting, doing>>
  BY DEF ImportOrder
<1>2. s \in MoveState \ {"new"} /\ s \notin {"placed", "cancelled"}
  BY DEF MoveState
<1>3. \E Q : onHand' \in [Moved -> Q]
  BY <1>1 DEF IInv, ShapeInv
<1>4. CASE Export(move[m].product, {})
  BY <1>1, <1>2, <1>3, <1>4, MovedStep
<1>5. CASE Excuses(TRUE, "oversold")
  <2>1. excused' # None
    BY <1>5, ExcusesKept DEF Excuse
  <2>2. MovesShape'
    BY <1>1, <1>2, MoveBecomes DEF IInv, ShapeInv, MovesShape
  <2>3. ShapeInv'
    BY <1>1, <2>2 DEF IInv, ShapeInv, MovesShape, MoveShape
  <2> QED
    BY <2>1, <2>3 DEF IInv, StoreInv
<1> QED
  BY <1>1, <1>4, <1>5

LEMMA CancelOrderStep ==
    ASSUME IInv, NEW m \in Move, CancelOrder(m)
    PROVE  IInv'
<1> DEFINE p == move[m].product
           sold == move[m].sold
<1>1. /\ move[m].kind = "order" /\ move[m].state \in {"waiting", "assigned"} /\ Becomes(m, "cancelled")
      /\ UNCHANGED <<onHand, store, setting, doing>>
  BY DEF CancelOrder, Active
<1>2. "cancelled" \in MoveState \ {"new"} /\ "cancelled" # "assigned" /\ "cancelled" \notin Active
  BY DEF MoveState, Active
<1>3. \E Q : onHand' \in [Moved -> Q]
  BY <1>1 DEF IInv, ShapeInv
<1>4. CASE CancelSeen(m)
  <2>1. Export(p, Blocks({sold}, FALSE))
    BY <1>4 DEF CancelOrder
  <2> QED
    BY <1>1, <1>2, <1>3, <2>1, MovedStep
<1>5. CASE ~CancelSeen(m)
  <2>1. /\ jobs' = jobs \cup Blocks({sold}, FALSE)
        /\ Excuses(setting.field = "virtual_available" /\ {p} \cup ParentsOf[p] # {sold}, "unreserved")
    BY <1>5 DEF CancelOrder
  <2>2. move[m].state = "waiting"
    BY <1>1, <1>5 DEF CancelSeen
  <2>3. excused' = None =>
            excused = None /\ ~(setting.field = "virtual_available" /\ {p} \cup ParentsOf[p] # {sold})
    BY <2>1, ExcusesKept DEF Excuse
  <2>4. CASE setting.field # "virtual_available"
    BY <1>1, <1>2, <2>1, <2>2, <2>3, <2>4, UncountedStep
  <2>5. CASE setting.field = "virtual_available"
    <3>1. /\ MovesShape' /\ move'[m].product = p /\ p \in Moved
          /\ \A n \in Move \ {m} : move'[n] = move[n]
      BY <1>1, <1>2, MoveBecomes DEF IInv, ShapeInv, MovesShape
    <3>2. ShapeInv'
      BY <1>1, <3>1 DEF IInv, ShapeInv, MovesShape, MoveShape
    <3>3. ASSUME excused' = None
          PROVE  CareInv'
      <4>1. {p} \cup ParentsOf[p] = {sold}
        BY <2>3, <2>5, <3>3
      <4>2. BlockJob({sold}, FALSE) \in jobs'
        BY <2>1, OneBlock
      <4>3. ASSUME NEW q, q = sold
            PROVE  Waits(q)'
        BY <4>2, <4>3 DEF Waits, BlockJob, Exporting
      <4>4. ChangesOnly(p)
        BY <1>1, <3>1 DEF ChangesOnly
      <4>5. OwnKept({p} \cup ParentsOf[p])
        BY <1>1, <4>4, OthersKept DEF OwnKept, Moved, IInv
      <4>6. Upward({p} \cup ParentsOf[p])
        BY <3>1, ParentsUpward DEF Moved
      <4>7. \A n \in Move : move[n].state = "placed" => move'[n] = move[n]
        BY <1>1, <3>1
      <4>8. \A q \in {p} \cup ParentsOf[p] : Waits(q)'
        BY <4>1, <4>3
      <4>9. CareInv
        BY <2>3, <3>3 DEF IInv, StoreInv
      <4> QED
        BY <1>1, <2>1, <4>5, <4>6, <4>7, <4>8, <4>9, StillCare
    <3> QED
      BY <3>2, <3>3 DEF IInv, StoreInv
  <2> QED
    BY <2>4, <2>5
<1> QED
  BY <1>4, <1>5

LEMMA CancelInStoreStep ==
    ASSUME IInv, NEW m \in Move, NEW restock \in BOOLEAN, CancelInStore(m, restock)
    PROVE  IInv'
<1>1. /\ move[m].state = "cancelled" /\ Becomes(m, "over")
      /\ store' = IF restock THEN [store EXCEPT ![move[m].sold] = @ + 1] ELSE store
      /\ Excuses(restock, "restocked")
      /\ UNCHANGED <<onHand, setting, jobs, doing>>
  BY DEF CancelInStore
<1>2. /\ "over" \in MoveState \ {"new"} /\ "over" \notin {"placed", "cancelled"}
      /\ "over" # "assigned" /\ "over" \notin Active /\ "cancelled" \notin Active
  BY DEF MoveState, Active
<1>3. excused' = None => excused = None /\ ~restock
  BY <1>1, ExcusesKept DEF Excuse
<1>4. CASE ~restock
  BY <1>1, <1>2, <1>3, <1>4, UncountedStep
<1>5. CASE restock
  <2>1. MovesShape'
    BY <1>1, <1>2, MoveBecomes DEF IInv, ShapeInv, MovesShape
  <2>2. \E Q : store' \in [Product -> Q]
    <3>1. PICK Q : store \in [Product -> Q]
      BY DEF IInv, ShapeInv
    <3>2. store' \in [Product -> Q \cup {store[move[m].sold] + 1}]
      BY <1>1, <1>5, <3>1
    <3> QED
      BY <3>2
  <2>3. ShapeInv'
    BY <1>1, <2>1, <2>2 DEF IInv, ShapeInv, MovesShape, MoveShape
  <2> QED
    BY <1>3, <1>5, <2>3 DEF IInv, StoreInv
<1> QED
  BY <1>4, <1>5

-----------------------------------------------------------------------------
(* Exports, and the import of the stock of the store *)

LEMMA StockSame ==
    ASSUME ShapeInv, UNCHANGED <<stock, setting>>
    PROVE  /\ \A p \in Product : Exported(p)' = Exported(p)
           /\ \A p : Owed(p)' <=> Owed(p)
<1>1. move' = move /\ onHand' = onHand /\ setting' = setting
  BY DEF stock
<1>2. \A c \in Moved : Own(c)' = Own(c)
  <2>1. \A c, kinds, states : \A n \in Move :
            Counts(n, c, kinds, states)' <=> Counts(n, c, kinds, states)
    BY <1>1 DEF Counts
  <2> QED
    BY <1>1, <2>1, OwnSame DEF ShapeInv
<1>3. OwnKept({})
  BY <1>1, <1>2 DEF OwnKept, Moved
<1>4. \A p \in Product : Exported(p)' = Exported(p)
  BY <1>3, NothingUpward, ExportedKept
<1> QED
  BY <1>1, <1>4 DEF Owed

\* Jobs that do not export come, and exports are asked for.
LEMMA JobsStep ==
    ASSUME IInv, UNCHANGED <<stock, store, setting, doing>>, excused' = None => excused = None,
           \A j \in jobs : Exporting(j) => j \in jobs'
    PROVE  IInv'
<1>1. /\ \A p \in Product : Exported(p)' = Exported(p)
      /\ \A p : Owed(p)' <=> Owed(p)
  BY StockSame DEF IInv
<1>2. \A p : Waits(p) => Waits(p)'
  BY DEF Waits, Exporting
<1>3. \A w, p : Handles(w, p)' <=> Handles(w, p)
  BY DEF Handles, Asleep
<1>4. CareInv => CareInv'
  BY <1>1, <1>2, <1>3 DEF CareInv, TakenCare, SentRight, OneAtATime, Matches
<1>5. ShapeInv'
  BY DEF IInv, ShapeInv, stock, MoveShape
<1> QED
  BY <1>4, <1>5 DEF IInv, StoreInv

LEMMA BeginStep ==
    ASSUME IInv, NEW w \in Worker, NEW j \in jobs, Begin(w, j)
    PROVE  IInv'
<1> DEFINE qty == [p \in j.products |-> Exported(p)]
           d == [job |-> j, qty |-> qty]
           Crossed == \E v \in Worker : ~Asleep(v) /\ doing[v].job.products \cap j.products # {}
<1>1. /\ Asleep(w) /\ jobs' = jobs \ {j} /\ doing' = [doing EXCEPT ![w] = d]
      /\ Excuses(Crossed, "crossed") /\ UNCHANGED <<stock, store, setting>>
  BY DEF Begin
<1>2. d.job = j /\ d.qty = qty /\ d # Idle
  <2>1. DOMAIN d = {"job", "qty"} /\ DOMAIN Idle = {"job"}
    BY DEF Idle
  <2> QED
    BY <2>1
<1>3. \A p \in j.products : qty[p] = Exported(p)
  OBVIOUS
<1> HIDE DEF qty, d
<1>4. (\E Q : doing' \in [Worker -> Q]) /\ doing'[w] = d /\ \A v \in Worker \ {w} : doing'[v] = doing[v]
  <2>1. PICK Q : doing \in [Worker -> Q]
    BY DEF IInv, ShapeInv
  <2>2. doing' \in [Worker -> Q \cup {d}]
    BY <1>1, <2>1
  <2> QED
    BY <1>1, <2>1, <2>2
<1>5. /\ \A p \in Product : Exported(p)' = Exported(p)
      /\ \A p : Owed(p)' <=> Owed(p)
  BY <1>1, StockSame DEF IInv
<1>6. ShapeInv'
  BY <1>1, <1>4 DEF IInv, ShapeInv, stock, MoveShape
<1>7. /\ \A p : Handles(w, p)' <=> p \in j.products
      /\ \A p : ~Handles(w, p)
      /\ \A v \in Worker \ {w} : \A p : Handles(v, p)' <=> Handles(v, p)
  BY <1>1, <1>2, <1>4 DEF Handles, Asleep
<1>8. \A p : p \notin j.products /\ Waits(p) => Waits(p)'
  BY <1>1 DEF Waits, Exporting
<1>9. ASSUME CareInv, ~Crossed
      PROVE  CareInv'
  <2>1. TakenCare'
    <3> SUFFICES ASSUME NEW p \in Product
                 PROVE  Matches(p)' \/ Waits(p)' \/ Owed(p)' \/ \E v \in Worker : Handles(v, p)'
      BY DEF TakenCare
    <3>1. CASE p \in j.products
      BY <1>7, <3>1
    <3>2. CASE p \notin j.products
      <4>1. Matches(p) \/ Waits(p) \/ Owed(p) \/ \E v \in Worker : Handles(v, p)
        BY <1>9 DEF CareInv, TakenCare
      <4>2. Matches(p) => Matches(p)'
        BY <1>1, <1>5 DEF Matches
      <4> QED
        BY <1>5, <1>7, <1>8, <3>2, <4>1, <4>2
    <3> QED
      BY <3>1, <3>2
  <2>2. \A v \in Worker \ {w} : \A p \in j.products : ~Handles(v, p)
    BY <1>9 DEF Handles
  <2>3. SentRight'
    <3> SUFFICES ASSUME NEW v \in Worker, NEW p \in Product, Handles(v, p)'
                 PROVE  doing'[v].qty[p] = Exported(p)' \/ Waits(p)'
      BY DEF SentRight
    <3>1. CASE v = w
      BY <1>2, <1>3, <1>4, <1>5, <1>7, <3>1
    <3>2. CASE v # w
      <4>1. Handles(v, p) /\ p \notin j.products
        BY <1>7, <2>2, <3>2
      <4>2. doing[v].qty[p] = Exported(p) \/ Waits(p)
        BY <1>9, <4>1 DEF CareInv, SentRight
      <4> QED
        BY <1>4, <1>5, <1>8, <3>2, <4>1, <4>2
    <3> QED
      BY <3>1, <3>2
  <2>4. OneAtATime'
    <3> SUFFICES ASSUME NEW p \in Product, NEW u \in Worker, NEW v \in Worker,
                        Handles(u, p)', Handles(v, p)'
                 PROVE  u = v
      BY DEF OneAtATime
    <3>1. CASE p \in j.products
      BY <1>7, <2>2, <3>1
    <3>2. CASE p \notin j.products
      BY <1>7, <1>9, <3>2 DEF CareInv, OneAtATime
    <3> QED
      BY <3>1, <3>2
  <2> QED
    BY <2>1, <2>3, <2>4 DEF CareInv
<1> HIDE DEF Crossed
<1>10. excused' = None => excused = None /\ ~Crossed
  BY <1>1, ExcusesKept DEF Excuse
<1> QED
  BY <1>6, <1>9, <1>10 DEF IInv, StoreInv

\* An export ends, having sent the quantities of the products of ps; the others wait.
LEMMA EndStep ==
    ASSUME IInv, NEW w \in Worker, ~Asleep(w), End(w), UNCHANGED <<stock, setting>>,
           NEW ps, ps \subseteq doing[w].job.products,
           store' = [p \in Product |-> IF p \in ps THEN doing[w].qty[p] ELSE store[p]],
           jobs \subseteq jobs', excused' = None => excused = None,
           excused' = None => \A p \in doing[w].job.products \ ps : Waits(p)'
    PROVE  IInv'
<1>1. (\E Q : doing' \in [Worker -> Q]) /\ doing'[w] = Idle /\ \A v \in Worker \ {w} : doing'[v] = doing[v]
  <2>1. PICK Q : doing \in [Worker -> Q]
    BY DEF IInv, ShapeInv
  <2>2. doing' \in [Worker -> Q \cup {Idle}]
    BY <2>1 DEF End
  <2> QED
    BY <2>1, <2>2 DEF End
<1>2. /\ \A p \in Product : Exported(p)' = Exported(p)
      /\ \A p : Owed(p)' <=> Owed(p)
  BY StockSame DEF IInv
<1>3. \E Q : store' \in [Product -> Q]
  <2> DEFINE f == [p \in Product |-> IF p \in ps THEN doing[w].qty[p] ELSE store[p]]
             Q == {f[p] : p \in Product}
  <2>1. f \in [Product -> Q]
    OBVIOUS
  <2> QED
    BY <2>1
<1>4. ShapeInv'
  BY <1>1, <1>3 DEF IInv, ShapeInv, stock, MoveShape
<1>5. /\ \A p : ~Handles(w, p)'
      /\ \A v \in Worker \ {w} : \A p : Handles(v, p)' <=> Handles(v, p)
  BY <1>1 DEF Handles, Asleep
<1>6. \A p : Waits(p) => Waits(p)'
  BY DEF Waits, Exporting
<1>7. ASSUME CareInv, \A p \in doing[w].job.products \ ps : Waits(p)'
      PROVE  CareInv'
  <2>1. TakenCare'
    <3> SUFFICES ASSUME NEW p \in Product
                 PROVE  Matches(p)' \/ Waits(p)' \/ Owed(p)' \/ \E v \in Worker : Handles(v, p)'
      BY DEF TakenCare
    <3>1. CASE p \in ps
      <4>1. Handles(w, p)
        BY <3>1 DEF Handles
      <4>2. doing[w].qty[p] = Exported(p) \/ Waits(p)
        BY <1>7, <4>1 DEF CareInv, SentRight
      <4>3. store'[p] = doing[w].qty[p]
        BY <3>1
      <4> QED
        BY <1>2, <1>6, <4>2, <4>3 DEF Matches
    <3>2. CASE p \in doing[w].job.products \ ps
      BY <1>7, <3>2
    <3>3. CASE p \notin doing[w].job.products
      <4>1. store'[p] = store[p] /\ ~Handles(w, p)
        BY <3>3 DEF Handles
      <4>2. Matches(p) \/ Waits(p) \/ Owed(p) \/ \E v \in Worker : Handles(v, p)
        BY <1>7 DEF CareInv, TakenCare
      <4>3. Matches(p) => Matches(p)'
        BY <1>2, <4>1 DEF Matches
      <4> QED
        BY <1>2, <1>5, <1>6, <4>1, <4>2, <4>3
    <3> QED
      BY <3>1, <3>2, <3>3
  <2>2. SentRight'
    <3> SUFFICES ASSUME NEW v \in Worker, NEW p \in Product, Handles(v, p)'
                 PROVE  doing'[v].qty[p] = Exported(p)' \/ Waits(p)'
      BY DEF SentRight
    <3>1. v # w /\ Handles(v, p)
      BY <1>5
    <3>2. doing[v].qty[p] = Exported(p) \/ Waits(p)
      BY <1>7, <3>1 DEF CareInv, SentRight
    <3> QED
      BY <1>1, <1>2, <1>6, <3>1, <3>2
  <2>3. OneAtATime'
    BY <1>5, <1>7 DEF CareInv, OneAtATime
  <2> QED
    BY <2>1, <2>2, <2>3 DEF CareInv
<1> QED
  BY <1>4, <1>7 DEF IInv, StoreInv

LEMMA SendStep ==
    ASSUME IInv, NEW w \in Worker, NEW killed \in BOOLEAN, Send(w, killed)
    PROVE  IInv'
<1>1. /\ ~Asleep(w) /\ End(w) /\ UNCHANGED <<stock, setting, excused>> /\ jobs \subseteq jobs'
      /\ store' = [p \in Product |-> IF p \in doing[w].job.products THEN doing[w].qty[p] ELSE store[p]]
  BY DEF Send
<1>2. doing[w].job.products \subseteq doing[w].job.products
      /\ \A p \in doing[w].job.products \ doing[w].job.products : Waits(p)'
  OBVIOUS
<1> QED
  BY <1>1, <1>2, EndStep

LEMMA SendPartStep ==
    ASSUME IInv, NEW w \in Worker, NEW sent, SendPart(w, sent)
    PROVE  IInv'
<1>1. /\ ~Asleep(w) /\ End(w) /\ UNCHANGED <<stock, setting, jobs>> /\ Excuses(TRUE, "failed")
      /\ store' = [p \in Product |-> IF p \in sent THEN doing[w].qty[p] ELSE store[p]]
      /\ sent \subseteq doing[w].job.products
  BY DEF SendPart
<1>2. excused' # None
  BY <1>1, ExcusesKept DEF Excuse
<1>3. /\ jobs \subseteq jobs' /\ (excused' = None => excused = None)
      /\ excused' = None => \A p \in doing[w].job.products \ sent : Waits(p)'
  BY <1>1, <1>2
<1> QED
  BY <1>1, <1>3, EndStep

LEMMA ApplyStockStep ==
    ASSUME IInv, NEW j \in jobs, ApplyStock(j)
    PROVE  IInv'
<1> DEFINE p == CHOOSE q \in j.products : TRUE
           q == IF j.qty > Reserved(p) THEN j.qty ELSE Reserved(p)
<1>1. /\ j.does = "apply" /\ jobs' = jobs \ {j} /\ UNCHANGED <<move, store, setting, doing>>
      /\ \/ UNCHANGED <<onHand, excused>>
         \/ onHand' = [onHand EXCEPT ![p] = q] /\ Excuses(TRUE, "applied")
  BY DEF ApplyStock
<1> HIDE DEF p, q
<1>2. CASE UNCHANGED <<onHand, excused>>
  <2>1. \A i \in jobs : Exporting(i) => i \in jobs'
    BY <1>1 DEF Exporting
  <2> QED
    BY <1>1, <1>2, <2>1, JobsStep DEF stock
<1>3. CASE onHand' = [onHand EXCEPT ![p] = q] /\ Excuses(TRUE, "applied")
  <2>1. excused' # None
    BY <1>3, ExcusesKept DEF Excuse
  <2>2. \E Q : onHand' \in [Moved -> Q]
    <3>1. PICK Q : onHand \in [Moved -> Q]
      BY DEF IInv, ShapeInv
    <3>2. onHand' \in [Moved -> Q \cup {q}]
      BY <1>3, <3>1
    <3> QED
      BY <3>2
  <2>3. ShapeInv'
    BY <1>1, <2>2 DEF IInv, ShapeInv, MoveShape
  <2> QED
    BY <2>1, <2>3 DEF IInv, StoreInv
<1> QED
  BY <1>1, <1>2, <1>3

-----------------------------------------------------------------------------
(* The theorem *)

LEMMA IInvInit == Init => IInv
<1> SUFFICES ASSUME Init PROVE IInv
  OBVIOUS
<1>1. /\ \E Q : onHand \in [Moved -> Q]
      /\ move = [m \in Move |-> NewMove] /\ setting.field \in Fields
      /\ store = [p \in Product |-> Exported(p)] /\ doing = [w \in Worker |-> Idle]
  BY SettingAssumption DEF Init, Moved, Fields
<1>2. \E Q : store \in [Product -> Q]
  <2> DEFINE Q == {Exported(p) : p \in Product}
  <2>1. store \in [Product -> Q]
    BY <1>1
  <2> QED
    BY <2>1
<1>3. (\E Q : doing \in [Worker -> Q]) /\ \E Q : move \in [Move -> Q]
  <2>1. doing \in [Worker -> {Idle}] /\ move \in [Move -> {NewMove}]
    BY <1>1
  <2> QED
    BY <2>1
<1>4. ShapeInv
  BY <1>1, <1>2, <1>3 DEF ShapeInv, MoveShape
<1>5. \A p \in Product : Matches(p)
  BY <1>1 DEF Matches
<1>6. \A w \in Worker : \A p : ~Handles(w, p)
  BY <1>1 DEF Handles, Asleep
<1>7. CareInv
  BY <1>5, <1>6 DEF CareInv, TakenCare, SentRight, OneAtATime
<1> QED
  BY <1>4, <1>7 DEF IInv, StoreInv

LEMMA IInvNext == IInv /\ [Next]_vars => IInv'
<1> SUFFICES ASSUME IInv, [Next]_vars PROVE IInv'
  OBVIOUS
<1>1. CASE Warehouse
  BY <1>1, ConfirmStep, ReserveStep, DoneStep, CancelStep, AdjustStep DEF Warehouse
<1>2. CASE Sale
  BY <1>2, PlaceOrderStep, ImportOrderStep, CancelOrderStep, CancelInStoreStep DEF Sale
<1>3. CASE Trouble
  BY <1>3, SendStep, SendPartStep DEF Trouble
<1>4. CASE Cron
  BY <1>4, JobsStep DEF Cron, stock
<1>5. CASE ApplyNext
  BY <1>5, ApplyStockStep DEF ApplyNext
<1>6. ASSUME NEW p \in Product, ImportStock(p) PROVE IInv'
  BY <1>6, JobsStep DEF ImportStock, stock
<1>7. ASSUME NEW w \in Worker, Work(w) PROVE IInv'
  BY <1>7, BeginStep, SendStep DEF Work
<1>8. CASE UNCHANGED vars
  BY <1>8, JobsStep DEF vars, stock
<1> QED
  BY <1>1, <1>2, <1>3, <1>4, <1>5, <1>6, <1>7, <1>8 DEF Next

\* Who is at rest has nothing left to do.
LEMMA QuietFollows == IInv => StoreFollows
<1> SUFFICES ASSUME IInv, Quiet, excused = None, NEW p \in Product PROVE Matches(p)
  BY DEF StoreFollows
<1>1. Matches(p) \/ Waits(p) \/ Owed(p) \/ \E w \in Worker : Handles(w, p)
  BY DEF IInv, StoreInv, CareInv, TakenCare
<1> QED
  BY <1>1 DEF Quiet, Waits, Owed, Handles

\* When nothing is left to do, the store has the stock of Odoo of every product, also of
\* those that are made of what has moved, but where a change was dropped in one of the
\* known ways (stock_quant.py, stock_move.py, sale_integration.py: export_inventory).
THEOREM StoreHasStock == Spec => []StoreFollows
<1> QED
  BY IInvInit, IInvNext, QuietFollows, PTL DEF Spec
=============================================================================
