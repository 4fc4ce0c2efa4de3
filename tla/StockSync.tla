------------------------------- MODULE StockSync -------------------------------
(***************************************************************************)
(* The stock of Odoo, which the store is told.  A quant or a move that     *)
(* changes asks for a job that exports the quantities of its product and   *)
(* of the products that are made of it; a scheduled action exports them    *)
(* all; an order of the store takes from the stock of the store first, and *)
(* from that of Odoo when it is imported.                                  *)
(*                                                                         *)
(* An export sets absolute quantities, which it has read in the snapshot   *)
(* with which its job began.                                               *)
(*                                                                         *)
(* Abstracted: one location, one variant for each template, one unit of    *)
(* measure, moves of one unit; that the real-time export is on and that    *)
(* all products are mapped (ProductSync); the pipeline of an order         *)
(* (OrderPipeline).  Bounds of the model: Move, MaxActs, and that a job    *)
(* that is asked for again while it waits is kept once.                    *)
(***************************************************************************)
EXTENDS Integers, FiniteSets, SequencesExt

CONSTANTS
    Product,     \* variants that the store sells
    Bom,         \* the bill of materials of each
    Consumable,  \* products of type "consu"
    Field,       \* values of the setting synchronise_qty_field
    Made,        \* values of the setting update_stock_for_manufacture_boms
    Move,        \* stock moves
    Worker,      \* transactions that may be in progress at a time
    BlockSize,   \* products of one job of the scheduled export
    Stock,       \* quantities on hand in the beginning
    MaxActs      \* bound of the model: acts of users, and failures

Parts(p) == DOMAIN Bom[p].needs
IsKit(p) == Bom[p].type = "phantom"

\* A bill of materials says what one unit needs, kits taken apart as explode does; "other"
\* is one that the product has in bom_ids, but that is for another variant or another
\* company.  Odoo takes no bill that is a cycle.
ASSUME BomAssumption ==
    /\ IsFiniteSet(Product) /\ DOMAIN Bom = Product
    /\ \A p \in Product :
        /\ Bom[p].type \in {"none", "phantom", "normal", "other"}
        /\ \A c \in Parts(p) : c \in Product /\ ~IsKit(c)
        /\ IsKit(p) => Parts(p) # {}
    /\ \A ps \in (SUBSET Product) \ {{}} : \E p \in ps : Parts(p) \cap ps = {}

ASSUME SettingAssumption ==
    /\ Field \subseteq {"free_qty", "qty_available", "virtual_available"}
    /\ BlockSize \in Nat \ {0}

VARIABLES
    onHand,   \* quantity on hand
    move,     \* what each move is, and its state
    store,    \* available quantity in the store
    setting,  \* synchronise_qty_field and update_stock_for_manufacture_boms
    jobs,     \* waiting jobs
    doing,    \* the job of each transaction and the quantities it has read
    acts,     \* bound of the model
    excused   \* history: the first way in which a change may have been dropped

stock == <<onHand, move>>
vars == <<stock, store, setting, jobs, doing, acts, excused>>

-----------------------------------------------------------------------------
(* Types *)

None == "none"

NewMove == [kind |-> None, product |-> None, sold |-> None, state |-> "new"]

\* An order is a move of its component when it sells a kit.
Kind == {"order", "delivery", "receipt", "production"}
MoveState == {"new", "placed", "waiting", "assigned", "cancelled", "over"}

\* Jobs that export one variant have an identity key, those of blocks have none.
SingleJob(p) == [does |-> "single", products |-> {p}]
BlockJob(ps, cron) == [does |-> IF cron THEN "cron" ELSE "block", products |-> ps]
Apply(p, q) == [does |-> "apply", products |-> {p}, qty |-> q]
Exporting(j) == j.does \in {"single", "cron", "block"}

Idle == [job |-> None]
Asleep(w) == doing[w] = Idle

\* The job of a change was taken for one that has begun; two exports of a product at
\* once; an order was not reserved; a move that was not reserved was cancelled; the store
\* restocked an order that Odoo had cancelled; a job failed; a quantity of the store was
\* applied.
Excuse == {"stale key", "crossed", "oversold", "unreserved", "restocked", "failed", "applied"}

-----------------------------------------------------------------------------
(* Quantities *)

MovesOf(p, kinds, states) ==
    Cardinality({m \in Move : move[m].product = p /\ move[m].kind \in kinds /\ move[m].state \in states})

Reserved(p) == MovesOf(p, {"order", "delivery"}, {"assigned"})
Free(p) == onHand[p] - Reserved(p)

\* VIRTUAL_AVAILABLE_STATES
Active == {"waiting", "assigned"}
Virtual(p) ==
    onHand[p] + MovesOf(p, {"receipt", "production"}, Active) - MovesOf(p, {"order", "delivery"}, Active)

Least(s) == CHOOSE x \in s : \A y \in s : x <= y
Possible(p, available) == Least({available[c] \div Bom[p].needs[c] : c \in Parts(p)})

Own(p) ==
    LET qty == [free_qty |-> Free(p), qty_available |-> onHand[p], virtual_available |-> Virtual(p)]
    IN  qty[setting.field]

\* The field of Odoo: a kit has what its components allow.
QtyField == [p \in Product |->
    IF IsKit(p) THEN Possible(p, [c \in Parts(p) |-> Own(c)]) ELSE Own(p)]

\* _compute_qty_producible: what can be made of the components, and of theirs.  A
\* product for which no bill is found can be made as often as it is there.
Producible(qty) == LET
    make[p \in Product] ==
        LET available == [c \in Parts(p) |-> qty[c] + IF Bom[c].type = "none" THEN 0 ELSE make[c]]
        IN  IF Bom[p].type # "normal" THEN qty[p]
            ELSE IF \E c \in Parts(p) : available[c] <= 0 THEN 0
            ELSE Possible(p, available)
    IN make

\* _prepare_inventory_data
Exported(p) ==
    IF setting.made /\ Bom[p].type # "none" /\ ~IsKit(p)
    THEN Producible(QtyField)[p] + QtyField[p]
    ELSE QtyField[p]

-----------------------------------------------------------------------------
(* The jobs that a change asks for *)

\* Mutant: kits are forgotten.
ParentsMade == [p \in Product |-> {q \in Product : Bom[q].type = "normal" /\ p \in Parts(q)}]

Users(ps) == {q \in Product : Bom[q].type \in {"phantom", "normal"} /\ Parts(q) \cap ps # {}}

\* get_bom_parent_templates_recursively: the products made of this one, those made of
\* them, and so on.
ParentsOf == [p \in Product |->
    {q \in Product : \A up \in SUBSET Product : Users({p} \cup up) \subseteq up => q \in up}]

Excuses(condition, excuse) == excused' = IF condition /\ excused = None THEN excuse ELSE excused

\* trigger_export and _export_inventory_on_template.  A job is not created when the
\* transaction has seen one waiting, which has begun since (stale).
Triggered(p) == {SingleJob(q) : q \in {p} \cup ParentsOf[p]}
BegunFor(p) == {doing[w].job : w \in {v \in Worker : ~Asleep(v)}} \cap Triggered(p)

Export(p, more) ==
    \E stale \in SUBSET BegunFor(p) :
        /\ jobs' = jobs \cup (Triggered(p) \ stale) \cup more
        /\ Excuses(stale # {}, "stale key")

Block(order, i, cron) ==
    LET end == IF i + BlockSize - 1 > Len(order) THEN Len(order) ELSE i + BlockSize - 1
    IN  BlockJob({order[k] : k \in i..end}, cron)
Starts(n) == {i \in 1..n : (i - 1) % BlockSize = 0}

\* export_inventory_by_jobs
Blocks(ps, cron) == LET order == SetToSeq(ps) IN {Block(order, i, cron) : i \in Starts(Len(order))}

Act == acts < MaxActs /\ acts' = acts + 1

-----------------------------------------------------------------------------
(* Moves.  The quant changes with a reservation and when a move is done; the forecast *)
(* changes with the state of a move too. *)

IsOut(m) == move[m].kind \in {"order", "delivery"}
Becomes(m, s) == move' = [move EXCEPT ![m].state = s]

\* StockMove.write and create: the forecast changes when a move becomes active.
MoveTrigger(p, quant) ==
    IF quant \/ setting.field = "virtual_available"
    THEN Export(p, {})
    ELSE UNCHANGED <<jobs, excused>>

\* A move is confirmed, and reserved if there is something free.
Confirm(m, kind, p) ==
    /\ Act /\ move[m] = NewMove /\ ~IsKit(p)
    /\ LET reserves == kind = "delivery" /\ Free(p) > 0
       IN  /\ move' = [move EXCEPT ![m] =
                  [kind |-> kind, product |-> p, sold |-> None,
                   state |-> IF reserves THEN "assigned" ELSE "waiting"]]
           /\ MoveTrigger(p, reserves)
    /\ UNCHANGED <<onHand, store, setting, doing>>

Reserve(m) ==
    /\ move[m].state = "waiting" /\ IsOut(m) /\ Free(move[m].product) > 0
    /\ Becomes(m, "assigned")
    /\ MoveTrigger(move[m].product, TRUE)
    /\ UNCHANGED <<onHand, store, setting, doing, acts>>

\* StockQuant.write: the quantity, and the reservation that is over.
Done(m) ==
    LET p == move[m].product IN
    /\ move[m].state = (IF IsOut(m) THEN "assigned" ELSE "waiting")
    /\ onHand' = [onHand EXCEPT ![p] = IF IsOut(m) THEN @ - 1 ELSE @ + 1]
    /\ Becomes(m, "over")
    /\ Export(p, {})
    /\ UNCHANGED <<store, setting, doing, acts>>

\* StockMove.write: a receipt that was active, captured before the write; a reservation
\* that is released is left to the quant.
CancelSeen(m) ==
    \/ move[m].state = "assigned"
    \/ setting.field = "virtual_available" /\ move[m].kind = "receipt" /\ move[m].state \in Active

Cancel(m) ==
    /\ Act /\ move[m].state \in Active /\ move[m].kind # "order"
    /\ Becomes(m, "over")
    /\ IF CancelSeen(m)
       THEN Export(move[m].product, {})
       ELSE UNCHANGED jobs /\ Excuses(setting.field = "virtual_available", "unreserved")
    /\ UNCHANGED <<onHand, store, setting, doing>>

\* An inventory adjustment.
Adjust(p, q) ==
    /\ Act /\ ~IsKit(p) /\ q # onHand[p] /\ q >= Reserved(p)
    /\ onHand' = [onHand EXCEPT ![p] = q]
    /\ Export(p, {})
    /\ UNCHANGED <<move, store, setting, doing>>

-----------------------------------------------------------------------------
(* Orders of the store *)

\* What is delivered for a product that is sold.
Delivered(p) == IF IsKit(p) THEN CHOOSE c \in Parts(p) : TRUE ELSE p

\* The store sells: its own stock goes down at once.
PlaceOrder(m, sold) ==
    /\ Act /\ move[m] = NewMove /\ store[sold] > 0
    /\ move' = [move EXCEPT ![m] = 
           [kind |-> "order", product |-> Delivered(sold), sold |-> sold, state |-> "placed"]]
    /\ store' = [store EXCEPT ![sold] = @ - 1]
    /\ UNCHANGED <<onHand, setting, jobs, doing, excused>>

\* The order is imported and its workflow confirms it (OrderImport, OrderPipeline).
ImportOrder(m) ==
    LET p == move[m].product
        reserves == Free(p) > 0
    IN  /\ move[m].state = "placed"
        /\ Becomes(m, IF reserves THEN "assigned" ELSE "waiting")
        /\ IF reserves \/ setting.field = "virtual_available"
           THEN Export(p, {})
           ELSE UNCHANGED jobs /\ Excuses(TRUE, "oversold")
        /\ UNCHANGED <<onHand, store, setting, doing, acts>>

\* action_cancel and _integration_cancel_order_hook, which exports the product of the
\* order line in any case.
CancelOrder(m) ==
    LET p == move[m].product
        sold == move[m].sold
    IN
    /\ Act /\ move[m].kind = "order" /\ move[m].state \in Active
    /\ Becomes(m, "cancelled")
    /\ IF CancelSeen(m)
       THEN Export(p, Blocks({sold}, FALSE))
       ELSE /\ jobs' = jobs \cup Blocks({sold}, FALSE)
            /\ Excuses(setting.field = "virtual_available" /\ {p} \cup ParentsOf[p] # {sold}, "unreserved")
    /\ UNCHANGED <<onHand, store, setting, doing>>

\* _action_cancel_integration: the wizard that the cancellation opens cancels the order
\* in the store, which may restock it.
CancelInStore(m, restock) ==
    /\ move[m].state = "cancelled"
    /\ Becomes(m, "over")
    /\ store' = IF restock THEN [store EXCEPT ![move[m].sold] = @ + 1] ELSE store
    /\ Excuses(restock, "restocked")
    /\ UNCHANGED <<onHand, setting, jobs, doing, acts>>

-----------------------------------------------------------------------------
(* Exports *)

\* Mutant: products that are made are left to the real-time export.
CronBought == {p \in Product \ Consumable : Bom[p].type = "none"}

\* integrationApiExportInventory looks for products of type "product".
CronProducts == Product \ Consumable

CronBlocks == Blocks(CronProducts, TRUE)

\* The scheduled action; one round at a time.
Cron ==
    /\ \A j \in jobs \cup {doing[w].job : w \in {v \in Worker : ~Asleep(v)}} : j.does # "cron"
    /\ jobs' = jobs \cup CronBlocks
    /\ UNCHANGED <<stock, store, setting, doing, acts, excused>>

\* _collect_inventory_data, in the snapshot of the job.
Begin(w, j) ==
    /\ Asleep(w) /\ j \in jobs /\ Exporting(j)
    /\ jobs' = jobs \ {j}
    /\ doing' = [doing EXCEPT ![w] = [job |-> j, qty |-> [p \in j.products |-> Exported(p)]]]
    /\ Excuses(\E v \in Worker : ~Asleep(v) /\ doing[v].job.products \cap j.products # {}, "crossed")
    /\ UNCHANGED <<stock, store, setting, acts>>

End(w) == doing' = [doing EXCEPT ![w] = Idle]

\* export_inventory of the adapter: quantities are set.  A job that is killed before it
\* commits waits again.
Send(w, killed) ==
    /\ ~Asleep(w)
    /\ store' = [p \in Product |-> IF p \in doing[w].job.products THEN doing[w].qty[p] ELSE store[p]]
    /\ End(w)
    /\ IF killed THEN Act /\ jobs' = jobs \cup {doing[w].job} ELSE UNCHANGED <<jobs, acts>>
    /\ UNCHANGED <<stock, setting, excused>>

\* The job fails after a part: an item that the location does not have yet is activated
\* with its quantity, one by one, before the batch, which is taken or refused as a whole.
SendPart(w, sent) ==
    /\ Act /\ ~Asleep(w) /\ sent \subseteq doing[w].job.products
    /\ store' = [p \in Product |-> IF p \in sent THEN doing[w].qty[p] ELSE store[p]]
    /\ End(w)
    /\ Excuses(TRUE, "failed")
    /\ UNCHANGED <<stock, jobs, setting>>

-----------------------------------------------------------------------------
(* The import of the stock of the store *)

\* A job of this product that waits, with the quantity of an earlier import, is kept.
ApplyWaits(p) == \E j \in jobs : j.does = "apply" /\ j.products = {p}

\* import_stock_levels_integration and run_apply_stock_levels_by_blocks, for one product.
ImportStock(p) ==
    /\ Act /\ ~ApplyWaits(p)
    /\ jobs' = jobs \cup {Apply(p, store[p])}
    /\ UNCHANGED <<stock, store, setting, doing, excused>>

\* apply_stock_levels: kits and consumables are skipped, and nothing is exported.
ApplyStock(j) ==
    LET p == CHOOSE q \in j.products : TRUE
        q == IF j.qty > Reserved(p) THEN j.qty ELSE Reserved(p)
    IN  /\ j \in jobs /\ j.does = "apply"
        /\ jobs' = jobs \ {j}
        /\ IF IsKit(p) \/ p \in Consumable
           THEN UNCHANGED <<onHand, excused>>
           ELSE onHand' = [onHand EXCEPT ![p] = q] /\ Excuses(TRUE, "applied")
        /\ UNCHANGED <<move, store, setting, doing, acts>>

-----------------------------------------------------------------------------

Init ==
    /\ onHand \in [{p \in Product : ~IsKit(p)} -> Stock]
    /\ move = [m \in Move |-> NewMove]
    /\ setting \in [field : Field, made : Made]
    /\ store = [p \in Product |-> Exported(p)]
    /\ jobs = {} /\ doing = [w \in Worker |-> Idle]
    /\ acts = 0 /\ excused = None

Warehouse ==
    \/ \E m \in Move :
        \/ \E p \in Product, kind \in Kind \ {"order"} : Confirm(m, kind, p)
        \/ Reserve(m) \/ Done(m) \/ Cancel(m)
    \/ \E p \in Product, q \in Stock : Adjust(p, q)

Sale ==
    \E m \in Move :
        \/ \E p \in Product : PlaceOrder(m, p)
        \/ ImportOrder(m) \/ CancelOrder(m)
        \/ \E restock \in BOOLEAN : CancelInStore(m, restock)

Work(w) == (\E j \in jobs : Begin(w, j)) \/ Send(w, FALSE)

Trouble == \E w \in Worker : Send(w, TRUE) \/ \E sent \in SUBSET Product : SendPart(w, sent)

ApplyNext == \E j \in jobs : ApplyStock(j)

Next ==
    \/ Warehouse \/ Sale \/ Trouble \/ Cron \/ ApplyNext
    \/ \E p \in Product : ImportStock(p)
    \/ \E w \in Worker : Work(w)

\* Workers go on with their jobs, orders are imported, and the scheduled action runs.
Fairness ==
    /\ WF_vars(\E w \in Worker : Send(w, FALSE))
    /\ \A b \in CronBlocks : SF_vars(\E w \in Worker : Begin(w, b))
    /\ WF_vars(ApplyNext) /\ WF_vars(Cron)
    /\ \A m \in Move : WF_vars(ImportOrder(m))

Spec == Init /\ [][Next]_vars /\ Fairness

-----------------------------------------------------------------------------
(* Properties *)

\* Every variable keeps its type: what is reserved is there, a job of the scheduled
\* export is no bigger than a block.
TypeOK ==
    /\ \A p \in DOMAIN onHand : onHand[p] \in Nat /\ Reserved(p) <= onHand[p]
    /\ \A m \in Move : move[m].kind \in Kind \cup {None} /\ move[m].state \in MoveState
    /\ store \in [Product -> Int]
    /\ \A j \in jobs : j.products # {} /\ j.products \subseteq Product /\ Cardinality(j.products) <= BlockSize
    /\ \A w \in Worker : ~Asleep(w) =>
           Exporting(doing[w].job) /\ DOMAIN doing[w].qty = doing[w].job.products
    /\ acts \in 0..MaxActs /\ excused \in Excuse \cup {None}

Matches(p) == store[p] = Exported(p)
Quiet ==
    /\ jobs = {} /\ \A w \in Worker : Asleep(w)
    /\ \A m \in Move : move[m].state # "placed"

\* When nothing is left to do, the store has the stock of Odoo, also of the products
\* that are made of what has moved, although orders take from both at different times,
\* unless a change was dropped in one of the known ways (excused).
StoreFollows == Quiet /\ excused = None => \A p \in Product : Matches(p)

\* Whatever was dropped, the scheduled export makes it good, but for consumables, which
\* only the real-time export knows.
StockSettles == <>[](\A p \in Product \ Consumable : Matches(p))
=============================================================================
