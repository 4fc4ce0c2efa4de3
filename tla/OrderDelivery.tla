----------------------------- MODULE OrderDelivery -----------------------------
(***************************************************************************)
(* The deliveries of an order of Odoo and the fulfillments of the order of *)
(* the store it comes from.  A delivery that a user validates is exported: *)
(* a job makes a fulfillment of it in the store.  A fulfillment that the   *)
(* staff of the store makes comes by a webhook, and validates a delivery.  *)
(* The store sends a webhook for the fulfillments that Odoo makes, too.    *)
(*                                                                         *)
(* An export is one REPEATABLE READ transaction that calls the store while *)
(* it is open: when it is aborted, and begun again, what it has made in    *)
(* the store stays.  It writes the row of the order, and so do webhooks    *)
(* and deliveries that change its delivery status.                         *)
(*                                                                         *)
(* Abstracted: one location, kits, units of measure, carriers; that the    *)
(* export of tracking is on.  What is reserved for a delivery is all or    *)
(* nothing of a line, chosen when it is validated for a fulfillment.  The  *)
(* fulfillments are not cancelled, the quantities of the order not changed.*)
(***************************************************************************)
EXTENDS Integers, FiniteSets, SequencesExt, FiniteSetsExt

CONSTANTS
    Line,     \* lines of the order
    Orders,   \* quantities of the lines that an order may have
    Apply,    \* values of the setting apply_external_fulfillments
    Worker,   \* transactions of exports that may be in progress at a time
    MaxActs   \* bound of the model: acts of users and of the staff, and failures

ASSUME OrdersAssumption == Orders \subseteq [Line -> Nat]
ASSUME SettingAssumption == Apply \subseteq BOOLEAN /\ MaxActs \in Nat

VARIABLES
    apply,        \* apply_external_fulfillments
    ordered,      \* quantity of each line of the order
    confirmed,    \* the order is confirmed
    picking,      \* its deliveries, as they are created
    fulfillment,  \* the fulfillments in the store, as they are made
    record,       \* internal_status of the record of each in Odoo
    hooks,        \* webhooks of the order on their way
    jobs,         \* waiting jobs
    doing,        \* what each export does
    acts,         \* bound of the model
    excused       \* history: the first way in which the two may have come apart

order == <<apply, ordered, confirmed, picking, record>>
vars == <<order, fulfillment, hooks, jobs, doing, acts, excused>>

-----------------------------------------------------------------------------
(* Types *)

None == "none"

Zero == [l \in Line |-> 0]
Quantity == {q \in [Line -> 0..Max({ordered[l] : l \in Line})] : \A l \in Line : q[l] <= ordered[l]}

\* A delivery: demand while it is open; sent is tracking_exported and ref tells whether
\* there is a carrier_tracking_ref.  History: the fulfillment it was validated for, and
\* whether two jobs were asked to send it.
Picking == [state : {"open", "done", "cancel"}, qty : Quantity, sent : BOOLEAN,
            ref : BOOLEAN, by : Nat, twice : BOOLEAN]
Open(q) == [state |-> "open", qty |-> q, sent |-> FALSE, ref |-> FALSE, by |-> 0, twice |-> FALSE]

\* A fulfillment: for is the delivery it was made of, 0 when the staff made it.
Fulfillment == [qty : Quantity, for : Nat]

RecordState == {None, "draft", "failed", "done"}

SendPicking(p) == [does |-> "send", pickings |-> {p}]
ExportTracking(ps) == [does |-> "track", pickings |-> ps]
\* A webhook carries the fulfillments there were when the controller read the order.
ProcessPipeline(n) == [does |-> "hook", pickings |-> {}, seen |-> n]

\* todo: deliveries to call the store for; made: fulfillments it has answered;
\* stale: the row of the order was written since the snapshot.
NoJob == [does |-> None, pickings |-> {}]
Idle == [job |-> NoJob, todo |-> <<>>, made |-> {}, stale |-> FALSE]
Asleep(w) == doing[w] = Idle

Excuse == {"crossed", "auto", "short", "echo", "both", "retried", "failed", "dropped", "lost"}

-----------------------------------------------------------------------------
(* Helpers *)

Put(seq, i, x) == [k \in DOMAIN seq |-> IF k = i THEN x ELSE seq[k]]
Total(seq, chosen, l) == MapThenSumSet(LAMBDA i : seq[i].qty[l], chosen)
Delivered(ps) == [l \in Line |-> Total(ps, {p \in DOMAIN ps : ps[p].state = "done"}, l)]
Fulfilled == [l \in Line |-> Total(fulfillment, DOMAIN fulfillment, l)]
Remaining == [l \in Line |-> ordered[l] - Fulfilled[l]]
Least(q, r) == [l \in Line |-> Min({q[l], r[l]})]

OpenOnes(ps) == {p \in DOMAIN ps : ps[p].state = "open"}
Unsent(ps) == {p \in DOMAIN ps : ps[p].state = "done" /\ ~ps[p].sent}

\* check_is_order_shipped
Shipped(ps) == OpenOnes(ps) = {} /\ Delivered(ps) # Zero

\* delivery_status, of the row of the order
DeliveryStatus(ps) ==
    IF Delivered(ps) = Zero THEN "pending" ELSE IF OpenOnes(ps) = {} THEN "full" ELSE "partial"

Touched(d) == IF d = Idle THEN d ELSE [d EXCEPT !.stale = TRUE]
Touch == doing' = [w \in Worker |-> Touched(doing[w])]
TouchIf(ps) == IF DeliveryStatus(ps) # DeliveryStatus(picking) THEN Touch ELSE UNCHANGED doing

Act == acts < MaxActs /\ acts' = acts + 1
Excuses(condition, why) == excused' = IF condition /\ excused = None THEN why ELSE excused

\* _action_done: what is left goes to a backorder, or is cancelled.
Validated(ps, p, q, keep) ==
    LET rest == [l \in Line |-> ps[p].qty[l] - q[l]]
        over == Put(ps, p, [ps[p] EXCEPT !.state = "done", !.qty = q])
    IN  IF keep /\ rest # Zero THEN Append(over, Open(rest)) ELSE over

-----------------------------------------------------------------------------
(* Fulfillments applied to deliveries *)

\* _check_for_fulfill: each line has a move in the delivery, and as much of the line of
\* the order is to be delivered.
Fits(ps, p, q) ==
    \A l \in Line : q[l] > 0 =>
        ps[p].qty[l] > 0 /\ ordered[l] - Delivered(ps)[l] >= q[l]

\* ExternalOrderFulfillment._validate, with the lines that are reserved; s holds the
\* deliveries and the records.  A delivery with nothing to validate raises.
Validate(s, f, ready) ==
    LET open == OpenOnes(s.picking)
        asked == fulfillment[f].qty
        fitting == {p \in open : Fits(s.picking, p, asked)}
        p == Min(fitting)
        q == [l \in Line |-> IF l \in ready THEN Min({asked[l], s.picking[p].qty[l]}) ELSE 0]
        over == Validated(s.picking, p, q, TRUE)
    IN  IF s.record[f] \in {None, "done"} \/ (open # {} /\ fitting = {}) THEN s
        ELSE IF open = {} THEN [s EXCEPT !.record = Put(@, f, "done")]
        ELSE IF q = Zero THEN [s EXCEPT !.record = Put(@, f, "failed")]
        ELSE [picking |-> Put(over, p, [over[p] EXCEPT !.sent = TRUE, !.by = f]),
              record |-> Put(s.record, f, "done")]

\* _integration_apply_external_fulfillments, one after the other
Applied(s, ready) ==
    LET n == Len(s.record)
        after[f \in 0..n] == IF f = 0 THEN s ELSE Validate(after[f - 1], f, ready)
    IN  IF apply THEN after[n] ELSE s

\* A delivery that is validated for less than the fulfillment, or could not be.
Short(s) ==
    \/ \E f \in DOMAIN s.record : s.record[f] = "failed"
    \/ \E p \in DOMAIN s.picking :
           s.picking[p].by # 0 /\ s.picking[p].qty # fulfillment[s.picking[p].by].qty

Write(s) == picking' = s.picking /\ record' = s.record

-----------------------------------------------------------------------------
(* Deliveries that are exported *)

\* with_delay and the identity keys of _job_kwargs_export_picking and _tracking: two jobs
\* may hold the same delivery.
Working == {doing[w].job : w \in {v \in Worker : ~Asleep(v)}}
Held(j) == {p \in j.pickings : \E k \in (jobs \ {j}) \cup Working : p \in k.pickings}

Ask(ps, j) ==
    /\ jobs' = jobs \cup {j}
    /\ picking' = [p \in DOMAIN ps |-> IF p \in Held(j) THEN [ps[p] EXCEPT !.twice = TRUE] ELSE ps[p]]

\* order_export_tracking
TrackAll(ps) ==
    IF Unsent(ps) # {} THEN Ask(ps, ExportTracking(Unsent(ps))) ELSE UNCHANGED jobs /\ picking' = ps

\* Mutant: deliveries are exported when the order is shipped only.
HooksShipped(ps, p) ==
    IF Shipped(ps) THEN TrackAll(ps) ELSE UNCHANGED jobs /\ picking' = ps

\* _run_integration_picking_hooks, of the delivery p
PickingHooks(ps, p) ==
    CASE Shipped(ps) -> TrackAll(ps)
      [] ~Shipped(ps) /\ p \in Unsent(ps) -> Ask(ps, SendPicking(p))
      [] OTHER -> UNCHANGED jobs /\ picking' = ps

\* The staff has made a fulfillment that Odoo has not applied.
Coming == \E f \in DOMAIN fulfillment : fulfillment[f].for = 0 /\ record[f] # "done"

\* action_confirm and _integration_post_order_confirm
Confirm(ready) ==
    LET s == Applied([picking |-> <<Open(ordered)>>, record |-> record], ready) IN
    /\ ~confirmed /\ confirmed' = TRUE
    /\ Write(s) /\ Excuses(Short(s), "short")
    /\ UNCHANGED <<apply, ordered, fulfillment, hooks, jobs, doing, acts>>

\* button_validate by a user
ButtonValidate(p, q, keep) ==
    LET ps == Validated(picking, p, q, keep) IN
    /\ Act /\ picking[p].state = "open" /\ q # Zero /\ Least(q, picking[p].qty) = q
    /\ PickingHooks(ps, p) /\ TouchIf(ps)
    /\ Excuses(Coming, "crossed")
    /\ UNCHANGED <<apply, ordered, confirmed, record, fulfillment, hooks>>

\* action_cancel of a delivery
CancelPicking(p) ==
    LET ps == Put(picking, p, [picking[p] EXCEPT !.state = "cancel"]) IN
    /\ Act /\ picking[p].state = "open"
    /\ PickingHooks(ps, p) /\ TouchIf(ps)
    /\ Excuses(Coming, "crossed")
    /\ UNCHANGED <<apply, ordered, confirmed, record, fulfillment, hooks>>

\* _auto_validate_picking, a step of the workflow: nothing is exported.
AutoValidate(p, ready) ==
    LET q == [l \in Line |-> IF l \in ready THEN picking[p].qty[l] ELSE 0]
        ps == Validated(picking, p, q, TRUE)
    IN  /\ Act /\ picking[p].state = "open" /\ q # Zero
        /\ picking' = ps /\ TouchIf(ps)
        /\ Excuses(Coming \/ Delivered(ps) # Fulfilled, "auto")
        /\ UNCHANGED <<apply, ordered, confirmed, record, fulfillment, hooks, jobs>>

\* StockPicking.write: the carrier gives the reference after the delivery was validated.
SetTracking(p) ==
    LET ps == Put(picking, p, [picking[p] EXCEPT !.ref = TRUE]) IN
    /\ Act /\ picking[p].state = "done" /\ ~picking[p].ref
    /\ IF Shipped(ps) THEN TrackAll(ps) ELSE UNCHANGED jobs /\ picking' = ps
    /\ UNCHANGED <<apply, ordered, confirmed, record, fulfillment, hooks, doing, excused>>

-----------------------------------------------------------------------------
(* Exports *)

\* to_export_format_multi: the deliveries in the order of their ids.
Begin(w, j) ==
    /\ Asleep(w) /\ j \in jobs /\ j.does # "hook"
    /\ jobs' = jobs \ {j}
    /\ doing' = [doing EXCEPT ![w] =
           [Idle EXCEPT !.job = j, !.todo = SetToSortSeq(j.pickings, LAMBDA p, q : p < q)]]
    /\ UNCHANGED <<order, fulfillment, hooks, acts, excused>>

\* send_picking of the adapter: as much as is left in the store.
CallStore(w) ==
    LET d == doing[w]
        p == Head(d.todo)
        q == Least(picking[p].qty, Remaining)
    IN  /\ ~Asleep(w) /\ d.todo # <<>>
        /\ IF q = Zero
           THEN /\ doing' = [doing EXCEPT ![w].todo = Tail(@)]
                /\ UNCHANGED <<fulfillment, record, hooks, excused>>
           ELSE /\ fulfillment' = Append(fulfillment, [qty |-> q, for |-> p])
                /\ record' = Append(record, None)
                /\ hooks' = hooks + 1
                /\ doing' = [doing EXCEPT ![w].todo = Tail(@), ![w].made = @ \cup {Len(record) + 1}]
                /\ Excuses(picking[p].twice /\ \E f \in DOMAIN fulfillment : fulfillment[f].for = p, "both")
        /\ UNCHANGED <<apply, ordered, confirmed, picking, jobs, acts>>

\* Mutant: send_picking leaves internal_status out.
SentDraft(does) == "draft"

\* The records that send_picking and export_tracking create.
SentStatus(does) == IF does = "send" THEN "done" ELSE "draft"

\* What the transaction writes when the store has answered: export_tracking marks all the
\* records of the order as done, after it has applied them.
Sent(d, ready) ==
    LET s == Applied(
            [picking |-> [p \in DOMAIN picking |->
                 IF p \in d.job.pickings THEN [picking[p] EXCEPT !.sent = TRUE] ELSE picking[p]],
             record |-> [f \in DOMAIN record |-> IF f \in d.made THEN SentStatus(d.job.does) ELSE record[f]]],
            ready)
    IN  IF d.job.does = "send" THEN s
        ELSE [s EXCEPT !.record = [f \in DOMAIN @ |-> IF @[f] = None THEN None ELSE "done"]]

Commit(w, ready) ==
    LET d == doing[w]
        s == IF d.made = {} THEN [picking |-> picking, record |-> record] ELSE Sent(d, ready)
    IN  /\ ~Asleep(w) /\ d.todo = <<>> /\ ~d.stale
        /\ Write(s) /\ Excuses(Short(s), "short")
        /\ doing' = [v \in Worker |->
               IF v = w THEN Idle ELSE IF d.made = {} THEN doing[v] ELSE Touched(doing[v])]
        /\ UNCHANGED <<apply, ordered, confirmed, fulfillment, hooks, jobs, acts>>

\* The job waits again; what it has made in the store stays.
Retry(w) ==
    /\ doing' = [doing EXCEPT ![w] = Idle]
    /\ jobs' = jobs \cup {doing[w].job}
    /\ Excuses(doing[w].made # {}, "retried")
    /\ UNCHANGED <<order, fulfillment, hooks>>

\* The row of the order was written by another transaction.
Conflict(w) == ~Asleep(w) /\ doing[w].todo = <<>> /\ doing[w].stale /\ Retry(w) /\ UNCHANGED acts

\* The worker is killed, or the store does not answer.
Killed(w) == ~Asleep(w) /\ Act /\ Retry(w)

\* The store refuses: the job fails.
Refused(w) ==
    /\ ~Asleep(w) /\ Act
    /\ doing' = [doing EXCEPT ![w] = Idle]
    /\ Excuses(TRUE, "failed")
    /\ UNCHANGED <<order, fulfillment, hooks, jobs>>

-----------------------------------------------------------------------------
(* The store *)

\* Odoo has shipped it and not said so yet, or will not ship it.
Taken(q) ==
    \/ Unsent(picking) # {}
    \/ \E l \in Line : q[l] > Total(picking, OpenOnes(picking), l)

\* The staff of the store fulfils a part of the order.
Fulfil(q) ==
    /\ Act /\ q # Zero /\ Least(q, Remaining) = q
    /\ fulfillment' = Append(fulfillment, [qty |-> q, for |-> 0])
    /\ record' = Append(record, None)
    /\ hooks' = hooks + 1
    /\ Excuses(confirmed /\ Taken(q), "crossed")
    /\ UNCHANGED <<apply, ordered, confirmed, picking, jobs, doing>>

HookJobs == {j \in jobs : j.does = "hook"}

\* The controller reads the order in the store; no second job of an order waits.
Receive ==
    /\ hooks > 0 /\ hooks' = hooks - 1
    /\ IF HookJobs = {}
       THEN jobs' = jobs \cup {ProcessPipeline(Len(fulfillment))} /\ UNCHANGED excused
       ELSE /\ UNCHANGED jobs
            /\ Excuses(\E j \in HookJobs : \E f \in (j.seen + 1)..Len(fulfillment) :
                           fulfillment[f].for = 0, "dropped")
    /\ UNCHANGED <<order, fulfillment, doing, acts>>

Lose ==
    /\ Act /\ hooks > 0 /\ hooks' = hooks - 1
    /\ Excuses(TRUE, "lost")
    /\ UNCHANGED <<order, fulfillment, jobs, doing>>

\* _apply_values_from_external: records for the fulfillments that have none; those of a
\* confirmed order are applied.
ApplyValues(j, ready) ==
    LET known == [f \in DOMAIN record |-> IF f <= j.seen /\ record[f] = None THEN "draft" ELSE record[f]]
        s == [picking |-> picking, record |-> known]
        t == IF confirmed THEN Applied(s, ready) ELSE s
        echo == \E w \in Worker : \E f \in doing[w].made : f <= j.seen
    IN  /\ jobs' = jobs \ {j}
        /\ Write(t) /\ Touch
        /\ Excuses(echo \/ Short(t), IF echo THEN "echo" ELSE "short")
        /\ UNCHANGED <<apply, ordered, confirmed, fulfillment, hooks, acts>>

-----------------------------------------------------------------------------

Init ==
    /\ apply \in Apply /\ ordered \in Orders /\ confirmed = FALSE
    /\ picking = <<>> /\ fulfillment = <<>> /\ record = <<>>
    /\ hooks = 0 /\ jobs = {} /\ doing = [w \in Worker |-> Idle]
    /\ acts = 0 /\ excused = None

Users ==
    \/ \E ready \in SUBSET Line : Confirm(ready)
    \/ \E p \in DOMAIN picking :
        \/ \E q \in Quantity, keep \in BOOLEAN : ButtonValidate(p, q, keep)
        \/ CancelPicking(p) \/ SetTracking(p)
        \/ \E ready \in SUBSET Line : AutoValidate(p, ready)

Store == Receive \/ Lose \/ \E q \in Quantity : Fulfil(q)

\* A step of an export, which goes on until it ends.
Export(w) ==
    \/ \E j \in jobs : Begin(w, j)
    \/ CallStore(w) \/ Conflict(w)
    \/ \E ready \in SUBSET Line : Commit(w, ready)

Webhooks == \E j \in HookJobs, ready \in SUBSET Line : ApplyValues(j, ready)

Next ==
    \/ Users \/ Store \/ Webhooks
    \/ \E w \in Worker : Export(w) \/ Killed(w) \/ Refused(w)

\* Workers go on, and webhooks arrive and are processed.
Fairness == WF_vars(Receive) /\ WF_vars(Webhooks) /\ \A w \in Worker : WF_vars(Export(w))

Spec == Init /\ [][Next]_vars /\ Fairness

-----------------------------------------------------------------------------
(* Properties *)

\* Every variable keeps its type: neither side ships more than was ordered, there is no
\* delivery of nothing, and each fulfillment has its record.
TypeOK ==
    /\ \A p \in DOMAIN picking : picking[p] \in Picking /\ picking[p].qty # Zero
    /\ \A f \in DOMAIN fulfillment : fulfillment[f] \in Fulfillment
    /\ Remaining \in Quantity /\ Delivered(picking) \in Quantity
    /\ record \in [DOMAIN fulfillment -> RecordState]
    /\ hooks \in 0..Len(fulfillment) /\ confirmed \in BOOLEAN /\ apply \in BOOLEAN /\ ordered \in Orders
    /\ \A j \in jobs \cup Working : j.pickings \subseteq DOMAIN picking
    /\ acts \in 0..MaxActs /\ excused \in Excuse \cup {None}

\* A fulfillment that Odoo has made of a delivery does not come back and validate another
\* one, and none validates two, unless the webhook of an export was faster than its
\* transaction, or the export began again (excused).
AppliedOnce ==
    excused = None =>
        \A p \in DOMAIN picking : picking[p].by # 0 =>
            /\ fulfillment[picking[p].by].for = 0
            /\ \A r \in DOMAIN picking : picking[r].by = picking[p].by => r = p

\* Odoo and the store end with the same quantities shipped, whoever ships which part and
\* in whichever order exports and webhooks are done, but for the known ways (excused).
ShippedAlike ==
    <>[](confirmed /\ excused = None /\ (apply \/ \A f \in DOMAIN fulfillment : fulfillment[f].for # 0)
         => Delivered(picking) = Fulfilled)
=============================================================================
