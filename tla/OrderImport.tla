----------------------------- MODULE OrderImport -----------------------------
(***************************************************************************)
(* How the orders of a store become orders of Odoo.  Two things bring them:*)
(* the scheduled action, which asks the store for a page of the orders     *)
(* updated since a cursor, and the webhooks, handled by controllers that   *)
(* look the order up in the store and create jobs.  Either way an order    *)
(* gets one input file, and a job makes the order of Odoo from the file.   *)
(*                                                                         *)
(* A job is one REPEATABLE READ transaction, as in OrderPipeline: Begin    *)
(* takes the snapshot of the database and asks the store, Commit writes.   *)
(* Webhooks may be lost, delivered twice and in any order.                 *)
(*                                                                         *)
(* Abstracted: the content of an order but its status, the filters by      *)
(* sales channel and legal entity, the delay of the jobs, and the steps of *)
(* the workflow of an order (OrderPipeline).                               *)
(***************************************************************************)
EXTENDS Integers, FiniteSets

CONSTANTS
    Order,       \* orders of the store
    Recent,      \* those created after the cut-off date
    Importable,  \* statuses that the settings of the store let in
    Subscriptions, \* events that the webhooks may be subscribed to, in sets
    PageLimit,   \* orders in a page of the store
    Worker,      \* transactions that may be in progress at a time
    Burst,       \* bound of the environment: orders updated within two seconds
    MaxTime,     \* bound of the model: seconds
    MaxActs      \* bound of the model: failures of jobs, and acts of users

Status == {"paid", "fulfilled", "cancelled"}

ASSUME SetsAssumption == Recent \subseteq Order /\ Importable \subseteq Status
ASSUME BoundsAssumption == PageLimit \in Nat \ {0} /\ Burst \in Nat /\ MaxTime \in Nat /\ MaxActs \in Nat

VARIABLES
    topics,  \* webhook_line_ids: events that the webhooks are subscribed to
    clock,   \* time of the store
    store,   \* status of each order in the store, and when it was last updated
    hooks,   \* webhooks on their way
    cursor,  \* last_receive_orders_datetime
    file,    \* input file of each order
    order,   \* status of each order of Odoo
    jobs,    \* waiting jobs
    doing,   \* what each transaction does, and what it has read
    changed, \* rows written by others since its snapshot
    acts,    \* bound of the model: failures and acts of users
    made     \* history: orders of Odoo made from each file

external == <<topics, clock, store, hooks>>
rows == <<cursor, file, order>>
vars == <<topics, clock, store, hooks, cursor, file, order, jobs, doing, changed, acts, made>>

-----------------------------------------------------------------------------
(* Types *)

Time == 0..MaxTime
None == "none"

\* is_cancelled, create and the events of an order that has a status
Event(status) == {"create", status}

\* Input files: raw is the status in raw_data.
FileState == {None, "draft", "create_order", "workflow_process", "done", "cancelled"}
NoFile == [state |-> None, raw |-> None, update_required |-> FALSE]
File == [state : FileState, raw : Status \cup {None}, update_required : BOOLEAN]

Settings == "settings"  \* the row of the store, among the rows
Nothing == [does |-> "nothing", order |-> None, status |-> None]
ReceiveOrders == [does |-> "receive", order |-> None, status |-> None]
FetchOrder(o) == [does |-> "fetch", order |-> o, status |-> None]
CreateOrderFromInput(o) == [does |-> "create", order |-> o, status |-> None]
RunCurrentPipeline(o) == [does |-> "current", order |-> o, status |-> None]
ProcessPipeline(o, s) == [does |-> "pipeline", order |-> o, status |-> s]
CancelOrder(o, s) == [does |-> "cancel", order |-> o, status |-> s]
Job ==
    {ReceiveOrders} \cup [does : {"fetch", "create", "current"}, order : Order, status : {None}]
        \cup [does : {"pipeline", "cancel"}, order : Order, status : Status]

StoreOrder == [status : Status \cup {None}, at : Time]
Unknown == [status |-> None, at |-> 0]

\* What a transaction has read: the orders that have a file, those that have an
\* order of Odoo, and the answer of the store.
Reading == [job : Job \cup {Nothing}, files : SUBSET Order, orders : SUBSET Order,
            answer : [Order -> StoreOrder]]
Idle == [job |-> Nothing, files |-> {}, orders |-> {}, answer |-> [o \in Order |-> Unknown]]

TypeOK ==
    /\ topics \in Subscriptions /\ clock \in Time /\ store \in [Order -> StoreOrder]
    /\ hooks \in SUBSET (Order \X (Status \cup {"create"}))
    /\ cursor \in -1..MaxTime
    /\ file \in [Order -> File] /\ order \in [Order -> Status \cup {None}]
    /\ jobs \in SUBSET Job /\ doing \in [Worker -> Reading]
    /\ changed \in [Worker -> SUBSET (Order \cup {Settings})]
    /\ acts \in 0..MaxActs /\ made \in [Order -> 0..2]

-----------------------------------------------------------------------------
(* Helpers *)

\* with_delay and an identity key: no second waiting job for the same thing.
Key(j) == <<j.does, j.order>>
AddJob(queue, j) == IF \E k \in queue : Key(k) = Key(j) THEN queue ELSE queue \cup {j}

HasFile == {o \in Order : file[o].state # None}
HasOrder == {o \in Order : order[o] # None}

ImportableStatus(s) == s \in Importable
ImportableDate(o) == o \in Recent

\* _handle_missing_order, which these events call without the date of the order
Missing(o, s) == IF ImportableStatus(s) THEN AddJob(jobs, FetchOrder(o)) ELSE jobs

\* _create_input_file_from_received_data, for a file that does not exist
NewFile(s, state) == [state |-> state, raw |-> s, update_required |-> TRUE]

\* order_fetch_kwargs: what the store is asked for.
InDomain(o) == store[o].status \in Importable
Matching == {o \in Recent : InDomain(o) /\ store[o].at >= cursor}

\* receive_orders: the oldest of them, as many as a page has.
Pages ==
    {p \in SUBSET Matching :
        /\ Cardinality(p) <= PageLimit
        /\ p # Matching => Cardinality(p) = PageLimit
        /\ \A o \in p, q \in Matching \ p : store[o].at <= store[q].at}

Page(d) == {o \in Order : d.answer[o] # Unknown}

\* Mutants: the cursor is the time of the request; two seconds less.
CursorNow(page, answer) == clock
CursorEarlier(page, answer) ==
    (CHOOSE t \in Time : \E o \in page : answer[o].at = t) - 2

\* _find_max_datetime, one second less
NextCursor(page, answer) ==
    (CHOOSE t \in Time : (\E o \in page : answer[o].at = t)
                        /\ \A o \in page : answer[o].at <= t) - 1

-----------------------------------------------------------------------------
(* The store *)

\* An order is placed, or moves on; its webhooks leave.
StoreUpdate(o, s) ==
    /\ store[o].status \in {None, "paid"} /\ s # store[o].status
    /\ Cardinality({p \in Order \ {o} : store[p].status # None /\ store[p].at >= clock - 1}) < Burst
    /\ store' = [store EXCEPT ![o] = [status |-> s, at |-> clock]]
    /\ hooks' = hooks \cup {<<o, e>> : e \in topics \cap
                    (IF store[o].status = None THEN Event(s) ELSE {s})}
    /\ UNCHANGED <<topics, clock, rows, jobs, doing, changed, acts, made>>

Tick ==
    /\ clock < MaxTime
    /\ clock' = clock + 1
    /\ UNCHANGED <<topics, store, hooks, rows, jobs, doing, changed, acts, made>>

\* A webhook is not delivered, or is refused.
LoseHook(h) ==
    /\ h \in hooks /\ acts < MaxActs
    /\ acts' = acts + 1
    /\ hooks' = hooks \ {h}
    /\ UNCHANGED <<topics, clock, store, rows, jobs, doing, changed, made>>

-----------------------------------------------------------------------------
(* Controllers: the order is read again in the store, whatever the event was *)

ProcessCreateOrder(o, s) ==
    IF ImportableStatus(s) /\ ImportableDate(o) THEN AddJob(jobs, FetchOrder(o)) ELSE jobs

ProcessCancelOrder(o, s) ==
    IF o \in HasFile THEN AddJob(jobs, CancelOrder(o, s)) ELSE Missing(o, s)

\* _process_pay_order, _process_fulfill_order, _process_partially_fulfill_order
ProcessPayOrder(o, s) ==
    IF o \in HasFile THEN AddJob(jobs, ProcessPipeline(o, s)) ELSE Missing(o, s)

\* A webhook may be delivered again: keep.
ReceiveHook(o, e, keep) ==
    /\ <<o, e>> \in hooks
    /\ keep => acts < MaxActs
    /\ LET s == store[o].status IN
       jobs' = IF e = "create" THEN ProcessCreateOrder(o, s)
               ELSE IF e = "cancelled" THEN ProcessCancelOrder(o, s)
               ELSE ProcessPayOrder(o, s)
    /\ hooks' = IF keep THEN hooks ELSE hooks \ {<<o, e>>}
    /\ acts' = IF keep THEN acts + 1 ELSE acts
    /\ UNCHANGED <<topics, clock, store, rows, doing, changed, made>>

\* integration_receive_orders_cron
Cron ==
    /\ jobs' = AddJob(jobs, ReceiveOrders)
    /\ UNCHANGED <<external, rows, doing, changed, acts, made>>

-----------------------------------------------------------------------------
(* Jobs *)

\* The snapshot of the database, and what the store answers of some orders.
Begin(w, j, asked) ==
    /\ doing[w] = Idle /\ j \in jobs
    /\ doing' = [doing EXCEPT ![w] =
           [job |-> j, files |-> HasFile, orders |-> HasOrder,
            answer |-> [o \in Order |-> IF o \in asked THEN store[o] ELSE Unknown]]]
    /\ jobs' = jobs \ {j}
    /\ UNCHANGED <<external, rows, changed, acts, made>>

BeginReceive(w) == \E page \in Pages : Begin(w, ReceiveOrders, page)

BeginOrder(w) == \E j \in jobs \ {ReceiveOrders} : Begin(w, j, {j.order})

\* Mutant: the order is made without a look for an existing one.
AlwaysMissing(d, o) == TRUE

\* create_order: there is no order of this code among the mappings.
OrderMissing(d, o) == o \notin d.orders

\* The rows that a job writes, from what it has read.
Written(d) ==
    LET o == d.job.order IN
    CASE d.job.does = "receive" -> (Page(d) \ d.files) \cup {Settings}
      [] d.job.does = "fetch" -> {o} \ d.files
      [] d.job.does = "create" -> {o}
      [] d.job.does \in {"pipeline", "current", "cancel"} -> {o} \cap d.orders
      [] OTHER -> {}

\* Mutant: transactions do not conflict.
SerializableAlways(w) == TRUE

Serializable(w) == changed[w] \cap Written(doing[w]) = {}

\* The transaction ends; those in progress learn of the rows it has written.
End(w, written) ==
    /\ doing' = [doing EXCEPT ![w] = Idle]
    /\ changed' = [v \in Worker |->
           IF v = w \/ doing[v] = Idle THEN {} ELSE changed[v] \cup written]

Commit(w, does) ==
    /\ doing[w].job.does \in does
    /\ Serializable(w)
    /\ End(w, Written(doing[w]))
    /\ UNCHANGED <<external, acts>>

\* integrationApiReceiveOrders
CommitReceive(w) ==
    LET d == doing[w]
        new == Page(d) \ d.files
        full == IF Cardinality(Page(d)) = PageLimit THEN {ReceiveOrders} ELSE {}
        asked == {CreateOrderFromInput(o) : o \in new} \cup full
    IN
    /\ Commit(w, {"receive"})
    /\ file' = [o \in Order |-> IF o \in new THEN NewFile(d.answer[o].status, "create_order") ELSE file[o]]
    /\ cursor' = IF Page(d) = {} THEN cursor ELSE NextCursor(Page(d), d.answer)
    /\ jobs' = jobs \cup {j \in asked : \A k \in jobs : Key(k) # Key(j)}
    /\ UNCHANGED <<order, made>>

\* fetch_order_by_id: the file that exists is left as it is.
CommitFetch(w) ==
    LET d == doing[w] o == d.job.order IN
    /\ Commit(w, {"fetch"})
    /\ IF o \in d.files
       THEN UNCHANGED <<file, jobs>>
       ELSE /\ file' = [file EXCEPT ![o] = NewFile(d.answer[o].status, "create_order")]
            /\ jobs' = AddJob(jobs, CreateOrderFromInput(o))
    /\ UNCHANGED <<cursor, order, made>>

\* The status that parse finds: the one of the store when an update is required.
Parsed(d, o) == IF file[o].update_required THEN d.answer[o].status ELSE file[o].raw

\* create_order_from_input
CommitCreate(w) ==
    LET d == doing[w]
        o == d.job.order
        s == Parsed(d, o)
    IN
    /\ Commit(w, {"create"})
    /\ order' = [order EXCEPT ![o] = IF OrderMissing(d, o) \/ s = "cancelled" THEN s ELSE @]
    /\ made' = [made EXCEPT ![o] = IF OrderMissing(d, o) /\ @ < 2 THEN @ + 1 ELSE @]
    /\ file' = [file EXCEPT ![o] =
           [state |-> IF s = "cancelled" THEN "done" ELSE "workflow_process",
            raw |-> s, update_required |-> FALSE]]
    /\ UNCHANGED <<cursor, jobs>>

\* _build_and_run_order_pipeline, with the status of the webhook or of the file;
\* without an order it does nothing.
CommitPipeline(w) ==
    LET d == doing[w]
        o == d.job.order
        s == IF d.job.does = "pipeline" THEN d.job.status ELSE Parsed(d, o)
    IN
    /\ Commit(w, {"pipeline", "current"})
    /\ IF o \notin d.orders
       THEN UNCHANGED <<file, order>>
       ELSE /\ order' = [order EXCEPT ![o] = s]
            /\ \E state \in {"workflow_process", "done"} :
                file' = [file EXCEPT ![o] = [@ EXCEPT !.state = state, !.update_required = FALSE]]
    /\ UNCHANGED <<cursor, jobs, made>>

\* integration_update_status_order, which cancels the order if there is one.
CommitCancel(w) ==
    LET d == doing[w] o == d.job.order IN
    /\ Commit(w, {"cancel"})
    /\ order' = IF o \in d.orders THEN [order EXCEPT ![o] = "cancelled"] ELSE order
    /\ UNCHANGED <<cursor, file, jobs, made>>

\* The commit is refused: the job waits again, and fails if it would create a row
\* that exists.
Refused(w) ==
    LET d == doing[w] IN
    /\ d # Idle /\ ~Serializable(w)
    /\ End(w, {})
    /\ jobs' = IF changed[w] \cap (Order \ d.files) \cap Written(d) # {} THEN jobs ELSE jobs \cup {d.job}
    /\ UNCHANGED <<external, rows, acts, made>>

\* The job raises and fails, or is killed and waits again.
Abort(w, again) ==
    /\ doing[w] # Idle /\ acts < MaxActs
    /\ acts' = acts + 1
    /\ End(w, {})
    /\ jobs' = IF again THEN jobs \cup {doing[w].job} ELSE jobs
    /\ UNCHANGED <<external, rows, made>>

-----------------------------------------------------------------------------
(* Users *)

Act(o) ==
    /\ acts < MaxActs
    /\ acts' = acts + 1
    /\ changed' = [w \in Worker |-> IF doing[w] = Idle THEN {} ELSE changed[w] \cup {o}]
    /\ UNCHANGED <<external, cursor, order, doing, made>>

\* import_orders, of chosen orders: a file without a job.
ImportOrder(o) ==
    /\ store[o].status # None /\ o \notin HasFile
    /\ file' = [file EXCEPT ![o] = NewFile(store[o].status, "draft")]
    /\ jobs' = jobs
    /\ Act(o)

\* import_orders, of the recent ones: all the pages in one transaction.
ImportRecentOrders ==
    LET new == Matching \ HasFile
        asked == {CreateOrderFromInput(o) : o \in new}
    IN
    /\ Matching # {} /\ acts < MaxActs
    /\ acts' = acts + 1
    /\ file' = [o \in Order |-> IF o \in new THEN NewFile(store[o].status, "create_order") ELSE file[o]]
    /\ cursor' = NextCursor(Matching, store)
    /\ jobs' = jobs \cup asked
    /\ changed' = [w \in Worker |-> IF doing[w] = Idle THEN {} ELSE changed[w] \cup new \cup {Settings}]
    /\ UNCHANGED <<external, order, doing, made>>

\* process
Process(o) ==
    /\ o \in HasFile
    /\ IF o \in HasOrder
       THEN /\ file' = [file EXCEPT ![o] = [@ EXCEPT !.state = "workflow_process", !.update_required = FALSE]]
            /\ jobs' = AddJob(jobs, RunCurrentPipeline(o))
       ELSE /\ file' = [file EXCEPT ![o].state = "create_order"]
            /\ jobs' = AddJob(jobs, CreateOrderFromInput(o))
    /\ Act(o)

\* action_cancel and action_draft
SetState(o) ==
    /\ \/ /\ file[o].state = "draft"
          /\ file' = [file EXCEPT ![o].state = "cancelled"]
       \/ /\ file[o].state \in {"cancelled", "done"} /\ o \notin HasOrder
          /\ file' = [file EXCEPT ![o].state = "draft"]
    /\ jobs' = jobs
    /\ Act(o)

-----------------------------------------------------------------------------

Init ==
    /\ topics \in Subscriptions /\ clock = 0 /\ store = [o \in Order |-> Unknown] /\ hooks = {}
    /\ cursor = -1
    /\ file = [o \in Order |-> NoFile] /\ order = [o \in Order |-> None]
    /\ jobs = {} /\ doing = [w \in Worker |-> Idle] /\ changed = [w \in Worker |-> {}]
    /\ acts = 0 /\ made = [o \in Order |-> 0]

Store == Tick \/ \E o \in Order, s \in Status : StoreUpdate(o, s)

Webhook == \E o \in Order, e \in Status \cup {"create"}, keep \in BOOLEAN : ReceiveHook(o, e, keep)

Receive(w) == BeginReceive(w) \/ CommitReceive(w)

JobStep(w) ==
    \/ Receive(w) \/ BeginOrder(w)
    \/ CommitFetch(w) \/ CommitCreate(w) \/ CommitPipeline(w) \/ CommitCancel(w)
    \/ Refused(w)

Trouble ==
    \/ \E h \in hooks : LoseHook(h)
    \/ \E w \in Worker, again \in BOOLEAN : Abort(w, again)
    \/ ImportRecentOrders
    \/ \E o \in Order : ImportOrder(o) \/ Process(o) \/ SetState(o)

Next == Store \/ Webhook \/ Cron \/ (\E w \in Worker : JobStep(w)) \/ Trouble

Spec == Init /\ [][Next]_vars

\* The scheduler creates its job again and again, and one of the workers at
\* least executes jobs.
Fairness(w) == WF_vars(Cron) /\ WF_vars(JobStep(w)) /\ SF_vars(Receive(w))

-----------------------------------------------------------------------------
(* Properties *)

\* The cursor never passes an order that the settings let in: each one updated
\* before it has an input file, whatever fails or runs at the same time
\* (integrationApiReceiveOrders writes the cursor with the files).
NoneMissed ==
    \A o \in Recent :
        store[o].status \in Importable /\ store[o].at < cursor => o \in HasFile

\* An input file never makes two orders of Odoo, though several jobs may be asked
\* to make it (create_order looks among the mappings of its snapshot).
OneOrder == \A o \in Order : made[o] <= 1

\* An order that the settings let in gets an input file, webhooks or not, if they
\* still let it in: the pages reach it.
Received ==
    \A o \in Recent :
        store[o].status \in Importable ~> o \in HasFile \/ store[o].status \notin Importable
=============================================================================
