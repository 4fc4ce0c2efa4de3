-------------------------- MODULE OrderImportProofs --------------------------
(***************************************************************************)
(* Proofs about OrderImport, for every store, page limit and number of     *)
(* transactions: one order for each input file, and a cursor that passes   *)
(* no order.                                                               *)
(***************************************************************************)
EXTENDS OrderImport, TLAPS, WellFoundedInduction

-----------------------------------------------------------------------------
(* Times *)

\* A set of times has a latest one: the least of what is left until the end.
LEMMA LatestExists ==
    ASSUME NEW n \in Nat, NEW T, T \subseteq 0..n, T # {}
    PROVE  \E t \in T : \A u \in T : u <= t
<1> DEFINE Left == {n - t : t \in T}
<1>1. Left \subseteq Nat
  <2>1. \A t \in 0..n : n - t \in Nat
    OBVIOUS
  <2> QED
    BY <2>1, Zenon
<1>2. Left # {}
  BY Zenon
<1>3. \E x \in Left : \A y \in Left : <<y, x>> \notin OpToRel(<, Nat)
  BY <1>1, <1>2, WFMin, NatLessThanWellFounded, Zenon
<1>4. \E x \in Left : \A y \in Left : ~(y < x)
  BY <1>1, <1>3 DEF OpToRel
<1>5. PICK t \in T : \A y \in Left : ~(y < n - t)
  BY <1>4, Zenon
<1>6. \A u \in T : ~(n - u < n - t)
  BY <1>5, Zenon
<1>7. \A u, v \in 0..n : ~(n - u < n - v) => u <= v
  OBVIOUS
<1> QED
  BY <1>6, <1>7, Zenon

\* The cursor that follows a page is one second before the latest of its orders.
LEMMA CursorOfPage ==
    ASSUME NEW page \in SUBSET Order, page # {}, NEW answer \in [Order -> StoreOrder]
    PROVE  /\ NextCursor(page, answer) \in -1..MaxTime
           /\ \E o \in page : NextCursor(page, answer) = answer[o].at - 1
           /\ \A o \in page : answer[o].at <= NextCursor(page, answer) + 1
<1> DEFINE T == {answer[o].at : o \in page}
           Latest(t) == (\E o \in page : answer[o].at = t) /\ (\A o \in page : answer[o].at <= t)
<1>1. T \subseteq Time /\ T # {} /\ MaxTime \in Nat
  BY BoundsAssumption DEF StoreOrder
<1>2. \E t \in T : \A u \in T : u <= t
  BY <1>1, LatestExists, Zenon DEF Time
<1>3. \E t \in Time : Latest(t)
  BY <1>1, <1>2, Zenon
<1> DEFINE latest == CHOOSE t \in Time : Latest(t)
<1>4. latest \in Time /\ Latest(latest)
  BY <1>3, Zenon
<1>5. NextCursor(page, answer) = latest - 1
  BY DEF NextCursor
<1> HIDE DEF latest
<1> QED
  BY <1>1, <1>4, <1>5 DEF Time, StoreOrder

-----------------------------------------------------------------------------
(* Types *)

\* Which jobs there are, and what a record of a job holds.
LEMMA Jobs ==
    /\ ReceiveOrders \in Job /\ Nothing \notin Job /\ Nothing.does = "nothing"
    /\ \A o \in Order :
        {FetchOrder(o), CreateOrderFromInput(o), RunCurrentPipeline(o)} \subseteq Job \ {ReceiveOrders}
    /\ \A o \in Order, s \in Status :
        {ProcessPipeline(o, s), CancelOrder(o, s)} \subseteq Job \ {ReceiveOrders}
    /\ \A j \in Job : j.does = "receive" => j = ReceiveOrders
    /\ \A j \in Job \ {ReceiveOrders} : j.order \in Order
    /\ \A j \in Job : j.does = "pipeline" => j.status \in Status
BY DEF Job, ReceiveOrders, Nothing, FetchOrder, CreateOrderFromInput, RunCurrentPipeline,
       ProcessPipeline, CancelOrder

LEMMA AddJobKeeps ==
    ASSUME NEW queue, NEW j
    PROVE  queue \subseteq AddJob(queue, j) /\ AddJob(queue, j) \subseteq queue \cup {j}
BY DEF AddJob

LEMMA Records ==
    /\ NoFile \in File /\ Unknown \in StoreOrder /\ Idle \in Reading /\ 0 \in Time
    /\ None \notin Status /\ Importable \subseteq Status /\ Recent \subseteq Order
    /\ \A s \in Status, state \in FileState : NewFile(s, state) \in File
    /\ \A s \in Status \cup {None}, state \in FileState : NewFile(s, state) \in File
BY SetsAssumption, BoundsAssumption
   DEF NoFile, File, FileState, Unknown, StoreOrder, Idle, Reading, Time, None, Status, NewFile

\* What End and Touch leave of the transactions.
LEMMA EndTypes ==
    ASSUME TypeOK, NEW w \in Worker, NEW written, End(w, written), written \subseteq Order \cup {Settings}
    PROVE  /\ doing' \in [Worker -> Reading]
           /\ changed' \in [Worker -> SUBSET (Order \cup {Settings})]
BY Records DEF TypeOK, End

\* What a transaction has read.
LEMMA Readings ==
    ASSUME TypeOK, NEW w \in Worker
    PROVE  /\ doing[w].job \in Job \cup {Nothing}
           /\ doing[w].files \subseteq Order /\ doing[w].orders \subseteq Order
           /\ doing[w].answer \in [Order -> StoreOrder] /\ Page(doing[w]) \in SUBSET Order
           /\ doing[w].job.does = "receive" => doing[w].job = ReceiveOrders
           /\ doing[w].job.does \notin {"receive", "nothing"} =>
                doing[w].job \in Job \ {ReceiveOrders} /\ doing[w].job.order \in Order
BY Jobs DEF TypeOK, Reading, Page, ReceiveOrders, Nothing

\* The rows that a transaction writes are rows.
LEMMA WrittenTypes ==
    ASSUME TypeOK, NEW w \in Worker
    PROVE  Written(doing[w]) \subseteq Order \cup {Settings}
<1> DEFINE d == doing[w]
<1>1. d.job.does \in {"fetch", "create", "pipeline", "current", "cancel"} => d.job.order \in Order
  BY Readings
<1>2. Page(d) \subseteq Order
  BY Readings
<1> HIDE DEF d
<1> QED
  BY <1>1, <1>2 DEF Written, d

LEMMA BeginTypes ==
    ASSUME TypeOK, NEW w \in Worker, NEW j \in Job, NEW asked, Begin(w, j, asked)
    PROVE  TypeOK'
<1>1. [job |-> j, files |-> HasFile, orders |-> HasOrder,
       answer |-> [o \in Order |-> IF o \in asked THEN store[o] ELSE Unknown]] \in Reading
  BY Records DEF TypeOK, Reading, HasFile, HasOrder
<1> QED
  BY <1>1 DEF TypeOK, Begin, external, rows

\* A webhook is about an order that was placed, and who executes nothing has read nothing.
BasicInv ==
    /\ \A h \in hooks : store[h[1]].status # None
    /\ \A w \in Worker : doing[w].job = Nothing => doing[w] = Idle

\* The steps of a job, from the types of what it has read.
LEMMA JobStepTypes ==
    ASSUME TypeOK, NEW w \in Worker, JobStep(w)
    PROVE  TypeOK'
<1> DEFINE d == doing[w]
           o == d.job.order
<1>1. CASE BeginReceive(w)
  BY <1>1, BeginTypes, Jobs DEF BeginReceive
<1>2. CASE BeginOrder(w)
  BY <1>2, BeginTypes DEF BeginOrder, TypeOK
<1>3. ASSUME NEW does, Commit(w, does)
      PROVE  /\ d.job.does \in does /\ UNCHANGED <<external, acts>>
             /\ doing' \in [Worker -> Reading]
             /\ changed' \in [Worker -> SUBSET (Order \cup {Settings})]
  BY <1>3, EndTypes, WrittenTypes DEF Commit
<1>4. CASE CommitReceive(w)
  <2>1. Page(d) \subseteq Order /\ \A p \in Order : d.answer[p].status \in Status \cup {None}
    BY Readings DEF StoreOrder
  <2>2. file' \in [Order -> File]
    BY <1>4, <2>1, Records DEF CommitReceive, TypeOK, FileState
  <2>3. cursor' \in -1..MaxTime
    BY <1>4, Readings, CursorOfPage DEF CommitReceive, TypeOK
  <2>4. jobs' \subseteq Job
    BY <1>4, <2>1, Jobs DEF CommitReceive, TypeOK
  <2> QED
    BY <1>3, <1>4, <2>2, <2>3, <2>4 DEF CommitReceive, TypeOK, external
<1>5. ASSUME d.job.does \in {"fetch", "create", "pipeline", "current", "cancel"}
      PROVE  /\ o \in Order /\ d.answer[o].status \in Status \cup {None}
             /\ Parsed(d, o) \in Status \cup {None}
             /\ d.job.does = "pipeline" => d.job.status \in Status
  BY <1>5, Readings, Jobs DEF StoreOrder, Parsed, TypeOK, File
<1>6. CASE CommitFetch(w)
  <2>1. file' \in [Order -> File]
    BY <1>3, <1>5, <1>6, Records DEF CommitFetch, TypeOK, FileState
  <2>2. jobs' \subseteq Job
    BY <1>3, <1>5, <1>6, Jobs, AddJobKeeps DEF CommitFetch, TypeOK
  <2> QED
    BY <1>3, <1>6, <2>1, <2>2 DEF CommitFetch, TypeOK, external
<1>7. CASE CommitCreate(w)
  <2>1. d.job.does = "create"
    BY <1>3, <1>7 DEF CommitCreate
  <2>2. file' \in [Order -> File]
    BY <1>5, <1>7, <2>1 DEF CommitCreate, TypeOK, File, FileState
  <2>3. order' \in [Order -> Status \cup {None}] /\ made' \in [Order -> 0..2]
    BY <1>5, <1>7, <2>1 DEF CommitCreate, TypeOK
  <2> QED
    BY <1>3, <1>7, <2>2, <2>3 DEF CommitCreate, TypeOK, external
<1>8. CASE CommitPipeline(w)
  <2>1. d.job.does \in {"pipeline", "current"}
    BY <1>3, <1>8 DEF CommitPipeline
  <2>2. ASSUME NEW state \in {"workflow_process", "done"}
        PROVE  [file EXCEPT ![o] = [@ EXCEPT !.state = state, !.update_required = FALSE]] \in [Order -> File]
    BY <1>5, <2>1 DEF TypeOK, File, FileState
  <2>3. order' \in [Order -> Status \cup {None}] /\ file' \in [Order -> File]
    BY <1>5, <1>8, <2>1, <2>2 DEF CommitPipeline, TypeOK
  <2> QED
    BY <1>3, <1>8, <2>3 DEF CommitPipeline, TypeOK, external
<1>9. CASE CommitCancel(w)
  <2>1. order' \in [Order -> Status \cup {None}]
    BY <1>9 DEF CommitCancel, TypeOK, Status
  <2> QED
    BY <1>3, <1>9, <2>1 DEF CommitCancel, TypeOK, external
<1>10. CASE Refused(w)
  <2>1. d.job \in Job
    BY <1>10, Readings, Jobs DEF Refused, Serializable, Written
  <2> QED
    BY <1>10, <2>1, EndTypes, AddJobKeeps DEF Refused, TypeOK, external, rows
<1> QED
  BY <1>1, <1>2, <1>4, <1>6, <1>7, <1>8, <1>9, <1>10 DEF JobStep, Receive

LEMMA TypeStep ==
    ASSUME TypeOK, BasicInv, [Next]_vars
    PROVE  TypeOK' /\ BasicInv'
<1> DEFINE IInv == TypeOK /\ BasicInv
<1>1. CASE UNCHANGED vars
  BY <1>1 DEF TypeOK, vars, BasicInv
<1>2. ASSUME NEW o \in Order, NEW s \in Status, StoreUpdate(o, s)
      PROVE  IInv'
  BY <1>2, Records DEF TypeOK, StoreUpdate, StoreOrder, rows, Event, BasicInv
<1>3. CASE Tick
  BY <1>3, BoundsAssumption DEF TypeOK, Tick, Time, rows, BasicInv
<1>4. ASSUME NEW h \in hooks, LoseHook(h)
      PROVE  IInv'
  BY <1>4, BoundsAssumption DEF TypeOK, LoseHook, rows, BasicInv
<1>5. ASSUME NEW o \in Order, NEW e \in Status \cup {"create"}, NEW keep \in BOOLEAN, ReceiveHook(o, e, keep)
      PROVE  IInv'
  <2>1. store[o].status \in Status
    BY <1>5 DEF TypeOK, StoreOrder, BasicInv, ReceiveHook
  <2>2. jobs' \subseteq Job
    BY <1>5, <2>1, Jobs, AddJobKeeps DEF TypeOK, ReceiveHook, Missing, ProcessCreateOrder, ProcessCancelOrder, ProcessPayOrder
  <2> QED
    BY <1>5, <2>2, BoundsAssumption DEF TypeOK, ReceiveHook, rows, BasicInv
<1>6. CASE Cron
  BY <1>6, Jobs DEF TypeOK, Cron, AddJob, external, rows, BasicInv
<1>7. ASSUME NEW w \in Worker, JobStep(w)
      PROVE  IInv'
  <2>1. UNCHANGED external
    BY <1>7 DEF JobStep, Receive, BeginReceive, BeginOrder, Begin, CommitReceive, CommitFetch,
                CommitCreate, CommitPipeline, CommitCancel, Commit, Refused
  <2>2. doing' = [doing EXCEPT ![w] = Idle] \/ (doing' = [doing EXCEPT ![w] = doing'[w]] /\ doing'[w].job \in Job)
    <3>1. ASSUME NEW j \in Job, NEW asked, Begin(w, j, asked)
          PROVE  doing' = [doing EXCEPT ![w] = doing'[w]] /\ doing'[w].job \in Job
      BY <3>1 DEF Begin, TypeOK
    <3>2. BeginReceive(w) \/ BeginOrder(w) => \E j \in Job : \E asked : Begin(w, j, asked)
      BY Jobs DEF BeginReceive, BeginOrder, TypeOK
    <3>3. CommitReceive(w) \/ CommitFetch(w) \/ CommitCreate(w) \/ CommitPipeline(w) \/ CommitCancel(w) \/ Refused(w)
            => doing' = [doing EXCEPT ![w] = Idle]
      BY DEF CommitReceive, CommitFetch, CommitCreate, CommitPipeline, CommitCancel, Commit, Refused, End
    <3> QED
      BY <1>7, <3>1, <3>2, <3>3 DEF JobStep, Receive
  <2> QED
    BY <1>7, <2>1, <2>2, JobStepTypes, Jobs DEF external, BasicInv, TypeOK
<1>8. ASSUME NEW w \in Worker, NEW again \in BOOLEAN, Abort(w, again)
      PROVE  IInv'
  <2>1. doing[w].job \in Job
    BY <1>8, Readings DEF Abort, BasicInv
  <2>2. doing' \in [Worker -> Reading] /\ changed' \in [Worker -> SUBSET (Order \cup {Settings})]
    BY <1>8, EndTypes DEF Abort
  <2>3. acts' \in 0..MaxActs /\ jobs' \subseteq Job
    BY <1>8, <2>1, AddJobKeeps, BoundsAssumption DEF Abort, TypeOK
  <2>4. TypeOK'
    BY <1>8, <2>2, <2>3 DEF Abort, TypeOK, external, rows
  <2> QED
    BY <1>8, <2>4 DEF Abort, End, TypeOK, external, BasicInv
<1>9. CASE ImportRecentOrders
  <2>1. Matching \subseteq Order /\ store \in [Order -> StoreOrder]
    BY SetsAssumption DEF Matching, TypeOK
  <2>2. cursor' \in -1..MaxTime
    BY <1>9, <2>1, CursorOfPage DEF ImportRecentOrders
  <2>3. file' \in [Order -> File]
    BY <1>9, <2>1, Records DEF ImportRecentOrders, TypeOK, StoreOrder, FileState
  <2>4. jobs' \subseteq Job
    BY <1>9, <2>1, Jobs DEF ImportRecentOrders, TypeOK
  <2> QED
    BY <1>9, <2>1, <2>2, <2>3, <2>4, BoundsAssumption DEF ImportRecentOrders, TypeOK, external, BasicInv
<1>10. ASSUME NEW o \in Order, Act(o), file' \in [Order -> File], jobs' \subseteq Job
       PROVE  IInv'
  BY <1>10, BoundsAssumption DEF Act, TypeOK, external, BasicInv
<1>11. ASSUME NEW o \in Order, ImportOrder(o)
       PROVE  IInv'
  <2>1. file' \in [Order -> File] /\ jobs' \subseteq Job
    BY <1>11, Records DEF ImportOrder, TypeOK, StoreOrder, FileState
  <2> QED
    BY <1>10, <1>11, <2>1 DEF ImportOrder
<1>12. ASSUME NEW o \in Order, Process(o)
       PROVE  IInv'
  <2>1. file' \in [Order -> File]
    <3>1. file[o] \in File
      BY DEF TypeOK
    <3>2. [file[o] EXCEPT !.state = "workflow_process", !.update_required = FALSE] \in File
      BY <3>1 DEF File, FileState
    <3>3. [file[o] EXCEPT !.state = "create_order"] \in File
      BY <3>1 DEF File, FileState
    <3> QED
      BY <1>12, <3>2, <3>3 DEF Process, TypeOK
  <2>2. jobs' \subseteq Job
    BY <1>12, Jobs, AddJobKeeps DEF Process, TypeOK
  <2> QED
    BY <1>10, <1>12, <2>1, <2>2 DEF Process
<1>13. ASSUME NEW o \in Order, SetState(o)
       PROVE  IInv'
  <2>1. file' \in [Order -> File] /\ jobs' \subseteq Job
    BY <1>13 DEF SetState, TypeOK, File, FileState
  <2> QED
    BY <1>10, <1>13, <2>1 DEF SetState
<1> QED
  BY <1>1, <1>2, <1>3, <1>4, <1>5, <1>6, <1>7, <1>8, <1>9, <1>11, <1>12, <1>13
  DEF Next, Store, Webhook, Trouble

\* Every variable keeps its type: the jobs are about orders and statuses of the store.
THEOREM TypeCorrect == Spec => []TypeOK
<1>1. Init => TypeOK /\ BasicInv
  BY Records, BoundsAssumption DEF Init, TypeOK, Time, BasicInv
<1>2. TypeOK /\ BasicInv /\ [Next]_vars => TypeOK' /\ BasicInv'
  BY TypeStep
<1> QED
  BY <1>1, <1>2, PTL DEF Spec

-----------------------------------------------------------------------------
(* What is known of an order *)

\* A job is about an order that was placed, and makes an order from a file that exists.
JobKnown(j) ==
    /\ store[j.order].status # None
    /\ j.does \in {"create", "current"} => j.order \in HasFile

\* What the store has answered is about orders that were placed.
ReadingKnown(d) ==
    /\ d.job \in Job \ {ReceiveOrders} => JobKnown(d.job) /\ d.answer[d.job.order].status # None
    /\ \A o \in Order : d.answer[o] # Unknown => d.answer[o].status # None /\ store[o].status # None
    /\ d.orders \subseteq HasFile

KnownInv ==
    /\ \A j \in jobs \ {ReceiveOrders} : JobKnown(j)
    /\ \A o \in HasFile : store[o].status # None /\ file[o].raw # None
    /\ HasOrder \subseteq HasFile
    /\ \A w \in Worker : ReadingKnown(doing[w])

\* What a step may not take back: an order that was placed, its file and its order of Odoo.
Grows ==
    /\ HasFile \subseteq HasFile' /\ HasOrder \subseteq HasOrder'
    /\ \A o \in Order : store[o].status # None => store'[o].status # None

\* The job that a transaction commits, and the status that it writes.
LEMMA CommitFacts ==
    ASSUME TypeOK, KnownInv, NEW w \in Worker,
           doing[w].job.does \in {"fetch", "create", "pipeline", "current", "cancel"}
    PROVE  /\ doing[w].job.order \in Order /\ store[doing[w].job.order].status # None
           /\ doing[w].answer[doing[w].job.order].status # None
           /\ doing[w].job.does \in {"create", "current"} =>
                doing[w].job.order \in HasFile /\ Parsed(doing[w], doing[w].job.order) # None
           /\ doing[w].job.does = "pipeline" => doing[w].job.status # None
<1>1. doing[w].job \in Job \ {ReceiveOrders} /\ doing[w].job.order \in Order
  BY Readings
<1>2. JobKnown(doing[w].job) /\ doing[w].answer[doing[w].job.order].status # None
  BY <1>1 DEF KnownInv, ReadingKnown
<1>3. doing[w].job.does = "pipeline" => doing[w].job.status # None
  BY <1>1, Jobs, Records
<1> QED
  BY <1>1, <1>2, <1>3 DEF JobKnown, KnownInv, Parsed

\* No step takes back what it may not.
LEMMA NextGrows ==
    ASSUME TypeOK, KnownInv, [Next]_vars
    PROVE  Grows
<1>1. ASSUME file' = file \/ \A o \in Order : file[o].state # None => file'[o].state # None,
             order' = order \/ \A o \in Order : order[o] # None => order'[o] # None,
             store' = store \/ \A o \in Order : store[o].status # None => store'[o].status # None
      PROVE  Grows
  BY <1>1 DEF Grows, HasFile, HasOrder
<1>2. CASE UNCHANGED vars
  BY <1>1, <1>2 DEF vars
<1>3. ASSUME NEW o \in Order, NEW s \in Status, StoreUpdate(o, s)
      PROVE  Grows
  BY <1>1, <1>3, Records DEF StoreUpdate, rows, TypeOK
<1>4. CASE Tick \/ Cron \/ (\E h \in hooks : LoseHook(h))
  BY <1>1, <1>4 DEF Tick, Cron, LoseHook, rows, external
<1>5. ASSUME NEW o \in Order, NEW e, NEW keep, ReceiveHook(o, e, keep)
      PROVE  Grows
  BY <1>1, <1>5 DEF ReceiveHook, rows
<1>6. ASSUME NEW w \in Worker, JobStep(w)
      PROVE  Grows
  <2>1. ASSUME NEW j, NEW asked, Begin(w, j, asked)
        PROVE  Grows
    BY <1>1, <2>1 DEF Begin, external, rows
  <2>2. CASE CommitReceive(w)
    <3>1. \A o \in Order : file[o].state # None => file'[o].state # None
      BY <2>2 DEF CommitReceive, NewFile, None
    <3> QED
      BY <1>1, <2>2, <3>1 DEF CommitReceive, Commit, external
  <2>3. CASE CommitFetch(w)
    BY <1>1, <2>3 DEF CommitFetch, Commit, external, NewFile, TypeOK, None
  <2>4. CASE CommitCreate(w)
    <3> DEFINE o == doing[w].job.order
    <3>1. o \in Order /\ Parsed(doing[w], o) # None
      BY <2>4, CommitFacts DEF CommitCreate, Commit
    <3>2. order' = [order EXCEPT ![o] = Parsed(doing[w], o)] \/ order' = [order EXCEPT ![o] = @]
      BY <2>4 DEF CommitCreate
    <3>3. file'[o].state # None /\ \A p \in Order \ {o} : file'[p] = file[p]
      BY <2>4, <3>1 DEF CommitCreate, TypeOK, None
    <3> HIDE DEF o
    <3>4. \A p \in Order : order[p] # None => order'[p] # None
      BY <3>1, <3>2 DEF TypeOK
    <3>5. store' = store
      BY <2>4 DEF CommitCreate, Commit, external
    <3>6. \A p \in Order : file[p].state # None => file'[p].state # None
      BY <3>3
    <3> QED
      BY <1>1, <3>4, <3>5, <3>6
  <2>5. CASE CommitPipeline(w)
    <3> DEFINE d == doing[w]
               o == d.job.order
               s == IF d.job.does = "pipeline" THEN d.job.status ELSE Parsed(d, o)
    <3>1. o \in Order /\ s # None
      BY <2>5, CommitFacts DEF CommitPipeline, Commit
    <3>2. order' \in {order, [order EXCEPT ![o] = s]}
      BY <2>5 DEF CommitPipeline
    <3>3. ASSUME NEW state \in {"workflow_process", "done"}
          PROVE  [file[o] EXCEPT !.state = state, !.update_required = FALSE].state # None
      <4>1. file[o] \in File
        BY <3>1 DEF TypeOK
      <4> QED
        BY <4>1 DEF File, None
    <3>4. file' = file \/ \E state \in {"workflow_process", "done"} :
            file' = [file EXCEPT ![o] = [file[o] EXCEPT !.state = state, !.update_required = FALSE]]
      BY <2>5 DEF CommitPipeline
    <3>5. store' = store
      BY <2>5 DEF CommitPipeline, Commit, external
    <3> HIDE DEF o, s
    <3>6. \A p \in Order : order[p] # None => order'[p] # None
      BY <3>1, <3>2 DEF TypeOK
    <3>7. \A p \in Order : file[p].state # None => file'[p].state # None
      BY <3>1, <3>3, <3>4 DEF TypeOK
    <3> QED
      BY <1>1, <3>5, <3>6, <3>7
  <2>6. CASE CommitCancel(w)
    BY <1>1, <2>6 DEF CommitCancel, Commit, external, TypeOK, None
  <2>7. CASE Refused(w)
    BY <1>1, <2>7 DEF Refused, external, rows
  <2> QED
    BY <1>6, <2>1, <2>2, <2>3, <2>4, <2>5, <2>6, <2>7 DEF JobStep, Receive, BeginReceive, BeginOrder
<1>7. CASE Trouble
  <2>1. ASSUME NEW w \in Worker, NEW again, Abort(w, again)
        PROVE  Grows
    BY <1>1, <2>1 DEF Abort, external, rows
  <2>2. CASE ImportRecentOrders
    BY <1>1, <2>2 DEF ImportRecentOrders, external, NewFile, None
  <2>3. ASSUME NEW o \in Order, ImportOrder(o) \/ Process(o) \/ SetState(o)
        PROVE  Grows
    <3>1. \A p \in Order \ {o} : file'[p] = file[p]
      BY <2>3 DEF ImportOrder, Process, SetState, TypeOK
    <3>2. file'[o].state # None
      <4>1. CASE ImportOrder(o)
        BY <4>1 DEF ImportOrder, NewFile, TypeOK, None
      <4>2. CASE Process(o)
        <5>1. file[o] \in File
          BY DEF TypeOK
        <5>2. [file[o] EXCEPT !.state = "workflow_process", !.update_required = FALSE].state # None
          BY <5>1 DEF File, None
        <5>3. [file[o] EXCEPT !.state = "create_order"].state # None
          BY <5>1 DEF File, None
        <5> QED
          BY <4>2, <5>2, <5>3 DEF Process, TypeOK
      <4>3. CASE SetState(o)
        BY <4>3 DEF SetState, TypeOK, None, File
      <4> QED
        BY <2>3, <4>1, <4>2, <4>3
    <3> QED
      BY <1>1, <2>3, <3>1, <3>2 DEF ImportOrder, Process, SetState, Act, external
  <2> QED
    BY <1>4, <1>7, <2>1, <2>2, <2>3 DEF Trouble
<1> QED
  BY <1>2, <1>3, <1>4, <1>5, <1>6, <1>7 DEF Next, Store, Webhook

\* What is new in a step must be known; the rest stays known.
LEMMA KnownKept ==
    ASSUME TypeOK, Grows, KnownInv,
           \A j \in jobs' : j \in jobs \/ j = ReceiveOrders \/ JobKnown(j)',
           \A o \in Order : file'[o] = file[o] \/ (file'[o].raw # None /\ store'[o].status # None),
           HasOrder' \subseteq HasFile',
           \A w \in Worker : \/ doing'[w] = doing[w] \/ doing'[w] = Idle
                             \/ ReadingKnown(doing[w])'
    PROVE  KnownInv'
<1>1. ASSUME NEW j \in Job \ {ReceiveOrders}, JobKnown(j)
      PROVE  JobKnown(j)'
  BY <1>1, Jobs DEF JobKnown, Grows
<1>2. \A j \in jobs' \ {ReceiveOrders} : JobKnown(j)'
  BY <1>1 DEF KnownInv, TypeOK
<1>3. \A o \in HasFile' : store'[o].status # None /\ file'[o].raw # None
  BY DEF KnownInv, Grows, HasFile
<1>4. ASSUME NEW w \in Worker, doing'[w] = doing[w]
      PROVE  ReadingKnown(doing[w])'
  <2>1. ReadingKnown(doing[w])
    BY DEF KnownInv
  <2>2. \A j \in Job \ {ReceiveOrders} : j = doing'[w].job => JobKnown(j)'
    BY <1>1, <1>4, <2>1 DEF ReadingKnown
  <2> QED
    BY <1>4, <2>1, <2>2 DEF ReadingKnown, Grows
<1>5. ASSUME NEW w \in Worker, doing'[w] = Idle
      PROVE  ReadingKnown(doing[w])'
  BY <1>5, Jobs DEF ReadingKnown, Idle
<1> QED
  BY <1>2, <1>3, <1>4, <1>5 DEF KnownInv

\* A transaction begins a job that is known with an answer about orders that were placed.
LEMMA BeginKnown ==
    ASSUME TypeOK, KnownInv, Grows, NEW w \in Worker, NEW j \in jobs, NEW asked \in SUBSET Order,
           Begin(w, j, asked), \A o \in asked : store[o].status # None,
           j # ReceiveOrders => j.order \in asked
    PROVE  KnownInv'
<1>1. /\ doing'[w].job = j /\ doing'[w].orders = HasOrder
      /\ doing'[w].answer = [o \in Order |-> IF o \in asked THEN store[o] ELSE Unknown]
  BY DEF Begin, TypeOK
<1>2. UNCHANGED <<store, file, order>> /\ jobs' \subseteq jobs
  BY DEF Begin, external, rows
<1>3. j # ReceiveOrders => JobKnown(j)'
  BY <1>2 DEF KnownInv, JobKnown, HasFile
<1>4. ReadingKnown(doing[w])'
  BY <1>1, <1>2, <1>3, Jobs DEF ReadingKnown, KnownInv, HasFile
<1>5. \A v \in Worker \ {w} : doing'[v] = doing[v]
  BY DEF Begin, TypeOK
<1> QED
  BY <1>2, <1>4, <1>5, KnownKept DEF KnownInv, HasFile, HasOrder

\* Orders on a page have a status that the settings let in.
LEMMA MatchingPlaced ==
    ASSUME TypeOK
    PROVE  Matching \subseteq Order /\ \A o \in Matching : store[o].status # None /\ store[o] # Unknown
BY Records DEF Matching, InDomain, Unknown

LEMMA KnownStep ==
    ASSUME TypeOK, BasicInv, KnownInv, [Next]_vars
    PROVE  KnownInv'
<1>1. Grows
  BY NextGrows
<1> USE KnownKept
<1>0. order' = order => HasOrder' \subseteq HasFile'
  BY <1>1 DEF Grows, KnownInv, HasOrder
<1>2. CASE UNCHANGED vars
  BY <1>0, <1>1, <1>2 DEF vars
<1>3. ASSUME NEW o \in Order, NEW s \in Status, StoreUpdate(o, s)
      PROVE  KnownInv'
  BY <1>0, <1>1, <1>3 DEF StoreUpdate, rows
<1>4. CASE Tick \/ Cron \/ (\E h \in hooks : LoseHook(h))
  <2>1. jobs' \subseteq jobs \cup {ReceiveOrders} /\ UNCHANGED <<file, order, doing>>
    BY <1>4, AddJobKeeps DEF Tick, Cron, LoseHook, rows, external
  <2> QED
    BY <1>0, <1>1, <2>1
<1>5. ASSUME NEW o \in Order, NEW e, NEW keep, ReceiveHook(o, e, keep)
      PROVE  KnownInv'
  <2> DEFINE s == store[o].status
             new == {FetchOrder(o), CancelOrder(o, s), ProcessPipeline(o, s)}
  <2>1. s # None /\ UNCHANGED <<store, file, order, doing>>
    BY <1>5 DEF ReceiveHook, BasicInv, rows
  <2>2. jobs' \subseteq jobs \cup new
    BY <1>5, AddJobKeeps
    DEF ReceiveHook, Missing, ProcessCreateOrder, ProcessCancelOrder, ProcessPayOrder
  <2>3. \A j \in new : JobKnown(j)'
    BY <2>1 DEF JobKnown, FetchOrder, CancelOrder, ProcessPipeline
  <2> HIDE DEF new
  <2> QED
    BY <1>0, <1>1, <2>1, <2>2, <2>3
<1>6. ASSUME NEW w \in Worker, JobStep(w)
      PROVE  KnownInv'
  <2> DEFINE d == doing[w]
             o == d.job.order
  <2>1. CASE BeginReceive(w)
    <3>1. PICK page \in Pages : Begin(w, ReceiveOrders, page)
      BY <2>1 DEF BeginReceive
    <3>2. page \subseteq Matching
      BY DEF Pages
    <3>3. ReceiveOrders \in jobs
      BY <3>1 DEF Begin
    <3> QED
      BY <1>1, <3>1, <3>2, <3>3, MatchingPlaced, BeginKnown
  <2>2. CASE BeginOrder(w)
    <3>1. PICK j \in jobs \ {ReceiveOrders} : Begin(w, j, {j.order})
      BY <2>2 DEF BeginOrder
    <3>2. JobKnown(j) /\ j.order \in Order
      BY Jobs DEF KnownInv, TypeOK
    <3> QED
      BY <1>1, <3>1, <3>2, BeginKnown DEF JobKnown
  <2>3. \A v \in Worker : CommitReceive(w) \/ CommitFetch(w) \/ CommitCreate(w) \/ CommitPipeline(w)
            \/ CommitCancel(w) \/ Refused(w) => doing'[v] = doing[v] \/ doing'[v] = Idle
    BY DEF CommitReceive, CommitFetch, CommitCreate, CommitPipeline, CommitCancel, Commit, Refused,
           End, TypeOK
  <2>4. CASE CommitReceive(w)
    <3>1. \A p \in Page(d) : p \in Order /\ d.answer[p].status # None /\ store[p].status # None
      BY DEF KnownInv, ReadingKnown, Page
    <3>2. store' = store /\ order' = order
      BY <2>4 DEF CommitReceive, Commit, external
    <3>3. \A p \in Order : file'[p] = file[p] \/ (file'[p].raw # None /\ store'[p].status # None)
      BY <2>4, <3>1, <3>2 DEF CommitReceive, NewFile
    <3>4. \A p \in Page(d) \ d.files : p \in HasFile'
      BY <2>4, <3>1 DEF CommitReceive, NewFile, HasFile, None
    <3>5. \A p \in Page(d) \ d.files : JobKnown(CreateOrderFromInput(p))'
      BY <3>1, <3>2, <3>4 DEF JobKnown, CreateOrderFromInput
    <3>6. \A j \in jobs' : j \in jobs \/ j = ReceiveOrders \/ \E p \in Page(d) \ d.files : j = CreateOrderFromInput(p)
      BY <2>4 DEF CommitReceive
    <3> QED
      BY <1>0, <1>1, <2>3, <2>4, <3>2, <3>3, <3>5, <3>6
  <2>5. CASE CommitFetch(w)
    <3>1. o \in Order /\ store[o].status # None /\ d.answer[o].status # None /\ store' = store
      BY <2>5, CommitFacts DEF CommitFetch, Commit, external
    <3>2. \A p \in Order : file'[p] = file[p] \/ (file'[p].raw # None /\ store'[p].status # None)
      BY <2>5, <3>1 DEF CommitFetch, NewFile, TypeOK
    <3>3. \A j \in jobs' : j \in jobs \/ (j = CreateOrderFromInput(o) /\ file' = [file EXCEPT ![o] = NewFile(d.answer[o].status, "create_order")])
      BY <2>5, AddJobKeeps DEF CommitFetch
    <3>4. \A j \in jobs' : j \in jobs \/ JobKnown(j)'
      BY <3>1, <3>3 DEF JobKnown, CreateOrderFromInput, HasFile, NewFile, TypeOK, None
    <3>5. order' = order
      BY <2>5 DEF CommitFetch
    <3> QED
      BY <1>0, <1>1, <2>3, <2>5, <3>2, <3>4, <3>5
  <2>6. CASE CommitCreate(w)
    <3>1. o \in HasFile /\ store[o].status # None /\ Parsed(d, o) # None /\ store' = store /\ jobs' = jobs
      BY <2>6, CommitFacts DEF CommitCreate, Commit, external
    <3>2. \A p \in Order : file'[p] = file[p] \/ (file'[p].raw # None /\ store'[p].status # None)
      BY <2>6, <3>1 DEF CommitCreate, TypeOK
    <3>3. HasOrder' \subseteq HasOrder \cup {o}
      BY <2>6 DEF CommitCreate, HasOrder, TypeOK
    <3>4. HasOrder' \subseteq HasFile'
      BY <1>1, <3>1, <3>3 DEF KnownInv, Grows
    <3> QED
      BY <1>1, <2>3, <2>6, <3>1, <3>2, <3>4
  <2>7. CASE CommitPipeline(w)
    <3>1. store' = store /\ jobs' = jobs /\ o \in Order /\ store[o].status # None
      BY <2>7, CommitFacts DEF CommitPipeline, Commit, external
    <3>2. CASE o \notin d.orders
      <4>1. file' = file /\ order' = order
        BY <2>7, <3>2 DEF CommitPipeline
      <4> QED
        BY <1>0, <1>1, <2>3, <2>7, <3>1, <4>1
    <3>3. CASE o \in d.orders
      <4>1. o \in HasFile /\ file[o].raw # None /\ file[o] \in File
        BY <3>1, <3>3 DEF KnownInv, ReadingKnown, TypeOK
      <4>2. PICK state \in {"workflow_process", "done"} :
                file' = [file EXCEPT ![o] = [file[o] EXCEPT !.state = state, !.update_required = FALSE]]
        BY <2>7, <3>3 DEF CommitPipeline
      <4>3. [file[o] EXCEPT !.state = state, !.update_required = FALSE].raw = file[o].raw
        BY <4>1 DEF File
      <4>4. \A p \in Order : file'[p] = file[p] \/ (file'[p].raw # None /\ store'[p].status # None)
        BY <3>1, <4>1, <4>2, <4>3 DEF TypeOK
      <4>5. HasOrder' \subseteq HasOrder \cup {o}
        BY <2>7, <3>3 DEF CommitPipeline, HasOrder, TypeOK
      <4>6. HasOrder' \subseteq HasFile'
        BY <1>1, <4>1, <4>5 DEF KnownInv, Grows
      <4> QED
        BY <1>1, <2>3, <2>7, <3>1, <4>4, <4>6
    <3> QED
      BY <3>2, <3>3
  <2>8. CASE CommitCancel(w)
    <3>1. UNCHANGED <<store, file, jobs>>
      BY <2>8 DEF CommitCancel, Commit, external
    <3>2. HasOrder' \subseteq HasOrder \cup d.orders
      BY <2>8 DEF CommitCancel, HasOrder, TypeOK
    <3>3. HasOrder' \subseteq HasFile'
      BY <1>1, <3>2 DEF KnownInv, ReadingKnown, Grows
    <3> QED
      BY <1>1, <2>3, <2>8, <3>1, <3>3
  <2>9. CASE Refused(w)
    <3>1. UNCHANGED <<store, file, order>> /\ \A j \in jobs' : j \in jobs \/ j = d.job
      BY <2>9, AddJobKeeps DEF Refused, external, rows
    <3>2. \A j \in Job \ {ReceiveOrders} : j = d.job => JobKnown(j)'
      BY <3>1 DEF KnownInv, ReadingKnown, JobKnown, HasFile
    <3>3. d.job \in Job
      BY <2>9, Readings, Jobs DEF Refused, Serializable, Written
    <3> QED
      BY <1>0, <1>1, <2>3, <2>9, <3>1, <3>2, <3>3
  <2> QED
    BY <1>6, <2>1, <2>2, <2>4, <2>5, <2>6, <2>7, <2>8, <2>9 DEF JobStep, Receive
<1>7. CASE Trouble
  <2>1. ASSUME NEW w \in Worker, NEW again, Abort(w, again)
        PROVE  KnownInv'
    <3>1. UNCHANGED <<store, file, order>> /\ \A j \in jobs' : j \in jobs \/ j = doing[w].job
      BY <2>1, AddJobKeeps DEF Abort, external, rows
    <3>2. \A j \in Job \ {ReceiveOrders} : j = doing[w].job => JobKnown(j)'
      BY <3>1 DEF KnownInv, ReadingKnown, JobKnown, HasFile
    <3>3. doing[w].job \in Job
      BY <2>1, Readings DEF Abort, BasicInv
    <3>4. \A v \in Worker : doing'[v] = doing[v] \/ doing'[v] = Idle
      BY <2>1 DEF Abort, End, TypeOK
    <3> QED
      BY <1>0, <1>1, <3>1, <3>2, <3>3, <3>4
  <2>2. CASE ImportRecentOrders
    <3> DEFINE new == Matching \ HasFile
    <3>1. UNCHANGED <<store, order, doing>>
      BY <2>2 DEF ImportRecentOrders, external
    <3>2. file' = [o \in Order |-> IF o \in new THEN NewFile(store[o].status, "create_order") ELSE file[o]]
      BY <2>2 DEF ImportRecentOrders
    <3>3. \A o \in Order : file'[o] = file[o] \/ (file'[o].raw # None /\ store'[o].status # None)
      BY <3>1, <3>2, MatchingPlaced DEF NewFile
    <3>4. \A o \in new : o \in HasFile' /\ store'[o].status # None
      BY <3>1, <3>2, MatchingPlaced DEF NewFile, HasFile, None
    <3>5. \A o \in new : JobKnown(CreateOrderFromInput(o))'
      BY <3>4 DEF JobKnown, CreateOrderFromInput
    <3>6. \A j \in jobs' : j \in jobs \/ \E o \in new : j = CreateOrderFromInput(o)
      BY <2>2 DEF ImportRecentOrders
    <3> QED
      BY <1>0, <1>1, <3>1, <3>3, <3>5, <3>6
  <2>3. ASSUME NEW o \in Order, ImportOrder(o)
        PROVE  KnownInv'
    <3>1. UNCHANGED <<store, order, doing, jobs>> /\ store[o].status # None
      BY <2>3 DEF ImportOrder, Act, external
    <3>2. \A p \in Order : file'[p] = file[p] \/ (file'[p].raw # None /\ store'[p].status # None)
      BY <2>3, <3>1 DEF ImportOrder, NewFile, TypeOK
    <3> QED
      BY <1>0, <1>1, <3>1, <3>2
  <2>4. ASSUME NEW o \in Order, Process(o) \/ SetState(o)
        PROVE  KnownInv'
    <3>1. UNCHANGED <<store, order, doing>>
      BY <2>4 DEF Process, SetState, Act, external
    <3>2. o \in HasFile
      BY <2>4 DEF Process, SetState, HasFile, None
    <3>3. file'[o].raw = file[o].raw /\ \A p \in Order \ {o} : file'[p] = file[p]
      <4>1. file[o] \in File /\ file \in [Order -> File]
        BY DEF TypeOK
      <4>2. [file[o] EXCEPT !.state = "workflow_process", !.update_required = FALSE].raw = file[o].raw
        BY <4>1 DEF File
      <4>3. \A state : [file[o] EXCEPT !.state = state].raw = file[o].raw
        BY <4>1 DEF File
      <4>4. \E new : file' = [file EXCEPT ![o] = new] /\ new.raw = file[o].raw
        <5>1. CASE file' = [file EXCEPT ![o] = [file[o] EXCEPT !.state = "workflow_process", !.update_required = FALSE]]
          BY <4>2, <5>1
        <5>2. ASSUME NEW state, file' = [file EXCEPT ![o] = [file[o] EXCEPT !.state = state]]
              PROVE  \E new : file' = [file EXCEPT ![o] = new] /\ new.raw = file[o].raw
          BY <4>3, <5>2
        <5> QED
          BY <2>4, <5>1, <5>2, Zenon DEF Process, SetState
      <4> QED
        BY <4>1, <4>4
    <3>4. \A p \in Order : file'[p] = file[p] \/ (file'[p].raw # None /\ store'[p].status # None)
      BY <3>1, <3>2, <3>3 DEF KnownInv
    <3>5. jobs' \subseteq jobs \cup {RunCurrentPipeline(o), CreateOrderFromInput(o)}
      BY <2>4, AddJobKeeps DEF Process, SetState
    <3>6. JobKnown(RunCurrentPipeline(o))' /\ JobKnown(CreateOrderFromInput(o))'
      BY <1>1, <3>2 DEF JobKnown, RunCurrentPipeline, CreateOrderFromInput, KnownInv, Grows, HasFile
    <3> QED
      BY <1>0, <1>1, <3>1, <3>4, <3>5, <3>6
  <2> QED
    BY <1>4, <1>7, <2>1, <2>2, <2>3, <2>4 DEF Trouble
<1> QED
  BY <1>2, <1>3, <1>4, <1>5, <1>6, <1>7 DEF Next, Store, Webhook

-----------------------------------------------------------------------------
(* One order for each file *)

\* What a transaction has read is still so, or is in conflict with what it would write:
\* an order made since its snapshot is among its conflicts.
SnapshotInv ==
    /\ \A w \in Worker : doing[w].files \subseteq HasFile /\ doing[w].orders \subseteq HasOrder
    /\ \A w \in Worker : doing[w] # Idle => HasOrder \ doing[w].orders \subseteq changed[w]
    /\ \A o \in Order : made[o] = IF o \in HasOrder THEN 1 ELSE 0

\* The orders that a step makes are conflicts of the transactions that go on.
LEMMA SnapshotKept ==
    ASSUME Grows, SnapshotInv,
           \A v \in Worker :
               \/ doing'[v] = Idle
               \/ doing'[v] = doing[v] /\ changed[v] \cup (HasOrder' \ HasOrder) \subseteq changed'[v]
               \/ doing'[v].files = HasFile /\ doing'[v].orders = HasOrder',
           \A o \in Order : made'[o] = IF o \in HasOrder' THEN 1 ELSE 0
    PROVE  SnapshotInv'
<1>1. ASSUME NEW v \in Worker
      PROVE  /\ doing'[v].files \subseteq HasFile' /\ doing'[v].orders \subseteq HasOrder'
             /\ doing'[v] # Idle => HasOrder' \ doing'[v].orders \subseteq changed'[v]
  <2>1. CASE doing'[v] = Idle
    BY <2>1 DEF Idle
  <2>2. CASE doing'[v] = doing[v] /\ changed[v] \cup (HasOrder' \ HasOrder) \subseteq changed'[v]
    BY <2>2 DEF SnapshotInv, Grows
  <2>3. CASE doing'[v].files = HasFile /\ doing'[v].orders = HasOrder'
    BY <2>3 DEF Grows
  <2> QED
    BY <2>1, <2>2, <2>3
<1> QED
  BY <1>1 DEF SnapshotInv

\* Steps that make no order.
LEMMA SnapshotUntouched ==
    ASSUME Grows, SnapshotInv, UNCHANGED <<order, made>>,
           \A v \in Worker : \/ doing'[v] = Idle
                             \/ doing'[v] = doing[v] /\ changed[v] \subseteq changed'[v]
                             \/ doing'[v].files = HasFile /\ doing'[v].orders = HasOrder
    PROVE  SnapshotInv'
<1>1. HasOrder' = HasOrder
  BY DEF HasOrder
<1> QED
  BY <1>1, SnapshotKept DEF SnapshotInv

\* The transactions that go on when another one ends.
LEMMA EndOthers ==
    ASSUME TypeOK, NEW w \in Worker, NEW written, End(w, written)
    PROVE  \A v \in Worker : \/ doing'[v] = Idle
                             \/ doing'[v] = doing[v] /\ changed'[v] = changed[v] \cup written
BY DEF End, TypeOK

LEMMA SnapshotStep ==
    ASSUME TypeOK, BasicInv, KnownInv, SnapshotInv, [Next]_vars
    PROVE  SnapshotInv'
<1>1. Grows
  BY NextGrows
<1>2. CASE UNCHANGED vars
  BY <1>1, <1>2, SnapshotUntouched DEF vars
<1>3. CASE Store \/ Webhook \/ Cron \/ (\E h \in hooks : LoseHook(h))
  BY <1>1, <1>3, SnapshotUntouched
  DEF Store, Tick, StoreUpdate, Webhook, ReceiveHook, Cron, LoseHook, external, rows
<1>4. ASSUME NEW w \in Worker, JobStep(w)
      PROVE  SnapshotInv'
  <2> DEFINE d == doing[w]
             o == d.job.order
  <2>1. ASSUME NEW j, NEW asked, Begin(w, j, asked)
        PROVE  SnapshotInv'
    BY <1>1, <2>1, SnapshotUntouched DEF Begin, external, rows, TypeOK
  <2>2. ASSUME NEW does, Commit(w, does)
        PROVE  /\ d.job.does \in does /\ changed[w] \cap Written(d) = {}
               /\ \A v \in Worker : doing'[v] = Idle \/ (doing'[v] = doing[v] /\ changed'[v] = changed[v] \cup Written(d))
    BY <2>2, EndOthers DEF Commit, Serializable
  <2>3. CASE CommitReceive(w) \/ CommitFetch(w)
    BY <1>1, <2>2, <2>3, SnapshotUntouched DEF CommitReceive, CommitFetch
  <2>4. CASE CommitCreate(w)
    <3>1. o \in Order /\ Parsed(d, o) # None /\ d.job.does = "create"
      BY <2>2, <2>4, CommitFacts DEF CommitCreate
    <3>2. Written(d) = {o} /\ d # Idle
      BY <3>1 DEF Written, Idle, Nothing
    <3>3. o \in HasOrder <=> o \in d.orders
      BY <2>2, <2>4, <3>2 DEF CommitCreate, SnapshotInv
    <3>4. \A p \in Order : p \in HasOrder' <=> p \in HasOrder \cup {o}
      <4>1. CASE o \in HasOrder
        BY <2>4, <3>1, <3>3, <4>1 DEF CommitCreate, OrderMissing, HasOrder, TypeOK
      <4>2. CASE o \notin HasOrder
        BY <2>4, <3>1, <3>3, <4>2 DEF CommitCreate, OrderMissing, HasOrder, TypeOK
      <4> QED
        BY <4>1, <4>2
    <3>5. \A p \in Order : made'[p] = IF p \in HasOrder' THEN 1 ELSE 0
      <4>1. CASE o \in HasOrder
        BY <2>4, <3>1, <3>3, <3>4, <4>1 DEF CommitCreate, OrderMissing, SnapshotInv, TypeOK
      <4>2. CASE o \notin HasOrder
        BY <2>4, <3>1, <3>3, <3>4, <4>2 DEF CommitCreate, OrderMissing, SnapshotInv, TypeOK
      <4> QED
        BY <4>1, <4>2
    <3>6. HasOrder' \ HasOrder \subseteq {o}
      BY <3>4 DEF HasOrder
    <3> QED
      BY <1>1, <2>2, <2>4, <3>2, <3>5, <3>6, SnapshotKept DEF CommitCreate
  <2>5. CASE CommitPipeline(w) \/ CommitCancel(w)
    <3>1. HasOrder' \subseteq HasOrder \cup d.orders
      BY <2>5 DEF CommitPipeline, CommitCancel, HasOrder, TypeOK
    <3>2. HasOrder' = HasOrder /\ made' = made
      BY <1>1, <2>5, <3>1 DEF Grows, SnapshotInv, CommitPipeline, CommitCancel
    <3> QED
      BY <1>1, <2>2, <2>5, <3>2, SnapshotKept DEF CommitPipeline, CommitCancel, SnapshotInv
  <2>6. CASE Refused(w)
    BY <1>1, <2>6, EndOthers, SnapshotUntouched DEF Refused, rows
  <2> QED
    BY <1>4, <2>1, <2>3, <2>4, <2>5, <2>6 DEF JobStep, Receive, BeginReceive, BeginOrder
<1>5. CASE Trouble
  <2>1. ASSUME NEW w \in Worker, NEW again, Abort(w, again)
        PROVE  SnapshotInv'
    BY <1>1, <2>1, EndOthers, SnapshotUntouched DEF Abort, rows
  <2>2. CASE ImportRecentOrders
    BY <1>1, <2>2, SnapshotUntouched DEF ImportRecentOrders
  <2>3. ASSUME NEW o \in Order, Act(o)
        PROVE  SnapshotInv'
    BY <1>1, <2>3, SnapshotUntouched DEF Act
  <2> QED
    BY <1>3, <1>5, <2>1, <2>2, <2>3 DEF Trouble, ImportOrder, Process, SetState
<1> QED
  BY <1>2, <1>3, <1>4, <1>5 DEF Next

-----------------------------------------------------------------------------
(* The cursor *)

\* The cursor that a transaction will write passes no order without a file, but for
\* those of its page, which get theirs with it.
ReceiveInv(d) ==
    d.job = ReceiveOrders /\ Page(d) # {} =>
        /\ \A o \in Page(d) : d.answer[o].at <= clock
        /\ \A o \in Recent :
            store[o].status \in Importable /\ store[o].at < NextCursor(Page(d), d.answer)
                => o \in HasFile \cup Page(d)

\* An order is updated at the present time, which no cursor has passed.
CursorInv ==
    /\ cursor <= clock
    /\ \A o \in Order : store[o].at <= clock
    /\ \A w \in Worker : ReceiveInv(doing[w])
    /\ NoneMissed

\* An order that is updated is not passed by a cursor of the past.
LEMMA UpdatedLate ==
    ASSUME TypeOK, TypeOK', Grows, NEW c \in -1..MaxTime, c <= clock, NEW page \in SUBSET Order,
           \A o \in Order : store'[o] = store[o] \/ store'[o].at = clock,
           \A o \in Recent : store[o].status \in Importable /\ store[o].at < c => o \in HasFile \cup page
    PROVE  \A o \in Recent : store'[o].status \in Importable /\ store'[o].at < c => o \in HasFile' \cup page
<1> SUFFICES ASSUME NEW o \in Recent, store'[o].status \in Importable, store'[o].at < c
             PROVE  o \in HasFile' \cup page
  OBVIOUS
<1>1. o \in Order /\ clock \in Int /\ c \in Int
  BY SetsAssumption, BoundsAssumption DEF TypeOK, Time
<1>2. store'[o] = store[o]
  BY <1>1
<1> QED
  BY <1>2 DEF Grows

LEMMA ReceiveKept ==
    ASSUME TypeOK, TypeOK', Grows, CursorInv, clock <= clock', NEW w \in Worker,
           doing'[w] = doing[w],
           \A o \in Order : store'[o] = store[o] \/ store'[o].at = clock
    PROVE  ReceiveInv(doing[w])'
<1> DEFINE d == doing[w]
           c == NextCursor(Page(d), d.answer)
<1> SUFFICES ASSUME d.job = ReceiveOrders, Page(d) # {}
             PROVE  /\ \A o \in Page(d) : d.answer[o].at <= clock'
                    /\ \A o \in Recent : store'[o].status \in Importable /\ store'[o].at < c => o \in HasFile' \cup Page(d)
  BY DEF ReceiveInv, Page, NextCursor
<1>1. d.answer \in [Order -> StoreOrder] /\ Page(d) \in SUBSET Order
  BY Readings
<1>2. /\ \A o \in Page(d) : d.answer[o].at <= clock /\ d.answer[o].at \in Int
      /\ \A o \in Recent : store[o].status \in Importable /\ store[o].at < c => o \in HasFile \cup Page(d)
  <2>1. ReceiveInv(d)
    BY DEF CursorInv
  <2>2. \A o \in Page(d) : o \in Order /\ d.answer[o] \in StoreOrder
    BY <1>1
  <2>3. \A s \in StoreOrder : s.at \in Int
    BY BoundsAssumption DEF StoreOrder, Time
  <2>4. \A o \in Page(d) : d.answer[o].at \in Int
    BY <2>2, <2>3, Zenon
  <2> QED
    BY <2>1, <2>4, Zenon DEF ReceiveInv
<1>3. c \in -1..MaxTime /\ c <= clock
  <2>1. c \in -1..MaxTime /\ \E o \in Page(d) : c = d.answer[o].at - 1
    BY <1>1, CursorOfPage
  <2>2. clock \in Int
    BY BoundsAssumption DEF TypeOK, Time
  <2> HIDE DEF c
  <2> QED
    BY <1>2, <2>1, <2>2
<1> HIDE DEF c, d
<1>4. clock \in Int /\ clock' \in Int
  BY BoundsAssumption DEF TypeOK, Time
<1> QED
  BY <1>1, <1>2, <1>3, <1>4, UpdatedLate

\* Steps that leave the cursor, and begin no page.
LEMMA CursorUntouched ==
    ASSUME TypeOK, TypeOK', Grows, CursorInv, clock <= clock', cursor' = cursor,
           \A o \in Order : store'[o] = store[o] \/ (store'[o].at = clock /\ clock' = clock),
           \A w \in Worker : doing'[w] = doing[w] \/ doing'[w].job # ReceiveOrders
    PROVE  CursorInv'
<1>1. clock \in Int /\ clock' \in Int /\ cursor \in -1..MaxTime /\ \A o \in Order : store[o].at \in Int
  BY BoundsAssumption DEF TypeOK, Time, StoreOrder
<1>2. cursor' <= clock' /\ \A o \in Order : store'[o].at <= clock'
  BY <1>1, BoundsAssumption DEF CursorInv
<1>3. \A w \in Worker : ReceiveInv(doing[w])'
  BY ReceiveKept DEF ReceiveInv
<1>4. \A o \in Recent : store'[o].status \in Importable /\ store'[o].at < cursor => o \in HasFile' \cup {}
  BY <1>1, UpdatedLate DEF CursorInv, NoneMissed
<1> QED
  BY <1>2, <1>3, <1>4 DEF CursorInv, NoneMissed

\* The pages are the oldest of the orders that the store is asked for: what is older
\* than the latest of a page and not on it has been passed before.
LEMMA PagePassesNone ==
    ASSUME TypeOK, CursorInv, NEW page \in SUBSET Matching, page # {},
           NEW answer \in [Order -> StoreOrder], \A o \in page : answer[o] = store[o],
           \A o \in page, q \in Matching \ page : store[o].at <= store[q].at
    PROVE  /\ NextCursor(page, answer) <= clock
           /\ \A o \in Recent : store[o].status \in Importable /\ store[o].at < NextCursor(page, answer)
                => o \in HasFile \cup page
<1> DEFINE c == NextCursor(page, answer)
<1>1. page \in SUBSET Order
  BY MatchingPlaced
<1>2. PICK last \in page : c = answer[last].at - 1
  BY <1>1, CursorOfPage
<1>3. last \in Order /\ c = store[last].at - 1 /\ store[last].at <= clock
  BY <1>1, <1>2 DEF CursorInv
<1> HIDE DEF c
<1>4. clock \in Int /\ cursor \in Int /\ \A o \in Order : store[o].at \in Int
  BY BoundsAssumption DEF TypeOK, Time, StoreOrder
<1>5. c <= clock
  BY <1>3, <1>4
<1>6. ASSUME NEW o \in Recent, store[o].status \in Importable, store[o].at < c, o \notin page
      PROVE  o \in HasFile
  <2>1. o \in Order
    BY SetsAssumption
  <2>2. o \notin Matching
    BY <1>3, <1>4, <1>6, <2>1
  <2>3. store[o].at < cursor
    BY <1>4, <1>6, <2>1, <2>2 DEF Matching, InDomain
  <2> QED
    BY <1>6, <2>3 DEF CursorInv, NoneMissed
<1> QED
  BY <1>5, <1>6 DEF c

LEMMA CursorStep ==
    ASSUME TypeOK, TypeOK', BasicInv, KnownInv, SnapshotInv, CursorInv, [Next]_vars
    PROVE  CursorInv'
<1>1. Grows
  BY NextGrows
<1>2. clock \in Int /\ clock' \in Int /\ cursor \in Int /\ \A o \in Order : store[o].at \in Int
  BY BoundsAssumption DEF TypeOK, Time, StoreOrder
<1>3. CASE UNCHANGED <<clock, store, cursor, doing>>
  BY <1>1, <1>2, <1>3, CursorUntouched
<1>4. ASSUME NEW o \in Order, NEW s \in Status, StoreUpdate(o, s)
      PROVE  CursorInv'
  BY <1>1, <1>2, <1>4, CursorUntouched DEF StoreUpdate, rows, TypeOK
<1>5. CASE Tick
  BY <1>1, <1>2, <1>5, CursorUntouched DEF Tick, rows
<1>6. ASSUME NEW w \in Worker, UNCHANGED <<clock, store, cursor>>,
             \A v \in Worker : doing'[v] = doing[v] \/ doing'[v].job # ReceiveOrders
      PROVE  CursorInv'
  BY <1>1, <1>2, <1>6, CursorUntouched
<1>7. ASSUME NEW w \in Worker, NEW written, End(w, written)
      PROVE  \A v \in Worker : doing'[v] = doing[v] \/ doing'[v].job # ReceiveOrders
  BY <1>7, Jobs DEF End, TypeOK, Idle
<1>8. ASSUME NEW w \in Worker, BeginReceive(w)
      PROVE  CursorInv'
  <2>1. PICK page \in Pages : Begin(w, ReceiveOrders, page)
    BY <1>8 DEF BeginReceive
  <2>2. UNCHANGED <<clock, store, cursor, file>>
    BY <2>1 DEF Begin, external, rows
  <2> DEFINE answer == [o \in Order |-> IF o \in page THEN store[o] ELSE Unknown]
             d == [job |-> ReceiveOrders, files |-> HasFile, orders |-> HasOrder, answer |-> answer]
  <2>3. doing'[w] = d /\ \A v \in Worker \ {w} : doing'[v] = doing[v]
    BY <2>1 DEF Begin, TypeOK
  <2>4. answer \in [Order -> StoreOrder] /\ page \in SUBSET Matching
    BY Records DEF TypeOK, Pages
  <2>5. Page(d) = page /\ \A o \in page : answer[o] = store[o]
    BY <2>4, MatchingPlaced DEF Page
  <2>6. \A o \in page, q \in Matching \ page : store[o].at <= store[q].at
    BY DEF Pages
  <2> HIDE DEF answer
  <2>7. ReceiveInv(d)
    <3>1. \A o \in page : answer[o].at <= clock
      BY <2>4, <2>5, MatchingPlaced DEF CursorInv
    <3> QED
      BY <2>4, <2>5, <2>6, <3>1, PagePassesNone DEF ReceiveInv
  <2>8. ReceiveInv(doing[w])'
    BY <2>2, <2>3, <2>7 DEF ReceiveInv, Page, NextCursor, HasFile
  <2>9. \A v \in Worker \ {w} : ReceiveInv(doing[v])'
    BY <1>1, <1>2, <2>2, <2>3, ReceiveKept
  <2> QED
    BY <2>2, <2>8, <2>9 DEF CursorInv, NoneMissed, HasFile
<1>9. ASSUME NEW w \in Worker, CommitReceive(w)
      PROVE  CursorInv'
  <2> DEFINE d == doing[w]
             c == NextCursor(Page(d), d.answer)
  <2>1. UNCHANGED <<clock, store>> /\ d.job = ReceiveOrders
    BY <1>9, Readings DEF CommitReceive, Commit, external
  <2>2. CASE Page(d) = {}
    BY <1>6, <1>7, <1>9, <2>1, <2>2 DEF CommitReceive, Commit
  <2>3. CASE Page(d) # {}
    <3>1. d.answer \in [Order -> StoreOrder] /\ Page(d) \in SUBSET Order
      BY Readings
    <3>2. ReceiveInv(d)
      BY DEF CursorInv
    <3>3. c <= clock
      <4>1. \E o \in Page(d) : c = d.answer[o].at - 1
        BY <2>3, <3>1, CursorOfPage
      <4>2. \A o \in Page(d) : d.answer[o].at <= clock /\ d.answer[o].at \in Int
        BY <2>1, <2>3, <3>1, <3>2, BoundsAssumption DEF ReceiveInv, StoreOrder, Time
      <4> HIDE DEF c
      <4> QED
        BY <1>2, <4>1, <4>2
    <3>4. HasFile \cup Page(d) \subseteq HasFile'
      <4>1. \A o \in Page(d) \ d.files : file'[o].state = "create_order"
        BY <1>9, <3>1 DEF CommitReceive, NewFile
      <4>2. Page(d) \ d.files \subseteq HasFile'
        BY <3>1, <4>1 DEF HasFile, None
      <4> QED
        BY <1>1, <4>2 DEF SnapshotInv, Grows
    <3>5. cursor' = c
      BY <1>9, <2>3 DEF CommitReceive
    <3>6. NoneMissed'
      BY <2>1, <2>3, <3>2, <3>4, <3>5 DEF ReceiveInv, NoneMissed
    <3>7. \A v \in Worker : ReceiveInv(doing[v])'
      <4>1. \A v \in Worker : doing'[v] = doing[v] \/ doing'[v].job # ReceiveOrders
        BY <1>7, <1>9 DEF CommitReceive, Commit
      <4>2. ASSUME NEW v \in Worker, doing'[v] = doing[v]
            PROVE  ReceiveInv(doing[v])'
        BY <1>1, <1>2, <2>1, <4>2, ReceiveKept
      <4>3. ASSUME NEW v \in Worker, doing'[v].job # ReceiveOrders
            PROVE  ReceiveInv(doing[v])'
        BY <4>3 DEF ReceiveInv
      <4> QED
        BY <4>1, <4>2, <4>3
    <3> QED
      BY <2>1, <3>3, <3>5, <3>6, <3>7 DEF CursorInv
  <2> QED
    BY <2>2, <2>3
<1>10. CASE ImportRecentOrders
  <2> DEFINE c == NextCursor(Matching, store)
  <2>1. UNCHANGED <<clock, store, doing>> /\ cursor' = c /\ Matching # {}
    BY <1>10 DEF ImportRecentOrders, external
  <2>2. c <= clock /\ \A o \in Recent : store[o].status \in Importable /\ store[o].at < c => o \in HasFile \cup Matching
    BY <2>1, PagePassesNone DEF TypeOK
  <2>3. HasFile \cup Matching \subseteq HasFile'
    <3>1. \A o \in Matching \ HasFile : file'[o].state = "create_order"
      BY <1>10, MatchingPlaced DEF ImportRecentOrders, NewFile
    <3> QED
      BY <1>1, <3>1, MatchingPlaced DEF HasFile, Grows, None
  <2>4. \A v \in Worker : ReceiveInv(doing[v])'
    BY <1>1, <1>2, <2>1, ReceiveKept
  <2> HIDE DEF c
  <2> QED
    BY <2>1, <2>2, <2>3, <2>4 DEF CursorInv, NoneMissed
<1>11. ASSUME NEW w \in Worker, JobStep(w)
       PROVE  CursorInv'
  <2>1. CASE BeginOrder(w)
    <3>1. PICK j \in jobs \ {ReceiveOrders} : Begin(w, j, {j.order})
      BY <2>1 DEF BeginOrder
    <3> QED
      BY <1>6, <3>1 DEF Begin, TypeOK, external, rows
  <2>2. CASE CommitFetch(w) \/ CommitCreate(w) \/ CommitPipeline(w) \/ CommitCancel(w)
    BY <1>6, <1>7, <2>2 DEF CommitFetch, CommitCreate, CommitPipeline, CommitCancel, Commit, external
  <2>3. CASE Refused(w)
    BY <1>6, <1>7, <2>3 DEF Refused, external, rows
  <2> QED
    BY <1>8, <1>9, <1>11, <2>1, <2>2, <2>3 DEF JobStep, Receive
<1>12. CASE Trouble
  <2>1. ASSUME NEW w \in Worker, NEW again, Abort(w, again)
        PROVE  CursorInv'
    BY <1>6, <1>7, <2>1 DEF Abort, external, rows
  <2>2. CASE (\E h \in hooks : LoseHook(h)) \/ \E o \in Order : Act(o)
    BY <1>3, <2>2 DEF LoseHook, Act, external, rows
  <2> QED
    BY <1>10, <1>12, <2>1, <2>2 DEF Trouble, ImportOrder, Process, SetState
<1>13. CASE Cron \/ Webhook \/ UNCHANGED vars
  BY <1>3, <1>13 DEF Cron, Webhook, ReceiveHook, external, rows, vars
<1> QED
  BY <1>4, <1>5, <1>11, <1>12, <1>13 DEF Next, Store

-----------------------------------------------------------------------------
(* Theorems *)

LEMMA Inductive == Spec => [](TypeOK /\ BasicInv /\ KnownInv /\ SnapshotInv /\ CursorInv)
<1> DEFINE IInv == TypeOK /\ BasicInv /\ KnownInv /\ SnapshotInv /\ CursorInv
<1>1. Init => IInv
  <2> SUFFICES ASSUME Init
               PROVE  IInv
    OBVIOUS
  <2>1. TypeOK /\ BasicInv
    BY Records, BoundsAssumption DEF Init, TypeOK, Time, BasicInv
  <2>2. HasFile = {} /\ HasOrder = {}
    BY DEF Init, HasFile, HasOrder, NoFile
  <2>3. \A w \in Worker : ReadingKnown(doing[w]) /\ doing[w] = Idle
    BY Jobs DEF Init, ReadingKnown, Idle
  <2>4. KnownInv
    BY <2>2, <2>3 DEF Init, KnownInv
  <2>5. SnapshotInv
    BY <2>2, <2>3 DEF Init, SnapshotInv, Idle
  <2>6. CursorInv
    BY <2>3, SetsAssumption, Jobs DEF Init, CursorInv, ReceiveInv, NoneMissed, Unknown, Idle
  <2> QED
    BY <2>1, <2>4, <2>5, <2>6
<1>2. IInv /\ [Next]_vars => IInv'
  BY TypeStep, KnownStep, SnapshotStep, CursorStep
<1> QED
  BY <1>1, <1>2, PTL DEF Spec

\* An input file never makes two orders of Odoo, for any number of orders and of
\* transactions (create_order looks among the mappings of its snapshot).
THEOREM OneOrderOnly == Spec => []OneOrder
<1>1. SnapshotInv => OneOrder
  BY DEF SnapshotInv, OneOrder
<1> QED
  BY <1>1, Inductive, PTL

\* For every limit of a page and every store, the cursor passes no order that has no
\* input file (integrationApiReceiveOrders).
THEOREM CursorPassesNone == Spec => []NoneMissed
<1>1. CursorInv => NoneMissed
  BY DEF CursorInv
<1> QED
  BY <1>1, Inductive, PTL
=============================================================================
