------------------------------ MODULE JobGraph ------------------------------
(***************************************************************************)
(* The dependencies between the jobs of a graph: a job waits until all its *)
(* parents are done; who makes a parent done, or cancels it, looks for the *)
(* children that waited for it only (job.py, enqueue_waiting and           *)
(* cancel_dependent_jobs).                                                 *)
(*                                                                         *)
(* A handler commits "done" first and looks for the children in a second   *)
(* transaction (controllers/main.py); a user's button does both in one     *)
(* transaction.  A transaction is two steps here: Begin takes its snapshot *)
(* and finds the children in it, Commit writes, unless a row it writes has *)
(* been changed by others since the snapshot (REPEATABLE READ).            *)
(*                                                                         *)
(* Abstracted: how a job is dispatched and executed (JobQueue), so that    *)
(* "pending" stands for pending, enqueued and started; and the result that *)
(* a handler stores over a verdict of the users, which does to the graph   *)
(* what a requeue and that result do.  Bound of the model: one transaction *)
(* for each job at a time.                                                 *)
(***************************************************************************)
EXTENDS FiniteSets

CONSTANTS
    Job,     \* the jobs of the graph
    Parents  \* the jobs on which each job depends

ASSUME GraphAssumption == Parents \in [Job -> SUBSET Job]

VARIABLES
    state,     \* of each job
    op,        \* the transaction about each job
    targets,   \* the children that this transaction has found
    changed,   \* rows written by others since its snapshot
    wasDone,   \* history: parents that have been done
    wasCancelled,  \* history: parents that have been cancelled
    users      \* whether users press the buttons, and processes are killed

graphVars == <<state, op, targets, changed, wasDone, wasCancelled>>
vars == <<graphVars, users>>

State == {"wait", "pending", "failed", "done", "cancelled"}

\* "owes": the handler has committed done and has not begun to look for children.
Op == {"none", "owes", "enqueue", "setDone", "cancel", "runNow", "toPending", "toWait"}

TypeOK ==
    /\ state \in [Job -> State]
    /\ op \in [Job -> Op]
    /\ targets \in [Job -> SUBSET Job]
    /\ changed \in [Job -> SUBSET Job]
    /\ wasDone \in SUBSET Job /\ wasCancelled \in SUBSET Job
    /\ users \in BOOLEAN
    /\ \A j \in Job : op[j] \in {"none", "owes"} => targets[j] = {} /\ changed[j] = {}

-----------------------------------------------------------------------------
Children(j) == {c \in Job : j \in Parents[c]}
IsParent(j) == Children(j) # {}

\* Job.store of a whole graph, in one transaction.
Init ==
    /\ state = [j \in Job |-> IF Parents[j] = {} THEN "pending" ELSE "wait"]
    /\ op = [j \in Job |-> "none"]
    /\ targets = [j \in Job |-> {}]
    /\ changed = [j \in Job |-> {}]
    /\ wasDone = {} /\ wasCancelled = {}
    /\ users \in BOOLEAN

\* A transaction that brings the jobs of each set to its state commits; the
\* transactions in progress about other jobs have not seen it.
Committed(j, new) ==
    LET written == {i \in Job : new[i] # state[i]} \cup {j} IN
    /\ state' = new
    /\ changed' = [i \in Job |->
                     IF i = j \/ op'[i] \in {"none", "owes"} THEN {} ELSE changed[i] \cup written]
    /\ wasDone' = wasDone \cup {i \in Job : IsParent(i) /\ new[i] = "done"}
    /\ wasCancelled' = wasCancelled \cup {i \in Job : IsParent(i) /\ new[i] = "cancelled"}

\* One statement, one row.
WriteOne(j, s) ==
    /\ state' = [state EXCEPT ![j] = s]
    /\ changed' = [i \in Job |->
                     IF op[i] \in {"none", "owes"} THEN {} ELSE changed[i] \cup {j}]
    /\ UNCHANGED <<op, targets, wasDone, wasCancelled>>

-----------------------------------------------------------------------------
(* What the transactions look for and write *)

\* Mutant: one parent is enough.
WaitingForAny(j, goal, own) ==
    {c \in Children(j) :
        state[c] = "wait" /\ \E p \in Parents[c] : [state EXCEPT ![j] = own][p] = goal}

\* _get_common_dependent_jobs_query: the children of j that wait, and whose
\* parents all have reached the goal; j itself is in the state "own".
WaitingFor(j, goal, own) ==
    {c \in Children(j) :
        /\ state[c] = "wait"
        /\ \A p \in Parents[c] : [state EXCEPT ![j] = own][p] = goal}

Begin(j, from, kind, found) ==
    /\ op[j] = from
    /\ op' = [op EXCEPT ![j] = kind]
    /\ targets' = [targets EXCEPT ![j] = found]
    /\ UNCHANGED <<state, changed, wasDone, wasCancelled>>

\* The transaction is over.
End(j) == op' = [op EXCEPT ![j] = "none"] /\ targets' = [targets EXCEPT ![j] = {}]

\* The transaction is rolled back.
Rollback(j) ==
    /\ End(j)
    /\ changed' = [changed EXCEPT ![j] = {}]
    /\ UNCHANGED <<state, wasDone, wasCancelled>>

\* Mutant: the transactions are READ COMMITTED, and the state is not tested again.
SerializableAlways(j, written) == TRUE

\* No row of the transaction has been changed since its snapshot.
Serializable(j, written) == changed[j] \cap written = {}

\* The transaction of j commits, unless somebody has changed a row that it writes.
CommitOrRollback(j, kind, own, children) ==
    /\ op[j] = kind
    /\ IF Serializable(j, targets[j] \cup {j})
       THEN /\ End(j)
            /\ Committed(j, [i \in Job |-> IF i = j THEN own
                                           ELSE IF i \in targets[j] THEN children
                                           ELSE state[i]])
       ELSE Rollback(j)

\* set_pending and store: a job with a parent that is not done waits again.
BeginPending(j) ==
    IF \A p \in Parents[j] : state[p] = "done"
    THEN Begin(j, "none", "toPending", {})
    ELSE Begin(j, "none", "toWait", {})

CommitPending(j) ==
    \/ CommitOrRollback(j, "toPending", "pending", "pending")
    \/ CommitOrRollback(j, "toWait", "wait", "pending")

-----------------------------------------------------------------------------
(* Handlers *)

\* Mutant: the children are not looked for.
PerformAlone(j) ==
    /\ state[j] = "pending" /\ op[j] = "none"
    /\ UNCHANGED <<op, targets>>
    /\ Committed(j, [state EXCEPT ![j] = "done"])

\* The job is executed, and done is committed.
Perform(j) ==
    /\ state[j] = "pending" /\ op[j] = "none"
    /\ op' = [op EXCEPT ![j] = "owes"] /\ targets' = targets
    /\ Committed(j, [state EXCEPT ![j] = "done"])

Fail(j) == state[j] = "pending" /\ op[j] = "none" /\ WriteOne(j, "failed")

\* retry_postpone, in a new transaction.
Postpone(j) == state[j] = "pending" /\ BeginPending(j)

\* Mutant: the children are looked for as if done were not committed yet.
BeginEnqueueEarly(j) == Begin(j, "owes", "enqueue", WaitingFor(j, "done", "started"))

\* _enqueue_dependent_jobs, in a new transaction.
BeginEnqueue(j) == Begin(j, "owes", "enqueue", WaitingFor(j, "done", state[j]))

CommitEnqueue(j) ==
    /\ op[j] = "enqueue" /\ Serializable(j, targets[j])
    /\ End(j)
    /\ Committed(j, [i \in Job |-> IF i \in targets[j] THEN "pending" ELSE state[i]])

\* enqueue_waiting meets a serialization error.  The transaction is aborted, so
\* that the next turn of the loop raises InFailedSqlTransaction, which is not an
\* OperationalError: the request ends.
AbandonEnqueue(j) ==
    /\ op[j] = "enqueue" /\ ~Serializable(j, targets[j])
    /\ Rollback(j)

\* The process is killed after the commit of done, or in a transaction; or the job
\* that a user runs at once raises.
Crash(j) == op[j] # "none" /\ Rollback(j)

-----------------------------------------------------------------------------
(* Users *)

\* requeue, with its filter.
BeginRequeue(j) == state[j] # "wait" /\ BeginPending(j)

\* button_done and button_cancelled: done or cancelled is flushed before the
\* children are looked for, in the same transaction.  The wizard that sets to done
\* does not filter the jobs, the one that cancels does.
BeginSetDone(j) == Begin(j, "none", "setDone", WaitingFor(j, "done", "done"))

BeginCancel(j) ==
    /\ state[j] \in {"wait", "pending", "failed"}
    /\ Begin(j, "none", "cancel", WaitingFor(j, "cancelled", "cancelled"))

\* action_run_now of the integration addon: the job is performed in the
\* transaction of the user, and the children are looked for before done is stored.
\* Its button is shown in these states.
BeginRunNow(j) ==
    /\ state[j] \in {"pending", "failed"}
    /\ Begin(j, "none", "runNow", WaitingFor(j, "done", "started"))

CommitSetDone(j) == CommitOrRollback(j, "setDone", "done", "pending")
CommitCancel(j) == CommitOrRollback(j, "cancel", "cancelled", "cancelled")
CommitRunNow(j) == CommitOrRollback(j, "runNow", "done", "pending")

-----------------------------------------------------------------------------
Handler(j) ==
    \/ Perform(j) \/ Fail(j) \/ Postpone(j) \/ CommitPending(j)
    \/ BeginEnqueue(j) \/ CommitEnqueue(j) \/ AbandonEnqueue(j)

SetDone(j) == BeginSetDone(j) \/ CommitSetDone(j)
Cancel(j) == BeginCancel(j) \/ CommitCancel(j)
RunNow(j) == BeginRunNow(j) \/ CommitRunNow(j)

\* A user who only requeues what has failed.
Retry(j) == state[j] = "failed" /\ BeginRequeue(j)

\* The handlers go on, and a failed job is requeued; a graph with users also has
\* the buttons, and processes that are killed.
Next ==
    /\ UNCHANGED users
    /\ \E j \in Job :
        \/ Handler(j) \/ Retry(j)
        \/ users /\ (Crash(j) \/ BeginRequeue(j) \/ SetDone(j) \/ Cancel(j) \/ RunNow(j))

Spec == Init /\ [][Next]_vars

\* The handlers go on, a failed job is requeued, and it does not fail for ever.
HandlerFairness ==
    \A j \in Job :
        /\ WF_graphVars(BeginEnqueue(j) \/ CommitEnqueue(j) \/ AbandonEnqueue(j))
        /\ SF_graphVars(Perform(j)) /\ WF_graphVars(Retry(j)) /\ WF_graphVars(CommitPending(j))

FairSpec == Spec /\ HandlerFairness

-----------------------------------------------------------------------------
(* Properties *)

\* A job that has waited is released only when each of its parents has been done,
\* and is cancelled by others only when each of its parents has been cancelled,
\* whatever users and handlers do to the parents between snapshot and commit.
PropagationSound ==
    [][\A c \in Job : state[c] = "wait" =>
        /\ state'[c] = "pending" => Parents[c] \subseteq wasDone'
        /\ (state'[c] = "cancelled" /\ op[c] # "cancel") => Parents[c] \subseteq wasCancelled']_vars

\* A verdict of a user, or the end of an execution, is not overwritten by the
\* release of the children: a job that a release writes was still waiting.
ReleaseOnlyWaiting ==
    [][\A j, c \in Job :
        (CommitEnqueue(j) \/ CommitSetDone(j) \/ CommitRunNow(j) \/ CommitCancel(j)) /\ c # j /\ state'[c] # state[c]
            => state[c] = "wait"]_vars

\* What the transaction about j has found is still true of its targets, or they
\* have been written since: a release had to find each of them waiting, with parents
\* that all had reached the goal, but for the one that it brings there itself; a
\* requeue had to find the job not waiting.
SnapshotOf(j) ==
    /\ IsParent(j) /\ state[j] = "done" => j \in wasDone
    /\ IsParent(j) /\ state[j] = "cancelled" => j \in wasCancelled
    /\ \A c \in targets[j] :
        /\ j \in Parents[c]
        /\ state[c] = "wait" \/ c \in changed[j]
        /\ op[j] = "enqueue" => Parents[c] \subseteq wasDone
        /\ op[j] \in {"setDone", "runNow"} => Parents[c] \subseteq wasDone \cup {j}
        /\ op[j] = "cancel" => Parents[c] \subseteq wasCancelled \cup {j}
    /\ op[j] \in {"toPending", "toWait"} =>
          targets[j] = {} /\ (state[j] # "wait" \/ j \in changed[j])

\* The transactions of a graph rest on what their snapshots have shown.
SnapshotInv == \A j \in Job : SnapshotOf(j)

\* A handler will still look for the child c, or will release it.
WillRelease(c) ==
    \E p \in Parents[c] :
        \/ op[p] = "owes"
        \/ op[p] = "enqueue" /\ c \in targets[p] /\ Serializable(p, targets[p])

\* USAGE: jobs "remain in a state wait_dependencies until their parent job is
\* successful" - with handlers alone, a job whose parents are all done is released,
\* or will be, in a graph of chains and groups.
NoneForgotten ==
    ~users => \A c \in Job :
        (state[c] = "wait" /\ Parents[c] # {} /\ \A p \in Parents[c] : state[p] = "done")
            => WillRelease(c)

\* With handlers alone, the whole graph is executed, as often as its jobs may fail.
GraphEnds == users \/ <>[](\A j \in Job : state[j] = "done")

=============================================================================
