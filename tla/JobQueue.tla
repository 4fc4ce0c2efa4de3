------------------------------ MODULE JobQueue ------------------------------
(***************************************************************************)
(* The execution core of the queue_job addon: the rows of the queue_job    *)
(* table, the job runner that dispatches them (jobrunner/runner.py), the   *)
(* HTTP handler that executes one job (controllers/main.py), the row of    *)
(* queue_job_lock that a handler holds while it executes (job.py), and the *)
(* buttons and wizards of the users.                                       *)
(*                                                                         *)
(* Transactions.  Odoo's cursors are REPEATABLE READ.  A transaction that  *)
(* reads and writes one row and commits at once is one action here.  Only  *)
(* the execution of a job is a long transaction: its snapshot is taken by  *)
(* Job.lock(), and stale[w] says that another transaction has since       *)
(* committed a change of the row, so that the handler's own store() will   *)
(* fail with a serialization error.  The runner's connection is in         *)
(* autocommit: each of its UPDATEs sees the latest rows.                   *)
(*                                                                         *)
(* Abstracted: the job's function (any outcome at any time), the eta of a  *)
(* postponed job (it may be dispatched at any later time), the channels    *)
(* (one root channel of Capacity jobs; the tree is in JobChannels), the    *)
(* dependencies between jobs (JobGraph), and the deletion of rows.         *)
(***************************************************************************)
EXTENDS Naturals, FiniteSets

CONSTANTS
    Job,          \* the jobs that may be created
    Worker,       \* the threads or processes that serve /queue_job/runjob
    None,         \* no worker, or no job
    MaxRetries,   \* max_retries of every job, 0 for infinite retries
    RetryCap,     \* bound of the model: the counter "retry" saturates here
    MaxRequests,  \* bound of the model: outstanding requests for one job
    Capacity      \* capacity of the root channel

ASSUME NoneAssumption == None \notin Worker /\ None \notin Job
ASSUME RetriesAssumption == RetryCap \in Nat /\ MaxRetries \in [Job -> 0..RetryCap]
ASSUME JobAssumption == IsFiniteSet(Job)
ASSUME BoundsAssumption == MaxRequests \in Nat /\ Capacity \in Nat

VARIABLES
    row,      \* the table queue_job
    lockRow,  \* does queue_job_lock have a row for this job?
    lock,     \* the handler that holds FOR UPDATE the queue_job_lock row
    http,     \* requests to /queue_job/runjob not yet served
    phase,    \* where each handler is in runjob
    cur,      \* the job of each handler
    tries,    \* "retry" of the handler's Job object, stored with it
    stale,    \* has the row changed since the handler's snapshot?
    mem,      \* the runner's memory: where the job is in its root channel
    notifs,   \* NOTIFYs received by the runner's connection
    pc        \* where the runner is in its main loop

rowVars == <<row, lockRow, lock>>
handlerVars == <<phase, cur, tries, stale>>
runnerVars == <<mem, notifs, pc>>
vars == <<row, lockRow, lock, http, phase, cur, tries, stale, mem, notifs, pc>>

-----------------------------------------------------------------------------
(* Types *)

Active == {"enqueued", "started"}
Ended == {"done", "cancelled", "failed"}
State == {"absent", "pending"} \cup Active \cup Ended

\* date_enqueued: unset, less than 10 seconds ago, or older.  It is read only in
\* the states of Active, and is kept as "null" in the others.
EnqueuedDate == {"null", "recent", "old"}

Row == [state : State, retry : 0..RetryCap, enqueued : EnqueuedDate]

\* Where a handler is between the commit of 'started' and its last statement.
Phase == {"idle", "started", "locking", "performing", "postponing", "failing", "rollback"}

\* A handler has a job exactly when it is not idle.
ServingOK == \A w \in Worker : phase[w] = "idle" <=> cur[w] = None

TypeOK ==
    /\ row \in [Job -> Row]
    /\ lockRow \in [Job -> BOOLEAN]
    /\ lock \in [Job -> Worker \cup {None}]
    /\ http \in [Job -> 0..MaxRequests]
    /\ phase \in [Worker -> Phase]
    /\ cur \in [Worker -> Job \cup {None}]
    /\ tries \in [Worker -> 0..RetryCap]
    /\ stale \in [Worker -> BOOLEAN]
    /\ ServingOK
    /\ mem \in [Job -> {"absent", "queued", "running", "failed"}]
    /\ notifs \in SUBSET Job
    /\ pc \in {"down", "requeue", "notify", "run"}

-----------------------------------------------------------------------------
(* Helpers *)

\* "retry" plus one, up to the bound of the model.
Bump(r) == IF r < RetryCap THEN r + 1 ELSE r

NewRow(state, retry) == [state |-> state, retry |-> retry, enqueued |-> "null"]

\* The jobs in S are written by a transaction that commits: whoever reads them in
\* an older snapshot is stale, and the trigger notifies the runner.
Touch(S) == stale' = [w \in Worker |-> stale[w] \/ cur[w] \in S]

Notify(S) == notifs' = IF pc = "down" THEN notifs ELSE notifs \cup S

\* ChannelManager.notify on the root channel: where a job in this state belongs.
Place(state) ==
    CASE state = "pending"  -> "queued"
      [] state \in Active   -> "running"
      [] state = "failed"   -> "failed"
      [] OTHER              -> "absent"

Running == {j \in Job : mem[j] = "running"}
\* Mutant: off by one.
HasCapacityOrEqual == Cardinality(Running) <= Capacity
HasCapacity == Capacity = 0 \/ Cardinality(Running) < Capacity

-----------------------------------------------------------------------------
Init ==
    /\ row = [j \in Job |-> NewRow("absent", 0)]
    /\ lockRow = [j \in Job |-> FALSE]
    /\ lock = [j \in Job |-> None]
    /\ http = [j \in Job |-> 0]
    /\ phase = [w \in Worker |-> "idle"]
    /\ cur = [w \in Worker |-> None]
    /\ tries = [w \in Worker |-> 0]
    /\ stale = [w \in Worker |-> FALSE]
    /\ mem = [j \in Job |-> "absent"]
    /\ notifs = {}
    /\ pc = "down"

-----------------------------------------------------------------------------
(* Users and the passing of time *)

\* A user's transaction writes the whole row of j: the Job object it loaded,
\* after set_pending, set_done or set_cancelled.
UserWrites(j, state, retry) ==
    /\ row' = [row EXCEPT ![j] = NewRow(state, retry)]
    /\ Touch({j}) /\ Notify({j})
    /\ UNCHANGED <<lockRow, lock, http, phase, cur, tries, mem, pc>>

\* Job.store() of a new job, at the end of the transaction that called delay().
Create(j) == row[j].state = "absent" /\ UserWrites(j, "pending", 0)

\* button_done; the wizard queue.jobs.to.done accepts every state.
SetDone(j) == row[j].state # "absent" /\ UserWrites(j, "done", row[j].retry)

\* button_cancelled, behind the filter of the wizard queue.jobs.to.cancelled.
SetCancelled(j) ==
    /\ row[j].state \in {"pending", "failed", "enqueued"}
    /\ UserWrites(j, "cancelled", row[j].retry)

\* requeue: set_pending resets the counter of retries.
Requeue(j) == row[j].state # "absent" /\ UserWrites(j, "pending", 0)

\* Ten seconds have passed since date_enqueued.
Aging(j) ==
    /\ row[j].state \in Active /\ row[j].enqueued = "recent"
    /\ row' = [row EXCEPT ![j].enqueued = "old"]
    /\ UNCHANGED <<lockRow, lock, http, handlerVars, runnerVars>>

-----------------------------------------------------------------------------
(* The job runner: run() loops over requeue_dead_jobs, process_notifications, *)
(* run_jobs and wait_notification                                             *)

\* Mutant: the jobs that a previous runner has dispatched are not loaded.
RunnerStartPending ==
    /\ pc = "down"
    /\ mem' = [j \in Job |-> IF row[j].state \in Active THEN "absent" ELSE Place(row[j].state)]
    /\ pc' = "requeue"
    /\ UNCHANGED <<rowVars, http, handlerVars, notifs>>

\* initialize_databases: LISTEN, then one notify for each row that is not done.
RunnerStart ==
    /\ pc = "down"
    /\ mem' = [j \in Job |-> Place(row[j].state)]
    /\ pc' = "requeue"
    /\ UNCHANGED <<rowVars, http, handlerVars, notifs>>

\* An exception in the loop, or a crash of the process: close_databases forgets
\* the jobs and the notifications go with the connection.
RunnerFail ==
    /\ pc # "down"
    /\ mem' = [j \in Job |-> "absent"]
    /\ notifs' = {}
    /\ pc' = "down"
    /\ UNCHANGED <<rowVars, http, handlerVars>>

\* Mutant: without the branch NOT EXISTS, jobs that never started are not found.
DeadOnlyLocked(j) ==
    /\ row[j].state \in Active /\ row[j].enqueued = "old"
    /\ lockRow[j] /\ lock[j] = None

\* The rows that the UPDATE of requeue_dead_jobs selects.
Dead(j) ==
    /\ row[j].state \in Active /\ row[j].enqueued = "old"
    /\ lockRow[j] => lock[j] = None

DeadRow(r, max) ==
    NewRow(IF max # 0 /\ r.retry > max THEN "failed" ELSE "pending",
           IF r.state = "started" THEN Bump(r.retry) ELSE r.retry)

RequeueDeadJobs ==
    LET dead == {j \in Job : Dead(j)} IN
    /\ pc = "requeue"
    /\ row' = [j \in Job |-> IF j \in dead THEN DeadRow(row[j], MaxRetries[j]) ELSE row[j]]
    /\ Touch(dead)
    /\ notifs' = notifs \cup dead
    /\ pc' = "notify"
    /\ UNCHANGED <<lockRow, lock, http, phase, cur, tries, mem>>

\* One turn of process_notifications: the state is read now, not when notified.
ProcessNotification(j) ==
    /\ pc = "notify" /\ j \in notifs
    /\ notifs' = notifs \ {j}
    /\ mem' = [mem EXCEPT ![j] = Place(row[j].state)]
    /\ UNCHANGED <<rowVars, http, handlerVars, pc>>

NotificationsDrained ==
    /\ pc = "notify" /\ notifs = {}
    /\ pc' = "run"
    /\ UNCHANGED <<rowVars, http, handlerVars, mem, notifs>>

\* Mutant: set_job_enqueued forgets date_enqueued.
EnqueuedRowNoDate(r) == [state |-> "enqueued", retry |-> r.retry, enqueued |-> "null"]
EnqueuedRow(r) == [state |-> "enqueued", retry |-> r.retry, enqueued |-> "recent"]

\* One turn of run_jobs: the channel yields j, set_job_enqueued updates its row
\* whatever its state has become, and the request is sent by a daemon thread.
RunJob(j) ==
    /\ pc = "run" /\ mem[j] = "queued" /\ HasCapacity
    /\ mem' = [mem EXCEPT ![j] = "running"]
    /\ row' = [row EXCEPT ![j] = EnqueuedRow(@)]
    /\ http' = [http EXCEPT ![j] = IF @ < MaxRequests THEN @ + 1 ELSE @]
    /\ Touch({j})
    /\ notifs' = notifs \cup {j}
    /\ UNCHANGED <<lockRow, lock, phase, cur, tries, pc>>

\* No job to run: wait_notification returns and the loop starts again.
WaitNotification ==
    /\ pc = "run" /\ ~(HasCapacity /\ \E j \in Job : mem[j] = "queued")
    /\ pc' = "requeue"
    /\ UNCHANGED <<rowVars, http, handlerVars, mem, notifs>>

-----------------------------------------------------------------------------
(* The HTTP handler: runjob and _try_perform_job *)

\* The request is lost: a crash of the server, or a refused connection.
LoseRequest(j) ==
    /\ http[j] > 0
    /\ http' = [http EXCEPT ![j] = @ - 1]
    /\ UNCHANGED <<rowVars, handlerVars, runnerVars>>

\* Job.load: the counter of the Job object.
LoadedRetry(j) == row[j].retry

\* INSERT INTO queue_job_lock ... ON CONFLICT DO NOTHING
AddLockRecord(j) == lockRow' = [lockRow EXCEPT ![j] = TRUE]

\* The handler takes the request; a job that is not enqueued is refused.  The
\* row is locked FOR UPDATE from the test to the commit of 'started', so that
\* the test, set_started, add_lock_record and store are one step.
Accept(w, j) ==
    /\ row' = [row EXCEPT ![j].state = "started"]
    /\ AddLockRecord(j)
    /\ phase' = [phase EXCEPT ![w] = "started"]
    /\ cur' = [cur EXCEPT ![w] = j]
    /\ tries' = [tries EXCEPT ![w] = LoadedRetry(j)]
    /\ Touch({j}) /\ Notify({j})

Refuse == UNCHANGED <<row, lockRow, handlerVars, notifs>>

\* Mutant: the state of the job is not tested.
RunRequestAny(w, j) ==
    /\ phase[w] = "idle" /\ http[j] > 0
    /\ http' = [http EXCEPT ![j] = @ - 1]
    /\ Accept(w, j)
    /\ UNCHANGED <<lock, mem, pc>>

RunRequest(w, j) ==
    /\ phase[w] = "idle" /\ http[j] > 0
    /\ http' = [http EXCEPT ![j] = @ - 1]
    /\ IF row[j].state = "enqueued" THEN Accept(w, j) ELSE Refuse
    /\ UNCHANGED <<lock, mem, pc>>

\* Job.lock() reads the row in a new snapshot; if the job is not started any more,
\* there is no row to lock and it is postponed.
TakeSnapshot(w) ==
    /\ phase[w] = "started"
    /\ phase' = [phase EXCEPT ![w] =
                    IF row[cur[w]].state = "started" /\ lockRow[cur[w]]
                    THEN "locking" ELSE "postponing"]
    /\ stale' = [stale EXCEPT ![w] = FALSE]
    /\ UNCHANGED <<rowVars, http, cur, tries, runnerVars>>

\* Mutant: Job.lock() does not wait for the holder of the row.
LockFreeUnlocked(j) == TRUE
LockFree(j) == lock[j] = None

\* Job.lock() gets the row of queue_job_lock, perhaps after having waited for it.
Lock(w) ==
    /\ phase[w] = "locking" /\ LockFree(cur[w])
    /\ lock' = [lock EXCEPT ![cur[w]] = w]
    /\ phase' = [phase EXCEPT ![w] = "performing"]
    /\ UNCHANGED <<row, lockRow, http, cur, tries, stale, runnerVars>>

\* The transaction of the handler has ended or is aborted: PostgreSQL has released
\* its locks.
Unlocked(w) == [j \in Job |-> IF lock[j] = w THEN None ELSE lock[j]]

\* The transaction of the handler ends, and the handler with it.
EndHandler(w) ==
    /\ lock' = Unlocked(w)
    /\ phase' = [phase EXCEPT ![w] = "idle"]
    /\ cur' = [cur EXCEPT ![w] = None]
    /\ tries' = [tries EXCEPT ![w] = 0]

\* Mutant: the handler stores its result under READ COMMITTED.
StoreAllowedStale(w) == TRUE
\* store() succeeds in the transaction of the handler only if nobody has
\* committed a change of the row since its snapshot.
StoreAllowed(w) == ~stale[w]

\* perform() returns, or raises NothingToDoJob: set_done, store and commit.
Complete(w) ==
    /\ phase[w] = "performing" /\ StoreAllowed(w)
    /\ row' = [row EXCEPT ![cur[w]] = NewRow("done", Bump(tries[w]))]
    /\ EndHandler(w)
    /\ Touch({cur[w]}) /\ Notify({cur[w]})
    /\ UNCHANGED <<lockRow, http, mem, pc>>

\* The handler vanishes and its transaction is rolled back: the process is
\* killed, or an exception leaves runjob (the store of NothingToDoJob, of
\* retry_postpone or of set_failed meets a serialization error).
Abort(w) ==
    /\ phase[w] # "idle"
    /\ EndHandler(w)
    /\ UNCHANGED <<row, lockRow, http, stale, runnerVars>>

\* perform() raises.  If a query has failed, and not in a savepoint, the
\* transaction is aborted and its locks are released at once.
Outcome(w, next, retry) ==
    /\ phase[w] = "performing"
    /\ phase' = [phase EXCEPT ![w] = next]
    /\ tries' = [tries EXCEPT ![w] = retry]
    /\ lock' = lock \/ lock' = Unlocked(w)
    /\ UNCHANGED <<row, lockRow, http, cur, stale, runnerVars>>

\* A serialization error: of store() when the row has changed, or of any query
\* of the job.  runjob turns it into a RetryableJobError after perform() has
\* counted the try.
SerializationError(w) == Outcome(w, "postponing", Bump(tries[w]))

OutOfRetries(j, retry) == MaxRetries[j] # 0 /\ retry >= MaxRetries[j]

\* The job raises RetryableJobError: perform() raises FailedJobError instead
\* when the tries are exhausted.
RaiseRetryable(w) ==
    LET retry == Bump(tries[w]) IN
    Outcome(w, IF OutOfRetries(cur[w], retry) THEN "failing" ELSE "postponing", retry)

\* The same with ignore_retry: the try is not counted.
RaiseIgnoreRetry(w) == Outcome(w, "postponing", tries[w])

\* Any other exception.
RaiseError(w) == Outcome(w, "failing", Bump(tries[w]))

\* retry_postpone and the last except clause store the Job object in a new
\* cursor, over whatever the row has become.
StoreInNewCursor(w, new) ==
    /\ row' = [row EXCEPT ![cur[w]] = new]
    /\ phase' = [phase EXCEPT ![w] = "rollback"]
    /\ Touch({cur[w]}) /\ Notify({cur[w]})
    /\ UNCHANGED <<lockRow, lock, http, cur, tries, mem, pc>>

\* postpone and set_pending(reset_retry=False): the counter is kept, and the eta is
\* some time later.
Postponed(w) == NewRow("pending", tries[w])

RetryPostpone(w) == phase[w] = "postponing" /\ StoreInNewCursor(w, Postponed(w))
SetFailed(w) == phase[w] = "failing" /\ StoreInNewCursor(w, NewRow("failed", tries[w]))

\* The handler's own transaction is rolled back last.
Rollback(w) ==
    /\ phase[w] = "rollback"
    /\ EndHandler(w)
    /\ UNCHANGED <<row, lockRow, http, stale, runnerVars>>

-----------------------------------------------------------------------------
User(j) == Create(j) \/ SetDone(j) \/ SetCancelled(j) \/ Requeue(j)

Runner ==
    \/ RunnerStart \/ RequeueDeadJobs \/ NotificationsDrained \/ WaitNotification
    \/ \E j \in Job : ProcessNotification(j) \/ RunJob(j)

\* What a job's function may do.
Raise(w) == RaiseRetryable(w) \/ RaiseIgnoreRetry(w) \/ RaiseError(w) \/ SerializationError(w)

Handle(w) ==
    \/ \E j \in Job : RunRequest(w, j)
    \/ TakeSnapshot(w) \/ Lock(w)
    \/ Complete(w) \/ Raise(w)
    \/ RetryPostpone(w) \/ SetFailed(w) \/ Rollback(w)

Next ==
    \/ \E j \in Job : User(j) \/ Aging(j) \/ LoseRequest(j)
    \/ Runner \/ RunnerFail
    \/ \E w \in Worker : Handle(w) \/ Abort(w)

Spec == Init /\ [][Next]_vars

-----------------------------------------------------------------------------
(* Safety *)

\* Two handlers never execute the same job at the same time, although a job may
\* have several requests in flight, be requeued by a user while it runs, or be
\* taken for dead by the runner (the purpose of queue_job_lock).
ExecutionExclusive ==
    \A v, w \in Worker :
        (v # w /\ phase[v] = "performing" /\ phase[w] = "performing")
            => cur[v] # cur[w]

\* Why it is so.  A row of queue_job_lock is held by the handler of that job, from
\* perform() until its transaction has ended, and every handler that performs
\* holds one; and a snapshot in which nothing has changed says the truth.
Holding == {"performing", "postponing", "failing", "rollback"}

LockHeld ==
    /\ \A j \in Job : lock[j] # None => cur[lock[j]] = j /\ phase[lock[j]] \in Holding
    /\ \A w \in Worker : phase[w] = "performing" => lock[cur[w]] = w

SnapshotTrue ==
    \A w \in Worker : phase[w] \in {"locking", "performing"} /\ ~stale[w]
                          => row[cur[w]].state = "started"

LockingInv == LockHeld /\ SnapshotTrue

\* A job that is enqueued or started can always be found dead: its date_enqueued
\* is set, without which requeue_dead_jobs skips the row for ever.
Recoverable == \A j \in Job : row[j].state \in Active => row[j].enqueued # "null"

\* Once its notification is processed, the runner holds a job where the state of
\* the row says, through restarts, requeues and late writes of handlers.
RunnerInSync ==
    pc # "down" => \A j \in Job \ notifs : mem[j] = Place(row[j].state)

\* Never more jobs enqueued or started in the database than the root channel has
\* capacity, whatever is requeued, retried or found dead, and over the restarts
\* of the runner.
CapacityRespected ==
    Capacity # 0 => Cardinality({j \in Job : row[j].state \in Active}) <= Capacity

\* A job becomes done, other than by a user, only from started and by the handler
\* that holds its lock: a verdict of a user, or a requeue that came while the job
\* was executing, is never overwritten by its completion.
CompletionSound ==
    [][\A j \in Job :
        (row[j].state # "done" /\ row'[j].state = "done" /\ ~SetDone(j))
            => row[j].state = "started" /\ lock[j] # None]_vars

-----------------------------------------------------------------------------
(* The promise: JobQueue implements JobLife *)

LifeState ==
    [j \in Job |-> IF row[j].state \in {"pending"} \cup Active THEN "open" ELSE row[j].state]

LifeServing == [j \in Job |-> {w \in Worker : cur[w] = j /\ phase[w] # "rollback"}]

LifePerformer ==
    [j \in Job |-> IF lock[j] # None /\ phase[lock[j]] = "performing" THEN lock[j] ELSE None]

Life == INSTANCE JobLife WITH
    state <- LifeState, unseen <- notifs, serving <- LifeServing, performer <- LifePerformer

\* Every step of the runner, of a handler and of a user is one that JobLife allows
\* to it, or changes nothing there: a job that has ended is opened again only by a
\* user, or by who could not know that it had.
ImplementsJobLife == Life!Spec

-----------------------------------------------------------------------------
(* Liveness *)

\* The fairness of the code: the runner's loop runs, the server serves requests,
\* a handler goes on with the job it has taken and the job's function returns,
\* and time passes for a job that nobody serves.
InService(j) ==
    \/ http[j] > 0
    \/ \E w \in Worker : cur[w] = j /\ phase[w] \in {"started", "locking"}

Fairness ==
    /\ WF_vars(Runner)
    /\ \A w \in Worker : WF_vars(Handle(w)) /\ WF_vars(Lock(w))
    /\ \A j \in Job :
        /\ WF_vars(\E w \in Worker : RunRequest(w, j))
        /\ WF_vars(Aging(j) /\ ~InService(j))

FairSpec == Spec /\ Fairness

\* What may delay a job without limit: users, crashes, lost requests, requests
\* served more than ten seconds late, tries that are not counted.
Disturbance ==
    \/ \E j \in Job : User(j) \/ LoseRequest(j) \/ (Aging(j) /\ InService(j))
    \/ RunnerFail
    \/ \E w \in Worker :
        Abort(w) \/ RaiseIgnoreRetry(w) \/ (SerializationError(w) /\ StoreAllowed(w))

\* If the disturbances stop, every job with a limit of retries ends, whatever had
\* happened before: the lost and the killed are found, the retried give up.
EveryJobEnds ==
    <>[][~Disturbance]_vars =>
        \A j \in {i \in Job : MaxRetries[i] # 0} :
            row[j].state \in {"pending"} \cup Active ~> row[j].state \in Ended

=============================================================================
