---------------------------- MODULE OrderPipeline ----------------------------
(***************************************************************************)
(* The workflow of one order that comes from a store: its steps (validate  *)
(* the order, its pickings, its invoices, ...) are executed one after the  *)
(* other by jobs (integration_workflow_pipeline.py), while webhooks update *)
(* the workflow and users run, force or reopen its steps.                  *)
(*                                                                         *)
(* Every job, and the button that runs a step, is one REPEATABLE READ      *)
(* transaction: Begin takes its snapshot, Commit writes the rows that it   *)
(* changes, and is refused when another transaction has changed one of     *)
(* them since.  A new job is not created when the snapshot has a waiting   *)
(* job with its identity key.  A refused or killed job waits again.        *)
(*                                                                         *)
(* Abstracted: the work of a step (it succeeds, fails or raises), how a    *)
(* job is dispatched (JobQueue), the buttons that write one or two rows,   *)
(* which are atomic, and the message of the pipeline to its users, whose   *)
(* row can only make more transactions try again.                          *)
(***************************************************************************)
EXTENDS Naturals

CONSTANTS
    N,          \* the number of steps
    Worker,     \* transactions that may be in progress at a time
    MaxQueued,  \* bound of the model: waiting jobs that do the same
    MaxActs     \* bound of the model: what webhooks and users do to the order and its steps

ASSUME BoundsAssumption == N \in Nat \ {0} /\ MaxQueued \in Nat \ {0} /\ MaxActs \in Nat

VARIABLES
    task,      \* state of each step: rows of integration.workflow.pipeline.line
    file,      \* state of the input file of the order
    queued,    \* waiting jobs, of each kind
    failed,    \* kinds of the jobs that have failed
    kind,      \* what each transaction does
    snap,      \* its snapshot
    changed,   \* rows written by others since
    acts,      \* bound of the model: what webhooks and users have done
    executed,  \* history: effects of each step committed since it was reopened
    opened,    \* history: steps set to todo after the creation of the pipeline
    manual,    \* history: a user has executed steps, and not run the pipeline again
    hidden     \* history: a job was not created, because a report of its step waits

rows == <<task, file>>
vars == <<task, file, queued, failed, kind, snap, changed, acts, executed, opened, manual,
          hidden>>

-----------------------------------------------------------------------------
(* Types *)

Step == 1..N
File == 0       \* the row of the input file, among the rows
Rows == 0..N

TaskState == {"skip", "todo", "failed", "done"}
FileState == {"workflow_process", "done"}

\* Jobs: trigger_pipeline, _run_and_call_next of a step, and the job that only
\* reports a failure of that step.
Trigger == [does |-> "trigger", step |-> 0]
RunAndCallNext(i) == [does |-> "task", step |-> i]
RaiseMessage(i) == [does |-> "notice", step |-> i]
JobKind == {Trigger} \cup {RunAndCallNext(i) : i \in Step} \cup {RaiseMessage(i) : i \in Step}

\* Other transactions: a job that updates the pipeline, a user who runs a step.
Update == [does |-> "update", step |-> 0]
Run(i) == [does |-> "run", step |-> i]
Nothing == [does |-> "nothing", step |-> 0]
Kind == JobKind \cup {Update, Nothing} \cup {Run(i) : i \in Step}

\* identity_key: the report of a failure has the key of its step.
Key(k) == k.step

Snapshot == [task : [Step -> TaskState], file : FileState, waiting : SUBSET JobKind]

TypeOK ==
    /\ task \in [Step -> TaskState] /\ file \in FileState
    /\ queued \in [JobKind -> 0..MaxQueued] /\ failed \in SUBSET JobKind
    /\ kind \in [Worker -> Kind] /\ snap \in [Worker -> Snapshot]
    /\ changed \in [Worker -> SUBSET Rows]
    /\ acts \in 0..MaxActs
    /\ executed \in [Step -> 0..2] /\ opened \in SUBSET Step
    /\ manual \in BOOLEAN /\ hidden \in BOOLEAN
    /\ \A w \in Worker : kind[w] = Nothing => changed[w] = {}

-----------------------------------------------------------------------------
(* Helpers *)

IsDone(tasks, i) == tasks[i] \in {"skip", "done"}

\* has_tasks_to_process
HasTasksToProcess(tasks) == \E i \in Step : ~IsDone(tasks, i)

\* Mutant: the last one.
LastNotDone(tasks) ==
    CHOOSE i \in Step : tasks[i] # "done" /\ \A j \in Step : tasks[j] # "done" => j <= i

\* The first task that is not done, which may be one to skip.
FirstNotDone(tasks) ==
    CHOOSE i \in Step : tasks[i] # "done" /\ \A j \in Step : tasks[j] # "done" => i <= j

\* _validate_previous
PreviousDone(tasks, i) == \A j \in 1..(i - 1) : IsDone(tasks, j)

\* reset_next_value_if_not_previous: the steps to execute, of those enabled by
\* the statuses of the order.
ResetNextValueIfNotPrevious(enabled) == enabled

Waiting(q) == {k \in JobKind : q[k] > 0}

NoSnapshot == [task |-> [i \in Step |-> "skip"], file |-> "done", waiting |-> {}]

\* Of the database, with the queue q.
Now(q) == [task |-> task, file |-> file, waiting |-> Waiting(q)]

\* with_delay and an identity key: the queue after it, for a snapshot.
AddJob(q, k, waiting) ==
    IF \E j \in waiting : Key(j) = Key(k) THEN q ELSE [q EXCEPT ![k] = @ + 1]

-----------------------------------------------------------------------------
(* What a transaction makes of its snapshot s: the rows it leaves, and the jobs *)
(* it asks for                                                                 *)

Leaves(s, jobs) == [task |-> s.task, file |-> s.file, jobs |-> jobs]

MarkInput(s, state) == [s EXCEPT !.file = state]

SetTaskToDone(s, i) == [s EXCEPT !.task[i] = "done"]
MarkFailed(s, i) == [s EXCEPT !.task[i] = "failed"]

\* call_next_step_job
CallNextStepJob(s, i) ==
    IF ~HasTasksToProcess(s.task) \/ i = N
    THEN Leaves(MarkInput(s, "done"), {})
    ELSE Leaves(s, {RunAndCallNext(i + 1)})

\* Mutant: the next step is called after a failure too.
TaskCallsNextAlways(s, i) ==
    IF IsDone(s.task, i)
    THEN {CallNextStepJob(s, i)}
    ELSE {CallNextStepJob(SetTaskToDone(s, i), i), CallNextStepJob(MarkFailed(s, i), i)}

\* _run_and_call_next
TaskOutcomes(s, i) ==
    IF IsDone(s.task, i)
    THEN {CallNextStepJob(s, i)}
    ELSE {CallNextStepJob(SetTaskToDone(s, i), i), Leaves(MarkFailed(s, i), {RaiseMessage(i)})}

\* run, by a user: no job follows.
RunOutcomes(s, i) ==
    LET success == SetTaskToDone(s, i) IN
    {Leaves(IF i = N THEN MarkInput(success, "done") ELSE success, {}),
     Leaves(MarkFailed(s, i), {})}

\* trigger_pipeline
TriggerOutcome(s) ==
    IF HasTasksToProcess(s.task)
    THEN Leaves(MarkInput(s, "workflow_process"), {RunAndCallNext(FirstNotDone(s.task))})
    ELSE Leaves(MarkInput(s, "done"), {})

\* _build_and_run_integration_workflow on an existing pipeline, with _update_pipeline.
UpdateOutcome(s, enabled) ==
    LET todo == ResetNextValueIfNotPrevious(enabled)
        updated == [s EXCEPT !.task = [i \in Step |->
                        IF i \in todo /\ s.task[i] # "done" THEN "todo" ELSE s.task[i]]]
    IN  IF HasTasksToProcess(updated.task)
        THEN Leaves(MarkInput(updated, "workflow_process"), {Trigger})
        ELSE Leaves(MarkInput(updated, "done"), {})

\* A transaction that only raises has no outcome to commit.
Outcomes(k, s) ==
    CASE k.does = "trigger" -> {TriggerOutcome(s)}
      [] k.does = "task"    -> TaskOutcomes(s, k.step)
      [] k.does = "run"     -> RunOutcomes(s, k.step)
      [] k.does = "update"  -> {UpdateOutcome(s, enabled) : enabled \in SUBSET Step}
      [] OTHER              -> {}

\* The rows that are updated: the ORM writes no field that keeps its value.
Written(s, o) ==
    {i \in Step : o.task[i] # s.task[i]}
        \cup (IF o.file # s.file THEN {File} ELSE {})

-----------------------------------------------------------------------------
(* The pipeline is created with the order: _build_and_run_integration_workflow *)

Init ==
    \E enabled \in SUBSET Step :
        LET todo == ResetNextValueIfNotPrevious(enabled) IN
        /\ task = [i \in Step |-> IF i \in todo THEN "todo" ELSE "skip"]
        /\ file = IF todo = {} THEN "done" ELSE "workflow_process"
        /\ queued = [k \in JobKind |-> IF k = Trigger /\ todo # {} THEN 1 ELSE 0]
        /\ failed = {}
        /\ kind = [w \in Worker |-> Nothing]
        /\ snap = [w \in Worker |-> NoSnapshot]
        /\ changed = [w \in Worker |-> {}]
        /\ acts = 0 /\ executed = [i \in Step |-> 0]
        /\ opened = {} /\ manual = FALSE /\ hidden = FALSE

-----------------------------------------------------------------------------
(* Transactions *)

\* A webhook or a user does something.
Act == acts < MaxActs /\ acts' = acts + 1

\* The rows in W are committed: transactions in progress have not seen it.
Touch(W) == changed' = [w \in Worker |-> IF kind'[w] = Nothing THEN {} ELSE changed[w] \cup W]

\* The job has left the queue when the snapshot is taken: _try_perform_job commits
\* that it is started before it performs it.
Begin(w, k) ==
    /\ kind[w] = Nothing
    /\ kind' = [kind EXCEPT ![w] = k]
    /\ snap' = [snap EXCEPT ![w] = Now(queued')]
    /\ UNCHANGED <<rows, failed, changed, executed, opened, manual, hidden>>

\* A handler executes a waiting job.
BeginJob(w, k) ==
    /\ queued[k] > 0
    /\ queued' = [queued EXCEPT ![k] = @ - 1]
    /\ Begin(w, k) /\ UNCHANGED acts

\* A webhook, or a user who processes the input file again.
BeginUpdate(w) == Act /\ UNCHANGED queued /\ Begin(w, Update)

\* A user runs a step that is active and whose turn it is.
BeginRun(w, i) ==
    /\ Act /\ ~IsDone(task, i) /\ PreviousDone(task, i)
    /\ UNCHANGED queued /\ Begin(w, Run(i))

End(w) == kind' = [kind EXCEPT ![w] = Nothing] /\ snap' = [snap EXCEPT ![w] = NoSnapshot]

\* Mutant: the transactions are READ COMMITTED.
SerializableAlways(w, o) == TRUE

\* The rows that the transaction updates are those of its snapshot.
Serializable(w, o) == Written(snap[w], o) \cap changed[w] = {}

\* The queue, with the jobs that the transaction asks for.
Queue(w, o) ==
    IF o.jobs = {} THEN queued
    ELSE AddJob(queued, CHOOSE k \in o.jobs : TRUE, snap[w].waiting)

Commit(w, o) ==
    LET written == Written(snap[w], o) IN
    /\ Serializable(w, o)
    /\ Queue(w, o) \in [JobKind -> 0..MaxQueued] /\ queued' = Queue(w, o)
    /\ task' = [i \in Step |-> IF i \in written THEN o.task[i] ELSE task[i]]
    /\ file' = IF File \in written THEN o.file ELSE file
    /\ executed' = [i \in Step |-> IF i \in written /\ o.task[i] = "done" /\ executed[i] < 2
                                   THEN executed[i] + 1 ELSE executed[i]]
    /\ opened' = opened \cup {i \in Step : i \in written /\ o.task[i] = "todo"}
    /\ manual' = (manual \/ kind[w].does = "run")
    /\ hidden' = (hidden \/ \E i \in Step : RunAndCallNext(i) \in o.jobs \ snap[w].waiting
                                             /\ RaiseMessage(i) \in snap[w].waiting)
    /\ End(w) /\ Touch(written)
    /\ UNCHANGED <<failed, acts>>

\* Mutant: the job of a transaction that is rolled back is lost.
RetryLoses(w) ==
    /\ kind[w] # Nothing /\ End(w) /\ Touch({})
    /\ UNCHANGED <<rows, queued, failed, acts, executed, opened, manual, hidden>>

\* The transaction is rolled back: its job waits again, because a row has been
\* changed or because its process is killed.
Retry(w) ==
    LET k == kind[w] IN
    /\ k # Nothing
    /\ IF k \in JobKind
       THEN queued[k] < MaxQueued /\ queued' = [queued EXCEPT ![k] = @ + 1]
       ELSE UNCHANGED queued
    /\ End(w) /\ Touch({})
    /\ UNCHANGED <<rows, failed, acts, executed, opened, manual, hidden>>

\* The function raises: a report of a failure always does, a step may.
Raise(w) ==
    LET k == kind[w] IN
    /\ k.does \in {"notice", "task", "run"}
    /\ failed' = failed \cup ({k} \cap JobKind)
    /\ End(w) /\ Touch({})
    /\ UNCHANGED <<rows, queued, acts, executed, opened, manual, hidden>>

-----------------------------------------------------------------------------
(* Buttons *)

\* manual_run
ManualRun ==
    /\ Act /\ queued' = AddJob(queued, Trigger, Waiting(queued))
    /\ manual' = FALSE
    /\ UNCHANGED <<rows, failed, kind, snap, changed, executed, opened, hidden>>

\* task_force_done
TaskForceDone(i) ==
    /\ Act /\ task[i] # "done" /\ PreviousDone(task, i)
    /\ task' = [task EXCEPT ![i] = "done"]
    /\ file' = IF i = N THEN "done" ELSE file
    /\ manual' = TRUE
    /\ UNCHANGED <<queued, failed, kind, snap, executed, opened, hidden>>
    /\ Touch({i} \cup (IF file' # file THEN {File} ELSE {}))

\* task_force_draft: the effects of the step are no longer counted.
TaskForceDraft(i) ==
    /\ Act /\ task[i] # "todo"
    /\ task' = [task EXCEPT ![i] = "todo"]
    /\ executed' = [executed EXCEPT ![i] = 0] /\ opened' = opened \cup {i}
    /\ UNCHANGED <<file, queued, failed, kind, snap, manual, hidden>>
    /\ Touch({i})

\* mark_input_as_done
MarkInputAsDone ==
    /\ Act /\ file # "done" /\ file' = "done"
    /\ UNCHANGED <<task, queued, failed, kind, snap, executed, opened, manual, hidden>>
    /\ Touch({File})

\* A failed job is requeued, or set to done as its message asks for.
RequeueFailed(k) ==
    /\ k \in failed /\ failed' = failed \ {k}
    /\ queued[k] < MaxQueued /\ queued' = [queued EXCEPT ![k] = @ + 1]
    /\ UNCHANGED <<rows, kind, snap, changed, acts, executed, opened, manual, hidden>>

SetFailedToDone(k) ==
    /\ k \in failed /\ failed' = failed \ {k}
    /\ k.does = "notice"
    /\ UNCHANGED <<rows, queued, kind, snap, changed, acts, executed, opened, manual, hidden>>

-----------------------------------------------------------------------------
Job(w) ==
    \/ \E k \in JobKind : BeginJob(w, k)
    \/ \E o \in Outcomes(kind[w], snap[w]) : Commit(w, o)
    \/ Retry(w) \/ Raise(w)

Button ==
    \/ ManualRun \/ MarkInputAsDone
    \/ \E i \in Step : TaskForceDone(i) \/ TaskForceDraft(i)
    \/ \E k \in failed : RequeueFailed(k) \/ SetFailedToDone(k)

Next ==
    \/ Button
    \/ \E w \in Worker : Job(w) \/ BeginUpdate(w) \/ \E i \in Step : BeginRun(w, i)

Spec == Init /\ [][Next]_vars

-----------------------------------------------------------------------------
(* Properties *)

\* The effects of a step (a confirmed order, an invoice, a payment) are committed
\* once, however many jobs and users execute it, until a user reopens the step.
ExecutedOnce == \A i \in Step : executed[i] <= 1

\* What a transaction has read of a step is still so, or the step is one of its
\* conflicts; the step that a user runs was not done; and the effects that were
\* committed are those of a step that is done, or was reopened.
SnapshotInv ==
    /\ \A w \in Worker, i \in Step :
        kind[w] # Nothing => snap[w].task[i] = task[i] \/ i \in changed[w]
    /\ \A w \in Worker : kind[w].does = "run" =>
        kind[w].step \in Step /\ ~IsDone(snap[w].task, kind[w].step)
    /\ \A i \in Step : executed[i] # 0 => executed[i] = 1 /\ task[i] = "done"

\* A step is executed when the earlier ones are done or skipped, but for those
\* that an update or a user has put in the workflow after its creation.
InOrder ==
    [][\A i \in Step : executed'[i] > executed[i] =>
            \A j \in 1..(i - 1) : IsDone(task, j) \/ j \in opened]_vars

\* Unless a user says so, the input file is done only when every step is, but for
\* those that are put in the workflow meanwhile.
FileDoneSound ==
    [][file' = "done" /\ file # "done" /\ ~MarkInputAsDone =>
            \A i \in Step : IsDone(task', i) \/ i \in opened']_vars

\* Nobody needs to look at an order that is in process: a job goes on with it, or
\* it shows a failed step or a failed job, or its steps were changed by hand, or the
\* job of a step was not created because the report of its failure waits.
NoneAbandoned ==
    (file = "workflow_process" /\ HasTasksToProcess(task) /\ opened = {} /\ ~manual /\ ~hidden) =>
        \/ \E k \in JobKind : queued[k] > 0 \/ k \in failed
        \/ \E w \in Worker : kind[w] \in JobKind
        \/ \E i \in Step : task[i] = "failed"

=============================================================================
