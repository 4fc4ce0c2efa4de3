------------------------- MODULE OrderPipelineProofs -------------------------
(***************************************************************************)
(* Proofs about OrderPipeline, for every number of steps and of            *)
(* transactions in progress: no step takes effect twice (SnapshotInv), the *)
(* steps take effect in their order and the file is done after them        *)
(* (OrderInv), and an order is not left without a job or a visible failure *)
(* (LiveInv, with WaitInv).                                                *)
(***************************************************************************)
EXTENDS OrderPipeline, TLAPS, WellFoundedInduction

-----------------------------------------------------------------------------
(* What a transaction makes of its snapshot *)

\* A kind of job is one of the kinds of transactions, and is not the idle one.
LEMMA JobKinds ==
    /\ JobKind \subseteq Kind \ {Nothing}
    /\ Update \in Kind \ {Nothing} /\ Nothing \in Kind
    /\ \A i \in Step : Run(i) \in Kind \ {Nothing}
    /\ \A k \in Kind : k.does = "run" => k.step \in Step
    /\ \A k \in Kind : k.does = "task" => k.step \in Step
    /\ \A k \in JobKind : k.does # "run"
<1> USE DEF Kind, JobKind, Update, Nothing, Run, Trigger, RunAndCallNext, RaiseMessage
<1>1. \A k \in JobKind : k.does \in {"trigger", "task", "notice"} /\ k \in Kind
  OBVIOUS
<1>2. JobKind \subseteq Kind \ {Nothing}
  BY <1>1
<1>3. \A i \in Step : Run(i) \in Kind /\ Run(i).does = "run"
  OBVIOUS
<1>4. Nothing.does = "nothing" /\ Update.does = "update" /\ Update \in Kind /\ Nothing \in Kind
  OBVIOUS
<1>5. \A k \in Kind : k.does \in {"run", "task"} => k.step \in Step
  OBVIOUS
<1> QED
  BY ONLY <1>1, <1>2, <1>3, <1>4, <1>5

\* The steps and the file that a transaction leaves have their types, and no
\* transaction undoes a step.
LEMMA OutcomeKeepsDone ==
    ASSUME NEW s \in Snapshot, NEW k \in Kind, NEW o \in Outcomes(k, s),
           k.does = "run" => ~IsDone(s.task, k.step)
    PROVE  /\ o.task \in [Step -> TaskState] /\ o.file \in FileState
           /\ \A i \in Step : s.task[i] = "done" => o.task[i] = "done"
<1> DEFINE Keeps(t) == /\ t.task \in [Step -> TaskState] /\ t.file \in FileState
                       /\ \A i \in Step : s.task[i] = "done" => t.task[i] = "done"
<1> USE DEF TaskState, FileState
<1>1. s.task \in [Step -> TaskState] /\ s.file \in FileState
  BY DEF Snapshot
<1>2. Keeps(s)
  BY <1>1
<1>3. ASSUME NEW t \in Snapshot, NEW state \in FileState
      PROVE  MarkInput(t, state) \in Snapshot /\ MarkInput(t, state).task = t.task
  BY DEF MarkInput, Snapshot
<1>4. ASSUME NEW i \in Step
      PROVE  /\ SetTaskToDone(s, i) \in Snapshot /\ MarkFailed(s, i) \in Snapshot
             /\ Keeps(SetTaskToDone(s, i))
             /\ ~IsDone(s.task, i) => Keeps(MarkFailed(s, i))
  BY <1>1 DEF SetTaskToDone, MarkFailed, Snapshot, IsDone
<1>5. ASSUME NEW t \in Snapshot, NEW jobs
      PROVE  Leaves(t, jobs).task = t.task /\ Leaves(t, jobs).file = t.file
  BY DEF Leaves
<1>6. ASSUME NEW t \in Snapshot, Keeps(t), NEW i \in Step
      PROVE  Keeps(CallNextStepJob(t, i))
  <2> DEFINE u == MarkInput(t, "done")
  <2>1. u \in Snapshot /\ u.task = t.task /\ u.file \in FileState
    BY <1>3 DEF Snapshot
  <2>2. CallNextStepJob(t, i) = Leaves(u, {}) \/ CallNextStepJob(t, i) = Leaves(t, {RunAndCallNext(i + 1)})
    BY DEF CallNextStepJob
  <2> HIDE DEF u
  <2>3. Keeps(Leaves(u, {})) /\ Keeps(Leaves(t, {RunAndCallNext(i + 1)}))
    BY <2>1, <1>5, <1>6
  <2> QED
    BY <2>2, <2>3
<1>7. CASE k.does = "trigger"
  <2>1. o = TriggerOutcome(s)
    BY <1>7 DEF Outcomes
  <2>2. PICK state \in FileState : \E asked : o = Leaves(MarkInput(s, state), asked)
    BY <2>1, <1>3 DEF TriggerOutcome, FileState
  <2>3. MarkInput(s, state) \in Snapshot /\ MarkInput(s, state).task = s.task
    BY <1>3
  <2>4. o.task = s.task /\ o.file \in FileState
    BY <2>2, <2>3, <1>5 DEF Snapshot
  <2> QED
    BY <2>4, <1>1
<1>8. CASE k.does = "task"
  <2>1. k.step \in Step
    BY <1>8, JobKinds
  <2>2. o \in TaskOutcomes(s, k.step)
    BY <1>8 DEF Outcomes
  <2>3. CASE IsDone(s.task, k.step)
    BY <2>1, <2>2, <2>3, <1>2, <1>6 DEF TaskOutcomes
  <2>4. CASE ~IsDone(s.task, k.step)
    BY <2>1, <2>2, <2>4, <1>4, <1>5, <1>6 DEF TaskOutcomes
  <2> QED
    BY <2>3, <2>4
<1>9. CASE k.does = "run"
  <2>1. k.step \in Step /\ ~IsDone(s.task, k.step)
    BY <1>9, JobKinds
  <2>2. o \in RunOutcomes(s, k.step)
    BY <1>9 DEF Outcomes
  <2> DEFINE success == SetTaskToDone(s, k.step)
             last == IF k.step = N THEN MarkInput(success, "done") ELSE success
  <2>3. success \in Snapshot /\ Keeps(success)
    BY <2>1, <1>4
  <2>4. last \in Snapshot /\ last.task = success.task /\ last.file \in FileState
    BY <2>3, <1>3 DEF Snapshot
  <2>5. o = Leaves(last, {}) \/ o = Leaves(MarkFailed(s, k.step), {})
    BY <2>2 DEF RunOutcomes
  <2> HIDE DEF success, last
  <2>6. Keeps(Leaves(last, {})) /\ Keeps(Leaves(MarkFailed(s, k.step), {}))
    BY <2>1, <2>3, <2>4, <1>4, <1>5
  <2> QED
    BY <2>5, <2>6
<1>10. CASE k.does = "update"
  <2>1. PICK enabled \in SUBSET Step : o = UpdateOutcome(s, enabled)
    BY <1>10 DEF Outcomes
  <2> DEFINE u == [s EXCEPT !.task = [i \in Step |->
                      IF i \in enabled /\ s.task[i] # "done" THEN "todo" ELSE s.task[i]]]
  <2>2. u \in Snapshot /\ Keeps(u)
    BY <1>1 DEF Snapshot
  <2>3. o = (IF HasTasksToProcess(u.task)
             THEN Leaves(MarkInput(u, "workflow_process"), {Trigger})
             ELSE Leaves(MarkInput(u, "done"), {}))
    BY <2>1 DEF UpdateOutcome, ResetNextValueIfNotPrevious
  <2> HIDE DEF u
  <2>4. ASSUME NEW state \in FileState, NEW jobs PROVE Keeps(Leaves(MarkInput(u, state), jobs))
    BY <2>2, <1>3, <1>5 DEF Snapshot
  <2> QED
    BY <2>3, <2>4
<1>11. k.does \in {"trigger", "task", "run", "update"}
  BY DEF Outcomes
<1> QED
  BY <1>7, <1>8, <1>9, <1>10, <1>11

-----------------------------------------------------------------------------
(* Type correctness *)

LEMMA SnapshotTypes ==
    NoSnapshot \in Snapshot /\ (TypeOK => \A q : Now(q) \in Snapshot)
<1>1. NoSnapshot \in Snapshot
  BY DEF NoSnapshot, Snapshot, TaskState, FileState
<1>2. TypeOK => \A q : Now(q) \in Snapshot
  BY DEF TypeOK, Now, Waiting, Snapshot
<1> QED
  BY <1>1, <1>2

\* A transaction begins.
LEMMA BeginType ==
    ASSUME TypeOK, NEW w \in Worker, NEW k \in Kind, Begin(w, k),
           queued' \in [JobKind -> 0..MaxQueued], acts' \in 0..MaxActs
    PROVE  TypeOK'
  BY SnapshotTypes DEF TypeOK, Begin, rows

\* A transaction ends, and has written the rows in W.
LEMMA EndType ==
    ASSUME TypeOK, NEW w \in Worker, NEW W \in SUBSET Rows, End(w), Touch(W)
    PROVE  /\ kind' \in [Worker -> Kind] /\ snap' \in [Worker -> Snapshot]
           /\ changed' \in [Worker -> SUBSET Rows]
           /\ \A v \in Worker : kind'[v] = Nothing => changed'[v] = {}
  BY SnapshotTypes, JobKinds DEF TypeOK, End, Touch

\* A button has written the rows in W.
LEMMA TouchType ==
    ASSUME TypeOK, NEW W \in SUBSET Rows, Touch(W), UNCHANGED <<kind, snap>>
    PROVE  /\ kind' \in [Worker -> Kind] /\ snap' \in [Worker -> Snapshot]
           /\ changed' \in [Worker -> SUBSET Rows]
           /\ \A v \in Worker : kind'[v] = Nothing => changed'[v] = {}
  BY DEF TypeOK, Touch

LEMMA ActType == ASSUME TypeOK, Act PROVE acts' \in 0..MaxActs
  BY BoundsAssumption DEF TypeOK, Act

LEMMA WrittenType == ASSUME NEW s, NEW o PROVE Written(s, o) \in SUBSET Rows
  BY BoundsAssumption DEF Written, Rows, Step, File

LEMMA InitType == Init => TypeOK /\ SnapshotInv
<1> SUFFICES ASSUME Init PROVE TypeOK /\ SnapshotInv
  OBVIOUS
<1> USE DEF Init
<1>1. task \in [Step -> TaskState] /\ file \in FileState
  BY DEF TaskState, FileState
<1>2. queued \in [JobKind -> 0..MaxQueued]
  BY BoundsAssumption
<1>3. kind \in [Worker -> Kind] /\ snap \in [Worker -> Snapshot]
  BY SnapshotTypes, JobKinds
<1>4. changed \in [Worker -> SUBSET Rows] /\ \A w \in Worker : changed[w] = {}
  OBVIOUS
<1>5. executed \in [Step -> 0..2] /\ acts \in 0..MaxActs
  BY BoundsAssumption
<1>6. failed = {} /\ opened = {} /\ manual \in BOOLEAN /\ hidden \in BOOLEAN
  OBVIOUS
<1>7. TypeOK
  BY ONLY <1>1, <1>2, <1>3, <1>4, <1>5, <1>6 DEF TypeOK
<1>8. SnapshotInv
  BY DEF SnapshotInv, Nothing
<1> QED
  BY <1>7, <1>8

\* Every step keeps the types.
LEMMA NextType ==
    ASSUME TypeOK, SnapshotInv, [Next]_vars PROVE TypeOK'
<1>1. ASSUME NEW w \in Worker, NEW k \in JobKind, BeginJob(w, k) PROVE TypeOK'
  <2>1. queued' \in [JobKind -> 0..MaxQueued] /\ acts' \in 0..MaxActs
    BY <1>1, BoundsAssumption DEF BeginJob, TypeOK
  <2>2. k \in Kind /\ Begin(w, k)
    BY <1>1, JobKinds DEF BeginJob
  <2> QED
    BY <2>1, <2>2, BeginType
<1>2. ASSUME NEW w \in Worker, BeginUpdate(w) PROVE TypeOK'
  <2>1. queued' \in [JobKind -> 0..MaxQueued] /\ acts' \in 0..MaxActs
    BY <1>2, ActType DEF BeginUpdate, TypeOK
  <2> QED
    BY <1>2, <2>1, BeginType, JobKinds DEF BeginUpdate
<1>3. ASSUME NEW w \in Worker, NEW i \in Step, BeginRun(w, i) PROVE TypeOK'
  <2>1. queued' \in [JobKind -> 0..MaxQueued] /\ acts' \in 0..MaxActs
    BY <1>3, ActType DEF BeginRun, TypeOK
  <2> QED
    BY <1>3, <2>1, BeginType, JobKinds DEF BeginRun
<1>4. ASSUME NEW w \in Worker, NEW o \in Outcomes(kind[w], snap[w]), Commit(w, o) PROVE TypeOK'
  <2>1. kind[w] \in Kind /\ snap[w] \in Snapshot
    BY DEF TypeOK
  <2>2. kind[w].does = "run" => ~IsDone(snap[w].task, kind[w].step)
    BY DEF SnapshotInv
  <2>3. o.task \in [Step -> TaskState] /\ o.file \in FileState
    BY <2>1, <2>2, OutcomeKeepsDone
  <2> DEFINE written == Written(snap[w], o)
  <2>4. End(w) /\ Touch(written) /\ written \in SUBSET Rows
    BY <1>4, WrittenType DEF Commit
  <2> HIDE DEF written
  <2>5. /\ kind' \in [Worker -> Kind] /\ snap' \in [Worker -> Snapshot]
        /\ changed' \in [Worker -> SUBSET Rows]
        /\ \A v \in Worker : kind'[v] = Nothing => changed'[v] = {}
    BY <2>4, EndType
  <2>6. task' \in [Step -> TaskState] /\ file' \in FileState
    BY <1>4, <2>3 DEF Commit, TypeOK
  <2>7. executed' \in [Step -> 0..2]
    BY <1>4 DEF Commit, TypeOK
  <2>8. queued' \in [JobKind -> 0..MaxQueued] /\ acts' = acts /\ failed' = failed
    BY <1>4 DEF Commit
  <2>9. opened' \in SUBSET Step
    BY <1>4 DEF Commit, TypeOK
  <2>10. manual' \in BOOLEAN /\ hidden' \in BOOLEAN
    BY <1>4 DEF Commit
  <2> QED
    BY <2>5, <2>6, <2>7, <2>8, <2>9, <2>10 DEF TypeOK
<1>5. ASSUME NEW w \in Worker, Retry(w) PROVE TypeOK'
  <2>1. queued' \in [JobKind -> 0..MaxQueued]
    BY <1>5, BoundsAssumption DEF Retry, TypeOK
  <2>2. /\ kind' \in [Worker -> Kind] /\ snap' \in [Worker -> Snapshot]
        /\ changed' \in [Worker -> SUBSET Rows]
        /\ \A v \in Worker : kind'[v] = Nothing => changed'[v] = {}
    BY <1>5, EndType DEF Retry
  <2> QED
    BY <1>5, <2>1, <2>2 DEF Retry, TypeOK, rows
<1>6. ASSUME NEW w \in Worker, Raise(w) PROVE TypeOK'
  <2>1. failed' \in SUBSET JobKind
    BY <1>6 DEF Raise, TypeOK
  <2>2. /\ kind' \in [Worker -> Kind] /\ snap' \in [Worker -> Snapshot]
        /\ changed' \in [Worker -> SUBSET Rows]
        /\ \A v \in Worker : kind'[v] = Nothing => changed'[v] = {}
    BY <1>6, EndType DEF Raise
  <2> QED
    BY <1>6, <2>1, <2>2 DEF Raise, TypeOK, rows
<1>7. ASSUME ManualRun PROVE TypeOK'
  <2>1. Trigger \in JobKind
    BY DEF JobKind
  <2>2. Trigger \notin Waiting(queued) => queued[Trigger] = 0
    BY <2>1 DEF Waiting, TypeOK
  <2>3. queued' = queued \/ (Trigger \notin Waiting(queued) /\ queued' = [queued EXCEPT ![Trigger] = @ + 1])
    BY <1>7 DEF ManualRun, AddJob
  <2>4. queued' \in [JobKind -> 0..MaxQueued]
    BY <2>1, <2>2, <2>3, BoundsAssumption DEF TypeOK
  <2> QED
    BY <1>7, <2>4, ActType DEF ManualRun, TypeOK, rows
<1>8. ASSUME NEW i \in Step, TaskForceDone(i) PROVE TypeOK'
  <2>1. {i} \cup (IF file' # file THEN {File} ELSE {}) \in SUBSET Rows
    BY BoundsAssumption DEF Rows, Step, File
  <2>2. /\ kind' \in [Worker -> Kind] /\ snap' \in [Worker -> Snapshot]
        /\ changed' \in [Worker -> SUBSET Rows]
        /\ \A v \in Worker : kind'[v] = Nothing => changed'[v] = {}
    BY <1>8, <2>1, TouchType DEF TaskForceDone
  <2>3. task' \in [Step -> TaskState] /\ file' \in FileState
    BY <1>8 DEF TaskForceDone, TypeOK, TaskState, FileState
  <2> QED
    BY <1>8, <2>2, <2>3, ActType DEF TaskForceDone, TypeOK
<1>9. ASSUME NEW i \in Step, TaskForceDraft(i) PROVE TypeOK'
  <2>1. {i} \in SUBSET Rows
    BY BoundsAssumption DEF Rows, Step
  <2>2. /\ kind' \in [Worker -> Kind] /\ snap' \in [Worker -> Snapshot]
        /\ changed' \in [Worker -> SUBSET Rows]
        /\ \A v \in Worker : kind'[v] = Nothing => changed'[v] = {}
    BY <1>9, <2>1, TouchType DEF TaskForceDraft
  <2>3. task' \in [Step -> TaskState] /\ executed' \in [Step -> 0..2]
    BY <1>9 DEF TaskForceDraft, TypeOK, TaskState
  <2> QED
    BY <1>9, <2>2, <2>3, ActType DEF TaskForceDraft, TypeOK
<1>10. ASSUME MarkInputAsDone PROVE TypeOK'
  <2>1. {File} \in SUBSET Rows
    BY BoundsAssumption DEF Rows, File
  <2>2. /\ kind' \in [Worker -> Kind] /\ snap' \in [Worker -> Snapshot]
        /\ changed' \in [Worker -> SUBSET Rows]
        /\ \A v \in Worker : kind'[v] = Nothing => changed'[v] = {}
    BY <1>10, <2>1, TouchType DEF MarkInputAsDone
  <2> QED
    BY <1>10, <2>2, ActType DEF MarkInputAsDone, TypeOK, FileState
<1>11. ASSUME NEW k \in failed, RequeueFailed(k) PROVE TypeOK'
  <2>1. queued' \in [JobKind -> 0..MaxQueued] /\ failed' \in SUBSET JobKind
    BY <1>11, BoundsAssumption DEF RequeueFailed, TypeOK
  <2> QED
    BY <1>11, <2>1 DEF RequeueFailed, TypeOK, rows
<1>12. ASSUME NEW k \in failed, SetFailedToDone(k) PROVE TypeOK'
  BY <1>12 DEF SetFailedToDone, TypeOK, rows
<1>13. ASSUME UNCHANGED vars PROVE TypeOK'
  BY <1>13 DEF vars, TypeOK
<1> QED
  BY <1>1, <1>2, <1>3, <1>4, <1>5, <1>6, <1>7, <1>8, <1>9, <1>10, <1>11, <1>12, <1>13
     DEF Next, Job, Button

-----------------------------------------------------------------------------
(* Snapshots *)

\* The conflicts of a transaction follow the steps: a transaction that is not over
\* has the rows in W among its conflicts, and the others are as before.
LEMMA TouchSnapshot ==
    ASSUME TypeOK, SnapshotInv, NEW W, Touch(W),
           \A v \in Worker : kind'[v] = Nothing \/ (kind'[v] = kind[v] /\ snap'[v] = snap[v]),
           \A i \in Step : task'[i] = task[i] \/ i \in W
    PROVE  /\ \A v \in Worker, i \in Step :
                kind'[v] # Nothing => snap'[v].task[i] = task'[i] \/ i \in changed'[v]
           /\ \A v \in Worker : kind'[v].does = "run" =>
                kind'[v].step \in Step /\ ~IsDone(snap'[v].task, kind'[v].step)
<1>1. \A v \in Worker : kind'[v] # Nothing => changed'[v] = changed[v] \cup W
  BY DEF Touch
<1>2. \A v \in Worker : kind'[v].does = "run" => kind'[v] # Nothing
  BY DEF Nothing
<1> QED
  BY <1>1, <1>2 DEF SnapshotInv

\* A transaction that is over, and the others.
LEMMA EndOthers ==
    ASSUME TypeOK, NEW w \in Worker, End(w)
    PROVE  \A v \in Worker : kind'[v] = Nothing \/ (kind'[v] = kind[v] /\ snap'[v] = snap[v])
  BY DEF End, TypeOK

\* A transaction begins, and its snapshot is what there is.
LEMMA BeginSnapshot ==
    ASSUME TypeOK, SnapshotInv, NEW w \in Worker, NEW k \in Kind, Begin(w, k),
           k.does = "run" => ~IsDone(task, k.step)
    PROVE  SnapshotInv'
<1>1. UNCHANGED <<task, changed, executed>>
  BY DEF Begin, rows
<1>2. \A v \in Worker \ {w} : kind'[v] = kind[v] /\ snap'[v] = snap[v]
  BY DEF Begin, TypeOK
<1>3. kind'[w] = k /\ snap'[w].task = task
  BY DEF Begin, TypeOK, Now
<1>4. k.does = "run" => k.step \in Step
  BY JobKinds
<1> QED
  BY <1>1, <1>2, <1>3, <1>4 DEF SnapshotInv, IsDone

\* Every step keeps the snapshots right: a commit changes a step only if it is as
\* in the snapshot, and so brings to done only a step that was not.
LEMMA NextSnapshot ==
    ASSUME TypeOK, SnapshotInv, [Next]_vars PROVE SnapshotInv'
<1>1. ASSUME NEW w \in Worker, NEW k \in JobKind, BeginJob(w, k) PROVE SnapshotInv'
  BY <1>1, BeginSnapshot, JobKinds DEF BeginJob
<1>2. ASSUME NEW w \in Worker, BeginUpdate(w) PROVE SnapshotInv'
  <2>1. Update \in Kind /\ Update.does # "run"
    BY JobKinds DEF Update
  <2> QED
    BY <1>2, <2>1, BeginSnapshot DEF BeginUpdate
<1>3. ASSUME NEW w \in Worker, NEW i \in Step, BeginRun(w, i) PROVE SnapshotInv'
  <2>1. Run(i) \in Kind /\ Run(i).step = i
    BY JobKinds DEF Run
  <2> QED
    BY <1>3, <2>1, BeginSnapshot DEF BeginRun
<1>4. ASSUME NEW w \in Worker, NEW o \in Outcomes(kind[w], snap[w]), Commit(w, o) PROVE SnapshotInv'
  <2> DEFINE written == Written(snap[w], o)
  <2>1. kind[w] \in Kind /\ snap[w] \in Snapshot /\ kind[w] # Nothing
    BY DEF TypeOK, Outcomes, Nothing
  <2>2. kind[w].does = "run" => ~IsDone(snap[w].task, kind[w].step)
    BY DEF SnapshotInv
  <2>3. \A i \in Step : snap[w].task[i] = "done" => o.task[i] = "done"
    BY <2>1, <2>2, OutcomeKeepsDone
  <2>4. \A i \in Step : i \in written <=> o.task[i] # snap[w].task[i]
    BY BoundsAssumption DEF Written, Step, File
  <2>5. \A i \in Step : i \in written => snap[w].task[i] = task[i] /\ task[i] # "done"
    BY <1>4, <2>1, <2>3, <2>4 DEF Commit, Serializable, SnapshotInv
  <2>6. \A i \in Step : task'[i] = IF i \in written THEN o.task[i] ELSE task[i]
    BY <1>4 DEF Commit
  <2>7. Touch(written) /\ End(w)
    BY <1>4 DEF Commit
  <2>8. \A i \in Step : executed'[i] = IF i \in written /\ o.task[i] = "done" /\ executed[i] < 2
                                       THEN executed[i] + 1 ELSE executed[i]
    BY <1>4 DEF Commit
  <2> HIDE DEF written
  <2>9. \A i \in Step : task'[i] = task[i] \/ i \in written
    BY <2>6
  <2>10. \A i \in Step : executed'[i] # 0 => executed'[i] = 1 /\ task'[i] = "done"
    <3> SUFFICES ASSUME NEW i \in Step, executed'[i] # 0
                 PROVE  executed'[i] = 1 /\ task'[i] = "done"
      OBVIOUS
    <3>1. CASE i \in written
      <4>1. executed[i] = 0
        BY <3>1, <2>5 DEF SnapshotInv
      <4> QED
        BY <3>1, <4>1, <2>6, <2>8
    <3>2. CASE i \notin written
      BY <3>2, <2>6, <2>8 DEF SnapshotInv
    <3> QED
      BY <3>1, <3>2
  <2> QED
    BY <2>7, <2>9, <2>10, EndOthers, TouchSnapshot DEF SnapshotInv
<1>5. ASSUME NEW w \in Worker, End(w), Touch({}), UNCHANGED <<task, executed>> PROVE SnapshotInv'
  BY <1>5, EndOthers, TouchSnapshot DEF SnapshotInv
<1>6. ASSUME NEW W, Touch(W), UNCHANGED <<kind, snap>>,
             \A i \in Step : task'[i] = task[i] \/ i \in W,
             \A i \in Step : executed'[i] # 0 => executed'[i] = 1 /\ task'[i] = "done"
      PROVE  SnapshotInv'
  BY <1>6, TouchSnapshot DEF SnapshotInv
<1>7. ASSUME NEW i \in Step, TaskForceDone(i) PROVE SnapshotInv'
  <2> DEFINE W == {i} \cup (IF file' # file THEN {File} ELSE {})
  <2>1. Touch(W) /\ UNCHANGED <<kind, snap, executed>>
    BY <1>7 DEF TaskForceDone
  <2>2. task'[i] = "done" /\ \A j \in Step \ {i} : task'[j] = task[j]
    BY <1>7 DEF TaskForceDone, TypeOK
  <2>3. i \in W
    OBVIOUS
  <2> HIDE DEF W
  <2>4. \A j \in Step : executed'[j] # 0 => executed'[j] = 1 /\ task'[j] = "done"
    BY <2>1, <2>2 DEF SnapshotInv
  <2>5. \A j \in Step : task'[j] = task[j] \/ j \in W
    BY <2>2, <2>3
  <2> QED
    BY <2>1, <2>4, <2>5, <1>6
<1>8. ASSUME NEW i \in Step, TaskForceDraft(i) PROVE SnapshotInv'
  <2>1. Touch({i}) /\ UNCHANGED <<kind, snap>>
    BY <1>8 DEF TaskForceDraft
  <2>2. executed'[i] = 0 /\ \A j \in Step \ {i} : task'[j] = task[j] /\ executed'[j] = executed[j]
    BY <1>8 DEF TaskForceDraft, TypeOK
  <2>3. \A j \in Step : executed'[j] # 0 => executed'[j] = 1 /\ task'[j] = "done"
    BY <2>2 DEF SnapshotInv
  <2> QED
    BY <2>1, <2>2, <2>3, <1>6
<1>9. ASSUME MarkInputAsDone PROVE SnapshotInv'
  BY <1>9, <1>6 DEF MarkInputAsDone, SnapshotInv
<1>10. ASSUME UNCHANGED <<task, kind, snap, changed, executed>> PROVE SnapshotInv'
  BY <1>10 DEF SnapshotInv
<1> QED
  BY <1>1, <1>2, <1>3, <1>4, <1>5, <1>7, <1>8, <1>9, <1>10
     DEF Next, Job, Button, Retry, Raise, ManualRun, RequeueFailed, SetFailedToDone, rows, vars

-----------------------------------------------------------------------------
(* What each transaction leaves *)

\* After the step i, a job calls the next one or ends the workflow.
GoesOn(o, file0, i) ==
    \/ o.jobs = {} /\ o.file = "done" /\ (i = N \/ ~HasTasksToProcess(o.task))
    \/ i # N /\ o.jobs = {RunAndCallNext(i + 1)} /\ o.file = file0

LEMMA CallNextIs ==
    ASSUME NEW t \in Snapshot, NEW i \in Step
    PROVE  /\ CallNextStepJob(t, i).task = t.task
           /\ GoesOn(CallNextStepJob(t, i), t.file, i)
<1> DEFINE u == MarkInput(t, "done")
<1>1. u.task = t.task /\ u.file = "done"
  BY DEF MarkInput, Snapshot
<1> HIDE DEF u
<1>2. CASE ~HasTasksToProcess(t.task) \/ i = N
  <2>1. CallNextStepJob(t, i) = Leaves(u, {})
    BY <1>2 DEF CallNextStepJob, u
  <2> QED
    BY <2>1, <1>1, <1>2 DEF Leaves, GoesOn
<1>3. CASE ~(~HasTasksToProcess(t.task) \/ i = N)
  <2>1. CallNextStepJob(t, i) = Leaves(t, {RunAndCallNext(i + 1)})
    BY <1>3 DEF CallNextStepJob
  <2> QED
    BY <2>1, <1>3 DEF Leaves, GoesOn
<1> QED
  BY <1>2, <1>3

\* The job of the step i leaves it done and goes on, or leaves it failed.
LEMMA TaskOutcomeIs ==
    ASSUME NEW s \in Snapshot, NEW i \in Step, NEW o \in TaskOutcomes(s, i)
    PROVE  /\ \A j \in Step \ {i} : o.task[j] = s.task[j]
           /\ \/ IsDone(s.task, i) /\ o.task = s.task /\ GoesOn(o, s.file, i)
              \/ ~IsDone(s.task, i) /\ o.task[i] = "done" /\ GoesOn(o, s.file, i)
              \/ /\ ~IsDone(s.task, i) /\ o.task[i] = "failed"
                 /\ o.file = s.file /\ o.jobs = {RaiseMessage(i)}
<1>1. s.task \in [Step -> TaskState]
  BY DEF Snapshot
<1>2. CASE IsDone(s.task, i)
  BY <1>2, CallNextIs DEF TaskOutcomes
<1>3. CASE ~IsDone(s.task, i)
  <2> DEFINE done == SetTaskToDone(s, i)
             fail == MarkFailed(s, i)
  <2>1. /\ done \in Snapshot /\ done.task[i] = "done" /\ done.file = s.file
        /\ \A j \in Step \ {i} : done.task[j] = s.task[j]
    BY <1>1 DEF SetTaskToDone, Snapshot, TaskState
  <2>2. /\ fail.task[i] = "failed" /\ fail.file = s.file
        /\ \A j \in Step \ {i} : fail.task[j] = s.task[j]
    BY <1>1 DEF MarkFailed, Snapshot
  <2>3. o = CallNextStepJob(done, i) \/ o = Leaves(fail, {RaiseMessage(i)})
    BY <1>3 DEF TaskOutcomes
  <2> HIDE DEF done, fail
  <2>4. CASE o = CallNextStepJob(done, i)
    BY <2>4, <2>1, <1>3, CallNextIs
  <2>5. CASE o = Leaves(fail, {RaiseMessage(i)})
    BY <2>5, <2>2, <1>3 DEF Leaves
  <2> QED
    BY <2>3, <2>4, <2>5
<1> QED
  BY <1>2, <1>3

\* A user who runs the step i leaves it done or failed, and asks for no job.
LEMMA RunOutcomeIs ==
    ASSUME NEW s \in Snapshot, NEW i \in Step, NEW o \in RunOutcomes(s, i)
    PROVE  /\ \A j \in Step \ {i} : o.task[j] = s.task[j]
           /\ o.jobs = {} /\ o.task[i] \in {"done", "failed"}
           /\ o.file # s.file => i = N /\ o.task[i] = "done"
<1>1. s.task \in [Step -> TaskState]
  BY DEF Snapshot
<1> DEFINE done == SetTaskToDone(s, i)
           fail == MarkFailed(s, i)
           last == IF i = N THEN MarkInput(done, "done") ELSE done
<1>2. /\ done \in Snapshot /\ done.task[i] = "done" /\ done.file = s.file
      /\ \A j \in Step \ {i} : done.task[j] = s.task[j]
  BY <1>1 DEF SetTaskToDone, Snapshot, TaskState
<1>3. /\ fail.task[i] = "failed" /\ fail.file = s.file
      /\ \A j \in Step \ {i} : fail.task[j] = s.task[j]
  BY <1>1 DEF MarkFailed, Snapshot
<1>4. o = Leaves(last, {}) \/ o = Leaves(fail, {})
  BY DEF RunOutcomes
<1> HIDE DEF done, fail
<1>5. last.task = done.task /\ (i # N => last.file = done.file)
  BY <1>2 DEF MarkInput, Snapshot
<1> HIDE DEF last
<1>6. CASE o = Leaves(last, {})
  BY <1>6, <1>2, <1>5 DEF Leaves
<1>7. CASE o = Leaves(fail, {})
  BY <1>7, <1>3 DEF Leaves
<1> QED
  BY <1>4, <1>6, <1>7

\* The trigger calls the first step that is not done, or ends the workflow.
LEMMA TriggerOutcomeIs ==
    ASSUME NEW s \in Snapshot
    PROVE  /\ TriggerOutcome(s).task = s.task
           /\ \/ /\ HasTasksToProcess(s.task) /\ TriggerOutcome(s).file = "workflow_process"
                 /\ TriggerOutcome(s).jobs = {RunAndCallNext(FirstNotDone(s.task))}
              \/ ~HasTasksToProcess(s.task) /\ TriggerOutcome(s).jobs = {}
<1>1. \A state \in FileState : MarkInput(s, state).task = s.task /\ MarkInput(s, state).file = state
  BY DEF MarkInput, Snapshot
<1>2. CASE HasTasksToProcess(s.task)
  BY <1>1, <1>2 DEF TriggerOutcome, Leaves, FileState
<1>3. CASE ~HasTasksToProcess(s.task)
  BY <1>1, <1>3 DEF TriggerOutcome, Leaves, FileState
<1> QED
  BY <1>2, <1>3

\* An update puts steps in the workflow, and asks for the trigger when one is left.
LEMMA UpdateOutcomeIs ==
    ASSUME NEW s \in Snapshot, NEW enabled \in SUBSET Step, NEW o, o = UpdateOutcome(s, enabled)
    PROVE  /\ \A j \in Step : o.task[j] = s.task[j] \/ (s.task[j] # "done" /\ o.task[j] = "todo")
           /\ \/ o.jobs = {Trigger} /\ o.file = "workflow_process"
              \/ o.jobs = {} /\ ~HasTasksToProcess(o.task)
<1> DEFINE u == [s EXCEPT !.task = [i \in Step |->
                    IF i \in enabled /\ s.task[i] # "done" THEN "todo" ELSE s.task[i]]]
<1>1. o = (IF HasTasksToProcess(u.task)
           THEN Leaves(MarkInput(u, "workflow_process"), {Trigger})
           ELSE Leaves(MarkInput(u, "done"), {}))
  BY DEF UpdateOutcome, ResetNextValueIfNotPrevious
<1>2. u \in Snapshot /\ \A j \in Step : u.task[j] = s.task[j] \/ (s.task[j] # "done" /\ u.task[j] = "todo")
  BY DEF Snapshot, TaskState
<1> HIDE DEF u
<1>3. \A state \in FileState : MarkInput(u, state).task = u.task /\ MarkInput(u, state).file = state
  BY <1>2 DEF MarkInput, Snapshot
<1>4. CASE HasTasksToProcess(u.task)
  <2>1. o = Leaves(MarkInput(u, "workflow_process"), {Trigger})
    BY <1>1, <1>4
  <2>2. o.task = u.task /\ o.jobs = {Trigger} /\ o.file = "workflow_process"
    BY <2>1, <1>3 DEF Leaves, FileState
  <2> QED
    BY <2>2, <1>2
<1>5. CASE ~HasTasksToProcess(u.task)
  <2>1. o = Leaves(MarkInput(u, "done"), {})
    BY <1>1, <1>5
  <2>2. o.task = u.task /\ o.jobs = {}
    BY <2>1, <1>3 DEF Leaves, FileState
  <2> QED
    BY <2>2, <1>2, <1>5
<1> QED
  BY <1>4, <1>5

\* A set of numbers has a least one.
LEMMA LeastExists ==
    ASSUME NEW T, T \subseteq Nat, T # {}
    PROVE  \E t \in T : \A u \in T : t <= u
<1>1. \E t \in T : \A u \in T : <<u, t>> \notin OpToRel(<, Nat)
  BY WFMin, NatLessThanWellFounded, Zenon
<1>2. \E t \in T : \A u \in T : ~(u < t)
  BY <1>1 DEF OpToRel
<1>3. \A t, u \in T : ~(u < t) => t <= u
  OBVIOUS
<1> QED
  BY <1>2, <1>3, Zenon

\* The first step that is not done comes after those that are.
LEMMA FirstNotDoneIs ==
    ASSUME NEW tasks \in [Step -> TaskState], HasTasksToProcess(tasks)
    PROVE  /\ FirstNotDone(tasks) \in Step
           /\ \A j \in 1..(FirstNotDone(tasks) - 1) : tasks[j] = "done"
<1> DEFINE T == {i \in Step : tasks[i] # "done"}
           First(i) == tasks[i] # "done" /\ \A j \in Step : tasks[j] # "done" => i <= j
           m == CHOOSE i \in Step : First(i)
<1>1. T \subseteq Nat /\ T # {}
  BY DEF Step, HasTasksToProcess, IsDone
<1>2. \E i \in T : \A j \in T : i <= j
  BY <1>1, LeastExists
<1>3. \E i \in Step : First(i)
  BY <1>2
<1>4. m \in Step /\ First(m)
  BY <1>3, Zenon
<1>5. FirstNotDone(tasks) = m
  BY DEF FirstNotDone
<1> HIDE DEF m
<1>6. \A j \in 1..(m - 1) : j \in Step /\ ~(m <= j)
  BY <1>4, BoundsAssumption DEF Step
<1> QED
  BY <1>4, <1>5, <1>6

-----------------------------------------------------------------------------
(* The order of the steps *)

\* A step is over, or it was put in the workflow after its creation.
Passed(i) == IsDone(task, i) \/ i \in opened
PassedBefore(i) == \A j \in 1..(i - 1) : Passed(j)

\* What a transaction has read as over is passed; and before the step of a job that
\* waits, has failed or is in progress, and of a user who runs one, all are passed.
OrderInv ==
    /\ \A w \in Worker, i \in Step : kind[w] # Nothing /\ IsDone(snap[w].task, i) => Passed(i)
    /\ \A i \in Step :
        queued[RunAndCallNext(i)] > 0 \/ RunAndCallNext(i) \in failed => PassedBefore(i)
    /\ \A w \in Worker : kind[w].does \in {"task", "run"} => PassedBefore(kind[w].step)

\* The outcome o of the transaction of w, one step at a time: nothing for a job that
\* reports, a reopening for an update, a result for the step that is executed.
LEMMA OutcomeSteps ==
    ASSUME TypeOK, SnapshotInv, NEW w \in Worker, NEW o \in Outcomes(kind[w], snap[w]), NEW i \in Step
    PROVE  \/ o.task[i] = snap[w].task[i]
           \/ o.task[i] = "todo" /\ kind[w].does = "update"
           \/ /\ kind[w].does \in {"task", "run"} /\ i = kind[w].step
              /\ ~IsDone(snap[w].task, i) /\ o.task[i] \in {"done", "failed"}
<1> DEFINE k == kind[w] s == snap[w]
<1>1. k \in Kind /\ s \in Snapshot
  BY DEF TypeOK
<1>2. CASE k.does = "trigger"
  BY <1>1, <1>2, TriggerOutcomeIs DEF Outcomes
<1>3. CASE k.does = "task"
  <2>1. k.step \in Step
    BY <1>1, <1>3, JobKinds
  <2>2. o \in TaskOutcomes(s, k.step)
    BY <1>3 DEF Outcomes
  <2> QED
    BY <1>1, <1>3, <2>1, <2>2, TaskOutcomeIs
<1>4. CASE k.does = "run"
  <2>1. k.step \in Step /\ ~IsDone(s.task, k.step)
    BY <1>4 DEF SnapshotInv
  <2>2. o \in RunOutcomes(s, k.step)
    BY <1>4 DEF Outcomes
  <2> QED
    BY <1>1, <1>4, <2>1, <2>2, RunOutcomeIs
<1>5. CASE k.does = "update"
  <2>1. PICK enabled \in SUBSET Step : o = UpdateOutcome(s, enabled)
    BY <1>5 DEF Outcomes
  <2> QED
    BY <1>1, <1>5, <2>1, UpdateOutcomeIs
<1> QED
  BY <1>2, <1>3, <1>4, <1>5 DEF Outcomes

\* A commit writes a step as the outcome has it, if the step is as in the snapshot.
LEMMA CommitSteps ==
    ASSUME TypeOK, SnapshotInv, NEW w \in Worker, NEW o \in Outcomes(kind[w], snap[w]), Commit(w, o),
           NEW i \in Step
    PROVE  /\ \/ o.task[i] = snap[w].task[i] /\ task'[i] = task[i]
              \/ /\ o.task[i] # snap[w].task[i] /\ task'[i] = o.task[i] /\ snap[w].task[i] = task[i]
                 /\ o.task[i] = "todo" => i \in opened'
           /\ executed'[i] > executed[i] => o.task[i] = "done" /\ snap[w].task[i] # "done"
<1> DEFINE written == Written(snap[w], o)
<1>1. i \in written <=> o.task[i] # snap[w].task[i]
  BY BoundsAssumption DEF Written, Step, File
<1>2. kind[w] # Nothing
  BY DEF Outcomes, Nothing
<1>3. i \in written => snap[w].task[i] = task[i]
  BY <1>2 DEF Commit, Serializable, SnapshotInv
<1>4. task'[i] = IF i \in written THEN o.task[i] ELSE task[i]
  BY DEF Commit
<1>5. i \in written /\ o.task[i] = "todo" => i \in opened'
  BY DEF Commit
<1>6. executed'[i] > executed[i] => i \in written /\ o.task[i] = "done"
  <2>1. executed'[i] = IF i \in written /\ o.task[i] = "done" /\ executed[i] < 2
                       THEN executed[i] + 1 ELSE executed[i]
    BY DEF Commit
  <2>2. executed[i] \in 0..2
    BY DEF TypeOK
  <2> QED
    BY <2>1, <2>2
<1> HIDE DEF written
<1> QED
  BY <1>1, <1>3, <1>4, <1>5, <1>6

\* What is passed stays so.
LEMMA PassedStays ==
    ASSUME TypeOK, SnapshotInv, [Next]_vars PROVE \A i \in Step : Passed(i) => Passed(i)'
<1> SUFFICES ASSUME NEW i \in Step, Passed(i) PROVE Passed(i)'
  OBVIOUS
<1>1. ASSUME NEW w \in Worker, NEW o \in Outcomes(kind[w], snap[w]), Commit(w, o) PROVE Passed(i)'
  <2>1. opened \subseteq opened'
    BY <1>1 DEF Commit
  <2>2. CASE i \in opened
    BY <2>1, <2>2 DEF Passed
  <2>3. CASE IsDone(task, i) /\ o.task[i] = snap[w].task[i]
    BY <1>1, <2>3, CommitSteps DEF Passed, IsDone
  <2>4. CASE IsDone(task, i) /\ o.task[i] # snap[w].task[i]
    <3>1. task'[i] = o.task[i] /\ snap[w].task[i] = task[i] /\ (o.task[i] = "todo" => i \in opened')
      BY <1>1, <2>4, CommitSteps
    <3>2. IsDone(snap[w].task, i)
      BY <2>4, <3>1 DEF IsDone
    <3>3. o.task[i] = "todo"
      BY <2>4, <3>2, OutcomeSteps
    <3> QED
      BY <3>1, <3>3 DEF Passed
  <2> QED
    BY <2>2, <2>3, <2>4 DEF Passed
<1>2. ASSUME NEW j \in Step, TaskForceDone(j) PROVE Passed(i)'
  <2>1. task'[i] = task[i] \/ task'[i] = "done"
    BY <1>2 DEF TaskForceDone, TypeOK
  <2>2. opened' = opened
    BY <1>2 DEF TaskForceDone
  <2> QED
    BY <2>1, <2>2 DEF Passed, IsDone
<1>3. ASSUME NEW j \in Step, TaskForceDraft(j) PROVE Passed(i)'
  <2>1. task'[i] = task[i] \/ i = j
    BY <1>3 DEF TaskForceDraft, TypeOK
  <2>2. opened' = opened \cup {j}
    BY <1>3 DEF TaskForceDraft
  <2> QED
    BY <2>1, <2>2 DEF Passed, IsDone
<1>4. ASSUME UNCHANGED <<task, opened>> PROVE Passed(i)'
  BY <1>4 DEF Passed, IsDone
<1> QED
  BY <1>1, <1>2, <1>3, <1>4
     DEF Next, Job, Button, BeginJob, BeginUpdate, BeginRun, Begin, Retry, Raise, ManualRun,
         MarkInputAsDone, RequeueFailed, SetFailedToDone, rows, vars

\* So does the whole of what comes before a step.
LEMMA PassedBeforeStays ==
    ASSUME TypeOK, SnapshotInv, [Next]_vars, NEW i \in Step PROVE PassedBefore(i) => PassedBefore(i)'
<1>1. \A j \in 1..(i - 1) : j \in Step
  BY BoundsAssumption DEF Step
<1> QED
  BY <1>1, PassedStays DEF PassedBefore

\* What a transaction leaves as over is passed when it commits.
LEMMA CommitPassed ==
    ASSUME TypeOK, SnapshotInv, OrderInv, [Next]_vars, NEW w \in Worker,
           NEW o \in Outcomes(kind[w], snap[w]), Commit(w, o), NEW i \in Step, IsDone(o.task, i)
    PROVE  Passed(i)'
<1>1. CASE o.task[i] = snap[w].task[i]
  <2>1. kind[w] # Nothing
    BY DEF Outcomes, Nothing
  <2>2. Passed(i)
    BY <1>1, <2>1 DEF OrderInv, IsDone
  <2> QED
    BY <2>2, PassedStays
<1>2. CASE o.task[i] # snap[w].task[i]
  <2>1. task'[i] = o.task[i]
    BY <1>2, CommitSteps
  <2> QED
    BY <2>1 DEF Passed, IsDone
<1> QED
  BY <1>1, <1>2

\* The job of a step that a transaction asks for comes after steps that are passed.
LEMMA AskedAfter ==
    ASSUME TypeOK, SnapshotInv, OrderInv, [Next]_vars, NEW w \in Worker,
           NEW o \in Outcomes(kind[w], snap[w]), Commit(w, o), NEW i \in Step,
           RunAndCallNext(i) \in o.jobs
    PROVE  PassedBefore(i)'
<1> SUFFICES ASSUME NEW j \in 1..(i - 1) PROVE Passed(j)'
  BY DEF PassedBefore
<1>1. j \in Step /\ i - 1 \in Nat
  BY BoundsAssumption DEF Step
<1> DEFINE k == kind[w] s == snap[w]
<1>2. k \in Kind /\ s \in Snapshot
  BY DEF TypeOK
<1>3. CASE k.does = "trigger"
  <2>1. o = TriggerOutcome(s)
    BY <1>3 DEF Outcomes
  <2>2. HasTasksToProcess(s.task) /\ RunAndCallNext(i) = RunAndCallNext(FirstNotDone(s.task)) /\ o.task = s.task
    BY <1>2, <2>1, TriggerOutcomeIs
  <2>3. i = FirstNotDone(s.task) /\ s.task \in [Step -> TaskState]
    BY <1>2, <2>2 DEF RunAndCallNext, Snapshot
  <2>4. s.task[j] = "done"
    BY <2>2, <2>3, FirstNotDoneIs
  <2>5. IsDone(o.task, j)
    BY <2>2, <2>4 DEF IsDone
  <2> QED
    BY <1>1, <2>5, CommitPassed
<1>4. CASE k.does = "task"
  <2>1. k.step \in Step
    BY <1>2, <1>4, JobKinds
  <2>2. o \in TaskOutcomes(s, k.step)
    BY <1>4 DEF Outcomes
  <2>3. RunAndCallNext(i) # RaiseMessage(k.step)
    BY DEF RunAndCallNext, RaiseMessage
  <2>4. GoesOn(o, s.file, k.step) /\ IsDone(o.task, k.step)
    BY <1>2, <2>1, <2>2, <2>3, TaskOutcomeIs DEF IsDone
  <2>5. i = k.step + 1
    BY <2>4 DEF GoesOn, RunAndCallNext
  <2>6. CASE j = k.step
    BY <2>1, <2>4, <2>6, CommitPassed
  <2>7. CASE j # k.step
    <3>1. j \in 1..(k.step - 1)
      BY <1>1, <2>1, <2>5, <2>7 DEF Step
    <3>2. PassedBefore(k.step)
      BY <1>4 DEF OrderInv
    <3>3. Passed(j)
      BY <3>1, <3>2 DEF PassedBefore
    <3> QED
      BY <1>1, <3>3, PassedStays
  <2> QED
    BY <2>6, <2>7
<1>5. CASE k.does = "run"
  <2>1. k.step \in Step /\ o \in RunOutcomes(s, k.step)
    BY <1>2, <1>5, JobKinds DEF Outcomes
  <2> QED
    BY <1>2, <2>1, RunOutcomeIs
<1>6. CASE k.does = "update"
  <2>1. PICK enabled \in SUBSET Step : o = UpdateOutcome(s, enabled)
    BY <1>6 DEF Outcomes
  <2>2. RunAndCallNext(i) # Trigger
    BY DEF RunAndCallNext, Trigger
  <2> QED
    BY <1>2, <2>1, <2>2, UpdateOutcomeIs
<1> QED
  BY <1>3, <1>4, <1>5, <1>6 DEF Outcomes

\* OrderInv, when no transaction begins and the jobs of the steps that wait or have
\* failed did so, or come after steps that are passed.
LEMMA OrderKept ==
    ASSUME TypeOK, SnapshotInv, OrderInv, [Next]_vars,
           \A v \in Worker : kind'[v] = Nothing \/ (kind'[v] = kind[v] /\ snap'[v] = snap[v]),
           \A i \in Step : queued'[RunAndCallNext(i)] > 0 \/ RunAndCallNext(i) \in failed' =>
                \/ queued[RunAndCallNext(i)] > 0 \/ RunAndCallNext(i) \in failed
                \/ PassedBefore(i)'
    PROVE  OrderInv'
<1>1. \A v \in Worker, i \in Step :
        kind'[v] # Nothing /\ IsDone(snap'[v].task, i) => Passed(i)'
  BY PassedStays DEF OrderInv
<1>2. \A i \in Step : queued'[RunAndCallNext(i)] > 0 \/ RunAndCallNext(i) \in failed' => PassedBefore(i)'
  BY PassedBeforeStays DEF OrderInv
<1>3. ASSUME NEW v \in Worker, kind'[v].does \in {"task", "run"}
      PROVE  \A j \in 1..(kind'[v].step - 1) : Passed(j)'
  <2>1. kind'[v] = kind[v] /\ kind[v].step \in Step
    BY <1>3, JobKinds DEF Nothing, TypeOK
  <2>2. PassedBefore(kind[v].step)
    BY <1>3, <2>1 DEF OrderInv
  <2>3. \A j \in 1..(kind[v].step - 1) : Passed(j)'
    <3>1. \A j \in 1..(kind[v].step - 1) : j \in Step
      BY <2>1, BoundsAssumption DEF Step
    <3> QED
      BY <2>2, <3>1, PassedStays DEF PassedBefore
  <2> QED
    BY <2>1, <2>3
<1> QED
  BY <1>1, <1>2, <1>3 DEF OrderInv, PassedBefore

\* OrderInv, when a transaction begins whose step has its turn.
LEMMA OrderBegin ==
    ASSUME TypeOK, SnapshotInv, OrderInv, [Next]_vars, NEW w \in Worker, NEW k \in Kind, Begin(w, k),
           \A j \in JobKind : queued'[j] > 0 => queued[j] > 0,
           k.does \in {"task", "run"} => PassedBefore(k.step)
    PROVE  OrderInv'
<1>1. UNCHANGED <<task, opened, failed>>
  BY DEF Begin, rows
<1>2. \A v \in Worker \ {w} : kind'[v] = kind[v] /\ snap'[v] = snap[v]
  BY DEF Begin, TypeOK
<1>3. kind'[w] = k /\ snap'[w].task = task
  BY DEF Begin, TypeOK, Now
<1>4. \A i : Passed(i)' <=> Passed(i)
  BY <1>1 DEF Passed, IsDone
<1>5. \A v \in Worker, i \in Step :
        kind'[v] # Nothing /\ IsDone(snap'[v].task, i) => Passed(i)
  <2>1. \A i \in Step : IsDone(snap'[w].task, i) => Passed(i)
    BY <1>3 DEF Passed, IsDone
  <2> QED
    BY <2>1, <1>2 DEF OrderInv
<1>6. \A i \in Step : queued'[RunAndCallNext(i)] > 0 \/ RunAndCallNext(i) \in failed' => PassedBefore(i)
  BY <1>1 DEF OrderInv, JobKind
<1>7. \A v \in Worker : kind'[v].does \in {"task", "run"} => PassedBefore(kind'[v].step)
  BY <1>2, <1>3 DEF OrderInv
<1> QED
  BY <1>4, <1>5, <1>6, <1>7 DEF OrderInv, PassedBefore

\* The jobs that a transaction leaves in the queue waited, or it has asked for them.
LEMMA QueueOf ==
    ASSUME TypeOK, NEW w \in Worker, NEW o \in Outcomes(kind[w], snap[w]), Commit(w, o), NEW k \in JobKind
    PROVE  /\ queued[k] > 0 => queued'[k] > 0
           /\ queued'[k] > 0 => queued[k] > 0 \/ k \in o.jobs
<1>1. queued' = Queue(w, o)
  BY DEF Commit
<1>2. CASE o.jobs = {}
  BY <1>1, <1>2 DEF Queue
<1>3. CASE o.jobs # {}
  <2> DEFINE a == CHOOSE j \in o.jobs : TRUE
  <2>1. a \in o.jobs
    BY <1>3
  <2>2. queued' = AddJob(queued, a, snap[w].waiting)
    BY <1>1, <1>3 DEF Queue
  <2> HIDE DEF a
  <2>3. queued' = queued \/ queued' = [queued EXCEPT ![a] = @ + 1]
    BY <2>2 DEF AddJob
  <2>4. queued \in [JobKind -> 0..MaxQueued]
    BY DEF TypeOK
  <2>5. CASE k = a
    <3>1. queued'[k] = queued[k] \/ queued'[k] = queued[k] + 1
      BY <2>3, <2>4, <2>5
    <3>2. queued[k] \in Nat
      BY <2>4, BoundsAssumption
    <3> QED
      BY <3>1, <3>2, <2>1, <2>5
  <2>6. CASE k # a
    BY <2>3, <2>4, <2>6
  <2> QED
    BY <2>5, <2>6
<1> QED
  BY <1>2, <1>3

LEMMA NextOrder ==
    ASSUME TypeOK, SnapshotInv, OrderInv, [Next]_vars PROVE OrderInv'
<1>0. \A i \in Step : RunAndCallNext(i) \in JobKind
  BY DEF JobKind
<1>1. ASSUME NEW w \in Worker, NEW k \in JobKind, BeginJob(w, k) PROVE OrderInv'
  <2>1. \A j \in JobKind : queued'[j] > 0 => queued[j] > 0
    BY <1>1 DEF BeginJob, TypeOK
  <2>2. Begin(w, k) /\ queued[k] > 0 /\ k \in Kind /\ k.does # "run"
    BY <1>1, JobKinds DEF BeginJob
  <2>3. k.does = "task" => k.step \in Step /\ k = RunAndCallNext(k.step)
    BY DEF JobKind, Trigger, RaiseMessage, RunAndCallNext
  <2>4. k.does \in {"task", "run"} => PassedBefore(k.step)
    BY <2>2, <2>3 DEF OrderInv
  <2> QED
    BY <2>1, <2>2, <2>4, OrderBegin
<1>2. ASSUME NEW w \in Worker, BeginUpdate(w) PROVE OrderInv'
  <2>1. Begin(w, Update) /\ queued' = queued /\ Update \in Kind
    BY <1>2, JobKinds DEF BeginUpdate
  <2>2. Update.does \notin {"task", "run"}
    BY DEF Update
  <2> QED
    BY <2>1, <2>2, OrderBegin
<1>3. ASSUME NEW w \in Worker, NEW i \in Step, BeginRun(w, i) PROVE OrderInv'
  <2>1. Begin(w, Run(i)) /\ queued' = queued /\ Run(i) \in Kind /\ Run(i).step = i
    BY <1>3, JobKinds DEF BeginRun, Run
  <2>2. PassedBefore(i)
    BY <1>3 DEF BeginRun, PreviousDone, PassedBefore, Passed
  <2> QED
    BY <2>1, <2>2, OrderBegin
<1>4. ASSUME NEW w \in Worker, NEW o \in Outcomes(kind[w], snap[w]), Commit(w, o) PROVE OrderInv'
  <2>1. End(w) /\ failed' = failed
    BY <1>4 DEF Commit
  <2>2. \A i \in Step : queued'[RunAndCallNext(i)] > 0 => queued[RunAndCallNext(i)] > 0 \/ PassedBefore(i)'
    BY <1>0, <1>4, QueueOf, AskedAfter
  <2> QED
    BY <2>1, <2>2, EndOthers, OrderKept
<1>5. ASSUME NEW w \in Worker, Retry(w) \/ Raise(w) PROVE OrderInv'
  <2>1. End(w)
    BY <1>5 DEF Retry, Raise
  <2>2. ASSUME NEW i \in Step, queued'[RunAndCallNext(i)] > 0 \/ RunAndCallNext(i) \in failed'
        PROVE  \/ queued[RunAndCallNext(i)] > 0 \/ RunAndCallNext(i) \in failed
               \/ PassedBefore(i)'
    <3> DEFINE k == RunAndCallNext(i)
    <3>1. k \in JobKind /\ k.does = "task" /\ k.step = i
      BY <1>0 DEF RunAndCallNext
    <3>2. kind[w] = k \/ queued[k] > 0 \/ k \in failed
      <4>1. CASE Retry(w)
        BY <2>2, <3>1, <4>1 DEF Retry, TypeOK
      <4>2. CASE Raise(w)
        BY <2>2, <4>2 DEF Raise
      <4> QED
        BY <1>5, <4>1, <4>2
    <3>3. kind[w] = k => PassedBefore(i)
      BY <3>1 DEF OrderInv
    <3> QED
      BY <3>2, <3>3, PassedBeforeStays
  <2> QED
    BY <2>1, <2>2, EndOthers, OrderKept
<1>6. ASSUME ManualRun PROVE OrderInv'
  <2>1. UNCHANGED <<kind, snap, failed>>
    BY <1>6 DEF ManualRun
  <2>2. \A i \in Step : RunAndCallNext(i) # Trigger
    BY DEF RunAndCallNext, Trigger
  <2>3. queued' = queued \/ queued' = [queued EXCEPT ![Trigger] = @ + 1]
    BY <1>6 DEF ManualRun, AddJob
  <2>4. \A i \in Step : queued'[RunAndCallNext(i)] = queued[RunAndCallNext(i)]
    BY <1>0, <2>2, <2>3 DEF TypeOK
  <2> QED
    BY <2>1, <2>4, OrderKept
<1>7. ASSUME UNCHANGED <<kind, snap, queued, failed>> PROVE OrderInv'
  BY <1>7, OrderKept
<1>8. ASSUME NEW k \in failed, RequeueFailed(k) \/ SetFailedToDone(k) PROVE OrderInv'
  <2>1. UNCHANGED <<kind, snap>> /\ failed' \subseteq failed
    BY <1>8 DEF RequeueFailed, SetFailedToDone
  <2>2. \A j \in JobKind : queued'[j] = queued[j] \/ j \in failed
    BY <1>8 DEF RequeueFailed, SetFailedToDone, TypeOK
  <2> QED
    BY <1>0, <2>1, <2>2, OrderKept
<1> QED
  BY <1>1, <1>2, <1>3, <1>4, <1>5, <1>6, <1>7, <1>8
     DEF Next, Job, Button, TaskForceDone, TaskForceDraft, MarkInputAsDone, vars

LEMMA InitOrder == Init => OrderInv
<1> SUFFICES ASSUME Init PROVE OrderInv
  OBVIOUS
<1>1. \A w \in Worker : kind[w] = Nothing
  BY DEF Init
<1>2. \A i \in Step : queued[RunAndCallNext(i)] = 0 /\ RunAndCallNext(i) \notin failed
  <2>1. \A i \in Step : RunAndCallNext(i) \in JobKind /\ RunAndCallNext(i) # Trigger
    BY DEF JobKind, RunAndCallNext, Trigger
  <2> QED
    BY <2>1 DEF Init
<1> QED
  BY <1>1, <1>2 DEF OrderInv, Nothing

\* A step is executed by a transaction that came after steps that are passed.
LEMMA ExecutedInOrder ==
    ASSUME TypeOK, SnapshotInv, OrderInv, [Next]_vars, NEW i \in Step, executed'[i] > executed[i]
    PROVE  PassedBefore(i)
<1>1. ASSUME NEW w \in Worker, NEW o \in Outcomes(kind[w], snap[w]), Commit(w, o) PROVE PassedBefore(i)
  <2>1. o.task[i] = "done" /\ snap[w].task[i] # "done"
    BY <1>1, CommitSteps
  <2>2. kind[w].does \in {"task", "run"} /\ i = kind[w].step
    BY <2>1, OutcomeSteps
  <2> QED
    BY <2>2 DEF OrderInv
<1>2. executed[i] \in 0..2
  BY DEF TypeOK
<1>3. ASSUME NEW j \in Step, TaskForceDraft(j) PROVE FALSE
  BY <1>2, <1>3 DEF TaskForceDraft, TypeOK
<1>4. executed' # executed
  BY <1>2
<1> QED
  BY <1>1, <1>3, <1>4
     DEF Next, Job, Button, BeginJob, BeginUpdate, BeginRun, Begin, Retry, Raise, ManualRun,
         TaskForceDone, MarkInputAsDone, RequeueFailed, SetFailedToDone, vars

\* The commit that ends the workflow leaves every step passed.
LEMMA CommitEnds ==
    ASSUME TypeOK, SnapshotInv, OrderInv, [Next]_vars, NEW w \in Worker,
           NEW o \in Outcomes(kind[w], snap[w]), Commit(w, o), file' = "done", file # "done"
    PROVE  \A i \in Step : Passed(i)'
<1> DEFINE k == kind[w] s == snap[w]
<1>1. k \in Kind /\ s \in Snapshot
  BY DEF TypeOK
<1>2. o.file = "done" /\ o.file # s.file
  <2>1. File \in Written(s, o) /\ o.file = "done"
    BY DEF Commit
  <2> QED
    BY <2>1, BoundsAssumption DEF Written, File, Step
<1>3. ASSUME ~HasTasksToProcess(o.task) PROVE \A i \in Step : Passed(i)'
  BY <1>3, CommitPassed DEF HasTasksToProcess
<1>4. ASSUME k.does \in {"task", "run"}, k.step = N, IsDone(o.task, N) PROVE \A i \in Step : Passed(i)'
  <2>1. PassedBefore(N) /\ N \in Step
    BY <1>4, BoundsAssumption DEF OrderInv, Step
  <2>2. Passed(N)'
    BY <1>4, <2>1, CommitPassed
  <2>3. \A i \in Step \ {N} : i \in 1..(N - 1)
    BY BoundsAssumption DEF Step
  <2>4. \A i \in Step \ {N} : Passed(i)
    BY <2>1, <2>3 DEF PassedBefore
  <2> QED
    BY <2>2, <2>4, PassedStays
<1>5. CASE k.does = "trigger"
  BY <1>1, <1>2, <1>3, <1>5, TriggerOutcomeIs DEF Outcomes
<1>6. CASE k.does = "task"
  <2>1. k.step \in Step /\ o \in TaskOutcomes(s, k.step)
    BY <1>1, <1>6, JobKinds DEF Outcomes
  <2>2. IsDone(o.task, k.step) /\ GoesOn(o, s.file, k.step)
    BY <1>1, <1>2, <2>1, TaskOutcomeIs DEF IsDone
  <2>3. k.step = N \/ ~HasTasksToProcess(o.task)
    BY <1>2, <2>2 DEF GoesOn
  <2> QED
    BY <1>3, <1>4, <1>6, <2>2, <2>3
<1>7. CASE k.does = "run"
  <2>1. k.step \in Step /\ o \in RunOutcomes(s, k.step)
    BY <1>1, <1>7, JobKinds DEF Outcomes
  <2>2. k.step = N /\ IsDone(o.task, k.step)
    BY <1>1, <1>2, <2>1, RunOutcomeIs DEF IsDone
  <2> QED
    BY <1>4, <1>7, <2>2
<1>8. CASE k.does = "update"
  <2>1. PICK enabled \in SUBSET Step : o = UpdateOutcome(s, enabled)
    BY <1>8 DEF Outcomes
  <2>2. ~HasTasksToProcess(o.task)
    BY <1>1, <1>2, <2>1, UpdateOutcomeIs
  <2> QED
    BY <1>3, <2>2
<1> QED
  BY <1>5, <1>6, <1>7, <1>8 DEF Outcomes

\* So does the user who forces the last step.
LEMMA FileEnds ==
    ASSUME TypeOK, SnapshotInv, OrderInv, [Next]_vars, file' = "done", file # "done", ~MarkInputAsDone
    PROVE  \A i \in Step : Passed(i)'
<1>1. ASSUME NEW i \in Step, TaskForceDone(i) PROVE \A j \in Step : Passed(j)'
  <2>1. i = N /\ task' = [task EXCEPT ![N] = "done"] /\ PreviousDone(task, N)
    BY <1>1 DEF TaskForceDone
  <2>2. N \in Step /\ \A j \in Step \ {N} : j \in 1..(N - 1)
    BY BoundsAssumption DEF Step
  <2>3. \A j \in Step \ {N} : IsDone(task', j)
    BY <2>1, <2>2 DEF PreviousDone, IsDone, TypeOK
  <2>4. IsDone(task', N)
    BY <2>1, <2>2 DEF IsDone, TypeOK
  <2> QED
    BY <2>3, <2>4 DEF Passed
<1>2. ASSUME NEW w \in Worker, NEW o \in Outcomes(kind[w], snap[w]), Commit(w, o)
      PROVE  \A i \in Step : Passed(i)'
  BY <1>2, CommitEnds
<1>3. file' # file
  OBVIOUS
<1> QED
  BY <1>1, <1>2, <1>3
     DEF Next, Job, Button, BeginJob, BeginUpdate, BeginRun, Begin, Retry, Raise, ManualRun,
         TaskForceDraft, RequeueFailed, SetFailedToDone, rows, vars

-----------------------------------------------------------------------------
(* No order is abandoned *)

\* The jobs that take the workflow to its end.
Chain == {Trigger} \cup {RunAndCallNext(i) : i \in Step}

\* One of them waits, or is left to see.
Waits == \E k \in Chain : queued[k] > 0 \/ k \in failed

\* A transaction that is going to create the job of a step, or to leave its own failed:
\* its snapshot has no such job, and nobody has done its step since it had failed.
Calls(w) ==
    \/ /\ kind[w] = Trigger /\ HasTasksToProcess(snap[w].task)
       /\ RunAndCallNext(FirstNotDone(snap[w].task)) \notin snap[w].waiting
    \/ \E i \in Step :
        /\ kind[w] = RunAndCallNext(i) /\ RunAndCallNext(i + 1) \notin snap[w].waiting
        /\ snap[w].task[i] = "failed" => task[i] = "failed"

Live == Waits \/ (\E w \in Worker : Calls(w)) \/ \E i \in Step : task[i] = "failed"

\* The workflow is to go on by itself.
Open == HasTasksToProcess(task) /\ opened = {} /\ ~manual /\ ~hidden

LiveInv == Open => Live

\* A job whose snapshot has the next one waiting has nothing else to do: its own step
\* is over.
WaitInv ==
    \A w \in Worker, i \in Step :
        kind[w] = RunAndCallNext(i) /\ RunAndCallNext(i + 1) \in snap[w].waiting =>
            IsDone(snap[w].task, i) \/ opened # {}

LEMMA Chains ==
    /\ Chain \subseteq JobKind
    /\ \A i \in Step : RunAndCallNext(i) \in Chain /\ RunAndCallNext(i) # Trigger
    /\ \A i \in Nat : RunAndCallNext(i) \in JobKind => i \in Step
    /\ \A k \in JobKind \ Chain : k.does = "notice"
    /\ \A k \in Chain : k.does \in {"trigger", "task"}
    /\ \A k \in Kind : k.does = "task" => k = RunAndCallNext(k.step)
    /\ \A k \in Kind : k.does = "trigger" => k = Trigger
<1>1. Chain \subseteq JobKind /\ \A k \in JobKind \ Chain : k.does = "notice"
  BY DEF Chain, JobKind, Trigger, RunAndCallNext, RaiseMessage
<1>2. \A i \in Step : RunAndCallNext(i) \in Chain /\ RunAndCallNext(i) # Trigger
  BY DEF Chain, Trigger, RunAndCallNext, RaiseMessage
<1>3. \A i \in Nat : RunAndCallNext(i) \in JobKind => i \in Step
  BY DEF JobKind, Trigger, RunAndCallNext, RaiseMessage
<1>4. \A k \in Chain : k.does \in {"trigger", "task"}
  BY DEF Chain, Trigger, RunAndCallNext, RaiseMessage
<1>5. \A k \in Kind : k.does = "task" => k = RunAndCallNext(k.step)
  BY DEF Kind, JobKind, Update, Nothing, Run, Trigger, RunAndCallNext, RaiseMessage
<1>6. \A k \in Kind : k.does = "trigger" => k = Trigger
  BY DEF Kind, JobKind, Update, Nothing, Run, Trigger, RunAndCallNext, RaiseMessage
<1> QED
  BY <1>1, <1>2, <1>3, <1>4, <1>5, <1>6, Zenon

LEMMA CallsChain == \A w \in Worker : Calls(w) => kind[w] \in Chain
  BY DEF Calls, Chain

\* The job of the step i calls as one of this step.
LEMMA CallsStep ==
    ASSUME NEW w \in Worker, NEW i \in Step, kind[w] = RunAndCallNext(i), Calls(w)
    PROVE  /\ RunAndCallNext(i + 1) \notin snap[w].waiting
           /\ snap[w].task[i] = "failed" => task[i] = "failed"
<1>1. kind[w] # Trigger
  BY Chains
<1>2. PICK j \in Step : /\ kind[w] = RunAndCallNext(j) /\ RunAndCallNext(j + 1) \notin snap[w].waiting
                        /\ snap[w].task[j] = "failed" => task[j] = "failed"
  BY <1>1 DEF Calls
<1>3. j = i
  BY <1>2 DEF RunAndCallNext
<1> QED
  BY <1>2, <1>3

\* No step and no history is undone but by the user who runs the pipeline again.
LEMMA OpenBefore ==
    ASSUME TypeOK, SnapshotInv, [Next]_vars, Open', ~ManualRun
    PROVE  Open
<1>1. opened = {}
  <2>1. opened \subseteq opened'
    BY DEF Next, Job, Button, BeginJob, BeginUpdate, BeginRun, Begin, Commit, Retry, Raise,
           TaskForceDone, TaskForceDraft, MarkInputAsDone, RequeueFailed, SetFailedToDone, vars
  <2> QED
    BY <2>1 DEF Open
<1>2. HasTasksToProcess(task)
  <2>1. PICK i \in Step : ~IsDone(task', i)
    BY DEF Open, HasTasksToProcess
  <2>2. ~Passed(i)'
    BY <2>1 DEF Open, Passed
  <2>3. ~Passed(i)
    BY <2>2, PassedStays
  <2> QED
    BY <2>3 DEF Passed, HasTasksToProcess
<1>3. ~manual /\ ~hidden
  <2>1. ASSUME NEW w \in Worker, NEW o, Commit(w, o) PROVE (manual => manual') /\ (hidden => hidden')
    BY <2>1 DEF Commit
  <2>2. ASSUME NEW i \in Step, TaskForceDone(i) PROVE manual' /\ hidden' = hidden
    BY <2>2 DEF TaskForceDone
  <2>3. \/ UNCHANGED <<manual, hidden>>
        \/ \E w \in Worker : \E o \in Outcomes(kind[w], snap[w]) : Commit(w, o)
        \/ \E i \in Step : TaskForceDone(i)
    BY DEF Next, Job, Button, BeginJob, BeginUpdate, BeginRun, Begin, Retry, Raise,
           TaskForceDraft, MarkInputAsDone, RequeueFailed, SetFailedToDone, vars
  <2>4. (manual => manual') /\ (hidden => hidden')
    BY <2>1, <2>2, <2>3
  <2> QED
    BY <2>4 DEF Open
<1> QED
  BY <1>1, <1>2, <1>3 DEF Open

\* What keeps the workflow alive stays, when the jobs that wait do, the transactions
\* that call go on, and no failed step is done.
LEMMA LiveKept ==
    ASSUME Live,
           \A k \in Chain : queued[k] > 0 \/ k \in failed => queued'[k] > 0 \/ k \in failed',
           \A v \in Worker : Calls(v) => kind'[v] = kind[v] /\ snap'[v] = snap[v],
           \A i \in Step : task[i] = "failed" => task'[i] = "failed"
    PROVE  Live'
<1>1. CASE Waits
  BY <1>1 DEF Waits, Live
<1>2. ASSUME NEW v \in Worker, Calls(v) PROVE Calls(v)'
  <2>1. kind'[v] = kind[v] /\ snap'[v] = snap[v]
    BY <1>2
  <2> QED
    BY <1>2, <2>1 DEF Calls
<1>3. CASE \E i \in Step : task[i] = "failed"
  BY <1>3 DEF Live
<1> QED
  BY <1>1, <1>2, <1>3 DEF Live

\* A transaction begins: its job does not wait any more, and calls unless another waits.
LEMMA LiveBegin ==
    ASSUME TypeOK, Live, HasTasksToProcess(task), NEW w \in Worker, NEW k \in JobKind, BeginJob(w, k)
    PROVE  Live'
<1>1. /\ UNCHANGED <<task, failed>> /\ kind[w] = Nothing /\ kind'[w] = k /\ snap'[w] = Now(queued')
      /\ \A v \in Worker \ {w} : kind'[v] = kind[v] /\ snap'[v] = snap[v]
  BY DEF BeginJob, Begin, TypeOK, rows
<1>2. \A j \in JobKind \ {k} : queued'[j] = queued[j]
  BY DEF BeginJob, TypeOK
<1>3. CASE Waits'
  BY <1>3 DEF Live
<1>4. CASE ~Waits' /\ k \in Chain
  <2>1. ASSUME NEW i \in Nat PROVE RunAndCallNext(i) \notin snap'[w].waiting
    <3>1. snap'[w].waiting = Waiting(queued')
      BY <1>1 DEF Now
    <3>2. RunAndCallNext(i) \in Waiting(queued') => i \in Step /\ queued'[RunAndCallNext(i)] > 0
      BY Chains DEF Waiting
    <3> QED
      BY <1>4, <3>1, <3>2, Chains DEF Waits
  <2>2. snap'[w].task = task /\ task' = task
    BY <1>1 DEF Now
  <2>3. task \in [Step -> TaskState] /\ Step \subseteq Nat
    BY DEF TypeOK, Step
  <2>4. CASE k = Trigger
    <3>1. FirstNotDone(task) \in Nat
      BY <2>3, FirstNotDoneIs
    <3> QED
      BY <1>1, <2>1, <2>2, <2>4, <3>1 DEF Calls, Live
  <2>5. CASE k # Trigger
    <3>1. PICK i \in Step : k = RunAndCallNext(i)
      BY <1>4, <2>5 DEF Chain
    <3>2. i + 1 \in Nat
      BY <2>3
    <3>3. Calls(w)'
      BY <1>1, <2>1, <2>2, <3>1, <3>2 DEF Calls
    <3> QED
      BY <3>3 DEF Live
  <2> QED
    BY <2>4, <2>5
<1>5. CASE k \notin Chain
  <2>1. \A j \in Chain : queued'[j] = queued[j]
    BY <1>2, <1>5, Chains
  <2>2. \A v \in Worker : Calls(v) => v # w
    BY <1>1, CallsChain, Chains, JobKinds
  <2> QED
    BY <1>1, <2>1, <2>2, LiveKept
<1> QED
  BY <1>3, <1>4, <1>5

\* The job of a step that a transaction asks for waits, unless the snapshot has it, or
\* the report that hides it.
LEMMA Asked ==
    ASSUME TypeOK, NEW w \in Worker, NEW o \in Outcomes(kind[w], snap[w]), Commit(w, o),
           NEW i \in Step, o.jobs = {RunAndCallNext(i)}
    PROVE  queued'[RunAndCallNext(i)] > 0 \/ hidden' \/ RunAndCallNext(i) \in snap[w].waiting
<1> DEFINE k == RunAndCallNext(i)
<1>1. queued' = AddJob(queued, k, snap[w].waiting)
  <2>1. queued' = Queue(w, o)
    BY DEF Commit
  <2>2. (CHOOSE j \in o.jobs : TRUE) = k
    OBVIOUS
  <2> QED
    BY <2>1, <2>2 DEF Queue
<1>2. CASE \A j \in snap[w].waiting : Key(j) # Key(k)
  <2>1. k \in JobKind /\ queued \in [JobKind -> 0..MaxQueued]
    BY Chains DEF TypeOK
  <2>2. queued' = [queued EXCEPT ![k] = @ + 1]
    BY <1>1, <1>2 DEF AddJob
  <2>3. queued'[k] = queued[k] + 1 /\ queued[k] \in Nat
    BY <2>1, <2>2, BoundsAssumption
  <2> QED
    BY <2>3
<1>3. ASSUME NEW j \in snap[w].waiting, Key(j) = Key(k) PROVE hidden' \/ k \in snap[w].waiting
  <2>1. j \in JobKind
    BY DEF TypeOK, Snapshot
  <2>2. j = k \/ j = RaiseMessage(i)
    BY <1>3, <2>1, BoundsAssumption DEF JobKind, Key, Trigger, RunAndCallNext, RaiseMessage, Step
  <2>3. CASE j = RaiseMessage(i) /\ k \notin snap[w].waiting
    BY <1>3, <2>3 DEF Commit
  <2> QED
    BY <1>3, <2>2, <2>3
<1> QED
  BY <1>2, <1>3

\* A commit that leaves the workflow open and alive: it does not touch the steps, and
\* did not call.
LEMMA LiveCommitIdle ==
    ASSUME TypeOK, SnapshotInv, Live, NEW w \in Worker,
           NEW o \in Outcomes(kind[w], snap[w]), Commit(w, o),
           \A i \in Step : task'[i] = task[i], ~Calls(w)
    PROVE  Live'
<1>1. \A k \in Chain : queued[k] > 0 \/ k \in failed => queued'[k] > 0 \/ k \in failed'
  BY QueueOf, Chains DEF Commit
<1>2. \A v \in Worker \ {w} : kind'[v] = kind[v] /\ snap'[v] = snap[v]
  BY DEF Commit, End, TypeOK
<1> QED
  BY <1>1, <1>2, LiveKept

\* A commit that leaves no step to execute closes the workflow.
LEMMA NoneLeft ==
    ASSUME TypeOK, SnapshotInv, OrderInv, [Next]_vars, NEW w \in Worker,
           NEW o \in Outcomes(kind[w], snap[w]), Commit(w, o), ~HasTasksToProcess(o.task)
    PROVE  ~Open'
<1>1. \A i \in Step : Passed(i)'
  BY CommitPassed DEF HasTasksToProcess
<1> QED
  BY <1>1 DEF Open, HasTasksToProcess, Passed

\* The trigger commits.
LEMMA LiveTrigger ==
    ASSUME TypeOK, SnapshotInv, OrderInv, [Next]_vars, Live, Open', NEW w \in Worker,
           NEW o \in Outcomes(kind[w], snap[w]), Commit(w, o), kind[w].does = "trigger"
    PROVE  Live'
<1> DEFINE s == snap[w]
<1>1. s \in Snapshot /\ s.task \in [Step -> TaskState] /\ kind[w] \in Kind
  BY DEF TypeOK, Snapshot
<1>2. kind[w] = Trigger /\ o = TriggerOutcome(s)
  BY <1>1, Chains DEF Outcomes
<1>3. o.task = s.task
  BY <1>1, <1>2, TriggerOutcomeIs
<1>4. HasTasksToProcess(s.task)
  BY <1>3, NoneLeft
<1> DEFINE m == FirstNotDone(s.task)
<1>5. o.jobs = {RunAndCallNext(m)} /\ m \in Step
  BY <1>1, <1>2, <1>4, TriggerOutcomeIs, FirstNotDoneIs
<1> HIDE DEF m
<1>6. queued'[RunAndCallNext(m)] > 0 \/ RunAndCallNext(m) \in s.waiting
  BY <1>5, Asked DEF Open
<1>7. CASE queued'[RunAndCallNext(m)] > 0
  BY <1>5, <1>7, Chains DEF Waits, Live
<1>8. CASE RunAndCallNext(m) \in s.waiting
  <2>1. ~Calls(w)
    BY <1>2, <1>8, Chains DEF Calls, m
  <2>2. \A i \in Step : task'[i] = task[i]
    BY <1>3, CommitSteps
  <2> QED
    BY <2>1, <2>2, LiveCommitIdle
<1> QED
  BY <1>6, <1>7, <1>8

\* The job of a step commits, and goes on with the next one.
LEMMA LiveGoesOn ==
    ASSUME TypeOK, SnapshotInv, OrderInv, WaitInv, [Next]_vars, Live, Open', NEW w \in Worker,
           NEW o \in Outcomes(kind[w], snap[w]), Commit(w, o), NEW i \in Step,
           kind[w] = RunAndCallNext(i), GoesOn(o, snap[w].file, i), IsDone(o.task, i),
           IsDone(snap[w].task, i) => o.task = snap[w].task
    PROVE  Live'
<1> DEFINE s == snap[w]
<1>1. opened = {} /\ opened' = {}
  BY DEF Open, Commit
<1>2. i # N
  <2>1. SUFFICES ASSUME i = N PROVE ~Open'
    OBVIOUS
  <2>2. PassedBefore(N)
    BY <2>1 DEF OrderInv, RunAndCallNext
  <2>3. N \in Step /\ \A j \in Step \ {N} : j \in 1..(N - 1)
    BY BoundsAssumption DEF Step
  <2>4. \A j \in Step \ {N} : Passed(j)'
    BY <2>2, <2>3, PassedStays DEF PassedBefore
  <2>5. Passed(N)'
    BY <2>1, <2>3, CommitPassed
  <2>6. \A j \in Step : IsDone(task', j)
    BY <1>1, <2>4, <2>5 DEF Passed
  <2> QED
    BY <2>6 DEF Open, HasTasksToProcess
<1>3. HasTasksToProcess(o.task)
  BY NoneLeft
<1>4. o.jobs = {RunAndCallNext(i + 1)} /\ i + 1 \in Step
  BY <1>2, <1>3, BoundsAssumption DEF GoesOn, Step
<1>5. queued'[RunAndCallNext(i + 1)] > 0 \/ RunAndCallNext(i + 1) \in s.waiting
  BY <1>4, Asked DEF Open
<1>6. CASE queued'[RunAndCallNext(i + 1)] > 0
  BY <1>4, <1>6, Chains DEF Waits, Live
<1>7. CASE RunAndCallNext(i + 1) \in s.waiting
  <2>1. IsDone(s.task, i)
    BY <1>1, <1>7 DEF WaitInv
  <2>2. ~Calls(w)
    BY <1>7, CallsStep
  <2>3. \A j \in Step : task'[j] = task[j]
    BY <2>1, CommitSteps
  <2> QED
    BY <2>2, <2>3, LiveCommitIdle
<1> QED
  BY <1>5, <1>6, <1>7

\* The job of a step commits, and leaves its step failed.
LEMMA LiveFails ==
    ASSUME TypeOK, SnapshotInv, Live, NEW w \in Worker,
           NEW o \in Outcomes(kind[w], snap[w]), Commit(w, o), NEW i \in Step,
           kind[w] = RunAndCallNext(i), o.task[i] = "failed", ~IsDone(snap[w].task, i),
           \A j \in Step \ {i} : o.task[j] = snap[w].task[j]
    PROVE  Live'
<1>1. CASE task'[i] = "failed"
  BY <1>1 DEF Live
<1>2. CASE task'[i] # "failed"
  <2>1. o.task[i] = snap[w].task[i] /\ task'[i] = task[i]
    BY <1>2, CommitSteps
  <2>2. \A j \in Step : task'[j] = task[j]
    BY <2>1, CommitSteps
  <2>3. ~Calls(w)
    BY <1>2, <2>1, CallsStep
  <2> QED
    BY <2>2, <2>3, LiveCommitIdle
<1> QED
  BY <1>1, <1>2

LEMMA LiveCommit ==
    ASSUME TypeOK, SnapshotInv, OrderInv, WaitInv, [Next]_vars, Live, Open', NEW w \in Worker,
           NEW o \in Outcomes(kind[w], snap[w]), Commit(w, o)
    PROVE  Live'
<1> DEFINE k == kind[w] s == snap[w]
<1>1. k \in Kind /\ s \in Snapshot
  BY DEF TypeOK
<1>2. CASE k.does = "trigger"
  BY <1>2, LiveTrigger
<1>3. CASE k.does = "task"
  <2>1. k.step \in Step /\ k = RunAndCallNext(k.step) /\ o \in TaskOutcomes(s, k.step)
    BY <1>1, <1>3, JobKinds, Chains DEF Outcomes
  <2>2. CASE o.task[k.step] = "failed" /\ ~IsDone(s.task, k.step)
    <3>1. \A j \in Step \ {k.step} : o.task[j] = s.task[j]
      BY <1>1, <2>1, TaskOutcomeIs
    <3> QED
      BY <2>1, <2>2, <3>1, LiveFails
  <2>3. CASE ~(o.task[k.step] = "failed" /\ ~IsDone(s.task, k.step))
    <3>1. /\ GoesOn(o, s.file, k.step) /\ IsDone(o.task, k.step)
          /\ IsDone(s.task, k.step) => o.task = s.task
      BY <1>1, <2>1, <2>3, TaskOutcomeIs DEF IsDone
    <3> QED
      BY <2>1, <3>1, LiveGoesOn
  <2> QED
    BY <2>2, <2>3
<1>4. CASE k.does = "run"
  BY <1>4 DEF Commit, Open
<1>5. CASE k.does = "update"
  <2>1. \A i \in Step : task'[i] = task[i]
    <3> SUFFICES ASSUME NEW i \in Step, task'[i] # task[i] PROVE FALSE
      OBVIOUS
    <3>1. o.task[i] # s.task[i] /\ (o.task[i] = "todo" => i \in opened')
      BY CommitSteps
    <3>2. o.task[i] = "todo"
      BY <1>5, <3>1, OutcomeSteps
    <3> QED
      BY <3>1, <3>2 DEF Open
  <2>2. ~Calls(w)
    BY <1>5, CallsChain, Chains
  <2> QED
    BY <2>1, <2>2, LiveCommitIdle
<1> QED
  BY <1>2, <1>3, <1>4, <1>5 DEF Outcomes

LEMMA NextLive ==
    ASSUME TypeOK, SnapshotInv, OrderInv, WaitInv, LiveInv, [Next]_vars PROVE LiveInv'
<1> SUFFICES ASSUME Open' PROVE Live'
  BY DEF LiveInv
<1>1. CASE ManualRun
  <2>1. Trigger \in Chain /\ Trigger \in JobKind /\ queued \in [JobKind -> 0..MaxQueued]
    BY DEF Chain, JobKind, TypeOK
  <2>2. queued' = AddJob(queued, Trigger, Waiting(queued))
    BY <1>1 DEF ManualRun
  <2>3. CASE \E j \in Waiting(queued) : Key(j) = Key(Trigger)
    <3>1. PICK j \in Waiting(queued) : Key(j) = Key(Trigger)
      BY <2>3
    <3>2. j = Trigger
      BY <3>1, BoundsAssumption DEF Waiting, JobKind, Key, Trigger, RunAndCallNext, RaiseMessage, Step
    <3>3. queued'[Trigger] > 0
      BY <2>2, <2>3, <3>1, <3>2 DEF AddJob, Waiting
    <3> QED
      BY <2>1, <3>3 DEF Waits, Live
  <2>4. CASE \A j \in Waiting(queued) : Key(j) # Key(Trigger)
    <3>1. queued' = [queued EXCEPT ![Trigger] = @ + 1]
      BY <2>2, <2>4 DEF AddJob
    <3>2. queued'[Trigger] = queued[Trigger] + 1 /\ queued[Trigger] \in Nat
      BY <2>1, <3>1, BoundsAssumption
    <3>3. queued'[Trigger] > 0
      BY <3>2
    <3> QED
      BY <2>1, <3>3 DEF Waits, Live
  <2> QED
    BY <2>3, <2>4
<1>2. CASE ~ManualRun
  <2>1. Open /\ Live
    BY <1>2, OpenBefore DEF LiveInv
  <2>2. HasTasksToProcess(task)
    BY <2>1 DEF Open
  <2>3. ASSUME NEW w \in Worker, NEW k \in JobKind, BeginJob(w, k) PROVE Live'
    BY <2>1, <2>2, <2>3, LiveBegin
  <2>4. ASSUME NEW w \in Worker, NEW k, Begin(w, k), UNCHANGED <<queued, failed, task>> PROVE Live'
    <3>1. \A v \in Worker \ {w} : kind'[v] = kind[v] /\ snap'[v] = snap[v]
      BY <2>4 DEF Begin, TypeOK
    <3>2. ~Calls(w)
      BY <2>4, CallsChain, Chains, JobKinds DEF Begin
    <3> QED
      BY <2>1, <2>4, <3>1, <3>2, LiveKept
  <2>5. ASSUME NEW w \in Worker, NEW o \in Outcomes(kind[w], snap[w]), Commit(w, o) PROVE Live'
    BY <2>1, <2>5, LiveCommit
  <2>6. ASSUME NEW w \in Worker, Retry(w) \/ Raise(w) PROVE Live'
    <3>1. \A v \in Worker \ {w} : kind'[v] = kind[v] /\ snap'[v] = snap[v]
      BY <2>6 DEF Retry, Raise, End, TypeOK
    <3>2. task' = task
      BY <2>6 DEF Retry, Raise, rows
    <3>3. \A k \in JobKind : (queued[k] > 0 => queued'[k] > 0) /\ (k \in failed => k \in failed')
      BY <2>6, BoundsAssumption DEF Retry, Raise, TypeOK
    <3>4. CASE kind[w] \in Chain
      <4>1. kind[w] \in JobKind
        BY <3>4, Chains
      <4>2. queued'[kind[w]] > 0 \/ kind[w] \in failed' \/ kind[w].does = "trigger"
        BY <2>6, <4>1, <3>4, Chains, BoundsAssumption DEF Retry, Raise, TypeOK
      <4>3. Retry(w) => queued'[kind[w]] > 0
        BY <4>1, BoundsAssumption DEF Retry, TypeOK
      <4>4. Raise(w) => kind[w] \in failed'
        BY <4>1 DEF Raise
      <4> QED
        BY <2>6, <3>4, <4>3, <4>4 DEF Waits, Live
    <3>5. CASE kind[w] \notin Chain
      <4>1. ~Calls(w)
        BY <3>5, CallsChain
      <4> QED
        BY <2>1, <3>1, <3>2, <3>3, <4>1, Chains, LiveKept
    <3> QED
      BY <3>4, <3>5
  <2>7. ASSUME NEW k \in failed, RequeueFailed(k) \/ SetFailedToDone(k) PROVE Live'
    <3>1. UNCHANGED <<kind, snap, task>>
      BY <2>7 DEF RequeueFailed, SetFailedToDone, rows
    <3>2. \A j \in Chain : queued[j] > 0 \/ j \in failed => queued'[j] > 0 \/ j \in failed'
      <4>1. CASE RequeueFailed(k)
        BY <4>1, Chains, BoundsAssumption DEF RequeueFailed, TypeOK
      <4>2. CASE SetFailedToDone(k)
        BY <4>2, Chains DEF SetFailedToDone
      <4> QED
        BY <2>7, <4>1, <4>2
    <3> QED
      BY <2>1, <3>1, <3>2, LiveKept
  <2>8. ASSUME NEW i \in Step, TaskForceDone(i) \/ TaskForceDraft(i) PROVE Live'
    BY <2>8 DEF TaskForceDone, TaskForceDraft, Open
  <2>9. ASSUME UNCHANGED <<task, queued, failed, kind, snap>> PROVE Live'
    BY <2>1, <2>9, LiveKept
  <2> QED
    BY <1>2, <2>3, <2>4, <2>5, <2>6, <2>7, <2>8, <2>9
       DEF Next, Job, Button, BeginUpdate, BeginRun, Begin, MarkInputAsDone, rows, vars
<1> QED
  BY <1>1, <1>2

LEMMA NextWait ==
    ASSUME TypeOK, SnapshotInv, OrderInv, WaitInv, [Next]_vars PROVE WaitInv'
<1> SUFFICES ASSUME NEW w \in Worker, NEW i \in Step, kind'[w] = RunAndCallNext(i),
                    RunAndCallNext(i + 1) \in snap'[w].waiting
             PROVE  IsDone(snap'[w].task, i) \/ opened' # {}
  BY DEF WaitInv
<1>1. opened \subseteq opened'
  BY DEF Next, Job, Button, BeginJob, BeginUpdate, BeginRun, Begin, Commit, Retry, Raise, ManualRun,
         TaskForceDone, TaskForceDraft, MarkInputAsDone, RequeueFailed, SetFailedToDone, vars
<1>2. CASE kind'[w] = kind[w] /\ snap'[w] = snap[w]
  BY <1>1, <1>2 DEF WaitInv
<1>3. ASSUME NEW k, Begin(w, k), \A j \in JobKind : queued'[j] > 0 => queued[j] > 0
      PROVE  IsDone(snap'[w].task, i) \/ opened' # {}
  <2>1. snap'[w] = Now(queued')
    BY <1>3 DEF Begin, TypeOK
  <2>2. RunAndCallNext(i + 1) \in JobKind /\ queued'[RunAndCallNext(i + 1)] > 0
    BY <2>1 DEF Now, Waiting
  <2>3. i + 1 \in Step /\ i \in 1..((i + 1) - 1)
    BY <2>2, Chains, BoundsAssumption DEF Step
  <2>4. PassedBefore(i + 1)
    BY <1>3, <2>2, <2>3 DEF OrderInv
  <2>5. Passed(i)
    BY <2>3, <2>4 DEF PassedBefore
  <2> QED
    BY <1>1, <2>1, <2>5 DEF Passed, Now
<1>4. ASSUME NEW v \in Worker, End(v) PROVE kind'[w] = kind[w] /\ snap'[w] = snap[w]
  <2>1. kind'[w] # Nothing
    BY DEF RunAndCallNext, Nothing
  <2> QED
    BY <1>4, <2>1, EndOthers
<1>5. ASSUME NEW v \in Worker, NEW k, Begin(v, k), v # w PROVE kind'[w] = kind[w] /\ snap'[w] = snap[w]
  BY <1>5 DEF Begin, TypeOK
<1>6. ASSUME NEW v \in Worker, NEW k \in JobKind, BeginJob(v, k)
      PROVE  IsDone(snap'[w].task, i) \/ opened' # {}
  <2>1. \A j \in JobKind : queued'[j] > 0 => queued[j] > 0
    BY <1>6 DEF BeginJob, TypeOK
  <2> QED
    BY <1>2, <1>3, <1>5, <1>6, <2>1 DEF BeginJob
<1>7. ASSUME NEW v \in Worker, NEW k, Begin(v, k), queued' = queued
      PROVE  IsDone(snap'[w].task, i) \/ opened' # {}
  BY <1>2, <1>3, <1>5, <1>7
<1> QED
  BY <1>2, <1>4, <1>6, <1>7
     DEF Next, Job, Button, BeginUpdate, BeginRun, Commit, Retry, Raise, ManualRun, TaskForceDone,
         TaskForceDraft, MarkInputAsDone, RequeueFailed, SetFailedToDone, vars

LEMMA InitLive == Init => WaitInv /\ LiveInv
<1> SUFFICES ASSUME Init PROVE WaitInv /\ LiveInv
  OBVIOUS
<1>1. WaitInv
  <2>1. \A w \in Worker : kind[w] = Nothing
    BY DEF Init
  <2> QED
    BY <2>1 DEF WaitInv, RunAndCallNext, Nothing
<1>2. ASSUME HasTasksToProcess(task) PROVE Waits
  <2>1. PICK enabled \in SUBSET Step :
          /\ task = [i \in Step |-> IF i \in enabled THEN "todo" ELSE "skip"]
          /\ queued = [k \in JobKind |-> IF k = Trigger /\ enabled # {} THEN 1 ELSE 0]
    BY DEF Init, ResetNextValueIfNotPrevious
  <2>2. enabled # {}
    BY <1>2, <2>1 DEF HasTasksToProcess, IsDone
  <2>3. Trigger \in JobKind /\ Trigger \in Chain
    BY DEF JobKind, Chain
  <2>4. queued[Trigger] = 1
    BY <2>1, <2>2, <2>3
  <2> QED
    BY <2>3, <2>4 DEF Waits
<1> QED
  BY <1>1, <1>2 DEF LiveInv, Open, Live

-----------------------------------------------------------------------------
(* Theorems *)

PipelineInv == TypeOK /\ SnapshotInv /\ OrderInv /\ WaitInv /\ LiveInv

LEMMA Invariance == Spec => []PipelineInv
<1>1. PipelineInv /\ [Next]_vars => PipelineInv'
  BY NextType, NextSnapshot, NextOrder, NextWait, NextLive DEF PipelineInv
<1>2. Init => PipelineInv
  BY InitType, InitOrder, InitLive DEF PipelineInv
<1> QED
  BY <1>1, <1>2, PTL DEF Spec

\* Every variable keeps its type.
THEOREM TypeCorrect == Spec => []TypeOK
  BY Invariance, PTL DEF PipelineInv

\* What a transaction has read of a step is still so, or is one of its conflicts.
THEOREM SnapshotCorrect == Spec => []SnapshotInv
  BY Invariance, PTL DEF PipelineInv

\* No step takes effect twice, however many jobs and users execute it.
THEOREM NoDoubleExecution == Spec => []ExecutedOnce
<1>1. PipelineInv => ExecutedOnce
  BY DEF PipelineInv, TypeOK, SnapshotInv, ExecutedOnce
<1> QED
  BY <1>1, Invariance, PTL

\* The steps take effect in their order.
THEOREM StepsInOrder == Spec => InOrder
<1>1. PipelineInv /\ [Next]_vars =>
        [\A i \in Step : executed'[i] > executed[i] =>
            \A j \in 1..(i - 1) : IsDone(task, j) \/ j \in opened]_vars
  BY ExecutedInOrder DEF PipelineInv, PassedBefore, Passed
<1> QED
  BY <1>1, Invariance, PTL DEF Spec, InOrder

\* The input file is done when the steps are.
THEOREM FileFollowsSteps == Spec => FileDoneSound
<1>1. PipelineInv /\ [Next]_vars =>
        [file' = "done" /\ file # "done" /\ ~MarkInputAsDone =>
            \A i \in Step : IsDone(task', i) \/ i \in opened']_vars
  BY FileEnds DEF PipelineInv, Passed
<1> QED
  BY <1>1, Invariance, PTL DEF Spec, FileDoneSound

\* No order in process is left without a job, a failed job or a failed step, unless a
\* user has taken it over or a report has hidden the job of its step.
THEOREM NoOrderAbandoned == Spec => []NoneAbandoned
<1>1. \A w \in Worker : Calls(w) => kind[w] \in JobKind
  BY CallsChain, Chains
<1>2. Live => \/ \E k \in JobKind : queued[k] > 0 \/ k \in failed
              \/ \E w \in Worker : kind[w] \in JobKind
              \/ \E i \in Step : task[i] = "failed"
  BY <1>1, Chains DEF Live, Waits
<1>3. PipelineInv => NoneAbandoned
  BY <1>2 DEF PipelineInv, LiveInv, Open, NoneAbandoned
<1> QED
  BY <1>3, Invariance, PTL

=============================================================================
