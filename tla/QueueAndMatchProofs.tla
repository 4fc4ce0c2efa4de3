------------------------- MODULE QueueAndMatchProofs -------------------------
(***************************************************************************)
(* Proofs about JobQueue, for any finite set of jobs, any set of workers   *)
(* and any values of the bounds; that JobQueue implements JobLife comes    *)
(* last: the initial state maps to the initial state, and every step to a  *)
(* step that JobLife allows, or to a stutter.                              *)
(*                                                                         *)
(* Then about ProductMatch, which shares nothing with it, for any products *)
(* of the store and of Odoo and blocks of any size, imported by any number *)
(* of transactions: no failure of an import is lost, what is mapped        *)
(* belongs together, and no import takes a template from its product.      *)
(***************************************************************************)
EXTENDS JobQueue, ProductMatch, FiniteSetTheorems, NaturalsInduction, WellFoundedInduction, TLAPS

-----------------------------------------------------------------------------
(* Helpers *)

\* The counter of tries stays within the bound of the model.
LEMMA BumpType == ASSUME NEW r \in 0..RetryCap PROVE Bump(r) \in 0..RetryCap
  BY RetriesAssumption DEF Bump

\* The runner's memory has a place for every state of a row.
LEMMA PlaceType ==
    ASSUME NEW s PROVE Place(s) \in {"absent", "queued", "running", "failed"}
  BY DEF Place

\* A row written by a user, the runner or a handler is a row.
LEMMA NewRowType ==
    ASSUME NEW s \in State, NEW r \in 0..RetryCap PROVE NewRow(s, r) \in Row
  BY DEF NewRow, Row, EnqueuedDate

-----------------------------------------------------------------------------
(* Type correctness *)

\* Every variable keeps its type: in particular no store of a handler, of a user or
\* of the runner gives a row a state or a date that the table does not have.
THEOREM TypeCorrect == Spec => []TypeOK
<1>1. Init => TypeOK
  BY RetriesAssumption, BoundsAssumption, NoneAssumption
     DEF Init, TypeOK, ServingOK, NewRow, Row, State, EnqueuedDate, Phase
<1>2. TypeOK /\ [Next]_vars => TypeOK'
  <2> SUFFICES ASSUME TypeOK, [Next]_vars PROVE TypeOK'
    OBVIOUS
  <2> USE DEF TypeOK, ServingOK
  <2>1. ASSUME NEW j \in Job, User(j) PROVE TypeOK'
    <3>1. ASSUME NEW s \in State, NEW r \in 0..RetryCap, UserWrites(j, s, r) PROVE TypeOK'
      BY <3>1, NewRowType DEF UserWrites, Touch, Notify
    <3>2. 0 \in 0..RetryCap /\ row[j].retry \in 0..RetryCap
      BY RetriesAssumption DEF Row
    <3>3. "pending" \in State /\ "done" \in State /\ "cancelled" \in State
      BY DEF State, Ended
    <3> QED
      BY <2>1, <3>1, <3>2, <3>3 DEF User, Create, SetDone, SetCancelled, Requeue
  <2>2. ASSUME NEW j \in Job, Aging(j) PROVE TypeOK'
    BY <2>2 DEF Aging, Row, EnqueuedDate, handlerVars, runnerVars
  <2>3. ASSUME NEW j \in Job, LoseRequest(j) PROVE TypeOK'
    BY <2>3, BoundsAssumption DEF LoseRequest, rowVars, handlerVars, runnerVars
  <2>4. CASE RunnerStart
    BY <2>4, PlaceType DEF RunnerStart, rowVars, handlerVars
  <2>5. CASE RunnerFail
    BY <2>5 DEF RunnerFail, rowVars, handlerVars
  <2>6. CASE RequeueDeadJobs
    <3>1. ASSUME NEW j \in Job PROVE DeadRow(row[j], MaxRetries[j]) \in Row
      <4>1. row[j].retry \in 0..RetryCap /\ Bump(row[j].retry) \in 0..RetryCap
        BY BumpType DEF Row
      <4>2. "failed" \in State /\ "pending" \in State
        BY DEF State, Ended
      <4> QED
        BY <4>1, <4>2, NewRowType DEF DeadRow
    <3> QED
      BY <2>6, <3>1 DEF RequeueDeadJobs, Touch
  <2>7. ASSUME NEW j \in Job, ProcessNotification(j) PROVE TypeOK'
    BY <2>7, PlaceType DEF ProcessNotification, rowVars, handlerVars
  <2>8. CASE NotificationsDrained
    BY <2>8 DEF NotificationsDrained, rowVars, handlerVars
  <2>9. ASSUME NEW j \in Job, RunJob(j) PROVE TypeOK'
    <3>1. row' \in [Job -> Row]
      BY <2>9 DEF RunJob, EnqueuedRow, Row, EnqueuedDate, State, Active
    <3>2. http' \in [Job -> 0..MaxRequests]
      BY <2>9, BoundsAssumption DEF RunJob
    <3> QED
      BY <2>9, <3>1, <3>2 DEF RunJob, Touch
  <2>10. CASE WaitNotification
    BY <2>10 DEF WaitNotification, rowVars, handlerVars
  <2>11. ASSUME NEW w \in Worker, NEW j \in Job, RunRequest(w, j) PROVE TypeOK'
    <3>1. http' \in [Job -> 0..MaxRequests]
      BY <2>11, BoundsAssumption DEF RunRequest
    <3>2. CASE Accept(w, j)
      <4>1. row' \in [Job -> Row]
        BY <3>2 DEF Accept, AddLockRecord, LoadedRetry, Row, State, Active
      <4>2. row[j].retry \in 0..RetryCap /\ j # None /\ "started" \in Phase
        BY NoneAssumption DEF Row, Phase
      <4> QED
        BY <2>11, <3>1, <3>2, <4>1, <4>2 DEF RunRequest, Accept, AddLockRecord, LoadedRetry, Touch, Notify
    <3>3. CASE Refuse
      BY <2>11, <3>1, <3>3 DEF RunRequest, Refuse, handlerVars
    <3> QED
      BY <2>11, <3>2, <3>3 DEF RunRequest
  <2>12. ASSUME NEW w \in Worker, TakeSnapshot(w) PROVE TypeOK'
    BY <2>12 DEF TakeSnapshot, Phase, rowVars, runnerVars
  <2>13. ASSUME NEW w \in Worker, Lock(w) PROVE TypeOK'
    BY <2>13 DEF Lock, Phase, runnerVars
  <2>14. ASSUME NEW w \in Worker, Complete(w) PROVE TypeOK'
    <3>1. NewRow("done", Bump(tries[w])) \in Row
      BY BumpType, NewRowType DEF State, Ended
    <3>2. lock' \in [Job -> Worker \cup {None}]
      BY <2>14 DEF Complete, EndHandler, Unlocked
    <3>3. tries' \in [Worker -> 0..RetryCap] /\ phase' \in [Worker -> Phase]
      BY <2>14, RetriesAssumption DEF Complete, EndHandler, Phase
    <3>4. cur' \in [Worker -> Job \cup {None}] /\ ServingOK'
      BY <2>14 DEF Complete, EndHandler
    <3>5. row' \in [Job -> Row] /\ stale' \in [Worker -> BOOLEAN] /\ notifs' \in SUBSET Job
      BY <2>14, <3>1 DEF Complete, Touch, Notify
    <3> QED
      BY <2>14, <3>2, <3>3, <3>4, <3>5 DEF Complete
  <2>15. ASSUME NEW w \in Worker, Abort(w) \/ Rollback(w) PROVE TypeOK'
    BY <2>15, RetriesAssumption DEF Abort, Rollback, EndHandler, Unlocked, Phase, runnerVars
  <2>16. ASSUME NEW w \in Worker, Raise(w) PROVE TypeOK'
    <3>1. ASSUME NEW p \in {"postponing", "failing"}, NEW r \in 0..RetryCap, Outcome(w, p, r)
          PROVE TypeOK'
      BY <3>1 DEF Outcome, Unlocked, Phase, rowVars, runnerVars
    <3>2. tries[w] \in 0..RetryCap /\ Bump(tries[w]) \in 0..RetryCap
      BY BumpType
    <3> QED
      BY <2>16, <3>1, <3>2
         DEF Raise, RaiseRetryable, RaiseIgnoreRetry, RaiseError, SerializationError
  <2>17. ASSUME NEW w \in Worker, RetryPostpone(w) \/ SetFailed(w) PROVE TypeOK'
    <3>1. ASSUME NEW new \in Row, phase[w] # "idle", StoreInNewCursor(w, new) PROVE TypeOK'
      BY <3>1 DEF StoreInNewCursor, Phase, Touch, Notify
    <3>2. Postponed(w) \in Row /\ NewRow("failed", tries[w]) \in Row
      BY NewRowType DEF Postponed, State, Ended
    <3> QED
      BY <2>17, <3>1, <3>2 DEF RetryPostpone, SetFailed
  <2>18. CASE UNCHANGED vars
    BY <2>18 DEF vars
  <2> QED
    BY <2>1, <2>2, <2>3, <2>4, <2>5, <2>6, <2>7, <2>8, <2>9, <2>10, <2>11, <2>12, <2>13,
       <2>14, <2>15, <2>16, <2>17, <2>18
       DEF Next, Runner, Handle
<1> QED
  BY <1>1, <1>2, PTL DEF Spec

-----------------------------------------------------------------------------
(* The lock of a job and the snapshot of its handler *)

\* A write that marks its readers stale leaves the other snapshots true.
LEMMA WriteKeepsSnapshots ==
    ASSUME TypeOK, SnapshotTrue, NEW S, Touch(S),
           \A j \in Job \ S : row'[j].state = row[j].state,
           \A w \in Worker : phase'[w] \in {"locking", "performing"}
                              => phase'[w] = phase[w] /\ cur'[w] = cur[w]
    PROVE  SnapshotTrue'
<1> SUFFICES ASSUME NEW w \in Worker, phase'[w] \in {"locking", "performing"}, ~stale'[w]
             PROVE  row'[cur'[w]].state = "started"
  BY DEF SnapshotTrue
<1>1. ~stale[w] /\ cur[w] \notin S
  BY DEF Touch
<1>2. phase'[w] = phase[w] /\ cur'[w] = cur[w] /\ cur[w] \in Job
  BY DEF TypeOK, ServingOK
<1> QED
  BY <1>1, <1>2 DEF SnapshotTrue

\* The locks are held by the right handlers, and a handler whose row has not changed
\* since its snapshot has a started job: by induction, with the types.
THEOREM LockingCorrect == Spec => []LockingInv
<1>1. Init => LockingInv
  BY DEF Init, LockingInv, LockHeld, SnapshotTrue
<1>2. TypeOK /\ TypeOK' /\ LockingInv /\ [Next]_vars => LockingInv'
  <2> SUFFICES ASSUME TypeOK, TypeOK', LockingInv, [Next]_vars PROVE LockingInv'
    OBVIOUS
  <2> USE DEF TypeOK, ServingOK, LockingInv, LockHeld, Holding, SnapshotTrue
  <2>1. ASSUME NEW j \in Job, User(j) PROVE LockingInv'
    BY <2>1 DEF User, Create, SetDone, SetCancelled, Requeue, UserWrites, Touch
  <2>2. ASSUME NEW j \in Job, Aging(j) PROVE LockingInv'
    BY <2>2 DEF Aging, Row, handlerVars
  <2>3. ASSUME NEW j \in Job, LoseRequest(j) PROVE LockingInv'
    BY <2>3 DEF LoseRequest, rowVars, handlerVars
  <2>4. CASE RunnerStart \/ RunnerFail \/ NotificationsDrained \/ WaitNotification
    BY <2>4 DEF RunnerStart, RunnerFail, NotificationsDrained, WaitNotification,
                rowVars, handlerVars
  <2>5. CASE RequeueDeadJobs
    <3> DEFINE dead == {j \in Job : Dead(j)}
    <3>1. SnapshotTrue'
      <4>1. Touch(dead) /\ UNCHANGED <<phase, cur>>
        BY <2>5 DEF RequeueDeadJobs
      <4>2. \A j \in Job \ dead : row'[j].state = row[j].state
        BY <2>5 DEF RequeueDeadJobs
      <4> QED
        BY <4>1, <4>2, WriteKeepsSnapshots
    <3>2. LockHeld'
      BY <2>5 DEF RequeueDeadJobs
    <3> QED
      BY <3>1, <3>2
  <2>6. ASSUME NEW j \in Job, ProcessNotification(j) PROVE LockingInv'
    BY <2>6 DEF ProcessNotification, rowVars, handlerVars
  <2>7. ASSUME NEW j \in Job, RunJob(j) PROVE LockingInv'
    <3>1. SnapshotTrue'
      BY <2>7, WriteKeepsSnapshots DEF RunJob
    <3>2. LockHeld'
      BY <2>7 DEF RunJob
    <3> QED
      BY <3>1, <3>2
  <2>8. ASSUME NEW w \in Worker, NEW j \in Job, RunRequest(w, j) PROVE LockingInv'
    <3>1. CASE Accept(w, j)
      <4>1. LockHeld'
        BY <2>8, <3>1 DEF RunRequest, Accept, AddLockRecord, LoadedRetry
      <4>2. SnapshotTrue'
        BY <2>8, <3>1 DEF RunRequest, Accept, AddLockRecord, LoadedRetry, Touch, Row
      <4> QED
        BY <4>1, <4>2
    <3>2. CASE Refuse
      BY <2>8, <3>2 DEF RunRequest, Refuse, handlerVars
    <3> QED
      BY <2>8, <3>1, <3>2 DEF RunRequest
  <2>9. ASSUME NEW w \in Worker, TakeSnapshot(w) PROVE LockingInv'
    BY <2>9 DEF TakeSnapshot, rowVars
  <2>10. ASSUME NEW w \in Worker, Lock(w) PROVE LockingInv'
    BY <2>10, NoneAssumption DEF Lock, LockFree
  <2>11. ASSUME NEW w \in Worker, Complete(w) PROVE LockingInv'
    <3>1. LockHeld'
      BY <2>11, NoneAssumption DEF Complete, EndHandler, Unlocked
    <3>2. SnapshotTrue'
      BY <2>11, WriteKeepsSnapshots DEF Complete, EndHandler, Unlocked
    <3> QED
      BY <3>1, <3>2
  <2>12. ASSUME NEW w \in Worker, Abort(w) \/ Rollback(w) PROVE LockingInv'
    BY <2>12, NoneAssumption DEF Abort, Rollback, EndHandler, Unlocked
  <2>13. ASSUME NEW w \in Worker, Raise(w) PROVE LockingInv'
    <3>1. ASSUME NEW p \in {"postponing", "failing"}, NEW r, Outcome(w, p, r)
          PROVE LockingInv'
      BY <3>1, NoneAssumption DEF Outcome, Unlocked, rowVars
    <3> QED
      BY <2>13, <3>1
         DEF Raise, RaiseRetryable, RaiseIgnoreRetry, RaiseError, SerializationError
  <2>14. ASSUME NEW w \in Worker, RetryPostpone(w) \/ SetFailed(w) PROVE LockingInv'
    BY <2>14 DEF RetryPostpone, Postponed, SetFailed, StoreInNewCursor, Touch
  <2>15. CASE UNCHANGED vars
    BY <2>15 DEF vars
  <2> QED
    BY <2>1, <2>2, <2>3, <2>4, <2>5, <2>6, <2>7, <2>8, <2>9, <2>10, <2>11, <2>12, <2>13,
       <2>14, <2>15
       DEF Next, Runner, Handle
<1> QED
  BY <1>1, <1>2, TypeCorrect, PTL DEF Spec

\* Two handlers never execute the same job at the same time: each would hold the
\* one row of queue_job_lock.
THEOREM Exclusion == Spec => []ExecutionExclusive
<1>1. LockingInv => ExecutionExclusive
  BY DEF LockingInv, LockHeld, ExecutionExclusive
<1> QED
  BY <1>1, LockingCorrect, PTL

\* A handler completes a job only if it is still started and holds its lock: no
\* verdict of a user, and no requeue, is overwritten by a result.
THEOREM Completion == Spec => CompletionSound
<1> DEFINE Sound(j) == (row[j].state # "done" /\ row'[j].state = "done" /\ ~SetDone(j))
                          => row[j].state = "started" /\ lock[j] # None
<1>1. TypeOK /\ LockingInv /\ [Next]_vars => [\A j \in Job : Sound(j)]_vars
  <2> SUFFICES ASSUME TypeOK, LockingInv, Next, NEW j \in Job,
                      row[j].state # "done", row'[j].state = "done", ~SetDone(j)
               PROVE  row[j].state = "started" /\ lock[j] # None
    OBVIOUS
  <2> USE DEF TypeOK
  <2>1. ASSUME NEW i \in Job, User(i) PROVE FALSE
    <3>1. CASE i = j
      BY <2>1, <3>1 DEF User, Create, SetCancelled, Requeue, UserWrites, NewRow
    <3>2. CASE i # j
      BY <2>1, <3>2 DEF User, Create, SetDone, SetCancelled, Requeue, UserWrites
    <3> QED
      BY <3>1, <3>2
  <2>2. ASSUME NEW i \in Job, Aging(i) PROVE FALSE
    BY <2>2 DEF Aging, Row
  <2>3. ASSUME UNCHANGED row PROVE FALSE
    BY <2>3
  <2>4. ASSUME RequeueDeadJobs PROVE FALSE
    BY <2>4 DEF RequeueDeadJobs, DeadRow, NewRow
  <2>5. ASSUME NEW i \in Job, RunJob(i) PROVE FALSE
    BY <2>5 DEF RunJob, EnqueuedRow
  <2>6. ASSUME NEW w \in Worker, NEW i \in Job, RunRequest(w, i) PROVE FALSE
    BY <2>6 DEF RunRequest, Accept, AddLockRecord, LoadedRetry, Refuse, Row
  <2>7. ASSUME NEW w \in Worker, Complete(w)
        PROVE  row[j].state = "started" /\ lock[j] # None
    <3>1. cur[w] = j
      BY <2>7 DEF Complete
    <3> QED
      BY <2>7, <3>1, NoneAssumption
         DEF Complete, StoreAllowed, LockingInv, LockHeld, SnapshotTrue
  <2>8. ASSUME NEW w \in Worker, RetryPostpone(w) \/ SetFailed(w) PROVE FALSE
    BY <2>8 DEF RetryPostpone, Postponed, SetFailed, StoreInNewCursor, NewRow
  <2> QED
    BY <2>1, <2>2, <2>3, <2>4, <2>5, <2>6, <2>7, <2>8
       DEF Next, Runner, Handle, Raise, RaiseRetryable, RaiseIgnoreRetry, RaiseError,
           SerializationError, Outcome, LoseRequest, RunnerStart, RunnerFail,
           ProcessNotification, NotificationsDrained, WaitNotification, TakeSnapshot, Lock,
           Abort, Rollback, rowVars
<1>2. TypeOK /\ LockingInv /\ [Next]_vars =>
        [\A j \in Job :
            (row[j].state # "done" /\ row'[j].state = "done" /\ ~SetDone(j))
                => row[j].state = "started" /\ lock[j] # None]_vars
  BY <1>1
<1> QED
  BY <1>2, TypeCorrect, LockingCorrect, PTL DEF Spec, CompletionSound

-----------------------------------------------------------------------------
(* The rows and the runner's memory *)

\* No row is enqueued or started without a date_enqueued, so that requeue_dead_jobs
\* can always find it.
THEOREM AlwaysRecoverable == Spec => []Recoverable
<1>1. Init => Recoverable
  BY DEF Init, Recoverable, NewRow, Active
<1>2. TypeOK /\ Recoverable /\ [Next]_vars => Recoverable'
  <2> SUFFICES ASSUME TypeOK, Recoverable, [Next]_vars PROVE Recoverable'
    OBVIOUS
  <2> USE DEF TypeOK, Recoverable, Active
  <2>1. ASSUME NEW j \in Job, User(j) PROVE Recoverable'
    BY <2>1 DEF User, Create, SetDone, SetCancelled, Requeue, UserWrites, NewRow
  <2>2. ASSUME NEW j \in Job, Aging(j) PROVE Recoverable'
    BY <2>2 DEF Aging, Row
  <2>3. CASE UNCHANGED row
    BY <2>3
  <2>4. CASE RequeueDeadJobs
    BY <2>4 DEF RequeueDeadJobs, DeadRow, NewRow
  <2>5. ASSUME NEW j \in Job, RunJob(j) PROVE Recoverable'
    BY <2>5 DEF RunJob, EnqueuedRow
  <2>6. ASSUME NEW w \in Worker, NEW j \in Job, RunRequest(w, j) PROVE Recoverable'
    BY <2>6 DEF RunRequest, Accept, AddLockRecord, LoadedRetry, Refuse, Row
  <2>7. ASSUME NEW w \in Worker, Complete(w) \/ RetryPostpone(w) \/ SetFailed(w)
        PROVE  Recoverable'
    BY <2>7 DEF Complete, RetryPostpone, Postponed, SetFailed, StoreInNewCursor, NewRow
  <2> QED
    BY <2>1, <2>2, <2>3, <2>4, <2>5, <2>6, <2>7
       DEF Next, Runner, Handle, Raise, RaiseRetryable, RaiseIgnoreRetry, RaiseError,
           SerializationError, Outcome, LoseRequest, RunnerStart, RunnerFail,
           ProcessNotification, NotificationsDrained, WaitNotification, TakeSnapshot, Lock,
           Abort, Rollback, rowVars, vars
<1> QED
  BY <1>1, <1>2, TypeCorrect, PTL DEF Spec

\* The runner's memory agrees with the table as soon as it has processed the
\* notifications: every write of a row is notified, and a restart reads them all.
THEOREM RunnerSynchronised == Spec => []RunnerInSync
<1>1. Init => RunnerInSync
  BY DEF Init, RunnerInSync
<1>2. TypeOK /\ RunnerInSync /\ [Next]_vars => RunnerInSync'
  <2> SUFFICES ASSUME TypeOK, RunnerInSync, [Next]_vars PROVE RunnerInSync'
    OBVIOUS
  <2> USE DEF TypeOK, RunnerInSync
  <2>1. ASSUME NEW j \in Job, User(j) PROVE RunnerInSync'
    BY <2>1 DEF User, Create, SetDone, SetCancelled, Requeue, UserWrites, Notify
  <2>2. ASSUME NEW j \in Job, Aging(j) PROVE RunnerInSync'
    <3>1. \A i \in Job : row'[i].state = row[i].state
      BY <2>2 DEF Aging, Row
    <3> QED
      BY <2>2, <3>1 DEF Aging, runnerVars
  <2>3. CASE UNCHANGED <<row, mem, notifs, pc>>
    BY <2>3
  <2>4. CASE RunnerStart
    BY <2>4 DEF RunnerStart, rowVars
  <2>5. CASE RunnerFail
    BY <2>5 DEF RunnerFail
  <2>6. CASE RequeueDeadJobs
    BY <2>6 DEF RequeueDeadJobs
  <2>7. ASSUME NEW j \in Job, ProcessNotification(j) PROVE RunnerInSync'
    BY <2>7 DEF ProcessNotification, rowVars
  <2>8. CASE NotificationsDrained \/ WaitNotification
    BY <2>8 DEF NotificationsDrained, WaitNotification, rowVars
  <2>9. ASSUME NEW j \in Job, RunJob(j) PROVE RunnerInSync'
    BY <2>9 DEF RunJob
  <2>10. ASSUME NEW w \in Worker, NEW j \in Job, RunRequest(w, j) PROVE RunnerInSync'
    BY <2>10 DEF RunRequest, Accept, AddLockRecord, LoadedRetry, Refuse, Notify
  <2>11. ASSUME NEW w \in Worker, Complete(w) \/ RetryPostpone(w) \/ SetFailed(w)
         PROVE  RunnerInSync'
    BY <2>11 DEF Complete, RetryPostpone, Postponed, SetFailed, StoreInNewCursor, Notify
  <2> QED
    BY <2>1, <2>2, <2>3, <2>4, <2>5, <2>6, <2>7, <2>8, <2>9, <2>10, <2>11
       DEF Next, Runner, Handle, Raise, RaiseRetryable, RaiseIgnoreRetry, RaiseError,
           SerializationError, Outcome, LoseRequest, TakeSnapshot, Lock, Abort, Rollback,
           rowVars, runnerVars, vars
<1> QED
  BY <1>1, <1>2, TypeCorrect, PTL DEF Spec

ActiveJobs == {j \in Job : row[j].state \in Active}

\* The inductive form of CapacityRespected: while the runner is up it counts every
\* job that the table has enqueued or started, even before it is notified.
CapacityInv ==
    /\ CapacityRespected
    /\ pc # "down" => ActiveJobs \subseteq Running

\* A set of jobs that does not grow stays within the capacity.
LEMMA CapacityMonotone ==
    ASSUME CapacityRespected, ActiveJobs' \subseteq ActiveJobs
    PROVE  CapacityRespected'
<1>1. IsFiniteSet(ActiveJobs)
  BY JobAssumption, FS_Subset DEF ActiveJobs
<1>2. /\ Cardinality(ActiveJobs') <= Cardinality(ActiveJobs)
      /\ Cardinality(ActiveJobs) \in Nat /\ Cardinality(ActiveJobs') \in Nat
  BY <1>1, FS_Subset, FS_CardinalityType
<1> QED
  BY <1>2, BoundsAssumption DEF CapacityRespected, ActiveJobs

\* The jobs enqueued or started never exceed the capacity of the root channel,
\* through retries, requeues by users, dead jobs and restarts of the runner.
THEOREM CapacityKept == Spec => []CapacityRespected
<1>1. Init => CapacityInv
  <2> SUFFICES ASSUME Init PROVE CapacityRespected
    BY DEF Init, CapacityInv
  <2>1. {j \in Job : row[j].state \in Active} = {}
    BY DEF Init, NewRow, Active
  <2> QED
    BY <2>1, FS_EmptySet, BoundsAssumption DEF CapacityRespected
<1>2. TypeOK /\ CapacityInv /\ [Next]_vars => CapacityInv'
  <2> SUFFICES ASSUME TypeOK, CapacityInv, [Next]_vars PROVE CapacityInv'
    OBVIOUS
  <2> USE DEF TypeOK
  <2>1. ASSUME ActiveJobs' \subseteq ActiveJobs, UNCHANGED <<mem, pc>> PROVE CapacityInv'
    BY <2>1, CapacityMonotone DEF CapacityInv, Running
  <2>2. ASSUME NEW j \in Job, User(j) PROVE CapacityInv'
    <3>1. ActiveJobs' \subseteq ActiveJobs
      BY <2>2 DEF ActiveJobs, Active, User, Create, SetDone, SetCancelled, Requeue,
                  UserWrites, NewRow
    <3> QED
      BY <2>1, <2>2, <3>1 DEF User, Create, SetDone, SetCancelled, Requeue, UserWrites
  <2>3. ASSUME NEW j \in Job, Aging(j) PROVE CapacityInv'
    <3>1. ActiveJobs' \subseteq ActiveJobs
      BY <2>3 DEF ActiveJobs, Aging, Row
    <3> QED
      BY <2>1, <2>3, <3>1 DEF Aging, runnerVars
  <2>4. CASE UNCHANGED <<row, mem, pc>>
    BY <2>1, <2>4 DEF ActiveJobs
  <2>5. CASE RunnerStart
    <3>1. ActiveJobs' = ActiveJobs /\ ActiveJobs \subseteq Running'
      BY <2>5 DEF RunnerStart, rowVars, ActiveJobs, Active, Running, Place
    <3> QED
      BY <3>1, CapacityMonotone DEF CapacityInv
  <2>6. CASE RunnerFail
    <3>1. ActiveJobs' = ActiveJobs /\ pc' = "down"
      BY <2>6 DEF RunnerFail, rowVars, ActiveJobs
    <3> QED
      BY <3>1, CapacityMonotone DEF CapacityInv
  <2>7. CASE RequeueDeadJobs
    <3>1. ActiveJobs' \subseteq ActiveJobs
      BY <2>7 DEF RequeueDeadJobs, ActiveJobs, Active, DeadRow, NewRow
    <3> QED
      BY <2>7, <3>1, CapacityMonotone DEF RequeueDeadJobs, CapacityInv, Running
  <2>8. ASSUME NEW j \in Job, ProcessNotification(j) PROVE CapacityInv'
    <3>1. ActiveJobs' = ActiveJobs
      BY <2>8 DEF ProcessNotification, rowVars, ActiveJobs
    <3>2. j \in ActiveJobs => mem'[j] = "running"
      BY <2>8 DEF ProcessNotification, ActiveJobs, Active, Place
    <3>3. pc # "down" => ActiveJobs \subseteq Running'
      BY <2>8, <3>2 DEF ProcessNotification, CapacityInv, Running, ActiveJobs
    <3> QED
      BY <2>8, <3>1, <3>3, CapacityMonotone DEF CapacityInv, ProcessNotification
  <2>9. CASE NotificationsDrained \/ WaitNotification
    BY <2>9, CapacityMonotone
       DEF NotificationsDrained, WaitNotification, CapacityInv, rowVars, ActiveJobs, Running
  <2>10. ASSUME NEW j \in Job, RunJob(j) PROVE CapacityInv'
    <3>1. ActiveJobs' \subseteq Running \cup {j} /\ j \notin Running
      BY <2>10 DEF RunJob, EnqueuedRow, ActiveJobs, CapacityInv, Running
    <3>2. Running' = Running \cup {j}
      BY <2>10 DEF RunJob, Running
    <3>3. IsFiniteSet(Running)
      BY JobAssumption, FS_Subset DEF Running
    <3>4. /\ Cardinality(Running \cup {j}) = Cardinality(Running) + 1
          /\ IsFiniteSet(Running \cup {j}) /\ Cardinality(Running) \in Nat
      BY <3>1, <3>3, FS_AddElement, FS_CardinalityType
    <3>5. /\ Cardinality(ActiveJobs') <= Cardinality(Running) + 1
          /\ Cardinality(ActiveJobs') \in Nat
      BY <3>1, <3>4, FS_Subset, FS_CardinalityType
    <3>6. CapacityRespected'
      BY <2>10, <3>4, <3>5, BoundsAssumption
         DEF RunJob, HasCapacity, CapacityRespected, ActiveJobs
    <3> QED
      BY <3>1, <3>2, <3>6 DEF CapacityInv
  <2>11. ASSUME NEW w \in Worker, NEW j \in Job, RunRequest(w, j) PROVE CapacityInv'
    <3>1. ActiveJobs' \subseteq ActiveJobs
      BY <2>11 DEF RunRequest, Accept, AddLockRecord, LoadedRetry, Refuse, ActiveJobs, Active, Row
    <3> QED
      BY <2>1, <2>11, <3>1 DEF RunRequest
  <2>12. ASSUME NEW w \in Worker, Complete(w) \/ RetryPostpone(w) \/ SetFailed(w)
         PROVE  CapacityInv'
    <3>1. ActiveJobs' \subseteq ActiveJobs
      BY <2>12 DEF ActiveJobs, Active, Complete, RetryPostpone, Postponed, SetFailed, StoreInNewCursor,
                   NewRow
    <3> QED
      BY <2>1, <2>12, <3>1 DEF Complete, RetryPostpone, Postponed, SetFailed, StoreInNewCursor
  <2> QED
    BY <2>2, <2>3, <2>4, <2>5, <2>6, <2>7, <2>8, <2>9, <2>10, <2>11, <2>12
       DEF Next, Runner, Handle, Raise, RaiseRetryable, RaiseIgnoreRetry, RaiseError,
           SerializationError, Outcome, LoseRequest, TakeSnapshot, Lock, Abort, Rollback,
           rowVars, runnerVars, vars
<1>3. CapacityInv => CapacityRespected
  BY DEF CapacityInv
<1> QED
  BY <1>1, <1>2, <1>3, TypeCorrect, PTL DEF Spec

-----------------------------------------------------------------------------
(* JobQueue implements JobLife: what the steps rest on *)

\* The runner knows only jobs that exist: rows are never deleted here.
KnownJobs == \A j \in Job : mem[j] # "absent" => row[j].state # "absent"

LEMMA KnownExist == Spec => []KnownJobs
<1>1. Init => KnownJobs
  BY DEF Init, KnownJobs
<1>2. TypeOK /\ KnownJobs /\ [Next]_vars => KnownJobs'
  <2> SUFFICES ASSUME TypeOK, KnownJobs, [Next]_vars PROVE KnownJobs'
    OBVIOUS
  <2>1. ASSUME NEW j \in Job, User(j) PROVE KnownJobs'
    BY <2>1 DEF KnownJobs, User, Create, SetDone, SetCancelled, Requeue, UserWrites, NewRow, TypeOK
  <2>2. ASSUME NEW j \in Job, Aging(j) \/ LoseRequest(j) PROVE KnownJobs'
    BY <2>2 DEF KnownJobs, Aging, LoseRequest, rowVars, runnerVars, TypeOK, Row
  <2>3. CASE RunnerStart \/ RunnerFail
    BY <2>3 DEF KnownJobs, RunnerStart, RunnerFail, Place, rowVars, Active, TypeOK
  <2>4. CASE RequeueDeadJobs
    BY <2>4 DEF KnownJobs, RequeueDeadJobs, DeadRow, NewRow, TypeOK
  <2>5. ASSUME NEW j \in Job, ProcessNotification(j) \/ RunJob(j) PROVE KnownJobs'
    BY <2>5 DEF KnownJobs, ProcessNotification, RunJob, Place, EnqueuedRow, rowVars, Active, TypeOK
  <2>6. CASE NotificationsDrained \/ WaitNotification
    BY <2>6 DEF KnownJobs, NotificationsDrained, WaitNotification, rowVars
  <2>7. ASSUME NEW w \in Worker, NEW j \in Job, RunRequest(w, j) PROVE KnownJobs'
    BY <2>7 DEF KnownJobs, RunRequest, Accept, Refuse, TypeOK, Row
  <2>8. ASSUME NEW w \in Worker, TakeSnapshot(w) \/ Lock(w) \/ Raise(w) \/ Rollback(w) \/ Abort(w)
        PROVE  KnownJobs'
    BY <2>8 DEF KnownJobs, TakeSnapshot, Lock, Raise, RaiseRetryable, RaiseIgnoreRetry, RaiseError,
                SerializationError, Outcome, Rollback, Abort, rowVars, runnerVars
  <2>9. ASSUME NEW w \in Worker, Complete(w) \/ RetryPostpone(w) \/ SetFailed(w)
        PROVE  KnownJobs'
    BY <2>9 DEF KnownJobs, Complete, RetryPostpone, Postponed, SetFailed, StoreInNewCursor, NewRow,
                TypeOK
  <2>10. CASE UNCHANGED vars
    BY <2>10 DEF KnownJobs, vars
  <2> QED
    BY <2>1, <2>2, <2>3, <2>4, <2>5, <2>6, <2>7, <2>8, <2>9, <2>10 DEF Next, Runner, Handle
<1> QED
  BY <1>1, <1>2, TypeCorrect, PTL DEF Spec

\* A handler that is not idle has a job, and who performs holds its lock.
LEMMA Serving ==
    ASSUME TypeOK, LockingInv, NEW w \in Worker
    PROVE  /\ phase[w] # "idle" => cur[w] \in Job
           /\ phase[w] = "idle" => \A j \in Job : w \notin LifeServing[j]
           /\ \A j \in Job : lock[j] = w => cur[w] = j /\ phase[w] \in Holding
           /\ phase[w] = "performing" => lock[cur[w]] = w
  BY NoneAssumption DEF TypeOK, ServingOK, LockingInv, LockHeld, LifeServing

-----------------------------------------------------------------------------
(* Steps that change nothing in JobLife, or only what the runner has seen *)

LEMMA StutterSteps ==
    ASSUME TypeOK, LockingInv,
           \/ RunnerStart \/ NotificationsDrained \/ WaitNotification
           \/ \E j \in Job : Aging(j) \/ LoseRequest(j)
           \/ \E w \in Worker : TakeSnapshot(w) \/ Rollback(w)
           \/ \E w \in Worker, j \in Job : RunRequest(w, j) /\ Refuse
    PROVE  UNCHANGED Life!vars
<1> SUFFICES /\ LifeState' = LifeState /\ notifs' = notifs
             /\ LifeServing' = LifeServing /\ LifePerformer' = LifePerformer
  BY DEF Life!vars
<1>1. CASE RunnerStart \/ NotificationsDrained \/ WaitNotification
  BY <1>1 DEF RunnerStart, NotificationsDrained, WaitNotification, rowVars, handlerVars,
              LifeState, LifeServing, LifePerformer
<1>2. ASSUME NEW j \in Job, Aging(j) PROVE LifeState' = LifeState
  BY <1>2 DEF Aging, LifeState, TypeOK, Row
<1>3. CASE \E j \in Job : Aging(j) \/ LoseRequest(j)
  BY <1>2, <1>3 DEF Aging, LoseRequest, rowVars, handlerVars, runnerVars,
                    LifeState, LifeServing, LifePerformer
<1>4. ASSUME NEW w \in Worker, TakeSnapshot(w)
      PROVE  LifeServing' = LifeServing /\ LifePerformer' = LifePerformer
  <2>1. \A j \in Job : lock[j] # w
    BY <1>4, Serving DEF TakeSnapshot, Holding
  <2>2. /\ \A v \in Worker : v # w => phase'[v] = phase[v]
        /\ phase[w] = "started" /\ phase'[w] \in {"locking", "postponing"}
        /\ cur' = cur /\ lock' = lock
    BY <1>4 DEF TakeSnapshot, rowVars, TypeOK
  <2> QED
    BY <2>1, <2>2 DEF LifeServing, LifePerformer, TypeOK
<1>5. ASSUME NEW w \in Worker, Rollback(w)
      PROVE  LifeServing' = LifeServing /\ LifePerformer' = LifePerformer
  <2>1. /\ \A v \in Worker : v # w => phase'[v] = phase[v] /\ cur'[v] = cur[v]
        /\ phase[w] = "rollback" /\ phase'[w] = "idle" /\ cur'[w] = None
        /\ lock' = [j \in Job |-> IF lock[j] = w THEN None ELSE lock[j]]
    BY <1>5 DEF Rollback, EndHandler, Unlocked, TypeOK
  <2> QED
    BY <2>1, NoneAssumption DEF LifeServing, LifePerformer, TypeOK
<1>6. CASE \E w \in Worker : TakeSnapshot(w) \/ Rollback(w)
  BY <1>4, <1>5, <1>6 DEF TakeSnapshot, Rollback, rowVars, runnerVars, LifeState
<1>7. CASE \E w \in Worker, j \in Job : RunRequest(w, j) /\ Refuse
  BY <1>7 DEF RunRequest, Refuse, handlerVars, LifeState, LifeServing, LifePerformer
<1> QED
  BY <1>1, <1>3, <1>6, <1>7

-----------------------------------------------------------------------------
(* Users and the runner *)

\* A row that is written with the same state as in JobLife.
LEMMA RowWrite ==
    ASSUME TypeOK, NEW j \in Job, NEW new \in Row, row' = [row EXCEPT ![j] = new]
    PROVE  LifeState' = [LifeState EXCEPT ![j] =
                            IF new.state \in {"pending"} \cup Active THEN "open" ELSE new.state]
  BY DEF LifeState, TypeOK

LEMMA UserStep ==
    ASSUME TypeOK, NEW j \in Job, User(j) PROVE Life!User
<1>1. ASSUME NEW s \in State, NEW r \in 0..RetryCap, UserWrites(j, s, r)
      PROVE  /\ Life!Write(j, IF s \in {"pending"} \cup Active THEN "open" ELSE s)
             /\ LifeServing' = LifeServing /\ LifePerformer' = LifePerformer
  <2>1. NewRow(s, r) \in Row /\ NewRow(s, r).state = s
    BY DEF NewRow, Row, EnqueuedDate
  <2>2. row' = [row EXCEPT ![j] = NewRow(s, r)]
    BY <1>1 DEF UserWrites
  <2>3. LifeState' = [LifeState EXCEPT ![j] =
                        IF s \in {"pending"} \cup Active THEN "open" ELSE s]
    BY <2>1, <2>2, RowWrite
  <2>4. notifs' \subseteq notifs \cup {j}
    BY <1>1 DEF UserWrites, Notify
  <2> QED
    BY <1>1, <2>3, <2>4 DEF UserWrites, Life!Write, LifeServing, LifePerformer
<1>2. row[j].retry \in 0..RetryCap /\ 0 \in 0..RetryCap
  BY RetriesAssumption DEF TypeOK, Row
<1>3. CASE Create(j)
  <2>1. LifeState[j] = "absent"
    BY <1>3 DEF Create, LifeState, Active
  <2> QED
    BY <1>1, <1>2, <1>3, <2>1 DEF Create, State, Life!User, Life!Create
<1>4. LifeState[j] = "absent" <=> row[j].state = "absent"
  BY DEF LifeState, Active
<1>5. ASSUME SetDone(j) \/ Requeue(j) PROVE Life!User
  <2>1. Life!Verdict(j, "done") \/ Life!Verdict(j, "open")
    BY <1>1, <1>2, <1>4, <1>5 DEF SetDone, Requeue, State, Active, Ended, Life!Verdict
  <2> QED
    BY <2>1 DEF Life!User, Life!State
<1>6. CASE SetCancelled(j)
  <2>1. LifeState[j] \in {"open", "failed"}
    BY <1>6 DEF SetCancelled, LifeState, Active
  <2>2. Life!Verdict(j, "cancelled")
    BY <1>1, <1>2, <1>6, <2>1 DEF SetCancelled, State, Active, Ended, Life!Verdict
  <2> QED
    BY <2>2 DEF Life!User, Life!State
<1> QED
  BY <1>3, <1>5, <1>6 DEF User

LEMMA SeeStep ==
    ASSUME RunnerFail \/ \E j \in Job : ProcessNotification(j) PROVE Life!See
<1>1. CASE RunnerFail
  BY <1>1 DEF RunnerFail, rowVars, handlerVars, LifeState, LifeServing, LifePerformer, Life!See
<1>2. CASE \E j \in Job : ProcessNotification(j)
  BY <1>2 DEF ProcessNotification, rowVars, handlerVars, LifeState, LifeServing, LifePerformer,
              Life!See
<1> QED
  BY <1>1, <1>2

\* The runner knows the state of a job of which it has not been notified.
LEMMA DispatchStep ==
    ASSUME TypeOK, RunnerInSync, KnownJobs, NEW j \in Job, RunJob(j) PROVE Life!Dispatch(j)
<1>1. row[j].state # "absent" /\ (j \notin notifs => row[j].state = "pending")
  BY DEF RunJob, RunnerInSync, KnownJobs, Place, Active
<1>2. EnqueuedRow(row[j]) \in Row /\ EnqueuedRow(row[j]).state = "enqueued"
  BY DEF EnqueuedRow, TypeOK, Row, State, Active, EnqueuedDate
<1>3. LifeState' = [LifeState EXCEPT ![j] = "open"]
  <2>1. row' = [row EXCEPT ![j] = EnqueuedRow(row[j])]
    BY DEF RunJob
  <2> QED
    BY <1>2, <2>1, RowWrite DEF Active
<1> QED
  BY <1>1, <1>3 DEF RunJob, LifeState, LifeServing, LifePerformer, Life!Dispatch, Life!Write, Active

LEMMA FindDeadStep ==
    ASSUME TypeOK, RequeueDeadJobs PROVE \E D \in SUBSET Job : Life!FindDead(D)
<1> DEFINE dead == {j \in Job : Dead(j)}
           given == {j \in dead : DeadRow(row[j], MaxRetries[j]).state = "failed"}
<1>1. \A j \in dead : LifeState[j] = "open"
  BY DEF Dead, LifeState
<1>2. LifeState' = [j \in Job |-> IF j \in given THEN "failed" ELSE LifeState[j]]
  <2>1. row' = [j \in Job |-> IF j \in dead THEN DeadRow(row[j], MaxRetries[j]) ELSE row[j]]
    BY DEF RequeueDeadJobs
  <2>2. \A j \in dead : DeadRow(row[j], MaxRetries[j]).state \in {"failed", "pending"}
    BY DEF DeadRow, NewRow
  <2> QED
    BY <1>1, <2>1, <2>2 DEF LifeState, Active
<1>3. given \in SUBSET dead /\ dead \in SUBSET Job
  OBVIOUS
<1>4. notifs' \subseteq notifs \cup dead /\ LifeServing' = LifeServing
      /\ LifePerformer' = LifePerformer
  BY DEF RequeueDeadJobs, LifeServing, LifePerformer
<1>5. Life!FindDead(dead)
  <2> HIDE DEF dead, given
  <2> QED
    BY <1>1, <1>2, <1>3, <1>4 DEF Life!FindDead
<1> QED
  BY <1>3, <1>5

-----------------------------------------------------------------------------
(* Handlers *)

\* Two values of LifeServing are compared job by job and handler by handler.
LEMMA ServingChange ==
    ASSUME NEW j \in Job, NEW w \in Worker
    PROVE  /\ (\A i \in Job, v \in Worker :
                  v \in LifeServing'[i] <=> v \in LifeServing[i] \/ (i = j /\ v = w))
              => LifeServing' = [LifeServing EXCEPT ![j] = @ \cup {w}]
           /\ (\A i \in Job, v \in Worker :
                  v \in LifeServing'[i] <=> v \in LifeServing[i] /\ ~(i = j /\ v = w))
              => LifeServing' = [LifeServing EXCEPT ![j] = @ \ {w}]
           /\ (\A i \in Job, v \in Worker : v \in LifeServing'[i] <=> v \in LifeServing[i])
              => LifeServing' = LifeServing
<1>1. \A i \in Job : LifeServing[i] \subseteq Worker /\ LifeServing'[i] \subseteq Worker
  BY DEF LifeServing
<1>2. /\ LifeServing = [i \in Job |-> LifeServing[i]]
      /\ LifeServing' = [i \in Job |-> LifeServing'[i]]
  BY DEF LifeServing
<1>3. ASSUME \A i \in Job, v \in Worker :
                 v \in LifeServing'[i] <=> v \in LifeServing[i] \/ (i = j /\ v = w)
      PROVE  LifeServing' = [LifeServing EXCEPT ![j] = @ \cup {w}]
  <2>1. LifeServing'[j] = LifeServing[j] \cup {w}
    BY <1>1, <1>3
  <2>2. \A i \in Job : i # j => LifeServing'[i] = LifeServing[i]
    BY <1>1, <1>3
  <2> QED
    BY <1>2, <2>1, <2>2
<1>4. ASSUME \A i \in Job, v \in Worker :
                 v \in LifeServing'[i] <=> v \in LifeServing[i] /\ ~(i = j /\ v = w)
      PROVE  LifeServing' = [LifeServing EXCEPT ![j] = @ \ {w}]
  <2>1. LifeServing'[j] = LifeServing[j] \ {w}
    BY <1>1, <1>4
  <2>2. \A i \in Job : i # j => LifeServing'[i] = LifeServing[i]
    BY <1>1, <1>4
  <2> QED
    BY <1>2, <2>1, <2>2
<1>5. ASSUME \A i \in Job, v \in Worker : v \in LifeServing'[i] <=> v \in LifeServing[i]
      PROVE  LifeServing' = LifeServing
  <2>1. \A i \in Job : LifeServing'[i] = LifeServing[i]
    BY <1>1, <1>5
  <2> QED
    BY <1>2, <2>1
<1> QED
  BY <1>3, <1>4, <1>5

LEMMA TakeStep ==
    ASSUME TypeOK, LockingInv, NEW w \in Worker, NEW j \in Job,
           phase[w] = "idle", row[j].state = "enqueued", Accept(w, j), UNCHANGED lock
    PROVE  Life!Take(w, j)
<1>1. LifeState[j] = "open" /\ LifeState' = [LifeState EXCEPT ![j] = "open"]
  <2>1. /\ \A i \in Job : i # j => row'[i] = row[i]
        /\ row'[j].state = "started"
    BY DEF Accept, TypeOK, Row
  <2>2. /\ \A i \in Job : i # j => LifeState'[i] = LifeState[i]
        /\ LifeState'[j] = "open" /\ LifeState[j] = "open"
    BY <2>1 DEF LifeState, Active
  <2> QED
    BY <2>2 DEF LifeState
<1>2. \A i \in Job : w \notin LifeServing[i] /\ lock[i] # w
  BY Serving DEF Holding
<1>3. /\ phase' = [phase EXCEPT ![w] = "started"] /\ cur' = [cur EXCEPT ![w] = j]
      /\ phase'[w] = "started" /\ cur'[w] = j
  BY DEF Accept, TypeOK
<1>4. LifeServing' = [LifeServing EXCEPT ![j] = @ \cup {w}]
  <2>1. \A v \in Worker : v # w => phase'[v] = phase[v] /\ cur'[v] = cur[v]
    BY <1>3 DEF TypeOK
  <2>2. ASSUME NEW i \in Job, NEW v \in Worker
        PROVE  v \in LifeServing'[i] <=> v \in LifeServing[i] \/ (i = j /\ v = w)
    BY <1>2, <1>3, <2>1 DEF LifeServing
  <2> QED
    BY <2>2, ServingChange
<1>5. LifePerformer' = LifePerformer
  BY <1>2, <1>3 DEF LifePerformer, TypeOK
<1> QED
  BY <1>1, <1>2, <1>4, <1>5 DEF Accept, Notify, Life!Take, Life!Write

LEMMA PerformStep ==
    ASSUME TypeOK, LockingInv, NEW w \in Worker, Lock(w) PROVE Life!Perform(w, cur[w])
<1>1. /\ cur[w] \in Job /\ phase[w] = "locking" /\ \A i \in Job : lock[i] # w
      /\ lock[cur[w]] = None
  BY Serving DEF Lock, LockFree, Holding
<1>2. /\ phase' = [phase EXCEPT ![w] = "performing"] /\ phase'[w] = "performing"
      /\ lock' = [lock EXCEPT ![cur[w]] = w]
  BY DEF Lock, TypeOK
<1>3. LifeState' = LifeState /\ notifs' = notifs /\ LifeServing' = LifeServing
  BY <1>1, <1>2 DEF Lock, runnerVars, LifeState, LifeServing, TypeOK
<1>4. LifePerformer' = [LifePerformer EXCEPT ![cur[w]] = w]
  BY <1>1, <1>2, NoneAssumption DEF LifePerformer, TypeOK
<1>5. w \in LifeServing[cur[w]] /\ LifePerformer[cur[w]] = None
  BY <1>1 DEF LifeServing, LifePerformer
<1> QED
  BY <1>3, <1>4, <1>5 DEF Life!Perform

\* The end of a handler: it leaves its job, and what it held is free.
LEMMA EndStep ==
    ASSUME TypeOK, LockingInv, NEW w \in Worker, phase[w] # "idle", EndHandler(w)
    PROVE  /\ LifeServing' = [LifeServing EXCEPT ![cur[w]] = @ \ {w}]
           /\ LifePerformer' = [LifePerformer EXCEPT ![cur[w]] = IF @ = w THEN None ELSE @]
           /\ phase[w] = "performing" => LifePerformer[cur[w]] = w
           /\ phase[w] = "rollback" =>
                  LifeServing' = LifeServing /\ LifePerformer' = LifePerformer
<1>1. /\ cur[w] \in Job /\ \A i \in Job : lock[i] = w => i = cur[w]
      /\ phase[w] = "performing" => lock[cur[w]] = w
  BY Serving
<1>2. /\ \A v \in Worker : v # w => phase'[v] = phase[v] /\ cur'[v] = cur[v]
      /\ phase'[w] = "idle" /\ cur'[w] = None
      /\ lock' = [j \in Job |-> IF lock[j] = w THEN None ELSE lock[j]]
  BY DEF EndHandler, Unlocked, TypeOK
<1>3. /\ LifeServing' = [LifeServing EXCEPT ![cur[w]] = @ \ {w}]
      /\ phase[w] = "rollback" => LifeServing' = LifeServing
  <2>1. ASSUME NEW i \in Job, NEW v \in Worker
        PROVE  v \in LifeServing'[i] <=> v \in LifeServing[i] /\ ~(i = cur[w] /\ v = w)
    BY <1>1, <1>2, NoneAssumption DEF LifeServing
  <2>2. phase[w] = "rollback" => w \notin LifeServing[cur[w]]
    BY <1>1 DEF LifeServing
  <2> QED
    BY <1>1, <2>1, <2>2, ServingChange
<1>4. \A j \in Job : LifePerformer'[j] = IF LifePerformer[j] = w THEN None ELSE LifePerformer[j]
  BY <1>2, NoneAssumption DEF LifePerformer, TypeOK
<1>5. \A j \in Job : LifePerformer[j] = w => j = cur[w] /\ phase[w] = "performing"
  BY <1>1, NoneAssumption DEF LifePerformer
<1>7. LifePerformer' = [LifePerformer EXCEPT ![cur[w]] = IF @ = w THEN None ELSE @]
  <2>1. \A j \in Job : j # cur[w] => LifePerformer'[j] = LifePerformer[j]
    BY <1>4, <1>5
  <2>2. LifePerformer'[cur[w]] = IF LifePerformer[cur[w]] = w THEN None ELSE LifePerformer[cur[w]]
    BY <1>1, <1>4
  <2>3. LifePerformer = [j \in Job |-> LifePerformer[j]] /\ LifePerformer' = [j \in Job |-> LifePerformer'[j]]
    BY DEF LifePerformer
  <2> QED
    BY <2>1, <2>2, <2>3
<1>8. phase[w] = "rollback" => LifePerformer' = LifePerformer
  <2>1. phase[w] = "rollback" => \A j \in Job : LifePerformer'[j] = LifePerformer[j]
    BY <1>4, <1>5
  <2> QED
    BY <2>1 DEF LifePerformer
<1>6. phase[w] = "performing" => LifePerformer[cur[w]] = w
  BY <1>1, NoneAssumption DEF LifePerformer
<1> QED
  BY <1>3, <1>6, <1>7, <1>8

LEMMA CompleteStep ==
    ASSUME TypeOK, LockingInv, NEW w \in Worker, Complete(w) PROVE Life!Complete(w, cur[w])
<1>1. cur[w] \in Job /\ phase[w] = "performing" /\ row[cur[w]].state = "started"
  BY Serving DEF Complete, StoreAllowed, LockingInv, SnapshotTrue
<1>2. NewRow("done", Bump(tries[w])) \in Row
  BY NewRowType, BumpType DEF State, Ended, TypeOK
<1>3. LifeState' = [LifeState EXCEPT ![cur[w]] = "done"]
  <2>1. row' = [row EXCEPT ![cur[w]] = NewRow("done", Bump(tries[w]))]
    BY DEF Complete
  <2>2. NewRow("done", Bump(tries[w])).state = "done"
    BY DEF NewRow
  <2> QED
    <3> DEFINE new == NewRow("done", Bump(tries[w]))
    <3>1. new \in Row /\ new.state = "done" /\ row' = [row EXCEPT ![cur[w]] = new]
      BY <1>2, <2>1, <2>2
    <3>2. ~(new.state \in {"pending"} \cup Active)
      BY <3>1 DEF Active
    <3> HIDE DEF new
    <3>3. LifeState' = [LifeState EXCEPT ![cur[w]] = IF new.state \in {"pending"} \cup Active THEN "open" ELSE new.state]
      BY <1>1, <3>1, RowWrite
    <3> QED
      BY <3>1, <3>2, <3>3
<1>4. LifeState[cur[w]] = "open"
  BY <1>1 DEF LifeState, Active
<1>5. /\ LifeServing' = [LifeServing EXCEPT ![cur[w]] = @ \ {w}]
      /\ LifePerformer[cur[w]] = w
      /\ LifePerformer' = [LifePerformer EXCEPT ![cur[w]] = None]
  <2>1. phase[w] # "idle" /\ EndHandler(w)
    BY <1>1 DEF Complete
  <2>2. LifePerformer[cur[w]] = w
    BY <1>1, <2>1, EndStep
  <2> QED
    BY <2>1, <2>2, EndStep
<1> QED
  BY <1>3, <1>4, <1>5 DEF Complete, Notify, Life!Complete, Life!Write, Life!Leaves

LEMMA RaiseStep ==
    ASSUME TypeOK, LockingInv, NEW w \in Worker, Raise(w) PROVE Life!Raise(w, cur[w])
<1> SUFFICES ASSUME NEW p \in {"postponing", "failing"}, NEW r, Outcome(w, p, r)
             PROVE  Life!Raise(w, cur[w])
  BY DEF Raise, RaiseRetryable, RaiseIgnoreRetry, RaiseError, SerializationError
<1>1. /\ cur[w] \in Job /\ phase[w] = "performing" /\ lock[cur[w]] = w
      /\ \A i \in Job : lock[i] = w => i = cur[w]
  BY Serving DEF Outcome
<1>2. /\ phase' = [phase EXCEPT ![w] = p] /\ phase'[w] = p
      /\ \A i \in Job : lock'[i] = lock[i] \/ (lock[i] = w /\ lock'[i] = None)
  BY DEF Outcome, Unlocked, TypeOK
<1>3. LifeState' = LifeState /\ notifs' = notifs /\ LifeServing' = LifeServing
  BY <1>1, <1>2 DEF Outcome, runnerVars, LifeState, LifeServing, TypeOK
<1>4. /\ LifePerformer[cur[w]] = w
      /\ LifePerformer' = [LifePerformer EXCEPT ![cur[w]] = None]
  <2>1. LifePerformer[cur[w]] = w
    BY <1>1, NoneAssumption DEF LifePerformer
  <2>2. LifePerformer'[cur[w]] = None
    BY <1>1, <1>2, NoneAssumption DEF LifePerformer
  <2>3. ASSUME NEW i \in Job, i # cur[w] PROVE LifePerformer'[i] = LifePerformer[i]
    <3>1. lock'[i] = lock[i] /\ lock[i] # w
      BY <1>1, <1>2, <2>3
    <3>2. lock[i] # None => lock[i] \in Worker /\ phase'[lock[i]] = phase[lock[i]]
      BY <1>2, <3>1 DEF TypeOK
    <3> QED
      BY <3>1, <3>2 DEF LifePerformer
  <2>4. LifePerformer = [i \in Job |-> LifePerformer[i]] /\ LifePerformer' = [i \in Job |-> LifePerformer'[i]]
    BY DEF LifePerformer
  <2> QED
    BY <1>1, <2>1, <2>2, <2>3, <2>4
<1> QED
  BY <1>3, <1>4 DEF Life!Raise

LEMMA StoreFailureStep ==
    ASSUME TypeOK, LockingInv, NEW w \in Worker, RetryPostpone(w) \/ SetFailed(w)
    PROVE  Life!StoreFailure(w, cur[w])
<1>1. /\ cur[w] \in Job /\ phase[w] \in {"postponing", "failing"}
      /\ \A i \in Job : lock[i] = w => i = cur[w]
  BY Serving DEF RetryPostpone, SetFailed
<1>2. PICK s \in {"pending", "failed"} : StoreInNewCursor(w, NewRow(s, tries[w]))
  BY DEF RetryPostpone, Postponed, SetFailed
<1>3. \E t \in {"open", "failed"} : LifeState' = [LifeState EXCEPT ![cur[w]] = t]
  <2>1. NewRow(s, tries[w]) \in Row /\ NewRow(s, tries[w]).state = s
    BY NewRowType DEF NewRow, State, Ended, TypeOK
  <2>2. row' = [row EXCEPT ![cur[w]] = NewRow(s, tries[w])]
    BY <1>2 DEF StoreInNewCursor
  <2>3. LifeState' = [LifeState EXCEPT ![cur[w]] =
                        IF s \in {"pending"} \cup Active THEN "open" ELSE s]
    BY <1>1, <2>1, <2>2, RowWrite
  <2> QED
    BY <2>3 DEF Active
<1>4. /\ phase' = [phase EXCEPT ![w] = "rollback"] /\ phase'[w] = "rollback"
      /\ cur' = cur /\ lock' = lock
  BY <1>2 DEF StoreInNewCursor, TypeOK
<1>5. LifeServing' = [LifeServing EXCEPT ![cur[w]] = @ \ {w}]
  BY <1>1, <1>4 DEF LifeServing, TypeOK
<1>6. LifePerformer' = LifePerformer /\ LifePerformer[cur[w]] # w
  BY <1>1, <1>4, NoneAssumption DEF LifePerformer, TypeOK
<1>7. w \in LifeServing[cur[w]]
  BY <1>1 DEF LifeServing
<1> QED
  BY <1>2, <1>3, <1>5, <1>6, <1>7
     DEF StoreInNewCursor, Notify, Life!StoreFailure, Life!Write, Life!Leaves

LEMMA AbortStep ==
    ASSUME TypeOK, LockingInv, NEW w \in Worker, Abort(w)
    PROVE  Life!Vanish(w, cur[w]) \/ UNCHANGED Life!vars
<1>1. LifeState' = LifeState /\ notifs' = notifs /\ cur[w] \in Job
  BY Serving DEF Abort, runnerVars, LifeState
<1>2. CASE phase[w] = "rollback"
  BY <1>1, <1>2, EndStep DEF Abort, Life!vars
<1>3. CASE phase[w] # "rollback"
  <2>1. w \in LifeServing[cur[w]]
    BY <1>1, <1>3 DEF LifeServing
  <2> QED
    BY <1>1, <2>1, EndStep DEF Abort, Life!Vanish, Life!Leaves
<1> QED
  BY <1>2, <1>3

-----------------------------------------------------------------------------
(* The refinement *)

\* JobQueue keeps the promise of JobLife: one performer at a time, completions of
\* open jobs only, and no job that has ended is opened by who knew that it had.
THEOREM Refinement == Spec => ImplementsJobLife
<1>1. Init => Life!Init
  <2> SUFFICES ASSUME Init PROVE Life!Init
    OBVIOUS
  <2>1. LifeState = [j \in Job |-> "absent"]
    BY DEF Init, LifeState, NewRow, Active
  <2>2. LifeServing = [j \in Job |-> {}]
    <3>1. \A w \in Worker, j \in Job : cur[w] # j
      BY NoneAssumption DEF Init
    <3>2. \A j \in Job : {w \in Worker : cur[w] = j /\ phase[w] # "rollback"} = {}
      BY <3>1
    <3> QED
      BY <3>2 DEF LifeServing
  <2>3. LifePerformer = [j \in Job |-> None]
    BY DEF Init, LifePerformer
  <2> QED
    BY <2>1, <2>2, <2>3 DEF Init, Life!Init
<1>2. TypeOK /\ LockingInv /\ RunnerInSync /\ KnownJobs /\ [Next]_vars => [Life!Next]_Life!vars
  <2> SUFFICES ASSUME TypeOK, LockingInv, RunnerInSync, KnownJobs, [Next]_vars
               PROVE  Life!Next \/ UNCHANGED Life!vars
    OBVIOUS
  <2>1. ASSUME NEW j \in Job, User(j) PROVE Life!Next
    BY <2>1, UserStep DEF Life!Next
  <2>2. CASE RunnerFail \/ \E j \in Job : ProcessNotification(j)
    BY <2>2, SeeStep DEF Life!Next, Life!Runner
  <2>3. ASSUME NEW j \in Job, RunJob(j) PROVE Life!Next
    BY <2>3, DispatchStep DEF Life!Next, Life!Runner
  <2>4. CASE RequeueDeadJobs
    BY <2>4, FindDeadStep DEF Life!Next, Life!Runner
  <2>5. ASSUME NEW w \in Worker, NEW j \in Job, RunRequest(w, j)
        PROVE  Life!Next \/ UNCHANGED Life!vars
    <3>1. CASE row[j].state = "enqueued"
      BY <2>5, <3>1, TakeStep DEF RunRequest, Life!Next, Life!Handler
    <3>2. CASE row[j].state # "enqueued"
      BY <2>5, <3>2, StutterSteps DEF RunRequest
    <3> QED
      BY <3>1, <3>2
  <2>6. ASSUME NEW w \in Worker, Lock(w) \/ Complete(w) \/ Raise(w) \/ RetryPostpone(w) \/ SetFailed(w)
        PROVE  Life!Next
    <3>1. cur[w] \in Job
      BY <2>6, Serving
         DEF Lock, Complete, Raise, RaiseRetryable, RaiseIgnoreRetry, RaiseError,
             SerializationError, Outcome, RetryPostpone, SetFailed
    <3> QED
      BY <2>6, <3>1, PerformStep, CompleteStep, RaiseStep, StoreFailureStep
         DEF Life!Next, Life!Handler
  <2>7. ASSUME NEW w \in Worker, Abort(w) PROVE Life!Next \/ UNCHANGED Life!vars
    BY <2>7, AbortStep, Serving DEF Abort, Life!Next, Life!Handler
  <2>8. CASE \/ RunnerStart \/ NotificationsDrained \/ WaitNotification
             \/ \E j \in Job : Aging(j) \/ LoseRequest(j)
             \/ \E w \in Worker : TakeSnapshot(w) \/ Rollback(w)
    BY <2>8, StutterSteps
  <2>9. CASE UNCHANGED vars
    BY <2>9 DEF vars, Life!vars, LifeState, LifeServing, LifePerformer
  <2> QED
    BY <2>1, <2>2, <2>3, <2>4, <2>5, <2>6, <2>7, <2>8, <2>9 DEF Next, Runner, Handle
<1> QED
  BY <1>1, <1>2, TypeCorrect, LockingCorrect, RunnerSynchronised, KnownExist, PTL
     DEF Spec, ImplementsJobLife, Life!Spec

-----------------------------------------------------------------------------
(* What the proofs say of an import: d is what it has read, s what it has done. *)

\* A template and its variants.
Family(t) == {t} \cup Variants(t)

\* Templates are mapped to products and variants to items; what is mapped has a record,
\* and so has the template of a variant that has one.
Sound(r, m) ==
    /\ \A t \in Template : m[t] \in Product \cup {Nothing}
    /\ \A v \in Variant : m[v] \in Item \cup {Nothing}
    /\ \A x \in External : m[x] # Nothing => r[x] # New
    /\ \A v \in Variant : r[v] # New => r[Of[v]] # New

\* A transaction finds the tables sound, and in the store the variants with a record.
Read(d) ==
    /\ d.ids \subseteq Template /\ Sound(d.ref, d.mapped)
    /\ \A v \in Variant : d.ref[v] # New => d.answer[v] # New

ImportResult(s) ==
    /\ s = [ref |-> s.ref, mapped |-> s.mapped, rows |-> s.rows, ok |-> s.ok, failed |-> s.failed, now |-> s.now]
    /\ s.ok \subseteq Template /\ s.failed \subseteq Template
    /\ Sound(s.ref, s.mapped)

\* Nothing was done for a template.
Untouched(d, s, t) ==
    /\ t \notin s.ok \cup s.failed
    /\ \A x \in Family(t) : /\ s.ref[x] = d.ref[x] /\ s.mapped[x] = d.mapped[x]
                            /\ Ref(x) \notin s.rows /\ Map(x) \notin s.rows

\* Every change is a row; the row of the template tells whether it was imported.
Changed(d, s, t) ==
    /\ \A x \in Family(t) :
        /\ IF Ref(x) \in s.rows THEN s.ref[x] # New ELSE s.ref[x] = d.ref[x]
        /\ Map(x) \notin s.rows => s.mapped[x] = d.mapped[x]
        /\ t \notin s.ok => Ref(x) \notin s.rows /\ Map(x) \notin s.rows
    /\ \A v \in Variants(t) : Ref(v) \in s.rows => s.ref[v] = d.answer[v]
    /\ Ref(t) \in s.rows <=> t \in s.ok

\* A matching that has failed has left the template as it was, and has mapped some of its
\* variants to items of its product, or to none.
Halfway(d, s, t) ==
    d.mapped[t] # Nothing => \A v \in Variants(t) :
        s.mapped[v] \in {d.mapped[v], Nothing} \/ In[s.mapped[v]] = d.mapped[t]

\* A matching that has not failed has found the product, or there is none; it has mapped
\* the variants that the store lists, and there are no records of others.
FullyMatched(d, s, t) ==
    /\ Target(d, s, t) = s.mapped[t]
    /\ s.mapped[t] # Nothing => \A v \in Variants(t) :
          IF v \in Listed(d, t) THEN s.mapped[v] # Nothing /\ In[s.mapped[v]] = s.mapped[t]
          ELSE s.ref[v] = New /\ s.mapped[v] = Nothing

Imported(d, s, t) ==
    /\ Changed(d, s, t)
    /\ t \notin s.ok => t \in s.failed
    /\ t \in s.ok =>
        /\ d.mapped[t] # Nothing => s.mapped[t] = d.mapped[t]
        /\ IF t \in s.failed THEN s.mapped[t] = d.mapped[t] /\ Halfway(d, s, t) ELSE FullyMatched(d, s, t)

\* Nothing is done for other templates.
Apart(s, u, t) ==
    /\ \A x \in External \ Family(t) :
        /\ u.ref[x] = s.ref[x] /\ u.mapped[x] = s.mapped[x]
        /\ (Ref(x) \in u.rows <=> Ref(x) \in s.rows) /\ (Map(x) \in u.rows <=> Map(x) \in s.rows)
    /\ u.ok \ {t} = s.ok \ {t} /\ u.failed \ {t} = s.failed \ {t}

-----------------------------------------------------------------------------
(* Numbers, rows and families *)

\* A set of natural numbers has a least one.
LEMMA Least ==
    ASSUME NEW T, T \subseteq Nat, T # {}
    PROVE  \E t \in T : \A u \in T : t <= u
<1>1. \E t \in T : \A u \in T : <<u, t>> \notin OpToRel(<, Nat)
  BY WFMin, NatLessThanWellFounded, Zenon
<1>2. PICK t \in T : \A u \in T : ~(u < t)
  BY <1>1 DEF OpToRel
<1> QED
  BY <1>2

\* A set of numbers with zero and the successor of each of its members below n holds all
\* up to n.
LEMMA AllUpTo ==
    ASSUME NEW n \in Nat, NEW T, 0 \in T, \A k \in T : k \in Nat /\ k < n => k + 1 \in T
    PROVE  0..n \subseteq T
<1> DEFINE Out == (0..n) \ T
<1> SUFFICES ASSUME Out # {}
             PROVE  FALSE
  BY Zenon
<1>0. Out \subseteq Nat
  OBVIOUS
<1>1. PICK k \in Out : \A u \in Out : k <= u
  BY <1>0, Least, Zenon
<1>2. k # 0 /\ k - 1 \in 0..n /\ k - 1 < n
  OBVIOUS
<1>3. k - 1 \in T
  BY <1>1, <1>2
<1>4. k - 1 + 1 \in T
  BY <1>2, <1>3
<1> QED
  BY <1>2, <1>4

\* What Max and Min find.
LEMMA MinFound ==
    ASSUME NEW T, T \subseteq Nat, T # {}
    PROVE  Min(T) \in T
BY Least, Zenon DEF Min

LEMMA MaxFound ==
    ASSUME NEW T, T \subseteq Nat, T # {}, IsFiniteSet(T)
    PROVE  Max(T) \in T
<1>0. PICK n \in Nat : ExistsSurjection(1..n, T)
  BY FS_NatSurjection, Zenon
<1>1. PICK f \in Surjection(1..n, T) : TRUE
  BY <1>0, Zenon DEF ExistsSurjection
<1>2. f \in [1..n -> T] /\ \A x \in T : \E i \in 1..n : f[i] = x
  BY <1>1 DEF Surjection
<1> DEFINE S == {k \in 0..n : k = 0 \/ \E m \in 1..k : \A i \in 1..k : f[i] <= f[m]}
<1>3. ASSUME NEW k \in S, k < n
      PROVE  k + 1 \in S
  <2>0. k \in 0..n
    OBVIOUS
  <2>1. k \in Nat /\ k + 1 \in 1..n /\ \A i \in 1..(k + 1) : i \in 1..k \/ i = k + 1
    <3> HIDE DEF S
    <3> QED
      BY <1>3, <2>0
  <2>2. \A i \in 1..n : f[i] \in Nat
    BY <1>2
  <2>3. CASE k = 0
    <3>1. \A i \in 1..(k + 1) : f[i] <= f[k + 1]
      BY <2>1, <2>2, <2>3
    <3> QED
      BY <2>1, <3>1
  <2>4. ASSUME k # 0
        PROVE  k + 1 \in S
    <3>1. PICK m \in 1..k : \A i \in 1..k : f[i] <= f[m]
      BY <2>4
    <3>2. m \in 1..(k + 1) /\ m \in 1..n /\ \A i \in 1..k : i \in 1..n
      BY <2>1
    <3>3. CASE f[k + 1] <= f[m]
      <4>1. \A i \in 1..(k + 1) : f[i] <= f[m]
        BY <2>1, <3>1, <3>3
      <4> QED
        BY <2>1, <3>2, <4>1
    <3>4. CASE ~(f[k + 1] <= f[m])
      <4>1. \A i \in 1..(k + 1) : f[i] <= f[k + 1]
        BY <2>1, <2>2, <3>1, <3>2, <3>4
      <4> QED
        BY <2>1, <4>1
    <3> QED
      BY <3>3, <3>4
  <2> QED
    BY <2>3, <2>4
<1>4. n # 0
  <2>1. PICK i \in 1..n : TRUE
    BY <1>2
  <2> QED
    BY <2>1
<1>5. PICK m \in 1..n : \A i \in 1..n : f[i] <= f[m]
  <2>1. 0 \in S
    OBVIOUS
  <2>2. n \in S
    <3> HIDE DEF S
    <3> QED
      BY <1>3, <2>1, AllUpTo
  <2> QED
    BY <1>4, <2>2
<1>6. f[m] \in T /\ \A x \in T : f[m] >= x
  <2>1. \A i \in 1..n : f[i] \in Nat
    BY <1>2
  <2> QED
    BY <1>2, <1>5, <2>1
<1>7. \E x \in T : \A y \in T : x >= y
  BY <1>6
<1> QED
  BY <1>7, Zenon DEF Max

\* The rows of records, of mappings and of items are not the same.
LEMMA RowsDiffer ==
    ASSUME NEW x, NEW y
    PROVE  /\ Ref(x) # Map(y) /\ <<"item", y>> # Ref(x) /\ <<"item", y>> # Map(x)
           /\ (Ref(x) = Ref(y) <=> x = y) /\ (Map(x) = Map(y) <=> x = y)
BY DEF Ref, Map

\* Families are apart.
LEMMA Families ==
    ASSUME NEW t \in Template
    PROVE  /\ Family(t) \subseteq External /\ t \in Family(t) /\ t \notin Variant /\ t \in External
           /\ Variants(t) \subseteq Variant /\ Variants(t) \subseteq Family(t) /\ t \notin Variants(t)
           /\ \A x \in Family(t) : x = t \/ x \in Variants(t)
           /\ \A v \in Variants(t) : Of[v] = t
           /\ \A u \in Template \ {t} : \A x \in Family(u) : x \in External \ Family(t)
BY KindsAssumption DEF Family, Variants, External

LEMMA Homes ==
    /\ \A v \in Variant : Of[v] \in Template /\ v \in Variants(Of[v]) /\ v \notin Template /\ v \in External
    /\ \A x \in External : \E t \in Template : x \in Family(t)
BY KindsAssumption DEF Family, Variants, External

-----------------------------------------------------------------------------
(* The import of a template *)

\* The store lists variants of the template that it has.
LEMMA ListedExist ==
    ASSUME NEW d, NEW t \in Template
    PROVE  /\ Listed(d, t) \subseteq Variants(t) /\ Records(d, t) \subseteq Family(t)
           /\ Records(d, t) \subseteq External /\ t \in Records(d, t) /\ Listed(d, t) \subseteq Records(d, t)
           /\ \A x \in Records(d, t) : x = t \/ x \in Listed(d, t)
           /\ \A v \in Variants(t) : v \notin Listed(d, t) <=> d.answer[v] \in {New, Gone}
<1>1. Listed(d, t) \subseteq Variants(t)
  BY DEF Listed
<1>2. \A v \in Variants(t) : v \notin Listed(d, t) <=> d.answer[v] \in {New, Gone}
  BY DEF Listed, Exists
<1> QED
  BY <1>1, <1>2, Families DEF Records, Family

\* What the store sends of a template or of a variant that it lists is a reference, or
\* says that there is none.
LEMMA ReceivedExists ==
    ASSUME NEW d, NEW t \in Template, NEW x \in Records(d, t)
    PROVE  /\ Received(d, t, x) # New
           /\ x \in Variant => Received(d, t, x) = d.answer[x]
<1>1. \A v \in Listed(d, t) : d.answer[v] # New
  BY DEF Listed, Exists
<1>2. CASE x \in Variant
  <2>1. x \in Listed(d, t)
    BY <1>2, ListedExist, Families
  <2>2. x # t
    BY <1>2, Families
  <2> QED
    BY <1>1, <1>2, <2>1, <2>2 DEF Received
<1>3. CASE x \notin Variant /\ x = t /\ Cardinality(Listed(d, t)) = 1
  <2>1. Listed(d, t) # {}
    BY <1>3, FS_EmptySet
  <2> DEFINE v == CHOOSE v \in Listed(d, t) : TRUE
  <2>2. v \in Listed(d, t)
    BY <2>1
  <2>3. Received(d, t, x) = d.answer[v]
    BY <1>3 DEF Received
  <2> QED
    BY <1>1, <1>3, <2>2, <2>3
<1>4. CASE x \notin Variant /\ ~(x = t /\ Cardinality(Listed(d, t)) = 1)
  <2>1. Received(d, t, x) = Nothing
    BY <1>4 DEF Received
  <2> QED
    BY <1>4, <2>1, StartAssumption
<1> QED
  BY <1>2, <1>3, <1>4

\* What create_or_update writes.
LEMMA RecordedIs ==
    ASSUME NEW d, NEW s, ImportResult(s), NEW t \in Template, NEW u, u = Recorded(d, s, t)
    PROVE  /\ u = [ref |-> u.ref, mapped |-> u.mapped, rows |-> u.rows, ok |-> u.ok, failed |-> u.failed, now |-> u.now]
           /\ u.mapped = s.mapped /\ u.ok = s.ok /\ u.failed = s.failed
           /\ \A x \in External : /\ u.ref[x] = IF x \in Records(d, t) THEN Received(d, t, x) ELSE s.ref[x]
                                  /\ Ref(x) \in u.rows <=> x \in Records(d, t) \/ Ref(x) \in s.rows
                                  /\ Map(x) \in u.rows <=> Map(x) \in s.rows
<1> DEFINE map == [x \in Records(d, t) |-> Received(d, t, x)]
           rows == {Ref(x) : x \in Records(d, t)}
<1>1. u = [ref |-> Over(map, s.ref), mapped |-> s.mapped, rows |-> s.rows \cup rows, ok |-> s.ok, failed |-> s.failed, now |-> s.now]
  BY DEF Recorded, ImportResult
<1>2. \A x \in External : Over(map, s.ref)[x] = IF x \in Records(d, t) THEN Received(d, t, x) ELSE s.ref[x]
  BY DEF Over
<1>3. \A x \in External : (Ref(x) \in rows <=> x \in Records(d, t)) /\ Map(x) \notin rows
  BY RowsDiffer
<1> HIDE DEF map, rows
<1>4. /\ u.ref = Over(map, s.ref) /\ u.mapped = s.mapped /\ u.rows = s.rows \cup rows
      /\ u.ok = s.ok /\ u.failed = s.failed
  BY <1>1
<1> QED
  BY <1>1, <1>2, <1>3, <1>4

\* The records are sound with what the store has sent.
LEMMA RecordedSound ==
    ASSUME NEW d, NEW s, ImportResult(s), NEW t \in Template, NEW u, u = Recorded(d, s, t)
    PROVE  ImportResult(u) /\ \A x \in Records(d, t) : u.ref[x] # New
<1>1. /\ u = [ref |-> u.ref, mapped |-> u.mapped, rows |-> u.rows, ok |-> u.ok, failed |-> u.failed, now |-> u.now]
      /\ u.mapped = s.mapped /\ u.ok = s.ok /\ u.failed = s.failed
      /\ \A x \in External : u.ref[x] = IF x \in Records(d, t) THEN Received(d, t, x) ELSE s.ref[x]
  BY RecordedIs
<1>2. \A x \in Records(d, t) : u.ref[x] # New
  BY <1>1, ReceivedExists, ListedExist
<1>3. Sound(s.ref, s.mapped)
  BY DEF ImportResult
<1>4. \A x \in External : u.mapped[x] # Nothing => u.ref[x] # New
  BY <1>1, <1>2, <1>3 DEF Sound
<1>5. \A v \in Variant : u.ref[v] # New => u.ref[Of[v]] # New
  <2> SUFFICES ASSUME NEW v \in Variant, u.ref[v] # New
               PROVE  u.ref[Of[v]] # New
    OBVIOUS
  <2>1. Of[v] \in Template /\ v \in Variants(Of[v]) /\ v \in External
    BY Homes
  <2>2. CASE Of[v] = t
    BY <1>2, <2>2, ListedExist
  <2>3. CASE Of[v] # t
    <3>1. v \notin Records(d, t) /\ Of[v] \notin Records(d, t) /\ Of[v] \in External
      BY <2>1, <2>3, ListedExist, Families
    <3> QED
      BY <1>1, <1>3, <2>1, <3>1 DEF Sound
  <2> QED
    BY <2>2, <2>3
<1>6. Sound(u.ref, u.mapped)
  BY <1>1, <1>3, <1>4, <1>5 DEF Sound
<1> QED
  BY <1>1, <1>2, <1>6 DEF ImportResult

\* What the matching writes.
LEMMA MapAsIs ==
    ASSUME NEW s, ImportResult(s), NEW map, DOMAIN map \subseteq External, NEW unmapped,
           NEW u, u = MapAs(s, map, unmapped)
    PROVE  /\ u = [ref |-> u.ref, mapped |-> u.mapped, rows |-> u.rows, ok |-> u.ok, failed |-> u.failed, now |-> u.now]
           /\ u.ref = s.ref /\ u.ok = s.ok /\ u.failed = s.failed
           /\ \A x \in External : /\ u.mapped[x] = IF x \in DOMAIN map THEN map[x] ELSE s.mapped[x]
                                  /\ Ref(x) \in u.rows <=> Ref(x) \in s.rows
                                  /\ Map(x) \in s.rows => Map(x) \in u.rows
                                  /\ Map(x) \in u.rows => x \in DOMAIN map \/ Map(x) \in s.rows
                                  /\ x \in DOMAIN map /\ s.mapped[x] # map[x] => Map(x) \in u.rows
<1> DEFINE written == {Map(x) : x \in {y \in DOMAIN map : y \in unmapped \/ s.mapped[y] # map[y]}}
<1>1. u = [ref |-> s.ref, mapped |-> Over(map, s.mapped), rows |-> s.rows \cup Taken(map) \cup written,
           ok |-> s.ok, failed |-> s.failed, now |-> s.now]
  BY DEF MapAs, ImportResult
<1>2. \A x \in External : Over(map, s.mapped)[x] = IF x \in DOMAIN map THEN map[x] ELSE s.mapped[x]
  BY DEF Over
<1>3. \A x \in External : Ref(x) \notin Taken(map) /\ Map(x) \notin Taken(map)
  BY RowsDiffer DEF Taken
<1>4. \A x \in External : /\ Ref(x) \notin written
                          /\ Map(x) \in written <=> x \in DOMAIN map /\ (x \in unmapped \/ s.mapped[x] # map[x])
  BY RowsDiffer
<1> HIDE DEF written
<1>5. /\ u.ref = s.ref /\ u.mapped = Over(map, s.mapped) /\ u.rows = s.rows \cup Taken(map) \cup written
      /\ u.ok = s.ok /\ u.failed = s.failed
  BY <1>1
<1> QED
  BY <1>1, <1>2, <1>3, <1>4, <1>5

\* The item that suits a variant is of the product.
LEMMA SuitableItem ==
    ASSUME NEW d, NEW p, NEW v, FindSuitable(d, p, v) # Nothing
    PROVE  FindSuitable(d, p, v) \in Item /\ In[FindSuitable(d, p, v)] = p
<1> DEFINE same == Search(d, v) \cap Items(d, p)
           alike == {i \in Items(d, p) : <<v, i>> \in Alike}
<1>1. Items(d, p) \subseteq Item /\ Item \subseteq Nat /\ IsFiniteSet(Item) /\ \A i \in Items(d, p) : In[i] = p
  BY KindsAssumption DEF Items
<1>2. FindSuitable(d, p, v) = CASE same # {} -> Max(same)
                                [] same = {} /\ alike # {} -> Min(alike)
                                [] OTHER -> Nothing
  BY DEF FindSuitable
<1>3. IsFiniteSet(same) /\ same \subseteq Nat /\ same \subseteq Items(d, p)
  <2>1. same \in SUBSET Item /\ same \subseteq Nat /\ same \subseteq Items(d, p)
    BY <1>1
  <2> QED
    BY <1>1, <2>1, FS_Subset
<1>4. alike \subseteq Nat /\ alike \subseteq Items(d, p)
  BY <1>1
<1> HIDE DEF same, alike
<1>5. CASE same # {}
  BY <1>1, <1>2, <1>3, <1>5, MaxFound
<1>6. CASE same = {} /\ alike # {}
  BY <1>1, <1>2, <1>4, <1>6, MinFound
<1>7. CASE same = {} /\ alike = {}
  BY <1>2, <1>7
<1> QED
  BY <1>5, <1>6, <1>7

\* What the matching of a template does to what was done before.
Matching(d, r, u, p, t) ==
    /\ u.ref = r.ref /\ u.ok = r.ok
    /\ \A x \in External :
        /\ (Ref(x) \in u.rows <=> Ref(x) \in r.rows) /\ (Map(x) \in r.rows => Map(x) \in u.rows)
        /\ Map(x) \in u.rows => Map(x) \in r.rows \/ x \in Records(d, t)
        /\ u.mapped[x] # r.mapped[x] => Map(x) \in u.rows /\ x \in Records(d, t)
    /\ \/ /\ u.failed = r.failed \cup {t} /\ u.mapped[t] = r.mapped[t]
          /\ \A v \in Variants(t) :
                u.mapped[v] \in {r.mapped[v], Nothing} \/ (p \in Product /\ In[u.mapped[v]] = p)
       \/ u.failed = r.failed /\ p = Nothing /\ u.mapped[t] = r.mapped[t]
       \/ /\ u.failed = r.failed /\ p \in Product /\ u.mapped[t] = p
          /\ \A v \in Listed(d, t) : u.mapped[v] # Nothing /\ In[u.mapped[v]] = p

\* The only variant takes the only item.
LEMMA MatchedAlone ==
    ASSUME NEW d, NEW r, ImportResult(r), NEW t \in Template, NEW p \in Product,
           Cardinality(Listed(d, t)) = 1, ~Miscounted(d, p, t),
           \A x \in Records(d, t) : r.ref[x] # New,
           NEW u, u = UpdateMappings(d, r, p, t)
    PROVE  ImportResult(u) /\ Matching(d, r, u, p, t)
<1> DEFINE i == CHOOSE i \in Items(d, p) : TRUE
           map == [x \in Records(d, t) |-> IF x = t THEN p ELSE i]
<1>1. i \in Items(d, p)
  <2>1. Cardinality(Items(d, p)) = 1
    BY DEF Miscounted
  <2>2. Items(d, p) # {}
    BY <2>1, FS_EmptySet
  <2> QED
    BY <2>2
<1>2. i \in Item /\ In[i] = p
  BY <1>1 DEF Items
<1>3. u = MapAs(r, map, {})
  BY DEF UpdateMappings
<1>4. DOMAIN map = Records(d, t) /\ map[t] = p /\ \A v \in Listed(d, t) : map[v] = i
  BY ListedExist, Families
<1> HIDE DEF i, map
<1>5. DOMAIN map \subseteq External
  BY <1>4, ListedExist
<1>6. /\ u = [ref |-> u.ref, mapped |-> u.mapped, rows |-> u.rows, ok |-> u.ok, failed |-> u.failed, now |-> u.now]
      /\ u.ref = r.ref /\ u.ok = r.ok /\ u.failed = r.failed
      /\ \A x \in External : /\ u.mapped[x] = IF x \in DOMAIN map THEN map[x] ELSE r.mapped[x]
                             /\ Ref(x) \in u.rows <=> Ref(x) \in r.rows
                             /\ Map(x) \in r.rows => Map(x) \in u.rows
                             /\ Map(x) \in u.rows => x \in DOMAIN map \/ Map(x) \in r.rows
                             /\ x \in DOMAIN map /\ r.mapped[x] # map[x] => Map(x) \in u.rows
  BY <1>3, <1>5, MapAsIs
<1>7. p # Nothing /\ i # Nothing
  BY <1>2, KindsAssumption
<1>8. Sound(u.ref, u.mapped)
  <2>1. Sound(r.ref, r.mapped)
    BY DEF ImportResult
  <2>2. \A s \in Template : u.mapped[s] \in Product \cup {Nothing}
    <3> TAKE s \in Template
    <3>1. s \in External /\ s \notin Variant
      BY Families
    <3>2. s \in Records(d, t) => s = t
      BY <3>1, ListedExist, Families
    <3> QED
      BY <1>4, <1>6, <2>1, <3>1, <3>2 DEF Sound
  <2>3. \A v \in Variant : u.mapped[v] \in Item \cup {Nothing}
    <3> TAKE v \in Variant
    <3>1. v \in External /\ v # t
      BY Families, Homes
    <3>2. v \in Records(d, t) => v \in Listed(d, t)
      BY <3>1, ListedExist
    <3> QED
      BY <1>2, <1>4, <1>6, <2>1, <3>1, <3>2 DEF Sound
  <2>4. \A x \in External : u.mapped[x] # Nothing => u.ref[x] # New
    BY <1>4, <1>6, <2>1 DEF Sound
  <2> QED
    BY <1>6, <2>1, <2>2, <2>3, <2>4 DEF Sound
<1>9. ImportResult(u)
  BY <1>6, <1>8 DEF ImportResult
<1>10. /\ u.mapped[t] = p /\ \A v \in Listed(d, t) : u.mapped[v] = i
  BY <1>4, <1>6, ListedExist, Families
<1>11. Matching(d, r, u, p, t)
  BY <1>2, <1>4, <1>6, <1>7, <1>10 DEF Matching
<1> QED
  BY <1>9, <1>11

\* Each of several variants takes the item that suits it, until there is none for one.
LEMMA MatchedEach ==
    ASSUME NEW d, NEW r, ImportResult(r), NEW t \in Template, NEW p \in Product,
           Cardinality(Listed(d, t)) # 1,
           \A x \in Records(d, t) : r.ref[x] # New,
           NEW u, u = UpdateMappings(d, r, p, t)
    PROVE  ImportResult(u) /\ Matching(d, r, u, p, t)
<1> DEFINE all == Unsuited(d, p, t) = {}
           s == IF all THEN r ELSE Fail(r, t)
           map == Written(d, p, t)
<1>1. u = MapAs(s, map, Unmapped(d, p, t))
  BY DEF UpdateMappings
<1>2. ImportResult(s) /\ s.ref = r.ref /\ s.mapped = r.mapped /\ s.rows = r.rows /\ s.ok = r.ok
      /\ s.failed = IF all THEN r.failed ELSE r.failed \cup {t}
  BY DEF ImportResult, Fail
<1>3. Unmapped(d, p, t) \subseteq Listed(d, t)
  BY DEF Unmapped
<1>4. t \notin Listed(d, t) /\ t \notin Unmapped(d, p, t)
  BY <1>3, ListedExist, Families
<1>5. /\ DOMAIN map \subseteq Records(d, t) /\ (t \in DOMAIN map <=> all)
      /\ t \in DOMAIN map => map[t] = p
      /\ \A v \in Listed(d, t) : v \in DOMAIN map => map[v] = FindSuitable(d, p, v)
  BY <1>3, <1>4, ListedExist DEF Written
<1>6. all => \A v \in Listed(d, t) : v \in DOMAIN map /\ FindSuitable(d, p, v) # Nothing
  BY DEF Unsuited, Unmapped, Written
<1> HIDE DEF s, map, all
<1>7. DOMAIN map \subseteq External
  BY <1>5, ListedExist
<1>8. /\ u = [ref |-> u.ref, mapped |-> u.mapped, rows |-> u.rows, ok |-> u.ok, failed |-> u.failed, now |-> u.now]
      /\ u.ref = s.ref /\ u.ok = s.ok /\ u.failed = s.failed
      /\ \A x \in External : /\ u.mapped[x] = IF x \in DOMAIN map THEN map[x] ELSE s.mapped[x]
                             /\ Ref(x) \in u.rows <=> Ref(x) \in s.rows
                             /\ Map(x) \in s.rows => Map(x) \in u.rows
                             /\ Map(x) \in u.rows => x \in DOMAIN map \/ Map(x) \in s.rows
                             /\ x \in DOMAIN map /\ s.mapped[x] # map[x] => Map(x) \in u.rows
  BY <1>1, <1>2, <1>7, MapAsIs
<1>9. \A v \in Listed(d, t) : v \in DOMAIN map =>
          map[v] = Nothing \/ (map[v] \in Item /\ In[map[v]] = p)
  BY <1>5, SuitableItem
<1>10. Sound(u.ref, u.mapped)
  <2>1. Sound(r.ref, r.mapped)
    BY DEF ImportResult
  <2>2. \A x \in Template : u.mapped[x] \in Product \cup {Nothing}
    <3> TAKE x \in Template
    <3>1. x \in External /\ x \notin Variant
      BY Families
    <3>2. x \in Records(d, t) => x = t
      BY <3>1, ListedExist, Families
    <3> QED
      BY <1>2, <1>5, <1>8, <2>1, <3>1, <3>2 DEF Sound
  <2>3. \A v \in Variant : u.mapped[v] \in Item \cup {Nothing}
    <3> TAKE v \in Variant
    <3>1. v \in External /\ v # t
      BY Families, Homes
    <3>2. v \in Records(d, t) => v \in Listed(d, t)
      BY <3>1, ListedExist
    <3> QED
      BY <1>2, <1>5, <1>8, <1>9, <2>1, <3>1, <3>2 DEF Sound
  <2>4. \A x \in External : u.mapped[x] # Nothing => u.ref[x] # New
    BY <1>2, <1>5, <1>8, <2>1 DEF Sound
  <2> QED
    BY <1>2, <1>8, <2>1, <2>2, <2>3, <2>4 DEF Sound
<1>11. ImportResult(u)
  BY <1>2, <1>8, <1>10 DEF ImportResult
<1>12. \A x \in External :
        /\ (Ref(x) \in u.rows <=> Ref(x) \in r.rows) /\ (Map(x) \in r.rows => Map(x) \in u.rows)
        /\ Map(x) \in u.rows => Map(x) \in r.rows \/ x \in Records(d, t)
        /\ u.mapped[x] # r.mapped[x] => Map(x) \in u.rows /\ x \in Records(d, t)
  BY <1>2, <1>5, <1>8
<1>13. CASE all
  <2>1. u.mapped[t] = p
    BY <1>5, <1>8, <1>13, Families
  <2>2. \A v \in Listed(d, t) : u.mapped[v] # Nothing /\ In[u.mapped[v]] = p
    BY <1>5, <1>6, <1>8, <1>9, <1>13, ListedExist
  <2> QED
    BY <1>2, <1>8, <1>11, <1>12, <1>13, <2>1, <2>2 DEF Matching
<1>14. CASE ~all
  <2>1. u.mapped[t] = r.mapped[t]
    BY <1>2, <1>5, <1>8, <1>14, Families
  <2>2. \A v \in Variants(t) : u.mapped[v] \in {r.mapped[v], Nothing} \/ In[u.mapped[v]] = p
    <3> TAKE v \in Variants(t)
    <3>1. v \in External /\ (v \in DOMAIN map => v \in Listed(d, t))
      BY <1>5, ListedExist, Families
    <3> QED
      BY <1>2, <1>8, <1>9, <3>1
  <2> QED
    BY <1>2, <1>8, <1>11, <1>12, <1>14, <2>1, <2>2 DEF Matching
<1> QED
  BY <1>13, <1>14

\* Whatever the matching has found.
LEMMA MatchedIs ==
    ASSUME NEW d, NEW r, ImportResult(r), NEW t \in Template, NEW p \in Product \cup {Nothing, Error},
           ~Miscounted(d, p, t), \A x \in Records(d, t) : r.ref[x] # New,
           NEW u, u = Matched(d, r, p, t)
    PROVE  ImportResult(u) /\ Matching(d, r, u, p, t)
<1>1. Nothing # Error /\ Nothing \notin Product /\ Error \notin Product
  BY KindsAssumption, StartAssumption
<1>2. CASE p = Nothing
  <2>1. u = r
    BY <1>1, <1>2 DEF Matched
  <2> QED
    BY <1>2, <2>1 DEF Matching
<1>3. CASE p = Error
  <2>1. u = Fail(r, t)
    BY <1>1, <1>3 DEF Matched
  <2>2. /\ ImportResult(u) /\ u.ref = r.ref /\ u.mapped = r.mapped /\ u.rows = r.rows /\ u.ok = r.ok
        /\ u.failed = r.failed \cup {t}
    BY <2>1 DEF Fail, ImportResult
  <2> QED
    BY <2>2 DEF Matching
<1>4. CASE p \in Product
  <2>1. u = UpdateMappings(d, r, p, t)
    BY <1>1, <1>4 DEF Matched
  <2> QED
    BY <1>4, <2>1, MatchedAlone, MatchedEach
<1> QED
  BY <1>2, <1>3, <1>4

\* The product that the matching of a template goes for.
LEMMA TargetIs ==
    ASSUME NEW d, NEW s, NEW t \in Template, s.mapped[t] \in Product \cup {Nothing}
    PROVE  /\ Target(d, s, t) \in Product \cup {Nothing, Error}
           /\ s.mapped[t] # Nothing => Target(d, s, t) \in {s.mapped[t], Error}
<1>1. Nothing # Error /\ Nothing \notin Product /\ Error \notin Product /\ In \in [Item -> Product]
  BY KindsAssumption, StartAssumption
<1>2. FindTemplate(d, t) \in Product \cup {Nothing, Error}
  <2> DEFINE found == {p \in Product : \E i \in Items(d, p) :
                          Items(d, p) = {i} /\ d.item[i] = Received(d, t, t)}
  <2>1. FindTemplate(d, t) = CASE found = {} -> Nothing
                               [] Cardinality(found) = 1 -> CHOOSE p \in found : TRUE
                               [] OTHER -> Error
    BY DEF FindTemplate
  <2>2. found \subseteq Product
    OBVIOUS
  <2> HIDE DEF found
  <2>3. CASE found = {}
    <3>1. Cardinality(found) # 1
      BY <2>3, FS_EmptySet
    <3> QED
      BY <2>1, <2>3, <3>1
  <2>4. CASE found # {} /\ Cardinality(found) = 1
    <3>1. (CHOOSE p \in found : TRUE) \in found
      BY <2>4
    <3> QED
      BY <2>1, <2>2, <2>4, <3>1
  <2>5. CASE found # {} /\ Cardinality(found) # 1
    BY <2>1, <2>5
  <2> QED
    BY <2>3, <2>4, <2>5
<1>3. FindByChilds(d, t) \in Product \cup {Nothing, Error}
  <2> DEFINE found == UNION {Search(d, v) : v \in Listed(d, t)}
  <2>1. FindByChilds(d, t) \in {Nothing, Error} \/ (found # {} /\ FindByChilds(d, t) = In[CHOOSE i \in found : TRUE])
    BY DEF FindByChilds
  <2>2. found \subseteq Item
    BY DEF Search
  <2> HIDE DEF found
  <2>3. ASSUME found # {}
        PROVE  In[CHOOSE i \in found : TRUE] \in Product
    <3>1. (CHOOSE i \in found : TRUE) \in found
      BY <2>3
    <3> QED
      BY <1>1, <2>2, <3>1
  <2> QED
    BY <2>1, <2>3
<1> QED
  BY <1>1, <1>2, <1>3 DEF Target

\* It depends on what the import has done for the template only.
LEMMA TargetStays ==
    ASSUME NEW d, NEW s, NEW u, NEW t, u.mapped[t] = s.mapped[t]
    PROVE  Target(d, u, t) = Target(d, s, t)
BY DEF Target

\* Once the template is mapped to what was found, it is found again.
LEMMA TargetFound ==
    ASSUME NEW d, NEW s, NEW u, NEW t, Target(d, s, t) \in Product, u.mapped[t] = Target(d, s, t)
    PROVE  Target(d, u, t) = u.mapped[t]
<1>1. Nothing \notin Product /\ Error \notin Product
  BY KindsAssumption, StartAssumption
<1>2. ~\E v \in Listed(d, t) : d.answer[v] = Nothing
  BY <1>1 DEF Target
<1> QED
  BY <1>1, <1>2 DEF Target

\* What one template brings: it is imported, and nothing is done for others.
LEMMA ImportOneIs ==
    ASSUME NEW d, Read(d), NEW s, ImportResult(s), NEW t \in Template, Untouched(d, s, t),
           NEW u \in ImportOne(d, s, t)
    PROVE  ImportResult(u) /\ Imported(d, u, t) /\ Apart(s, u, t)
<1> DEFINE p == Target(d, s, t)
           r == Ok(Recorded(d, s, t), t)
           fails == Violates(d, s, t) \/ HasConflicts(d, s, t) \/ Miscounted(d, p, t)
<1>1. t \notin s.ok /\ t \notin s.failed
  BY DEF Untouched
<1>2. Sound(s.ref, s.mapped) /\ Sound(d.ref, d.mapped)
  BY DEF ImportResult, Read
<1>3. \A x \in Family(t) : /\ s.ref[x] = d.ref[x] /\ s.mapped[x] = d.mapped[x]
                           /\ Ref(x) \notin s.rows /\ Map(x) \notin s.rows
  BY DEF Untouched
<1>4. CASE fails
  <2>1. u = Fail(s, t)
    <3>1. Tried(d, s, t) = Fail(s, t)
      BY <1>4 DEF Tried
    <3>2. t \notin Fail(s, t).ok
      BY <1>1 DEF ImportResult, Fail
    <3> QED
      BY <3>1, <3>2 DEF ImportOne
  <2>2. /\ ImportResult(u) /\ u.ref = s.ref /\ u.mapped = s.mapped /\ u.rows = s.rows /\ u.ok = s.ok
        /\ u.failed = s.failed \cup {t}
    BY <2>1 DEF Fail, ImportResult
  <2>3. Changed(d, u, t)
    <3>1. t \in Family(t) /\ Variants(t) \subseteq Family(t)
      BY Families
    <3> QED
      BY <1>1, <1>3, <2>2, <3>1 DEF Changed
  <2>4. Imported(d, u, t)
    BY <1>1, <2>2, <2>3 DEF Imported
  <2>5. Apart(s, u, t)
    BY <2>2 DEF Apart
  <2> QED
    BY <2>2, <2>4, <2>5
<1>5. CASE ~fails
  <2> DEFINE q == Recorded(d, s, t)
  <2>1. /\ q = [ref |-> q.ref, mapped |-> q.mapped, rows |-> q.rows, ok |-> q.ok, failed |-> q.failed, now |-> q.now]
        /\ q.mapped = s.mapped /\ q.ok = s.ok /\ q.failed = s.failed
        /\ \A x \in External : /\ q.ref[x] = IF x \in Records(d, t) THEN Received(d, t, x) ELSE s.ref[x]
                               /\ Ref(x) \in q.rows <=> x \in Records(d, t) \/ Ref(x) \in s.rows
                               /\ Map(x) \in q.rows <=> Map(x) \in s.rows
    BY RecordedIs
  <2>2. r = [q EXCEPT !.ok = @ \cup {t}]
    BY DEF Ok
  <2> HIDE DEF q
  <2>3. /\ r = [ref |-> r.ref, mapped |-> r.mapped, rows |-> r.rows, ok |-> r.ok, failed |-> r.failed, now |-> r.now]
        /\ r.ref = q.ref /\ r.rows = q.rows
        /\ r.mapped = s.mapped /\ r.ok = s.ok \cup {t} /\ r.failed = s.failed
    BY <2>1, <2>2
  <2>4. u = Matched(d, r, p, t)
    <3>1. Tried(d, s, t) = r
      BY <1>5 DEF Tried
    <3> HIDE DEF r
    <3> QED
      BY <2>3, <3>1 DEF ImportOne
  <2> HIDE DEF r
  <2>5. \A x \in External : /\ r.ref[x] = IF x \in Records(d, t) THEN Received(d, t, x) ELSE s.ref[x]
                            /\ Ref(x) \in r.rows <=> x \in Records(d, t) \/ Ref(x) \in s.rows
                            /\ Map(x) \in r.rows <=> Map(x) \in s.rows
    BY <2>1, <2>3
  <2>6. ImportResult(q) /\ \A x \in Records(d, t) : r.ref[x] # New
    <3>1. ImportResult(q) /\ \A x \in Records(d, t) : q.ref[x] # New
      BY RecordedSound DEF q
    <3> QED
      BY <2>3, <3>1
  <2>7. \A v \in Variants(t) \ Listed(d, t) : s.ref[v] = New /\ r.ref[v] = New /\ r.mapped[v] = Nothing
    <3>1. \A v \in Variants(t) \ Listed(d, t) : s.ref[v] = New
      BY <1>5 DEF HasConflicts
    <3>2. \A v \in Variants(t) \ Listed(d, t) : v \in External /\ v \notin Records(d, t)
      BY ListedExist, Families
    <3> QED
      BY <1>2, <2>3, <2>5, <3>1, <3>2 DEF Sound
  <2>9. ImportResult(r)
    BY <2>1, <2>3, <2>6 DEF ImportResult
  <2>10. p \in Product \cup {Nothing, Error} /\ (s.mapped[t] # Nothing => p \in {s.mapped[t], Error})
    <3>1. s.mapped[t] \in Product \cup {Nothing}
      BY <1>2 DEF Sound
    <3> QED
      BY <3>1, TargetIs
  <2>11. ImportResult(u) /\ Matching(d, r, u, p, t)
    <3> HIDE DEF p
    <3>1. ~Miscounted(d, p, t)
      BY <1>5
    <3> QED
      BY <2>4, <2>6, <2>9, <2>10, <3>1, MatchedIs
  <2>12. /\ u.ref = r.ref /\ u.ok = s.ok \cup {t} /\ (u.failed = s.failed \/ u.failed = s.failed \cup {t})
         /\ \A x \in External :
             /\ (Ref(x) \in u.rows <=> x \in Records(d, t) \/ Ref(x) \in s.rows)
             /\ Map(x) \in s.rows => Map(x) \in u.rows
             /\ Map(x) \in u.rows => Map(x) \in s.rows \/ x \in Records(d, t)
             /\ u.mapped[x] # s.mapped[x] => Map(x) \in u.rows /\ x \in Records(d, t)
    BY <2>3, <2>5, <2>11 DEF Matching
  <2>13. Apart(s, u, t)
    <3>1. \A x \in External \ Family(t) : x \notin Records(d, t)
      BY ListedExist
    <3> QED
      BY <2>5, <2>12, <3>1 DEF Apart
  <2>14. Changed(d, u, t)
    <3>1. \A x \in Family(t) :
            /\ IF Ref(x) \in u.rows THEN u.ref[x] # New ELSE u.ref[x] = d.ref[x]
            /\ Map(x) \notin u.rows => u.mapped[x] = d.mapped[x]
      BY <1>3, <2>5, <2>6, <2>12, Families
    <3>2. \A v \in Variants(t) : Ref(v) \in u.rows => u.ref[v] = d.answer[v]
      <4> SUFFICES ASSUME NEW v \in Variants(t), Ref(v) \in u.rows
                   PROVE  u.ref[v] = d.answer[v]
        OBVIOUS
      <4>1. v \in External /\ v \in Variant /\ v \in Family(t)
        BY Families
      <4>2. v \in Records(d, t)
        BY <1>3, <2>12, <4>1
      <4> QED
        BY <2>5, <2>12, <4>1, <4>2, ReceivedExists
    <3>3. Ref(t) \in u.rows /\ t \in u.ok
      BY <2>12, ListedExist
    <3> QED
      BY <3>1, <3>2, <3>3 DEF Changed
  <2>15. d.mapped[t] = s.mapped[t] /\ r.mapped[t] = s.mapped[t] /\ r.failed = s.failed /\ r.mapped = s.mapped
         /\ \A v \in Variants(t) : d.mapped[v] = s.mapped[v]
    BY <1>3, <2>3, Families
  <2>16. Nothing # Error /\ Nothing \notin Product /\ Error \notin Product
    BY KindsAssumption, StartAssumption
  <2>17. CASE u.failed = s.failed \cup {t}
    <3>1. /\ u.mapped[t] = s.mapped[t]
          /\ \A v \in Variants(t) :
                u.mapped[v] \in {s.mapped[v], Nothing} \/ (p \in Product /\ In[u.mapped[v]] = p)
      BY <1>1, <2>11, <2>15, <2>17 DEF Matching
    <3>2. Halfway(d, u, t)
      <4> HIDE DEF p
      <4> QED
        BY <2>10, <2>15, <2>16, <3>1 DEF Halfway
    <3> QED
      BY <2>11, <2>12, <2>13, <2>14, <2>15, <2>17, <3>1, <3>2 DEF Imported
  <2>18. CASE u.failed = s.failed
    <3>1. \/ p = Nothing /\ u.mapped[t] = s.mapped[t]
          \/ /\ p \in Product /\ u.mapped[t] = p
             /\ \A v \in Listed(d, t) : u.mapped[v] # Nothing /\ In[u.mapped[v]] = p
      BY <1>1, <2>11, <2>15, <2>18 DEF Matching
    <3>2. d.mapped[t] # Nothing => u.mapped[t] = d.mapped[t]
      <4> HIDE DEF p
      <4> QED
        BY <2>10, <2>15, <2>16, <3>1
    <3>3. Target(d, u, t) = u.mapped[t]
      <4>1. CASE p = Nothing /\ u.mapped[t] = s.mapped[t]
        <5>1. s.mapped[t] = Nothing
          <6> HIDE DEF p
          <6> QED
            BY <2>10, <2>16, <4>1
        <5> QED
          BY <4>1, <5>1, TargetStays
      <4>2. CASE p \in Product /\ u.mapped[t] = p
        BY <4>2, TargetFound
      <4> QED
        BY <3>1, <4>1, <4>2
    <3>4. ASSUME u.mapped[t] # Nothing, NEW v \in Variants(t)
          PROVE  IF v \in Listed(d, t) THEN u.mapped[v] # Nothing /\ In[u.mapped[v]] = u.mapped[t]
                 ELSE u.ref[v] = New /\ u.mapped[v] = Nothing
      <4>1. p # Nothing
        <5> HIDE DEF p
        <5> QED
          BY <2>10, <2>16, <3>1, <3>4
      <4>2. CASE v \in Listed(d, t)
        <5> HIDE DEF p
        <5> QED
          BY <3>1, <4>1, <4>2
      <4>3. CASE v \notin Listed(d, t)
        <5>1. v \in External /\ v \notin Records(d, t)
          BY <4>3, ListedExist, Families
        <5> QED
          BY <2>3, <2>7, <2>12, <4>3, <5>1
      <4> QED
        BY <4>2, <4>3
    <3>5. FullyMatched(d, u, t)
      BY <3>3, <3>4 DEF FullyMatched
    <3> QED
      BY <1>1, <2>11, <2>12, <2>13, <2>14, <2>18, <3>2, <3>5 DEF Imported
  <2> QED
    BY <2>12, <2>17, <2>18
<1> QED
  BY <1>4, <1>5

-----------------------------------------------------------------------------
(* The import of a block: the templates one after the other, in any order *)

\* What is done for one template leaves what was done for another.
LEMMA ApartKeeps ==
    ASSUME NEW d, NEW s, NEW u, NEW t \in Template, Apart(s, u, t), NEW x \in Template \ {t}
    PROVE  /\ Untouched(d, s, x) => Untouched(d, u, x)
           /\ Imported(d, s, x) => Imported(d, u, x)
<1>1. \A y \in Family(x) :
        /\ u.ref[y] = s.ref[y] /\ u.mapped[y] = s.mapped[y]
        /\ (Ref(y) \in u.rows <=> Ref(y) \in s.rows) /\ (Map(y) \in u.rows <=> Map(y) \in s.rows)
  BY Families DEF Apart
<1>2. (x \in u.ok <=> x \in s.ok) /\ (x \in u.failed <=> x \in s.failed)
  BY DEF Apart
<1>3. x \in Family(x) /\ Variants(x) \subseteq Family(x)
  BY Families
<1>4. Untouched(d, s, x) => Untouched(d, u, x)
  BY <1>1, <1>2 DEF Untouched
<1>5. Changed(d, s, x) => Changed(d, u, x)
  BY <1>1, <1>2, <1>3 DEF Changed
<1>6. Halfway(d, s, x) => Halfway(d, u, x)
  BY <1>1, <1>3 DEF Halfway
<1>7. FullyMatched(d, s, x) => FullyMatched(d, u, x)
  <2>1. u.mapped[x] = s.mapped[x] /\ Target(d, u, x) = Target(d, s, x)
    BY <1>1, <1>3, TargetStays
  <2> QED
    BY <1>1, <1>3, <2>1 DEF FullyMatched
<1>8. u.mapped[x] = s.mapped[x]
  BY <1>1, <1>3
<1>9. Imported(d, s, x) => Imported(d, u, x)
  BY <1>2, <1>5, <1>6, <1>7, <1>8 DEF Imported
<1> QED
  BY <1>4, <1>9

\* The outcomes after each of n templates.
Further(d, outcomes, t) == UNION {ImportOne(d, s, t) : s \in outcomes}
Steps(g, d, begun, order, n) ==
    g = [k \in 0..n |-> IF k = 0 THEN {begun} ELSE Further(d, g[k - 1], order[k])]

\* They exist: what n templates bring is extended by one more.
LEMMA StepsExist ==
    ASSUME NEW d, NEW begun, NEW order, NEW n \in Nat
    PROVE  \E g : Steps(g, d, begun, order, n)
<1> DEFINE T == {k \in Nat : \E g : Steps(g, d, begun, order, k)}
<1>1. 0 \in T
  <2>1. Steps([k \in 0..0 |-> {begun}], d, begun, order, 0)
    BY DEF Steps
  <2> QED
    BY <2>1
<1>2. ASSUME NEW k \in T
      PROVE  k + 1 \in T
  <2>1. PICK g : Steps(g, d, begun, order, k)
    OBVIOUS
  <2>2. k \in Nat
    OBVIOUS
  <2> DEFINE h == [m \in 0..(k + 1) |-> IF m = k + 1 THEN Further(d, g[k], order[k + 1]) ELSE g[m]]
  <2>3. \A m \in 0..(k + 1) : h[m] = IF m = 0 THEN {begun} ELSE Further(d, h[m - 1], order[m])
    <3>1. \A m \in 0..k : g[m] = IF m = 0 THEN {begun} ELSE Further(d, g[m - 1], order[m])
      BY <2>1 DEF Steps
    <3>2. ASSUME NEW m \in 0..(k + 1), m = k + 1
          PROVE  h[m] = IF m = 0 THEN {begun} ELSE Further(d, h[m - 1], order[m])
      <4>1. h[m] = Further(d, g[k], order[k + 1]) /\ h[m - 1] = g[k] /\ m # 0
        BY <2>2, <3>2
      <4> QED
        BY <3>2, <4>1
    <3>3. ASSUME NEW m \in 0..(k + 1), m # k + 1
          PROVE  h[m] = IF m = 0 THEN {begun} ELSE Further(d, h[m - 1], order[m])
      <4>1. m \in 0..k /\ h[m] = g[m]
        BY <2>2, <3>3
      <4>2. m # 0 => h[m - 1] = g[m - 1]
        BY <2>2, <3>3
      <4> QED
        BY <3>1, <4>1, <4>2
    <3> QED
      BY <3>2, <3>3
  <2>4. DOMAIN h = 0..(k + 1) /\ h = [m \in 0..(k + 1) |-> h[m]]
    OBVIOUS
  <2> HIDE DEF h
  <2>5. Steps(h, d, begun, order, k + 1)
    BY <2>3, <2>4 DEF Steps
  <2> QED
    BY <2>2, <2>5
<1> HIDE DEF T
<1>3. n \in T
  BY <1>1, <1>2, AllUpTo
<1> QED
  BY <1>3 DEF T

LEMMA StepsAre ==
    ASSUME NEW d, NEW begun, NEW order, NEW n \in Nat, NEW g, Steps(g, d, begun, order, n), NEW k \in Nat, k < n
    PROVE  g[k + 1] = Further(d, g[k], order[k + 1])
<1>1. \A m \in 0..n : g[m] = IF m = 0 THEN {begun} ELSE Further(d, g[m - 1], order[m])
  BY DEF Steps
<1> DEFINE m == k + 1
<1>2. m \in 0..n /\ m # 0 /\ m - 1 = k /\ 0 \in 0..n
  OBVIOUS
<1> HIDE DEF m
<1>3. g[m] = Further(d, g[m - 1], order[m])
  BY <1>1, <1>2
<1>4. g[m] = Further(d, g[k], order[m])
  BY <1>2, <1>3
<1> QED
  BY <1>1, <1>2, <1>4 DEF m

\* After k templates, these are imported and nothing was done for others.
Through(d, s, order, k) ==
    /\ ImportResult(s)
    /\ \A t \in Template : IF \E i \in 1..k : order[i] = t THEN Imported(d, s, t) ELSE Untouched(d, s, t)

LEMMA BegunIs ==
    ASSUME NEW d, Read(d), NEW order
    PROVE  Through(d, Begun(d), order, 0)
<1>1. ImportResult(Begun(d))
  BY DEF Begun, ImportResult, Read
<1>2. \A t \in Template : Untouched(d, Begun(d), t)
  BY DEF Begun, Untouched
<1> QED
  BY <1>1, <1>2 DEF Through

LEMMA OneMore ==
    ASSUME NEW d, Read(d), NEW n \in Nat, NEW order \in [1..n -> Template],
           \A i, j \in 1..n : i # j => order[i] # order[j],
           NEW k \in 0..(n - 1), NEW s, Through(d, s, order, k), NEW u \in ImportOne(d, s, order[k + 1])
    PROVE  Through(d, u, order, k + 1)
<1> DEFINE t == order[k + 1]
<1>1. t \in Template /\ ~\E i \in 1..k : order[i] = t
  <2>1. k + 1 \in 1..n /\ \A i \in 1..k : i \in 1..n /\ i # k + 1
    OBVIOUS
  <2> QED
    BY <2>1
<1>2. ImportResult(s) /\ Untouched(d, s, t)
  BY <1>1 DEF Through
<1>3. ImportResult(u) /\ Imported(d, u, t) /\ Apart(s, u, t)
  BY <1>1, <1>2, ImportOneIs
<1>4. ASSUME NEW x \in Template
      PROVE  IF \E i \in 1..(k + 1) : order[i] = x THEN Imported(d, u, x) ELSE Untouched(d, u, x)
  <2>1. CASE x = t
    <3>1. k + 1 \in 1..(k + 1)
      OBVIOUS
    <3> QED
      BY <1>3, <2>1, <3>1
  <2>2. CASE x # t
    <3>1. (\E i \in 1..(k + 1) : order[i] = x) <=> (\E i \in 1..k : order[i] = x)
      <4>1. \A i \in 1..(k + 1) : i \in 1..k \/ i = k + 1
        OBVIOUS
      <4> QED
        BY <2>2, <4>1
    <3>2. IF \E i \in 1..k : order[i] = x THEN Imported(d, s, x) ELSE Untouched(d, s, x)
      BY DEF Through
    <3>3. (Untouched(d, s, x) => Untouched(d, u, x)) /\ (Imported(d, s, x) => Imported(d, u, x))
      BY <1>1, <1>3, <2>2, ApartKeeps
    <3> QED
      BY <3>1, <3>2, <3>3
  <2> QED
    BY <2>1, <2>2
<1> QED
  BY <1>3, <1>4 DEF Through

\* What an import brings, whatever the order of the templates.
AllImported(d, s) ==
    /\ ImportResult(s)
    /\ \A t \in Answered(d) : Imported(d, s, t)
    /\ \A t \in Template \ Answered(d) : Untouched(d, s, t)

LEMMA ImportAllIs ==
    ASSUME NEW d, Read(d), NEW s \in ImportAll(d)
    PROVE  AllImported(d, s)
<1> DEFINE n == Cardinality(Answered(d))
<1>1. IsFiniteSet(Answered(d)) /\ Answered(d) \subseteq Template
  <2>1. Answered(d) \in SUBSET Template
    BY DEF Answered, Read
  <2> QED
    BY <2>1, KindsAssumption, FS_Subset
<1>2. n \in Nat
  BY <1>1, FS_CardinalityType
<1>3. PICK order \in SetToSeqs(Answered(d)) : s \in ImportInOrder(d, order)
  BY DEF ImportAll
<1>4. s \in (CHOOSE g : Steps(g, d, Begun(d), order, n))[n]
  BY <1>3 DEF ImportInOrder, Steps, Further
<1>5. order \in [1..n -> Answered(d)] /\ \A i, j \in 1..n : i # j => order[i] # order[j]
  BY <1>3 DEF SetToSeqs
<1> HIDE DEF n
<1>6. \A t \in Answered(d) : \E i \in 1..n : order[i] = t
  <2>1. order \in Injection(1..n, Answered(d))
    BY <1>5 DEF Injection, IsInjective
  <2>2. Cardinality(1..n) = n
    BY <1>2, FS_Interval
  <2>3. order \in Surjection(1..n, Answered(d))
    BY <1>1, <2>1, <2>2, FS_Injection DEF n
  <2> QED
    BY <2>3 DEF Surjection
<1>7. order \in [1..n -> Template]
  BY <1>1, <1>5
<1>8. PICK after : Steps(after, d, Begun(d), order, n) /\ s \in after[n]
  <2>1. \E g : Steps(g, d, Begun(d), order, n)
    BY <1>2, StepsExist, Zenon
  <2> QED
    BY <1>4, <2>1, Zenon
<1> DEFINE T == {k \in 0..n : \A u \in after[k] : Through(d, u, order, k)}
<1>9. 0 \in T
  <2>1. 0 \in 0..n /\ after[0] = {Begun(d)}
    BY <1>2, <1>8 DEF Steps
  <2> QED
    BY <2>1, BegunIs
<1>10. ASSUME NEW k \in T, k < n
       PROVE  k + 1 \in T
  <2>0. k \in 0..n /\ \A u \in after[k] : Through(d, u, order, k)
    OBVIOUS
  <2> HIDE DEF T
  <2>1. k + 1 \in 1..n /\ k + 1 \in 0..n /\ k + 1 # 0 /\ k + 1 - 1 = k
    BY <1>2, <1>10, <2>0
  <2>2. after[k + 1] = UNION {ImportOne(d, v, order[k + 1]) : v \in after[k]}
    <3>1. after[k + 1] = Further(d, after[k], order[k + 1])
      <4>1. k \in Nat /\ k < n
        BY <1>2, <1>10, <2>0
      <4> QED
        BY <1>2, <1>8, <4>1, StepsAre
    <3> QED
      BY <3>1 DEF Further
  <2>3. ASSUME NEW u \in after[k + 1]
        PROVE  Through(d, u, order, k + 1)
    <3>1. PICK v \in after[k] : u \in ImportOne(d, v, order[k + 1])
      BY <2>2, <2>3
    <3>2. Through(d, v, order, k) /\ k \in 0..(n - 1)
      BY <1>2, <2>0, <2>1
    <3> QED
      BY <1>2, <1>5, <1>7, <3>1, <3>2, OneMore
  <2> QED
    BY <2>1, <2>3 DEF T
<1>11. Through(d, s, order, n)
  <2>1. n \in T
    <3> HIDE DEF T
    <3> QED
      BY <1>2, <1>9, <1>10, AllUpTo
  <2> QED
    BY <1>8, <2>1
<1>12. \A t \in Template : (\E i \in 1..n : order[i] = t) <=> t \in Answered(d)
  BY <1>5, <1>6
<1> QED
  BY <1>1, <1>11, <1>12 DEF Through, AllImported

-----------------------------------------------------------------------------
(* The invariant *)

ImportTypes ==
    /\ Sound(ref, mapped)
    /\ \A v \in Variant : ref[v] # New => store[v] # New
    /\ jobs \subseteq SUBSET Template /\ failed \subseteq SUBSET Template
    /\ owed \subseteq Template /\ hand \subseteq Template /\ acts \in Nat
    /\ DOMAIN doing = Importer /\ changed = [w \in Importer |-> changed[w]]

\* What has changed since a transaction has read it is a row, or the transaction knows
\* that its template was imported by others.
Noticed(d, rows, s, r, m, h) ==
    /\ \A v \in Variant : /\ d.answer[v] # New => s[v] # New
                          /\ d.answer[v] = Gone => s[v] = Gone
    /\ \A x \in External : Map(x) \in rows \/ m[x] = d.mapped[x]
    /\ \A t \in Template :
          \/ Ref(t) \in rows
          \/ /\ \A x \in Family(t) : r[x] = d.ref[x]
             /\ t \in h \/ \A x \in Family(t) : m[x] = d.mapped[x]

ReadInv ==
    \A w \in Importer :
        /\ Asleep(w) => changed[w] = {}
        /\ ~Asleep(w) => Read(doing[w]) /\ Noticed(doing[w], changed[w], store, ref, mapped, hand)

\* A job has the template, and has not read it before somebody else has imported it.
Shown(t) ==
    \/ \E ids \in jobs \cup failed : t \in ids
    \/ \E w \in Importer : t \in doing[w].ids /\ Ref(t) \notin changed[w]

\* The variants of a template are mapped to items of its product, those of an import that
\* no job shows all of them.
Belongs(t) == \A v \in Variants(t) : mapped[v] # Nothing => In[mapped[v]] = mapped[t]
Filled(t) == (\A v \in Known(t) : mapped[v] # Nothing) \/ (\A v \in Known(t) : store[v] = Gone)

WholeInv ==
    \A t \in Template \ hand : mapped[t] # Nothing => Belongs(t) /\ (Shown(t) \/ Filled(t))

MatchInv == ImportTypes /\ ReadInv /\ WholeInv /\ Reported

-----------------------------------------------------------------------------
(* What others notice *)

\* Changes are announced by their rows; the record of a template that was imported, or
\* dropped, is one.
Announced(rows) ==
    /\ \A v \in Variant : (store[v] # New => store'[v] # New) /\ (store[v] = Gone => store'[v] = Gone)
    /\ \A x \in External : Map(x) \in rows \/ mapped'[x] = mapped[x]
    /\ \A t \in Template :
          \/ Ref(t) \in rows
          \/ /\ \A x \in Family(t) : ref'[x] = ref[x]
             /\ t \in hand' \/ (t \notin hand /\ \A x \in Family(t) : mapped'[x] = mapped[x])

LEMMA NoticedStays ==
    ASSUME NEW d, NEW known, Noticed(d, known, store, ref, mapped, hand), NEW rows, Announced(rows)
    PROVE  Noticed(d, known \cup rows, store', ref', mapped', hand')
<1>1. \A v \in Variant : /\ d.answer[v] # New => store'[v] # New
                         /\ d.answer[v] = Gone => store'[v] = Gone
  BY DEF Noticed, Announced
<1>2. \A x \in External : Map(x) \in known \cup rows \/ mapped'[x] = d.mapped[x]
  BY DEF Noticed, Announced
<1>3. ASSUME NEW t \in Template, Ref(t) \notin known \cup rows
      PROVE  /\ \A x \in Family(t) : ref'[x] = d.ref[x]
             /\ t \in hand' \/ \A x \in Family(t) : mapped'[x] = d.mapped[x]
  BY <1>3 DEF Noticed, Announced
<1> QED
  BY <1>1, <1>2, <1>3 DEF Noticed

\* A transaction that goes on learns of the rows, one that ends forgets what it knew.
LEMMA ReadStays ==
    ASSUME ReadInv, NEW by, NEW rows, Inform(by, rows), Announced(rows),
           \A w \in Importer : IF w = by THEN doing'[w] = Idle ELSE doing'[w] = doing[w]
    PROVE  ReadInv'
<1>1. ASSUME NEW w \in Importer
      PROVE  /\ doing'[w] = Idle => changed'[w] = {}
             /\ doing'[w] # Idle =>
                  Read(doing'[w]) /\ Noticed(doing'[w], changed'[w], store', ref', mapped', hand')
  <2>1. changed'[w] = IF w = by \/ Asleep(w) THEN {} ELSE changed[w] \cup rows
    BY DEF Inform
  <2>2. CASE w = by
    BY <2>1, <2>2
  <2>3. CASE w # by /\ doing[w] = Idle
    BY <2>1, <2>3 DEF Asleep
  <2>4. CASE w # by /\ doing[w] # Idle
    <3>1. doing'[w] = doing[w] /\ changed'[w] = changed[w] \cup rows
      BY <2>1, <2>4 DEF Asleep
    <3>2. Read(doing[w]) /\ Noticed(doing[w], changed[w], store, ref, mapped, hand)
      BY <2>4 DEF ReadInv, Asleep
    <3> QED
      BY <2>4, <3>1, <3>2, NoticedStays
  <2> QED
    BY <2>2, <2>3, <2>4
<1> QED
  BY <1>1 DEF ReadInv, Asleep

-----------------------------------------------------------------------------
(* What an import leaves in the tables, where others may have written since *)

Landed(s) ==
    \A x \in External : /\ ref'[x] = IF Ref(x) \in s.rows THEN s.ref[x] ELSE ref[x]
                        /\ mapped'[x] = IF Map(x) \in s.rows THEN s.mapped[x] ELSE mapped[x]

\* What an import did for a template is in the tables; nobody else has imported it since,
\* and only users have mapped it.
Lands(d, s, t) ==
    /\ t \notin s.ok => \A x \in Family(t) :
          ref'[x] = ref[x] /\ mapped'[x] = mapped[x] /\ Ref(x) \notin s.rows /\ Map(x) \notin s.rows
    /\ t \in s.ok => /\ Ref(t) \in s.rows
                     /\ \A x \in Family(t) :
                           /\ ref[x] = d.ref[x] /\ ref'[x] = s.ref[x]
                           /\ t \notin hand => mapped[x] = d.mapped[x] /\ mapped'[x] = s.mapped[x]
                           /\ IF Map(x) \in s.rows THEN mapped[x] = d.mapped[x] /\ mapped'[x] = s.mapped[x]
                              ELSE mapped'[x] = mapped[x]

LEMMA ImportLands ==
    ASSUME NEW d, NEW s, AllImported(d, s), NEW known, Noticed(d, known, store, ref, mapped, hand),
           s.rows \cap known = {}, Landed(s), NEW t \in Template
    PROVE  Lands(d, s, t)
<1>1. Imported(d, s, t) \/ Untouched(d, s, t)
  BY DEF AllImported
<1>2. Family(t) \subseteq External /\ t \in Family(t)
  BY Families
<1>3. CASE t \notin s.ok
  <2>1. \A x \in Family(t) : Ref(x) \notin s.rows /\ Map(x) \notin s.rows
    BY <1>1, <1>3 DEF Imported, Changed, Untouched
  <2> QED
    BY <1>2, <1>3, <2>1 DEF Landed, Lands
<1>4. CASE t \in s.ok
  <2>1. Changed(d, s, t) /\ Ref(t) \in s.rows
    BY <1>1, <1>4 DEF Imported, Changed, Untouched
  <2>2. Ref(t) \notin known
    BY <2>1
  <2>3. /\ \A x \in Family(t) : ref[x] = d.ref[x]
        /\ t \in hand \/ \A x \in Family(t) : mapped[x] = d.mapped[x]
    BY <2>2 DEF Noticed
  <2>4. \A x \in Family(t) : ref'[x] = s.ref[x]
    BY <1>2, <2>1, <2>3 DEF Landed, Changed
  <2>5. \A x \in Family(t) : Map(x) \in s.rows => mapped[x] = d.mapped[x] /\ mapped'[x] = s.mapped[x]
    BY <1>2 DEF Landed, Noticed
  <2>6. \A x \in Family(t) : Map(x) \notin s.rows => mapped'[x] = mapped[x] /\ s.mapped[x] = d.mapped[x]
    BY <1>2, <2>1 DEF Landed, Changed
  <2> QED
    BY <1>4, <2>1, <2>3, <2>4, <2>5, <2>6 DEF Lands
<1> QED
  BY <1>3, <1>4

\* The tables stay sound.
LEMMA LandsSound ==
    ASSUME ImportTypes, NEW d, Read(d), NEW s, AllImported(d, s),
           NEW known, Noticed(d, known, store, ref, mapped, hand),
           \A t \in Template : Lands(d, s, t)
    PROVE  Sound(ref', mapped') /\ \A v \in Variant : ref'[v] # New => store[v] # New
<1>1. Sound(ref, mapped) /\ Sound(s.ref, s.mapped)
  BY DEF ImportTypes, AllImported, ImportResult
<1>2. \A t \in Template : t \in s.ok => Imported(d, s, t)
  BY DEF AllImported, Untouched
<1>3. ASSUME NEW t \in Template, NEW x \in Family(t)
      PROVE  /\ mapped'[x] \in {mapped[x], s.mapped[x]}
             /\ mapped'[x] # Nothing => ref'[x] # New
  <2>1. CASE t \notin s.ok
    BY <1>1, <1>3, <2>1, Families DEF Lands, Sound
  <2>2. CASE t \in s.ok
    <3>1. x \in External
      BY Families
    <3>2. ref'[x] = s.ref[x] /\ ref[x] = d.ref[x]
      BY <2>2 DEF Lands
    <3>3. CASE Map(x) \in s.rows
      <4>1. mapped'[x] = s.mapped[x]
        BY <2>2, <3>3 DEF Lands
      <4> QED
        BY <1>1, <3>1, <3>2, <4>1 DEF Sound
    <3>4. CASE Map(x) \notin s.rows
      <4>1. mapped'[x] = mapped[x]
        BY <2>2, <3>4 DEF Lands
      <4>2. ref[x] # New => s.ref[x] # New
        BY <1>2, <2>2, <3>2 DEF Imported, Changed
      <4> QED
        BY <1>1, <3>1, <3>2, <4>1, <4>2 DEF Sound
    <3> QED
      BY <3>3, <3>4
  <2> QED
    BY <2>1, <2>2
<1>4. \A x \in External : mapped'[x] \in {mapped[x], s.mapped[x]} /\ (mapped'[x] # Nothing => ref'[x] # New)
  BY <1>3, Homes
<1>5. ASSUME NEW v \in Variant, ref'[v] # New
      PROVE  ref'[Of[v]] # New /\ store[v] # New
  <2> DEFINE t == Of[v]
  <2>1. t \in Template /\ v \in Variants(t) /\ v \in Family(t) /\ t \in Family(t)
    BY Homes, Families
  <2> HIDE DEF t
  <2>2. CASE t \notin s.ok
    <3>1. ref'[v] = ref[v] /\ ref'[t] = ref[t]
      BY <2>1, <2>2 DEF Lands
    <3> QED
      BY <1>1, <1>5, <3>1 DEF Sound, ImportTypes, t
  <2>3. CASE t \in s.ok
    <3>1. ref'[v] = s.ref[v] /\ ref'[t] = s.ref[t] /\ ref[v] = d.ref[v]
      BY <2>1, <2>3 DEF Lands
    <3>2. ref'[t] # New
      BY <1>1, <1>5, <3>1 DEF Sound, t
    <3>3. Changed(d, s, t)
      BY <1>2, <2>1, <2>3 DEF Imported
    <3>4. CASE Ref(v) \in s.rows
      <4>1. s.ref[v] = d.answer[v]
        BY <2>1, <3>3, <3>4 DEF Changed
      <4> QED
        BY <1>5, <3>1, <3>2, <4>1 DEF Noticed, t
    <3>5. CASE Ref(v) \notin s.rows
      <4>1. s.ref[v] = d.ref[v]
        BY <2>1, <3>3, <3>5 DEF Changed
      <4> QED
        BY <1>5, <3>1, <3>2, <4>1 DEF ImportTypes, t
    <3> QED
      BY <3>4, <3>5
  <2> QED
    BY <2>2, <2>3
<1> QED
  BY <1>1, <1>4, <1>5, Homes, Families DEF Sound

\* The rows tell it.
LEMMA LandsAnnounced ==
    ASSUME NEW d, NEW s, AllImported(d, s), \A t \in Template : Lands(d, s, t), Landed(s),
           store' = store, \A t \in Template : t \notin s.ok /\ t \in hand => t \in hand'
    PROVE  Announced(s.rows)
<1>1. \A x \in External : Map(x) \in s.rows \/ mapped'[x] = mapped[x]
  BY DEF Landed
<1>2. ASSUME NEW t \in Template, Ref(t) \notin s.rows
      PROVE  /\ \A x \in Family(t) : ref'[x] = ref[x]
             /\ t \in hand' \/ (t \notin hand /\ \A x \in Family(t) : mapped'[x] = mapped[x])
  <2>1. t \notin s.ok
    BY <1>2 DEF Lands
  <2> QED
    BY <2>1 DEF Lands
<1> QED
  BY <1>1, <1>2 DEF Announced

\* A template stays with its product.
LEMMA LandsKept ==
    ASSUME NEW d, NEW s, AllImported(d, s), NEW t \in Template, Lands(d, s, t), mapped[t] # Nothing
    PROVE  mapped'[t] = mapped[t]
<1>1. t \in Family(t)
  BY Families
<1>2. CASE t \notin s.ok
  BY <1>1, <1>2 DEF Lands
<1>3. CASE t \in s.ok
  <2>1. Imported(d, s, t)
    BY <1>3 DEF AllImported, Untouched
  <2>2. d.mapped[t] # Nothing => s.mapped[t] = d.mapped[t]
    BY <1>3, <2>1 DEF Imported
  <2> QED
    BY <1>1, <1>3, <2>2 DEF Lands
<1> QED
  BY <1>2, <1>3

\* A template that was imported, and mapped: all its variants have items of its product,
\* unless its matching has failed.
LEMMA LandsWhole ==
    ASSUME ImportTypes, NEW d, Read(d), NEW s, AllImported(d, s), NEW t \in Template, Lands(d, s, t),
           t \in s.ok, mapped'[t] # Nothing,
           \/ t \notin hand /\ (mapped[t] # Nothing => Belongs(t))
           \/ t \notin s.failed /\ \A x \in Family(t) : mapped'[x] = s.mapped[x]
    PROVE  /\ \A v \in Variants(t) : mapped'[v] # Nothing => In[mapped'[v]] = mapped'[t]
           /\ t \in s.failed \/ \A v \in Variants(t) : ref'[v] # New => mapped'[v] # Nothing
<1>1. t \in Family(t) /\ Variants(t) \subseteq Family(t)
  BY Families
<1>2. \A x \in Family(t) : mapped'[x] = s.mapped[x] /\ ref'[x] = s.ref[x]
  BY DEF Lands
<1>3. Imported(d, s, t)
  BY DEF AllImported, Untouched
<1>4. CASE t \notin s.failed
  <2>1. FullyMatched(d, s, t) /\ s.mapped[t] # Nothing
    BY <1>1, <1>2, <1>3, <1>4 DEF Imported
  <2>2. \A v \in Variants(t) :
          IF v \in Listed(d, t) THEN s.mapped[v] # Nothing /\ In[s.mapped[v]] = s.mapped[t]
          ELSE s.ref[v] = New /\ s.mapped[v] = Nothing
    BY <2>1 DEF FullyMatched
  <2> QED
    BY <1>1, <1>2, <2>2
<1>5. CASE t \in s.failed
  <2>1. t \notin hand /\ (mapped[t] # Nothing => Belongs(t))
    BY <1>5
  <2>2. \A x \in Family(t) : mapped[x] = d.mapped[x]
    BY <2>1 DEF Lands
  <2>3. s.mapped[t] = d.mapped[t] /\ Halfway(d, s, t) /\ d.mapped[t] # Nothing
    BY <1>1, <1>2, <1>3, <1>5 DEF Imported
  <2>4. \A v \in Variants(t) : s.mapped[v] \in {d.mapped[v], Nothing} \/ In[s.mapped[v]] = d.mapped[t]
    BY <2>3 DEF Halfway
  <2>5. \A v \in Variants(t) : d.mapped[v] # Nothing => In[d.mapped[v]] = d.mapped[t]
    BY <1>1, <2>1, <2>2, <2>3 DEF Belongs
  <2> QED
    BY <1>1, <1>2, <1>5, <2>3, <2>4, <2>5
<1> QED
  BY <1>4, <1>5

-----------------------------------------------------------------------------
(* Steps that write, and end a transaction or none *)

\* Transactions but one go on.
Going(by) ==
    /\ DOMAIN doing' = Importer
    /\ \A w \in Importer : IF w = by THEN doing'[w] = Idle ELSE doing'[w] = doing[w]

\* A job that others have does not notice what is done for other templates.
LEMMA ShownStays ==
    ASSUME NEW t \in Template, NEW by, NEW rows, Inform(by, rows), Going(by), Ref(t) \notin rows,
           jobs \cup failed \subseteq jobs' \cup failed', Shown(t), ~Shown(t)'
    PROVE  by \in Importer /\ t \in doing[by].ids /\ Ref(t) \notin changed[by]
<1>1. ~\E ids \in jobs \cup failed : t \in ids
  BY DEF Shown
<1>2. PICK w \in Importer : t \in doing[w].ids /\ Ref(t) \notin changed[w]
  BY <1>1 DEF Shown
<1>3. CASE w = by
  BY <1>2, <1>3
<1>4. CASE w # by
  <2>1. doing'[w] = doing[w]
    BY <1>4 DEF Going
  <2>2. changed'[w] = {} \/ changed'[w] = changed[w] \cup rows
    BY <1>4 DEF Inform
  <2>3. Ref(t) \notin changed'[w]
    BY <1>2, <2>2
  <2> QED
    BY <1>2, <2>1, <2>3 DEF Shown
<1> QED
  BY <1>3, <1>4

\* Templates that are left alone stay whole, if a job that shows them goes on or tells.
LEMMA LeftAlone ==
    ASSUME WholeInv, NEW t \in Template, t \notin hand, mapped'[t] # Nothing,
           \A x \in Family(t) : ref'[x] = ref[x] /\ mapped'[x] = mapped[x],
           \A v \in Variant : store[v] = Gone => store'[v] = Gone,
           Shown(t) => Shown(t)' \/ Filled(t)'
    PROVE  Belongs(t)' /\ (Shown(t)' \/ Filled(t)')
<1>1. t \in Family(t) /\ Variants(t) \subseteq Family(t) /\ Variants(t) \subseteq Variant
  BY Families
<1>2. Belongs(t) /\ (Shown(t) \/ Filled(t))
  BY <1>1 DEF WholeInv
<1>3. Belongs(t)'
  BY <1>1, <1>2 DEF Belongs
<1>4. Filled(t) => Filled(t)'
  BY <1>1 DEF Filled, Known
<1> QED
  BY <1>2, <1>3, <1>4

LEMMA WritesKeep ==
    ASSUME MatchInv, NEW by, NEW rows, Inform(by, rows), Announced(rows), Going(by),
           jobs' \subseteq SUBSET Template, failed' \subseteq SUBSET Template,
           jobs \cup failed \subseteq jobs' \cup failed',
           owed' \subseteq Template, hand' \subseteq Template, acts' \in Nat,
           Sound(ref', mapped'), \A v \in Variant : ref'[v] # New => store'[v] # New,
           Reported',
           \A t \in Template \ hand' : mapped'[t] # Nothing =>
               \/ Belongs(t)' /\ (Shown(t)' \/ Filled(t)')
               \/ /\ t \notin hand /\ Ref(t) \notin rows
                  /\ \A x \in Family(t) : ref'[x] = ref[x] /\ mapped'[x] = mapped[x]
                  /\ by \in Importer /\ t \in doing[by].ids /\ Ref(t) \notin changed[by] => Shown(t)' \/ Filled(t)'
    PROVE  MatchInv'
<1>1. ReadInv'
  BY ReadStays DEF MatchInv, Going
<1>2. ImportTypes'
  <2>1. changed' = [w \in Importer |-> changed'[w]]
    BY DEF Inform
  <2> QED
    BY <2>1 DEF ImportTypes, Going
<1>3. WholeInv'
  <2>1. ASSUME NEW t \in Template \ hand', mapped'[t] # Nothing
        PROVE  Belongs(t)' /\ (Shown(t)' \/ Filled(t)')
    <3>1. CASE Belongs(t)' /\ (Shown(t)' \/ Filled(t)')
      BY <3>1
    <3>2. CASE /\ t \notin hand /\ Ref(t) \notin rows
               /\ \A x \in Family(t) : ref'[x] = ref[x] /\ mapped'[x] = mapped[x]
               /\ by \in Importer /\ t \in doing[by].ids /\ Ref(t) \notin changed[by] => Shown(t)' \/ Filled(t)'
      <4>1. Shown(t) => Shown(t)' \/ Filled(t)'
        BY <3>2, ShownStays
      <4>2. \A v \in Variant : store[v] = Gone => store'[v] = Gone
        BY DEF Announced
      <4> QED
        BY <2>1, <3>2, <4>1, <4>2, LeftAlone DEF MatchInv
    <3> QED
      BY <2>1, <3>1, <3>2
  <2> QED
    BY <2>1 DEF WholeInv
<1> QED
  BY <1>1, <1>2, <1>3 DEF MatchInv

\* No transaction ends when users write.
LEMMA UsersGoOn ==
    ASSUME ImportTypes, doing' = doing
    PROVE  Going(Nothing) /\ Nothing \notin Importer
BY KindsAssumption DEF ImportTypes, Going

\* A write that changes no row tells nothing.
LEMMA NothingTold ==
    ASSUME ImportTypes, ReadInv, changed' = changed
    PROVE  Inform(Nothing, {})
<1>1. changed = [w \in Importer |-> changed[w]]
  BY DEF ImportTypes
<1>2. \A w \in Importer : changed[w] = IF w = Nothing \/ Asleep(w) THEN {} ELSE changed[w] \cup {}
  BY KindsAssumption DEF ReadInv
<1>3. changed = [w \in Importer |-> IF w = Nothing \/ Asleep(w) THEN {} ELSE changed[w] \cup {}]
  BY <1>1, <1>2
<1> QED
  BY <1>3 DEF Inform

\* What waits, runs or has failed stays in sight.
LEMMA ReportedStays ==
    ASSUME Reported, owed' \subseteq owed, jobs \cup failed \subseteq jobs' \cup failed', doing' = doing
    PROVE  Reported'
<1>1. Visible \subseteq Visible'
  BY DEF Visible
<1> QED
  BY <1>1 DEF Reported

\* What a transaction finds when it begins.
LEMMA NowIs ==
    ASSUME ImportTypes, NEW ids, ids \subseteq Template
    PROVE  /\ Read(Now(ids)) /\ Noticed(Now(ids), {}, store, ref, mapped, hand)
           /\ Now(ids).ids = ids /\ Now(ids).ref = ref /\ Now(ids).mapped = mapped
           /\ Now(ids).answer = store /\ Now(ids) # Idle
<1>1. /\ Now(ids).ids = ids /\ Now(ids).ref = ref /\ Now(ids).mapped = mapped
      /\ Now(ids).answer = store
  BY DEF Now
<1>2. Now(ids) # Idle
  <2>1. "answer" \in DOMAIN Now(ids) /\ "answer" \notin DOMAIN Idle
    BY DEF Now, Idle
  <2> QED
    BY <2>1
<1>3. Read(Now(ids))
  BY <1>1 DEF Read, ImportTypes
<1>4. Noticed(Now(ids), {}, store, ref, mapped, hand)
  BY <1>1 DEF Noticed
<1> QED
  BY <1>1, <1>2, <1>3, <1>4

-----------------------------------------------------------------------------
(* The steps *)

LEMMA StutterKeeps ==
    ASSUME MatchInv, UNCHANGED matchVars
    PROVE  MatchInv'
<1> USE DEF matchVars, tables, queue
<1>1. ImportTypes'
  BY DEF MatchInv, ImportTypes
<1>2. ReadInv'
  BY DEF MatchInv, ReadInv, Asleep
<1>3. WholeInv'
  BY DEF MatchInv, WholeInv, Belongs, Shown, Filled, Known
<1>4. Reported'
  BY DEF MatchInv, Reported, Visible
<1> QED
  BY <1>1, <1>2, <1>3, <1>4 DEF MatchInv

\* Blocks hold what was asked for.
LEMMA BlocksHold ==
    ASSUME NEW ids \in SUBSET Template
    PROVE  Blocks(ids) \subseteq SUBSET Template /\ \A t \in ids : \E block \in Blocks(ids) : t \in block
<1>1. Blocks(ids) \subseteq SUBSET Template
  BY DEF Blocks
<1>2. ASSUME NEW t \in ids
      PROVE  \E block \in Blocks(ids) : t \in block
  <2> DEFINE block == {s \in ids : Block(ids, s) = Block(ids, t)}
  <2>1. block \in Blocks(ids) /\ t \in block
    BY DEF Blocks
  <2> QED
    BY <2>1
<1> QED
  BY <1>1, <1>2

LEMMA AskKeeps ==
    ASSUME MatchInv, NEW ids \in SUBSET Template, NEW remove \in BOOLEAN, Ask(ids, remove)
    PROVE  MatchInv'
<1>1. ImportTypes /\ ReadInv /\ Reported
  BY DEF MatchInv
<1>2. /\ jobs' = jobs \cup Blocks(ids) /\ owed' = owed \cup ids /\ acts' = acts + 1
      /\ store' = store /\ failed' = failed /\ doing' = doing
  BY DEF Ask, Act
<1>3. /\ jobs' \subseteq SUBSET Template /\ failed' \subseteq SUBSET Template
      /\ jobs \cup failed \subseteq jobs' \cup failed' /\ owed' \subseteq Template /\ acts' \in Nat
  BY <1>1, <1>2, BlocksHold DEF ImportTypes
<1>4. Reported'
  <2>1. Visible \subseteq Visible'
    BY <1>2 DEF Visible
  <2>2. ids \subseteq Visible'
    BY <1>2, BlocksHold DEF Visible
  <2> QED
    BY <1>1, <1>2, <2>1, <2>2 DEF Reported
<1>5. Going(Nothing) /\ Nothing \notin Importer
  BY <1>1, <1>2, UsersGoOn
<1>6. CASE remove
  <2>1. PICK rows : rows = {Ref(x) : x \in External} \cup {Map(x) : x \in External}
    OBVIOUS
  <2>2. /\ ref' = [x \in External |-> New] /\ mapped' = [x \in External |-> Nothing]
        /\ Inform(Nothing, rows) /\ hand' = {}
    BY <1>6, <2>1 DEF Ask
  <2>3. Announced(rows)
    <3>1. \A x \in External : Ref(x) \in rows /\ Map(x) \in rows
      BY <2>1
    <3> QED
      BY <1>2, <3>1, Families DEF Announced
  <2>4. Sound(ref', mapped') /\ (\A v \in Variant : ref'[v] = New) /\ \A t \in Template : mapped'[t] = Nothing
    BY <2>2 DEF Sound, External
  <2> QED
    BY <1>3, <1>4, <1>5, <2>2, <2>3, <2>4, WritesKeep
<1>7. CASE ~remove
  <2>1. ref' = ref /\ mapped' = mapped /\ changed' = changed /\ hand' = hand
    BY <1>7 DEF Ask
  <2>2. Inform(Nothing, {})
    BY <1>1, <2>1, NothingTold
  <2>3. Announced({})
    BY <1>2, <2>1 DEF Announced
  <2>4. Sound(ref', mapped') /\ (\A v \in Variant : ref'[v] # New => store'[v] # New) /\ hand' \subseteq Template
    BY <1>1, <1>2, <2>1 DEF ImportTypes
  <2> QED
    BY <1>3, <1>4, <1>5, <2>1, <2>2, <2>3, <2>4, WritesKeep
<1> QED
  BY <1>6, <1>7

LEMMA RequeueKeeps ==
    ASSUME MatchInv, NEW ids \in failed, RequeueImport(ids)
    PROVE  MatchInv'
<1>1. ImportTypes /\ ReadInv /\ Reported
  BY DEF MatchInv
<1>2. /\ jobs' = jobs \cup {ids} /\ failed' = failed \ {ids} /\ owed' = owed /\ acts' = acts + 1
      /\ store' = store /\ doing' = doing /\ ref' = ref /\ mapped' = mapped /\ changed' = changed /\ hand' = hand
  BY DEF RequeueImport, Act, tables
<1>3. /\ jobs' \subseteq SUBSET Template /\ failed' \subseteq SUBSET Template
      /\ jobs \cup failed \subseteq jobs' \cup failed' /\ owed' \subseteq Template /\ acts' \in Nat
      /\ Sound(ref', mapped') /\ (\A v \in Variant : ref'[v] # New => store'[v] # New) /\ hand' \subseteq Template
  BY <1>1, <1>2 DEF ImportTypes
<1>4. Reported'
  BY <1>1, <1>2, <1>3, ReportedStays
<1>5. Announced({})
  BY <1>2 DEF Announced
<1> QED
  BY <1>1, <1>2, <1>3, <1>4, <1>5, UsersGoOn, NothingTold, WritesKeep

LEMMA StoreKeeps ==
    ASSUME MatchInv, NEW v \in Variant, NEW value \in Value, StoreEdit(v, value)
    PROVE  MatchInv'
<1>1. ImportTypes /\ ReadInv /\ Reported
  BY DEF MatchInv
<1>2. /\ jobs' = jobs /\ failed' = failed /\ owed' = owed /\ acts' = acts + 1
      /\ doing' = doing /\ ref' = ref /\ mapped' = mapped /\ changed' = changed /\ hand' = hand
  BY DEF StoreEdit, Act, tables, queue
<1>3. \A u \in Variant : (store[u] # New => store'[u] # New) /\ (store[u] = Gone => store'[u] = Gone)
  <2> TAKE u \in Variant
  <2>1. store' = [store EXCEPT ![v] = value] /\ store[v] # Gone /\ value # New
    BY DEF StoreEdit
  <2>2. store'[u] = store[u] \/ (u = v /\ (store'[u] = value \/ store'[u] = store[u]))
    BY <2>1
  <2> QED
    BY <2>1, <2>2
<1>4. /\ jobs' \subseteq SUBSET Template /\ failed' \subseteq SUBSET Template
      /\ jobs \cup failed \subseteq jobs' \cup failed' /\ owed' \subseteq Template /\ acts' \in Nat
      /\ Sound(ref', mapped') /\ (\A u \in Variant : ref'[u] # New => store'[u] # New) /\ hand' \subseteq Template
  BY <1>1, <1>2, <1>3 DEF ImportTypes
<1>5. Reported'
  BY <1>1, <1>2, <1>4, ReportedStays
<1>6. Announced({})
  BY <1>2, <1>3 DEF Announced
<1> QED
  BY <1>1, <1>2, <1>4, <1>5, <1>6, UsersGoOn, NothingTold, WritesKeep

LEMMA BeginKeeps ==
    ASSUME MatchInv, NEW w \in Importer, NEW ids \in jobs, Begin(w, ids)
    PROVE  MatchInv'
<1>1. ImportTypes /\ ReadInv /\ Reported /\ WholeInv
  BY DEF MatchInv
<1>2. /\ jobs' = jobs \ {ids} /\ failed' = failed /\ owed' = owed /\ acts' = acts /\ store' = store
      /\ ref' = ref /\ mapped' = mapped /\ changed' = changed /\ hand' = hand /\ Asleep(w)
      /\ doing' = [doing EXCEPT ![w] = Now(ids)]
  BY DEF Begin, tables
<1>3. ids \subseteq Template /\ changed[w] = {} /\ DOMAIN doing = Importer /\ doing[w].ids = {}
  BY <1>1, <1>2 DEF ImportTypes, ReadInv, Asleep, Idle
<1>4. /\ Read(Now(ids)) /\ Noticed(Now(ids), {}, store, ref, mapped, hand)
      /\ Now(ids).ids = ids /\ Now(ids) # Idle
  BY <1>1, <1>3, NowIs
<1>5. DOMAIN doing' = Importer /\ \A u \in Importer : doing'[u] = IF u = w THEN Now(ids) ELSE doing[u]
  BY <1>2, <1>3
<1>6. ImportTypes'
  BY <1>1, <1>2, <1>5 DEF ImportTypes
<1>7. ReadInv'
  BY <1>1, <1>2, <1>3, <1>4, <1>5 DEF ReadInv, Asleep
<1>8. \A t \in Template : Shown(t) => Shown(t)'
  <2> SUFFICES ASSUME NEW t \in Template, Shown(t)
               PROVE  Shown(t)'
    OBVIOUS
  <2>1. CASE t \in ids
    BY <1>2, <1>3, <1>4, <1>5, <2>1 DEF Shown
  <2>2. CASE \E block \in jobs \cup failed : t \in block /\ block # ids
    BY <1>2, <2>2 DEF Shown
  <2>3. CASE \E u \in Importer : t \in doing[u].ids /\ Ref(t) \notin changed[u]
    BY <1>2, <1>3, <1>5, <2>3 DEF Shown
  <2> QED
    BY <2>1, <2>2, <2>3 DEF Shown
<1>9. WholeInv'
  BY <1>1, <1>2, <1>8 DEF WholeInv, Belongs, Filled, Known
<1>10. Reported'
  <2>1. Visible \subseteq Visible'
    <3> SUFFICES ASSUME NEW t \in Visible
                 PROVE  t \in Visible'
      OBVIOUS
    <3>1. CASE t \in ids
      BY <1>4, <1>5, <3>1 DEF Visible
    <3>2. CASE \E block \in jobs \cup failed : t \in block /\ block # ids
      BY <1>2, <3>2 DEF Visible
    <3>3. CASE \E u \in Importer : t \in doing[u].ids
      BY <1>3, <1>5, <3>3 DEF Visible
    <3> QED
      BY <3>1, <3>2, <3>3 DEF Visible
  <2> QED
    BY <1>1, <1>2, <2>1 DEF Reported
<1> QED
  BY <1>6, <1>7, <1>9, <1>10 DEF MatchInv

\* What users write to the family of a template is theirs.
LEMMA MapByHandKeeps ==
    ASSUME MatchInv, NEW t \in Template, NEW map, DOMAIN map \subseteq Family(t),
           \A x \in DOMAIN map : /\ x \in Template => map[x] \in Product \cup {Nothing}
                                 /\ x \in Variant => map[x] \in Item \cup {Nothing}
                                 /\ ref[x] # New,
           MapByHand(t, map)
    PROVE  MatchInv'
<1>1. ImportTypes /\ ReadInv /\ Reported
  BY DEF MatchInv
<1>2. PICK rows : rows = {Map(x) : x \in {y \in DOMAIN map : mapped[y] # map[y]}}
  OBVIOUS
<1>3. /\ jobs' = jobs /\ failed' = failed /\ owed' = owed /\ acts' = acts + 1 /\ store' = store
      /\ doing' = doing /\ ref' = ref /\ hand' = hand \cup {t} /\ Inform(Nothing, rows)
      /\ mapped' = Over(map, mapped)
  BY <1>2 DEF MapByHand, Act, queue
<1>4. \A x \in External : mapped'[x] = IF x \in DOMAIN map THEN map[x] ELSE mapped[x]
  BY <1>3 DEF Over
<1>5. \A x \in External : Ref(x) \notin rows /\ (Map(x) \in rows <=> x \in DOMAIN map /\ mapped[x] # map[x])
  BY <1>2, RowsDiffer
<1>6. Sound(ref', mapped')
  BY <1>1, <1>3, <1>4, Families, Homes DEF ImportTypes, Sound
<1>7. \A s \in Template \ {t} : \A x \in Family(s) : mapped'[x] = mapped[x]
  <2> SUFFICES ASSUME NEW s \in Template \ {t}, NEW x \in Family(s)
               PROVE  mapped'[x] = mapped[x]
    OBVIOUS
  <2>1. x \in External \ Family(t)
    BY Families
  <2> QED
    BY <1>4, <2>1
<1>8. Announced(rows)
  <2>1. \A x \in External : Map(x) \in rows \/ mapped'[x] = mapped[x]
    BY <1>4, <1>5
  <2>2. \A s \in Template : s \in hand' \/ (s \notin hand /\ \A x \in Family(s) : mapped'[x] = mapped[x])
    BY <1>3, <1>7
  <2> QED
    BY <1>3, <2>1, <2>2 DEF Announced
<1>9. Reported'
  BY <1>1, <1>3, ReportedStays
<1>10. /\ jobs' \subseteq SUBSET Template /\ failed' \subseteq SUBSET Template
       /\ jobs \cup failed \subseteq jobs' \cup failed' /\ owed' \subseteq Template /\ acts' \in Nat
       /\ (\A v \in Variant : ref'[v] # New => store'[v] # New) /\ hand' \subseteq Template
  BY <1>1, <1>3 DEF ImportTypes
<1>11. \A s \in Template \ hand' :
          /\ s \notin hand /\ Ref(s) \notin rows
          /\ \A x \in Family(s) : ref'[x] = ref[x] /\ mapped'[x] = mapped[x]
  BY <1>3, <1>5, <1>7, Families
<1>12. Going(Nothing) /\ Nothing \notin Importer
  BY <1>1, <1>3, UsersGoOn
<1> QED
  BY <1>3, <1>6, <1>8, <1>9, <1>10, <1>11, <1>12, WritesKeep

LEMMA MapTemplateKeeps ==
    ASSUME MatchInv, NEW t \in Template, NEW p \in Product \cup {Nothing}, MapTemplate(t, p)
    PROVE  MatchInv'
<1> DEFINE only == IF Cardinality(Known(t)) = 1 THEN Known(t) ELSE {}
           i == IF p = Nothing THEN Nothing ELSE Min(Items(Now({}), p))
           map == [x \in {t} \cup only |-> IF x = t THEN p ELSE i]
<1>1. MapByHand(t, map) /\ ref[t] # New /\ (p # Nothing => Items(Now({}), p) # {})
  BY DEF MapTemplate
<1>2. only \subseteq Variants(t) /\ \A v \in only : ref[v] # New
  BY DEF Known
<1>3. i \in Item \cup {Nothing}
  <2>1. Items(Now({}), p) \subseteq Item /\ Item \subseteq Nat
    BY KindsAssumption DEF Items
  <2> QED
    BY <1>1, <2>1, MinFound
<1>4. DOMAIN map \subseteq Family(t)
  BY <1>2, Families
<1>5. ASSUME NEW x \in DOMAIN map
      PROVE  /\ x \in Template => map[x] \in Product \cup {Nothing}
             /\ x \in Variant => map[x] \in Item \cup {Nothing}
             /\ ref[x] # New
  <2>1. x = t \/ (x \in only /\ x \in Variants(t))
    BY <1>2
  <2>2. x \in Variants(t) => x \in Variant /\ x \notin Template
    BY Families, Homes
  <2> HIDE DEF only, i
  <2> QED
    BY <1>1, <1>2, <1>3, <2>1, <2>2, Families
<1> HIDE DEF map
<1> QED
  BY <1>1, <1>4, <1>5, MapByHandKeeps

LEMMA MapVariantKeeps ==
    ASSUME MatchInv, NEW v \in Variant, NEW i \in Item \cup {Nothing}, MapVariant(v, i)
    PROVE  MatchInv'
<1> DEFINE t == Of[v]
           agree == \A u \in Known(t) \ {v} : ProductOf(mapped[u]) = ProductOf(i)
           map == [x \in {v} \cup {u \in {t} : agree} |-> IF x = v THEN i ELSE ProductOf(i)]
<1>1. MapByHand(t, map) /\ ref[v] # New
  BY DEF MapVariant
<1>2. t \in Template /\ v \in Variants(t) /\ v \in Family(t) /\ t \in Family(t) /\ v \notin Template
      /\ t \notin Variant
  BY Homes, Families
<1>3. ref[t] # New
  BY <1>1 DEF MatchInv, ImportTypes, Sound
<1>4. ProductOf(i) \in Product \cup {Nothing}
  BY KindsAssumption DEF ProductOf
<1> HIDE DEF t, agree
<1>5. DOMAIN map \subseteq Family(t)
  BY <1>2
<1>6. \A x \in DOMAIN map : /\ x \in Template => map[x] \in Product \cup {Nothing}
                            /\ x \in Variant => map[x] \in Item \cup {Nothing}
                            /\ ref[x] # New
  BY <1>1, <1>2, <1>3, <1>4
<1> HIDE DEF map
<1> QED
  BY <1>1, <1>2, <1>5, <1>6, MapByHandKeeps

LEMMA EditKeeps ==
    ASSUME MatchInv, NEW i \in Item, NEW value \in Value, Edit(i, value)
    PROVE  MatchInv'
<1>1. ImportTypes /\ ReadInv /\ Reported
  BY DEF MatchInv
<1>2. PICK dead \in SUBSET External :
         /\ mapped' = IF value = Gone THEN [x \in External |-> IF x \in dead THEN Nothing ELSE mapped[x]] ELSE mapped
         /\ Inform(Nothing, {<<"item", i>>} \cup {Map(x) : x \in {y \in dead : value = Gone}})
         /\ hand' = IF value = Gone THEN hand \cup {t \in Template : t \in dead \/ Variants(t) \cap dead # {}} ELSE hand
  <2> DEFINE now == [item EXCEPT ![i] = value]
             dead == {x \in External : mapped[x] = i \/ (mapped[x] = In[i] /\ \A j \in Item : In[j] = In[i] => ~Exists(now[j]))}
  <2>1. /\ mapped' = IF value = Gone THEN [x \in External |-> IF x \in dead THEN Nothing ELSE mapped[x]] ELSE mapped
        /\ Inform(Nothing, {<<"item", i>>} \cup {Map(x) : x \in {y \in dead : value = Gone}})
        /\ hand' = IF value = Gone THEN hand \cup {t \in Template : t \in dead \/ Variants(t) \cap dead # {}} ELSE hand
    BY DEF Edit
  <2>2. dead \in SUBSET External
    OBVIOUS
  <2> HIDE DEF dead
  <2> QED
    BY <2>1, <2>2
<1>3. PICK rows : rows = {<<"item", i>>} \cup {Map(x) : x \in {y \in dead : value = Gone}}
  OBVIOUS
<1>4. /\ jobs' = jobs /\ failed' = failed /\ owed' = owed /\ acts' = acts + 1 /\ store' = store
      /\ doing' = doing /\ ref' = ref /\ Inform(Nothing, rows)
  BY <1>2, <1>3 DEF Edit, Act, queue
<1>5. \A x \in External : mapped'[x] = IF value = Gone /\ x \in dead THEN Nothing ELSE mapped[x]
  BY <1>2
<1>6. \A x \in External : Ref(x) \notin rows /\ (Map(x) \in rows <=> x \in dead /\ value = Gone)
  BY <1>3, RowsDiffer
<1>7. Sound(ref', mapped')
  BY <1>1, <1>4, <1>5, Families, Homes DEF ImportTypes, Sound
<1>8. hand \subseteq hand' /\ hand' \subseteq Template
  BY <1>1, <1>2 DEF ImportTypes
<1>9. \A t \in Template \ hand' : t \notin hand /\ \A x \in Family(t) : mapped'[x] = mapped[x]
  <2> SUFFICES ASSUME NEW t \in Template \ hand', NEW x \in Family(t)
               PROVE  mapped'[x] = mapped[x]
    BY <1>8
  <2>1. CASE value # Gone
    BY <1>2, <2>1
  <2>2. CASE value = Gone
    <3>1. x \notin dead
      BY <1>2, <2>2, Families
    <3> QED
      BY <1>5, <3>1, Families
  <2> QED
    BY <2>1, <2>2
<1>10. Announced(rows)
  <2>1. \A x \in External : Map(x) \in rows \/ mapped'[x] = mapped[x]
    BY <1>5, <1>6
  <2> QED
    BY <1>4, <1>9, <2>1 DEF Announced
<1>11. Reported'
  BY <1>1, <1>4, ReportedStays
<1>12. /\ jobs' \subseteq SUBSET Template /\ failed' \subseteq SUBSET Template
       /\ jobs \cup failed \subseteq jobs' \cup failed' /\ owed' \subseteq Template /\ acts' \in Nat
       /\ \A v \in Variant : ref'[v] # New => store'[v] # New
  BY <1>1, <1>4 DEF ImportTypes
<1>13. \A t \in Template \ hand' :
          /\ t \notin hand /\ Ref(t) \notin rows
          /\ \A x \in Family(t) : ref'[x] = ref[x] /\ mapped'[x] = mapped[x]
  BY <1>4, <1>6, <1>9, Families
<1>14. Going(Nothing) /\ Nothing \notin Importer
  BY <1>1, <1>4, UsersGoOn
<1> QED
  BY <1>4, <1>7, <1>8, <1>10, <1>11, <1>12, <1>13, <1>14, WritesKeep

LEMMA RunMapKeeps ==
    ASSUME MatchInv, NEW t \in Template, RunMap(t)
    PROVE  MatchInv'
<1> DEFINE d == Now({t})
<1>1. ImportTypes /\ ReadInv /\ Reported /\ WholeInv
  BY DEF MatchInv
<1>2. PICK s \in ImportAll(d) :
         /\ ref' = s.ref /\ mapped' = s.mapped /\ Inform(Nothing, s.rows)
         /\ hand' = IF Whole(s) # {} THEN hand \ {t} ELSE hand \cup s.ok
  BY DEF RunMap, Write
<1>3. /\ jobs' = jobs /\ failed' = failed /\ owed' = owed /\ acts' = acts + 1 /\ store' = store
      /\ doing' = doing
  BY DEF RunMap, Act, queue
<1>4. /\ Read(d) /\ Noticed(d, {}, store, ref, mapped, hand)
      /\ d.ids = {t} /\ d.ref = ref /\ d.mapped = mapped
  BY <1>1, NowIs
<1> HIDE DEF d
<1>5. AllImported(d, s)
  BY <1>2, <1>4, ImportAllIs
<1>6. Landed(s)
  <2>1. \A u \in Template : Imported(d, s, u) \/ Untouched(d, s, u)
    BY <1>5 DEF AllImported
  <2>2. \A u \in Template : \A x \in Family(u) :
          (Ref(x) \notin s.rows => s.ref[x] = d.ref[x]) /\ (Map(x) \notin s.rows => s.mapped[x] = d.mapped[x])
    BY <2>1 DEF Imported, Changed, Untouched
  <2>3. \A x \in External :
          (Ref(x) \notin s.rows => s.ref[x] = ref[x]) /\ (Map(x) \notin s.rows => s.mapped[x] = mapped[x])
    BY <1>4, <2>2, Homes
  <2> QED
    BY <1>2, <2>3 DEF Landed
<1>7. \A u \in Template : Lands(d, s, u)
  BY <1>4, <1>5, <1>6, ImportLands
<1>8. s.ok \subseteq {t} /\ Whole(s) \subseteq s.ok \ s.failed
  <2>1. Answered(d) \subseteq {t}
    BY <1>4 DEF Answered
  <2>2. s.ok \subseteq Template
    BY <1>5 DEF AllImported, ImportResult
  <2> QED
    BY <1>5, <2>1, <2>2 DEF AllImported, Untouched, Whole
<1>9. \A u \in Template : u \notin s.ok => (u \in hand <=> u \in hand')
  BY <1>2, <1>8
<1>10. hand' \subseteq Template
  BY <1>1, <1>2, <1>8 DEF ImportTypes
<1>11. Announced(s.rows)
  BY <1>3, <1>5, <1>6, <1>7, <1>9, LandsAnnounced
<1>12. Sound(ref', mapped') /\ \A v \in Variant : ref'[v] # New => store'[v] # New
  BY <1>1, <1>3, <1>4, <1>5, <1>7, LandsSound
<1>13. Reported'
  BY <1>1, <1>3, ReportedStays
<1>14. ASSUME NEW u \in Template \ hand', mapped'[u] # Nothing
       PROVE  \/ Belongs(u)' /\ Filled(u)'
              \/ /\ u \notin hand /\ Ref(u) \notin s.rows
                 /\ \A x \in Family(u) : ref'[x] = ref[x] /\ mapped'[x] = mapped[x]
  <2>1. CASE u \notin s.ok
    BY <1>7, <1>9, <2>1, Families DEF Lands
  <2>2. CASE u \in s.ok
    <3>1. u = t /\ t \notin s.failed
      BY <1>2, <1>8, <1>14, <2>2
    <3>2. /\ \A v \in Variants(u) : mapped'[v] # Nothing => In[mapped'[v]] = mapped'[u]
          /\ \A v \in Variants(u) : ref'[v] # New => mapped'[v] # Nothing
      BY <1>1, <1>2, <1>4, <1>5, <1>7, <1>14, <2>2, <3>1, LandsWhole
    <3> QED
      BY <3>2 DEF Belongs, Filled, Known
  <2> QED
    BY <2>1, <2>2
<1>15. /\ jobs' \subseteq SUBSET Template /\ failed' \subseteq SUBSET Template
       /\ jobs \cup failed \subseteq jobs' \cup failed' /\ owed' \subseteq Template /\ acts' \in Nat
  BY <1>1, <1>3 DEF ImportTypes
<1>16. Going(Nothing) /\ Nothing \notin Importer
  BY <1>1, <1>3, UsersGoOn
<1> QED
  BY <1>2, <1>10, <1>11, <1>12, <1>13, <1>14, <1>15, <1>16, WritesKeep

LEMMA ResolveKeeps ==
    ASSUME MatchInv, NEW t \in Template, NEW perform \in BOOLEAN, Resolve(t, perform)
    PROVE  MatchInv'
<1> DEFINE d == Now({t})
           a == Approved(d, t)
           q == Recorded(d, a, t)
           gone == Dropped(d, t)
<1>1. ImportTypes /\ ReadInv /\ Reported
  BY DEF MatchInv
<1>2. PICK s \in IF perform THEN Performed(d, q, t) ELSE {q} :
         ref' = s.ref /\ mapped' = s.mapped /\ Inform(Nothing, s.rows) /\ hand' = hand \cup {t}
  BY DEF Resolve, Write
<1>3. /\ jobs' = jobs /\ failed' = failed /\ owed' = owed /\ acts' = acts + 1 /\ store' = store
      /\ doing' = doing
  BY DEF Resolve, Act, queue
<1>4. d.ref = ref /\ d.mapped = mapped /\ d.answer = store
  BY <1>1, NowIs
<1>5. gone \subseteq Variants(t) /\ gone \subseteq External /\ t \notin gone
  BY Families DEF Dropped
<1>6. /\ a = [ref |-> a.ref, mapped |-> a.mapped, rows |-> a.rows, ok |-> a.ok, failed |-> a.failed, now |-> a.now]
      /\ a.ok = {} /\ a.failed = {}
      /\ \A x \in External : /\ a.ref[x] = IF x \in gone THEN New ELSE ref[x]
                             /\ a.mapped[x] = IF x \in gone THEN Nothing ELSE mapped[x]
                             /\ Ref(x) \in a.rows <=> x \in gone
                             /\ Map(x) \in a.rows <=> x \in gone
  <2> DEFINE rows == UNION {{Ref(x), Map(x)} : x \in gone}
             r == Over([x \in gone |-> New], ref)
             m == Over([x \in gone |-> Nothing], mapped)
  <2>1. a = [ref |-> r, mapped |-> m, rows |-> rows, ok |-> {}, failed |-> {}, now |-> ref]
    <3>1. PICK b : b = Begun(d)
      OBVIOUS
    <3>2. b = [ref |-> ref, mapped |-> mapped, rows |-> {}, ok |-> {}, failed |-> {}, now |-> ref]
      BY <1>4, <3>1 DEF Begun
    <3>3. a = [b EXCEPT !.ref = Over([x \in gone |-> New], b.ref),
                        !.mapped = Over([x \in gone |-> Nothing], b.mapped), !.rows = rows]
      BY <3>1 DEF Approved
    <3>4. b.ref = ref /\ b.mapped = mapped
      BY <3>2
    <3>5. a = [b EXCEPT !.ref = r, !.mapped = m, !.rows = rows]
      BY <3>3, <3>4
    <3> HIDE DEF a, r, m, rows, gone, d
    <3> QED
      BY <3>2, <3>5
  <2>2. \A x \in External : r[x] = (IF x \in gone THEN New ELSE ref[x]) /\ m[x] = IF x \in gone THEN Nothing ELSE mapped[x]
    BY DEF Over
  <2>3. \A x \in External : (Ref(x) \in rows <=> x \in gone) /\ (Map(x) \in rows <=> x \in gone)
    BY RowsDiffer
  <2> HIDE DEF a, r, m, rows, gone
  <2> QED
    BY <2>1, <2>2, <2>3
<1> HIDE DEF d, a, gone
<1>7. Sound(ref, mapped)
  BY <1>1 DEF ImportTypes
<1>8. ImportResult(a)
  <2>1. Sound(a.ref, a.mapped)
    BY <1>5, <1>6, <1>7, Families, Homes DEF Sound
  <2> QED
    BY <1>6, <2>1 DEF ImportResult
<1>9. /\ q.mapped = a.mapped /\ q.ok = a.ok /\ q.failed = a.failed
      /\ \A x \in External : /\ q.ref[x] = IF x \in Records(d, t) THEN Received(d, t, x) ELSE a.ref[x]
                             /\ Ref(x) \in q.rows <=> x \in Records(d, t) \/ Ref(x) \in a.rows
                             /\ Map(x) \in q.rows <=> Map(x) \in a.rows
  BY <1>8, RecordedIs
<1>10. ImportResult(q) /\ \A x \in Records(d, t) : q.ref[x] # New
  BY <1>8, RecordedSound
<1> HIDE DEF q
<1>11. /\ ImportResult(s) /\ s.ref = q.ref
       /\ \A x \in External :
            /\ Ref(x) \in s.rows <=> Ref(x) \in q.rows
            /\ Map(x) \in q.rows => Map(x) \in s.rows
            /\ s.mapped[x] # q.mapped[x] => Map(x) \in s.rows /\ x \in Records(d, t)
  <2>1. CASE ~perform
    BY <1>2, <1>10, <2>1
  <2>2. CASE perform
    <3> DEFINE p == Target(d, q, t)
    <3>1. s = Matched(d, q, p, t) /\ ~Miscounted(d, p, t)
      BY <1>2, <2>2 DEF Performed
    <3>2. p \in Product \cup {Nothing, Error}
      BY <1>10, TargetIs DEF ImportResult, Sound
    <3> HIDE DEF p
    <3>3. ImportResult(s) /\ Matching(d, q, s, p, t)
      BY <1>10, <3>1, <3>2, MatchedIs
    <3> QED
      BY <3>3 DEF Matching
  <2> QED
    BY <2>1, <2>2
<1>12. Sound(ref', mapped')
  BY <1>2, <1>11 DEF ImportResult
<1>13. \A u \in Template \ {t} : /\ Ref(u) \notin s.rows
                                 /\ \A x \in Family(u) : ref'[x] = ref[x] /\ mapped'[x] = mapped[x]
  <2> SUFFICES ASSUME NEW u \in Template \ {t}, NEW x \in Family(u)
               PROVE  Ref(x) \notin s.rows /\ ref'[x] = ref[x] /\ mapped'[x] = mapped[x]
    BY Families
  <2>1. x \in External /\ x \notin Records(d, t) /\ x \notin gone
    BY <1>5, Families, ListedExist
  <2> QED
    BY <1>2, <1>6, <1>9, <1>11, <2>1
<1>14. \A x \in External : Map(x) \in s.rows \/ mapped'[x] = mapped[x]
  BY <1>2, <1>6, <1>9, <1>11
<1>15. Announced(s.rows)
  <2>1. Ref(t) \in s.rows
    BY <1>9, <1>11, ListedExist
  <2>2. \A u \in Template \ {t} : u \in hand' \/ u \notin hand
    BY <1>2
  <2> QED
    BY <1>3, <1>13, <1>14, <2>1, <2>2 DEF Announced
<1>16. \A v \in Variant : ref'[v] # New => store'[v] # New
  <2> SUFFICES ASSUME NEW v \in Variant, ref'[v] # New
               PROVE  store[v] # New
    BY <1>3
  <2>1. v \in External
    BY Homes
  <2>2. CASE v \in Records(d, t)
    <3>1. ref'[v] = d.answer[v]
      BY <1>2, <1>9, <1>11, <2>1, <2>2, ReceivedExists
    <3> QED
      BY <1>4, <2>2, <3>1
  <2>3. CASE v \notin Records(d, t)
    <3>1. ref[v] # New
      BY <1>2, <1>6, <1>9, <1>11, <2>1, <2>3
    <3> QED
      BY <1>1, <3>1 DEF ImportTypes
  <2> QED
    BY <2>2, <2>3
<1>17. Reported'
  BY <1>1, <1>3, ReportedStays
<1>18. /\ jobs' \subseteq SUBSET Template /\ failed' \subseteq SUBSET Template
       /\ jobs \cup failed \subseteq jobs' \cup failed' /\ owed' \subseteq Template /\ acts' \in Nat
       /\ hand' \subseteq Template
  BY <1>1, <1>2, <1>3 DEF ImportTypes
<1>19. Going(Nothing) /\ Nothing \notin Importer
  BY <1>1, <1>3, UsersGoOn
<1>20. \A u \in Template \ hand' :
          /\ u \notin hand /\ Ref(u) \notin s.rows
          /\ \A x \in Family(u) : ref'[x] = ref[x] /\ mapped'[x] = mapped[x]
  BY <1>2, <1>13
<1> QED
  BY <1>2, <1>12, <1>15, <1>16, <1>17, <1>18, <1>19, <1>20, WritesKeep

\* What a transaction in progress has read.
LEMMA InProgress ==
    ASSUME MatchInv, NEW w \in Importer, ~Asleep(w)
    PROVE  /\ Read(doing[w]) /\ Noticed(doing[w], changed[w], store, ref, mapped, hand)
           /\ doing[w].ids \subseteq Template
BY DEF MatchInv, ReadInv, Read

LEMMA EndIs ==
    ASSUME ImportTypes, NEW w \in Importer, NEW rows, End(w, rows)
    PROVE  /\ Going(w) /\ Inform(w, rows) /\ doing'[w] = Idle
           /\ \A u \in Importer \ {w} : doing'[u] = doing[u]
BY DEF ImportTypes, Going, End

\* A transaction that ends without an import: its templates wait again, or have failed.
LEMMA GivenUp ==
    ASSUME MatchInv, NEW w \in Importer, ~Asleep(w), End(w, {}),
           jobs \cup failed \cup {doing[w].ids} = jobs' \cup failed',
           UNCHANGED <<store, tables, owed, hand>>, acts' \in Nat
    PROVE  MatchInv'
<1>1. ImportTypes /\ ReadInv /\ Reported
  BY DEF MatchInv
<1>2. /\ Going(w) /\ Inform(w, {}) /\ \A u \in Importer \ {w} : doing'[u] = doing[u]
  BY <1>1, EndIs
<1>3. store' = store /\ ref' = ref /\ mapped' = mapped /\ owed' = owed /\ hand' = hand
  BY DEF tables
<1>4. doing[w].ids \subseteq Template
  BY InProgress
<1>5. jobs' \subseteq SUBSET Template /\ failed' \subseteq SUBSET Template /\ jobs \cup failed \subseteq jobs' \cup failed'
  <2>1. \A ids \in jobs' \cup failed' : ids \subseteq Template
    BY <1>1, <1>4 DEF ImportTypes
  <2> QED
    BY <2>1
<1>6. /\ owed' \subseteq Template /\ hand' \subseteq Template
      /\ Sound(ref', mapped') /\ \A v \in Variant : ref'[v] # New => store'[v] # New
  BY <1>1, <1>3 DEF ImportTypes
<1>7. Announced({})
  BY <1>3 DEF Announced
<1>8. Reported'
  <2>1. Visible \subseteq Visible'
    <3> SUFFICES ASSUME NEW t \in Visible
                 PROVE  t \in Visible'
      OBVIOUS
    <3>1. CASE \E ids \in jobs \cup failed : t \in ids
      BY <1>5, <3>1 DEF Visible
    <3>2. CASE t \in doing[w].ids
      BY <3>2 DEF Visible
    <3>3. CASE \E u \in Importer \ {w} : t \in doing[u].ids
      BY <1>2, <3>3 DEF Visible
    <3> QED
      BY <3>1, <3>2, <3>3 DEF Visible
  <2> QED
    BY <1>1, <1>3, <2>1 DEF Reported
<1>9. \A t \in Template \ hand' :
          /\ t \notin hand /\ Ref(t) \notin {}
          /\ \A x \in Family(t) : ref'[x] = ref[x] /\ mapped'[x] = mapped[x]
          /\ t \in doing[w].ids => Shown(t)'
  <2>1. \A t \in doing[w].ids : Shown(t)'
    BY DEF Shown
  <2> QED
    BY <1>3, <2>1
<1> QED
  BY <1>2, <1>5, <1>6, <1>7, <1>8, <1>9, WritesKeep

LEMMA FailJobKeeps ==
    ASSUME MatchInv, NEW w \in Importer, ~Asleep(w), FailJob(w), acts' \in Nat
    PROVE  MatchInv'
<1>1. jobs \cup failed \cup {doing[w].ids} = jobs' \cup failed'
  BY DEF FailJob
<1> QED
  BY <1>1, GivenUp DEF FailJob

LEMMA AgainKeeps ==
    ASSUME MatchInv, NEW w \in Importer, ~Asleep(w), Again(w), acts' \in Nat
    PROVE  MatchInv'
<1>1. jobs \cup failed \cup {doing[w].ids} = jobs' \cup failed'
  BY DEF Again
<1> QED
  BY <1>1, GivenUp DEF Again

\* The import that a transaction commits.
LEMMA CommitLands ==
    ASSUME MatchInv, NEW w \in Importer, ~Asleep(w), NEW s \in ImportAll(doing[w]), Commit(w, doing[w], s)
    PROVE  /\ AllImported(doing[w], s) /\ Landed(s)
           /\ \A t \in Template : Lands(doing[w], s, t)
<1>1. PICK d : d = doing[w]
  OBVIOUS
<1>2. Read(d) /\ Noticed(d, changed[w], store, ref, mapped, hand)
  BY <1>1, InProgress
<1>3. AllImported(d, s)
  BY <1>1, <1>2, ImportAllIs
<1>4. Landed(s)
  BY DEF Commit, Merge, Landed
<1>5. s.rows \cap changed[w] = {}
  BY DEF Commit, Serializable
<1>6. \A t \in Template : Lands(d, s, t)
  BY <1>2, <1>3, <1>4, <1>5, ImportLands
<1> QED
  BY <1>1, <1>3, <1>4, <1>6

\* What is owed yet has failed, and is asked for again.
LEMMA OwedFailed ==
    ASSUME NEW d, NEW s, AllImported(d, s), NEW t \in d.ids, ~Settled(d, s, t)
    PROVE  t \in s.failed
<1>1. t \in Answered(d)
  BY DEF Settled
<1>2. Imported(d, s, t)
  BY <1>1 DEF AllImported
<1> SUFFICES ASSUME t \notin s.failed
             PROVE  FALSE
  OBVIOUS
<1>3. t \in s.ok /\ FullyMatched(d, s, t)
  BY <1>2 DEF Imported
<1>4. Listed(d, t) \subseteq Variants(t)
  BY DEF Listed
<1>5. Settled(d, s, t)
  BY <1>3, <1>4 DEF Settled, FullyMatched
<1> QED
  BY <1>5

LEMMA CommitKeeps ==
    ASSUME MatchInv, NEW w \in Importer, ~Asleep(w), NEW s \in ImportAll(doing[w]), Commit(w, doing[w], s)
    PROVE  MatchInv'
<1>1. ImportTypes /\ ReadInv /\ Reported /\ WholeInv
  BY DEF MatchInv
<1>2. PICK d : d = doing[w]
  OBVIOUS
<1>3. Read(d) /\ Noticed(d, changed[w], store, ref, mapped, hand) /\ d.ids \subseteq Template
  BY <1>2, InProgress
<1>4. AllImported(d, s) /\ Landed(s) /\ \A t \in Template : Lands(d, s, t)
  BY <1>2, CommitLands
<1>5. /\ jobs' = jobs \cup Retry(d, s) /\ failed' = failed /\ store' = store /\ acts' = acts
      /\ owed' = owed \ {t \in d.ids : Settled(d, s, t)}
      /\ hand' = hand \ {t \in Whole(s) : \A x \in {t} \cup Variants(t) : mapped'[x] = s.mapped[x]}
      /\ End(w, s.rows)
  BY <1>2 DEF Commit
<1>6. Going(w) /\ Inform(w, s.rows) /\ \A u \in Importer \ {w} : doing'[u] = doing[u]
  BY <1>1, <1>5, EndIs
<1>7. s.ok \subseteq Template /\ s.failed \subseteq Template
  BY <1>4 DEF AllImported, ImportResult
<1>8. \A t \in s.failed : \E ids \in jobs' : t \in ids
  BY <1>5 DEF Retry
<1>9. /\ jobs' \subseteq SUBSET Template /\ failed' \subseteq SUBSET Template
      /\ jobs \cup failed \subseteq jobs' \cup failed'
      /\ owed' \subseteq Template /\ hand' \subseteq Template /\ acts' \in Nat
  BY <1>1, <1>5, <1>7 DEF ImportTypes, Retry
<1>10. Whole(s) \subseteq s.ok \ s.failed
  BY DEF Whole
<1>11. Announced(s.rows)
  <2>1. \A t \in Template : t \notin s.ok /\ t \in hand => t \in hand'
    BY <1>5, <1>10
  <2> QED
    BY <1>4, <1>5, <2>1, LandsAnnounced
<1>12. Sound(ref', mapped') /\ \A v \in Variant : ref'[v] # New => store'[v] # New
  BY <1>1, <1>3, <1>4, <1>5, LandsSound
<1>13. Reported'
  <2>1. ASSUME NEW t \in owed'
        PROVE  t \in Visible'
    <3>1. t \in Visible /\ (t \in d.ids => ~Settled(d, s, t))
      BY <1>1, <1>5 DEF Reported
    <3>2. CASE t \in d.ids
      BY <1>4, <1>8, <3>1, <3>2, OwedFailed DEF Visible
    <3>3. CASE \E ids \in jobs \cup failed : t \in ids
      BY <1>9, <3>3 DEF Visible
    <3>4. CASE \E u \in Importer \ {w} : t \in doing[u].ids
      BY <1>6, <3>4 DEF Visible
    <3> QED
      BY <1>2, <3>1, <3>2, <3>3, <3>4 DEF Visible
  <2> QED
    BY <2>1 DEF Reported
<1>14. ASSUME NEW t \in Template \ hand', mapped'[t] # Nothing
       PROVE  \/ Belongs(t)' /\ (Shown(t)' \/ Filled(t)')
              \/ /\ t \notin hand /\ Ref(t) \notin s.rows
                 /\ \A x \in Family(t) : ref'[x] = ref[x] /\ mapped'[x] = mapped[x]
                 /\ t \in doing[w].ids /\ Ref(t) \notin changed[w] => Shown(t)' \/ Filled(t)'
  <2>1. CASE t \in s.ok
    <3>1. \/ t \notin hand /\ (mapped[t] # Nothing => Belongs(t))
          \/ t \notin s.failed /\ \A x \in Family(t) : mapped'[x] = s.mapped[x]
      <4>1. CASE t \in hand
        BY <1>5, <1>10, <1>14, <4>1 DEF Family
      <4>2. CASE t \notin hand
        BY <1>1, <4>2 DEF WholeInv
      <4> QED
        BY <4>1, <4>2
    <3>2. /\ \A v \in Variants(t) : mapped'[v] # Nothing => In[mapped'[v]] = mapped'[t]
          /\ t \in s.failed \/ \A v \in Variants(t) : ref'[v] # New => mapped'[v] # Nothing
      BY <1>1, <1>3, <1>4, <1>14, <2>1, <3>1, LandsWhole
    <3>3. Belongs(t)'
      BY <3>2 DEF Belongs
    <3>4. CASE t \in s.failed
      BY <1>8, <3>3, <3>4 DEF Shown
    <3>5. CASE \A v \in Variants(t) : ref'[v] # New => mapped'[v] # Nothing
      BY <3>3, <3>5 DEF Filled, Known
    <3> QED
      BY <3>2, <3>4, <3>5
  <2>2. CASE t \notin s.ok
    <3>1. /\ t \notin hand /\ Ref(t) \notin s.rows
          /\ \A x \in Family(t) : ref'[x] = ref[x] /\ mapped'[x] = mapped[x]
      BY <1>4, <1>5, <1>10, <1>14, <2>2, Families DEF Lands
    <3>2. ASSUME t \in d.ids, Ref(t) \notin changed[w]
          PROVE  Shown(t)' \/ Filled(t)'
      <4>1. CASE t \in Answered(d)
        <5>1. t \in s.failed
          BY <1>4, <2>2, <4>1 DEF AllImported, Imported
        <5> QED
          BY <1>8, <5>1 DEF Shown
      <4>2. CASE t \notin Answered(d)
        <5>1. Listed(d, t) = {}
          BY <3>2, <4>2 DEF Answered
        <5>2. \A v \in Variants(t) : d.answer[v] \in {New, Gone}
          BY <5>1, ListedExist
        <5>3. \A v \in Variants(t) : ref'[v] = d.ref[v]
          BY <1>3, <3>1, <3>2, Families DEF Noticed
        <5>4. \A v \in Variants(t) : ref'[v] # New => store'[v] = Gone
          BY <1>3, <1>5, <5>2, <5>3, Families DEF Read, Noticed
        <5> QED
          BY <5>4 DEF Filled, Known
      <4> QED
        BY <4>1, <4>2
    <3> QED
      BY <1>2, <3>1, <3>2
  <2> QED
    BY <2>1, <2>2
<1> QED
  BY <1>6, <1>9, <1>11, <1>12, <1>13, <1>14, WritesKeep

-----------------------------------------------------------------------------
(* The theorems *)

LEMMA MatchStarts == MatchInit => MatchInv
<1> SUFFICES ASSUME MatchInit
             PROVE  MatchInv
  OBVIOUS
<1>1. /\ \A x \in External : ref[x] = New /\ mapped[x] = Nothing
      /\ jobs = {} /\ failed = {} /\ owed = {} /\ hand = {} /\ acts = 0
      /\ doing = [w \in Importer |-> Idle] /\ changed = [w \in Importer |-> {}]
  BY DEF MatchInit
<1>2. Template \subseteq External /\ Variant \subseteq External
  BY DEF External
<1>3. ImportTypes
  <2>1. Sound(ref, mapped)
    BY <1>1, <1>2, Homes DEF Sound
  <2> QED
    BY <1>1, <1>2, <2>1 DEF ImportTypes
<1>4. ReadInv
  BY <1>1 DEF ReadInv, Asleep
<1>5. WholeInv
  BY <1>1, <1>2 DEF WholeInv
<1>6. Reported
  BY <1>1 DEF Reported
<1> QED
  BY <1>3, <1>4, <1>5, <1>6 DEF MatchInv

LEMMA FinishKeeps ==
    ASSUME MatchInv, NEW w \in Importer, Finish(w)
    PROVE  MatchInv'
<1>1. PICK s \in ImportAll(doing[w]) :
         \/ Commit(w, doing[w], s)
         \/ FailJob(w) /\ UNCHANGED acts
         \/ Again(w) /\ UNCHANGED acts
  BY DEF Finish
<1>2. ~Asleep(w)
  BY DEF Finish
<1>3. acts \in Nat
  BY DEF MatchInv, ImportTypes
<1> QED
  BY <1>1, <1>2, <1>3, CommitKeeps, FailJobKeeps, AgainKeeps

\* Every act of a user, and every failure, is counted.
LEMMA ActCounts ==
    ASSUME MatchInv, Act
    PROVE  acts' \in Nat /\ acts' # acts
BY DEF MatchInv, ImportTypes, Act

LEMMA MatchStep ==
    ASSUME MatchInv, [MatchNext]_matchVars
    PROVE  MatchInv'
<1>1. CASE \E ids \in SUBSET Template, remove \in BOOLEAN : Ask(ids, remove)
  BY <1>1, AskKeeps
<1>2. CASE \E t \in Template : RunMap(t)
  BY <1>2, RunMapKeeps
<1>3. CASE \E t \in Template, perform \in BOOLEAN : Resolve(t, perform)
  BY <1>3, ResolveKeeps
<1>4. CASE \E t \in Template, p \in Product \cup {Nothing} : MapTemplate(t, p)
  BY <1>4, MapTemplateKeeps
<1>5. CASE \E v \in Variant, i \in Item \cup {Nothing} : MapVariant(v, i)
  BY <1>5, MapVariantKeeps
<1>6. CASE \E i \in Item, value \in Value : Edit(i, value)
  BY <1>6, EditKeeps
<1>7. CASE \E ids \in failed : RequeueImport(ids)
  BY <1>7, RequeueKeeps
<1>8. CASE Staff
  BY <1>8, StoreKeeps DEF Staff
<1>9. CASE \E w \in Importer : Work(w)
  BY <1>9, BeginKeeps, FinishKeeps DEF Work
<1>10. CASE \E w \in Importer : Killed(w)
  BY <1>10, ActCounts, AgainKeeps DEF Killed
<1>11. CASE \E w \in Importer : Unanswered(w)
  BY <1>11, ActCounts, FailJobKeeps DEF Unanswered
<1>12. CASE UNCHANGED matchVars
  BY <1>12, StutterKeeps
<1> QED
  BY <1>1, <1>2, <1>3, <1>4, <1>5, <1>6, <1>7, <1>8, <1>9, <1>10, <1>11, <1>12 DEF MatchNext, MatchUser

\* The invariant of the products that are matched.
THEOREM MatchInvariant == MatchSpec => []MatchInv
<1>1. MatchInv /\ [MatchNext]_matchVars => MatchInv'
  BY MatchStep
<1> QED
  BY MatchStarts, <1>1, PTL DEF MatchSpec

\* A template that was asked for is imported whole, or a job has it: whatever fails, in
\* a block of any size imported in any order, is neither lost nor taken for done.
THEOREM ImportsReported == MatchSpec => []Reported
<1>1. MatchInv => Reported
  BY DEF MatchInv
<1> QED
  BY MatchInvariant, <1>1, PTL

\* What an import maps belongs to the product of the template, and leaves out no variant
\* unless a job shows that it has failed: for all that users, staff and the other
\* imports do meanwhile.
THEOREM WholeProducts == MatchSpec => []WholeProduct
<1>1. MatchInv => WholeProduct
  <2> SUFFICES ASSUME MatchInv, NEW t \in Template \ hand, mapped[t] # Nothing
               PROVE  /\ \A v \in Variants(t) : mapped[v] # Nothing => In[mapped[v]] = mapped[t]
                      /\ \/ t \in Visible \/ \A v \in Known(t) : mapped[v] # Nothing
                         \/ \A v \in Known(t) : store[v] = Gone
    BY DEF WholeProduct
  <2>1. Belongs(t) /\ (Shown(t) \/ Filled(t))
    BY DEF MatchInv, WholeInv
  <2>2. Shown(t) => t \in Visible
    BY DEF Shown, Visible
  <2> QED
    BY <2>1, <2>2 DEF Belongs, Filled
<1> QED
  BY MatchInvariant, <1>1, PTL

\* No import takes a template from its product, in whatever order the imports and the
\* users who map by hand meet.
THEOREM ProductsKept == MatchSpec => ProductKept
<1>1. ASSUME MatchInv, [MatchNext]_matchVars, acts' = acts, NEW t \in Template, mapped[t] # Nothing
      PROVE  mapped'[t] = mapped[t]
  <2>1. ~Act
    BY <1>1, ActCounts
  <2>2. ASSUME NEW w \in Importer, Finish(w)
        PROVE  mapped'[t] = mapped[t]
    <3>1. PICK s \in ImportAll(doing[w]) :
             Commit(w, doing[w], s) \/ UNCHANGED mapped
      BY <2>2 DEF Finish, FailJob, Again, tables
    <3>2. CASE Commit(w, doing[w], s)
      <4>1. AllImported(doing[w], s) /\ Lands(doing[w], s, t)
        BY <1>1, <2>2, <3>2, CommitLands DEF Finish
      <4> QED
        BY <1>1, <4>1, LandsKept
    <3> QED
      BY <3>1, <3>2
  <2>3. ASSUME NEW w \in Importer, NEW ids \in jobs, Begin(w, ids)
        PROVE  mapped'[t] = mapped[t]
    BY <2>3 DEF Begin, tables
  <2>4. CASE UNCHANGED matchVars
    BY <2>4 DEF matchVars, tables
  <2>5. ~MatchUser
    BY <2>1 DEF MatchUser, Ask, RunMap, Resolve, MapTemplate, MapVariant, MapByHand, Edit, RequeueImport
  <2>6. ~Staff
    BY <2>1 DEF Staff, StoreEdit
  <2>7. \A w \in Importer : ~Killed(w) /\ ~Unanswered(w)
    BY <2>1 DEF Killed, Unanswered
  <2> QED
    BY <1>1, <2>2, <2>3, <2>4, <2>5, <2>6, <2>7 DEF MatchNext, Work
<1>2. MatchInv /\ [MatchNext]_matchVars =>
        [\A t \in Template : acts' = acts /\ mapped[t] # Nothing => mapped'[t] = mapped[t]]_matchVars
  BY <1>1
<1> QED
  BY MatchInvariant, <1>2, PTL DEF MatchSpec, ProductKept

=============================================================================
