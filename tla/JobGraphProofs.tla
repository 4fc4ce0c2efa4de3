--------------------------- MODULE JobGraphProofs ---------------------------
(***************************************************************************)
(* Proofs about JobGraph, for every set of jobs and all dependencies       *)
(* between them, a cycle included; then about DelayGraph, for every        *)
(* program of delayables, chains, groups and calls of on_done.             *)
(***************************************************************************)
EXTENDS JobGraph, DelayGraph, FiniteSetTheorems, WellFoundedInduction, TLAPS

-----------------------------------------------------------------------------
(* Helpers *)

\* What a snapshot finds are jobs.
LEMMA FoundType ==
    ASSUME NEW j, NEW goal, NEW own PROVE WaitingFor(j, goal, own) \in SUBSET Job
  BY DEF WaitingFor, Children

\* Begin keeps the types.
LEMMA BeginType ==
    ASSUME TypeOK, NEW j \in Job, NEW from, NEW kind \in Op \ {"none", "owes"},
           NEW found \in SUBSET Job, Begin(j, from, kind, found), users' = users
    PROVE  TypeOK'
  BY DEF TypeOK, Begin, Op

\* A commit keeps the types, when it ends a transaction or leaves its targets empty.
LEMMA CommitType ==
    ASSUME TypeOK, NEW j \in Job, NEW new \in [Job -> State], NEW o \in {"none", "owes"},
           op' = [op EXCEPT ![j] = o], targets' = [targets EXCEPT ![j] = {}],
           Committed(j, new), users' = users
    PROVE  TypeOK'
  BY DEF TypeOK, Committed, Op

LEMMA WriteOneType ==
    ASSUME TypeOK, NEW j \in Job, NEW s \in State, WriteOne(j, s), users' = users
    PROVE  TypeOK'
  BY DEF TypeOK, WriteOne

LEMMA RollbackType ==
    ASSUME TypeOK, NEW j \in Job, Rollback(j), users' = users PROVE TypeOK'
  BY DEF TypeOK, Rollback, End, Op

LEMMA CommitOrRollbackType ==
    ASSUME TypeOK, NEW j \in Job, NEW kind, NEW own \in State, NEW children \in State,
           CommitOrRollback(j, kind, own, children), users' = users
    PROVE  TypeOK'
<1>1. CASE Serializable(j, targets[j] \cup {j})
  <2> DEFINE new == [i \in Job |-> IF i = j THEN own ELSE IF i \in targets[j] THEN children
                                   ELSE state[i]]
  <2>1. new \in [Job -> State]
    BY DEF TypeOK
  <2>2. End(j) /\ Committed(j, new)
    BY <1>1 DEF CommitOrRollback
  <2> HIDE DEF new
  <2> QED
    BY <2>1, <2>2, CommitType DEF End
<1>2. CASE ~Serializable(j, targets[j] \cup {j})
  BY <1>2, RollbackType DEF CommitOrRollback
<1> QED
  BY <1>1, <1>2

-----------------------------------------------------------------------------
(* Type correctness *)

\* A transaction that is over, or has not begun, has neither targets nor conflicts.
THEOREM TypeCorrect == Spec => []TypeOK
<1>1. Init => TypeOK
  BY DEF Init, TypeOK, State, Op
<1>2. TypeOK /\ [Next]_vars => TypeOK'
  <2> SUFFICES ASSUME TypeOK, [Next]_vars PROVE TypeOK'
    OBVIOUS
  <2> {"done", "pending", "cancelled", "failed", "wait"} \subseteq State
    BY DEF State
  <2> {"enqueue", "setDone", "cancel", "runNow", "toPending", "toWait"} \subseteq Op \ {"none", "owes"}
    BY DEF Op
  <2>0. users' = users
    BY DEF Next, vars
  <2>1. ASSUME NEW j \in Job, Perform(j) PROVE TypeOK'
    <3>1. [state EXCEPT ![j] = "done"] \in [Job -> State]
      BY DEF TypeOK
    <3>2. targets' = [targets EXCEPT ![j] = {}]
      BY <2>1 DEF Perform, TypeOK
    <3> QED
      BY <2>0, <2>1, <3>1, <3>2, CommitType DEF Perform
  <2>2. ASSUME NEW j \in Job, Fail(j) PROVE TypeOK'
    BY <2>0, <2>2, WriteOneType DEF Fail
  <2>3. ASSUME NEW j \in Job,
               BeginEnqueue(j) \/ BeginSetDone(j) \/ BeginCancel(j) \/ BeginRunNow(j)
        PROVE  TypeOK'
    BY <2>0, <2>3, BeginType, FoundType
       DEF BeginEnqueue, BeginSetDone, BeginCancel, BeginRunNow, Retry
  <2>8. ASSUME NEW j \in Job, BeginPending(j) PROVE TypeOK'
    BY <2>0, <2>8, BeginType DEF BeginPending
  <2>4. ASSUME NEW j \in Job, CommitEnqueue(j) PROVE TypeOK'
    <3> DEFINE new == [i \in Job |-> IF i \in targets[j] THEN "pending" ELSE state[i]]
    <3>1. new \in [Job -> State]
      BY DEF TypeOK
    <3>2. End(j) /\ Committed(j, new)
      BY <2>4 DEF CommitEnqueue
    <3> HIDE DEF new
    <3> QED
      BY <2>0, <3>1, <3>2, CommitType DEF End
  <2>5. ASSUME NEW j \in Job, AbandonEnqueue(j) \/ Crash(j) PROVE TypeOK'
    BY <2>0, <2>5, RollbackType DEF AbandonEnqueue, Crash
  <2>6. ASSUME NEW j \in Job,
               CommitSetDone(j) \/ CommitCancel(j) \/ CommitRunNow(j) \/ CommitPending(j)
        PROVE  TypeOK'
    BY <2>0, <2>6, CommitOrRollbackType DEF CommitSetDone, CommitCancel, CommitRunNow, CommitPending
  <2>7. CASE UNCHANGED vars
    BY <2>7 DEF vars, graphVars, TypeOK
  <2> QED
    BY <2>1, <2>2, <2>3, <2>4, <2>5, <2>6, <2>7, <2>8
       DEF Next, Handler, Postpone, BeginRequeue, SetDone, Cancel, RunNow, Retry
<1> QED
  BY <1>1, <1>2, PTL DEF Spec

-----------------------------------------------------------------------------
(* The snapshots *)

\* What is needed of a transaction that has begun.
Found(j, kind, found) ==
    \A c \in found :
        /\ j \in Parents[c] /\ state[c] = "wait"
        /\ kind = "enqueue" => Parents[c] \subseteq wasDone
        /\ kind \in {"setDone", "runNow"} => Parents[c] \subseteq wasDone \cup {j}
        /\ kind = "cancel" => Parents[c] \subseteq wasCancelled \cup {j}

\* A transaction that sets its own job to pending or to wait has no targets.
FoundOwn(j, kind, found) ==
    kind \in {"toPending", "toWait"} => found = {} /\ state[j] # "wait"

LEMMA BeginSnapshot ==
    ASSUME TypeOK, SnapshotInv, NEW j \in Job, NEW from, NEW kind, NEW found \in SUBSET Job,
           Found(j, kind, found), FoundOwn(j, kind, found), Begin(j, from, kind, found)
    PROVE  SnapshotInv'
<1> SUFFICES ASSUME NEW i \in Job
             PROVE  SnapshotOf(i)'
  BY DEF SnapshotInv
<1>1. CASE i = j
  <2>1. targets'[i] = found /\ op'[i] = kind
    BY <1>1 DEF Begin, TypeOK
  <2> QED
    BY <1>1, <2>1 DEF SnapshotInv, SnapshotOf, Found, FoundOwn, Begin, TypeOK, IsParent, Children
<1>2. CASE i # j
  <2>1. targets'[i] = targets[i] /\ op'[i] = op[i]
    BY <1>2 DEF Begin, TypeOK
  <2> QED
    BY <2>1 DEF SnapshotInv, SnapshotOf, Begin, IsParent, Children
<1> QED
  BY <1>1, <1>2

\* A commit that ends the transaction of j: the others keep their targets, and each
\* of them that the commit has written is a conflict of theirs.
LEMMA CommitSnapshot ==
    ASSUME TypeOK, SnapshotInv, NEW j \in Job, NEW new \in [Job -> State],
           NEW o \in {"none", "owes"},
           op' = [op EXCEPT ![j] = o], targets' = [targets EXCEPT ![j] = {}],
           Committed(j, new)
    PROVE  SnapshotInv'
<1> SUFFICES ASSUME NEW i \in Job
             PROVE  SnapshotOf(i)'
  BY DEF SnapshotInv
<1>1. /\ IsParent(i) /\ state'[i] = "done" => i \in wasDone'
      /\ IsParent(i) /\ state'[i] = "cancelled" => i \in wasCancelled'
  BY DEF Committed
<1>2. wasDone \subseteq wasDone' /\ wasCancelled \subseteq wasCancelled'
  BY DEF Committed
<1>3. ASSUME NEW c \in targets'[i]
      PROVE  /\ i \in Parents[c]
             /\ state'[c] = "wait" \/ c \in changed'[i]
             /\ op'[i] = "enqueue" => Parents[c] \subseteq wasDone'
             /\ op'[i] \in {"setDone", "runNow"} => Parents[c] \subseteq wasDone' \cup {i}
             /\ op'[i] = "cancel" => Parents[c] \subseteq wasCancelled' \cup {i}
  <2>1. i # j /\ c \in targets[i] /\ op'[i] = op[i] /\ c \in Job
    BY <1>3 DEF TypeOK
  <2>2. op[i] \notin {"none", "owes"}
    BY <2>1 DEF TypeOK
  <2>3. changed[i] \subseteq changed'[i] /\ (new[c] # state[c] => c \in changed'[i])
    BY <2>1, <2>2 DEF Committed, TypeOK
  <2>4. state' = new
    BY DEF Committed
  <2> QED
    BY <1>2, <2>1, <2>3, <2>4 DEF SnapshotInv, SnapshotOf
<1>4. op'[i] \in {"toPending", "toWait"} =>
        targets'[i] = {} /\ (state'[i] # "wait" \/ i \in changed'[i])
  <2> SUFFICES ASSUME op'[i] \in {"toPending", "toWait"}
               PROVE  targets'[i] = {} /\ (state'[i] # "wait" \/ i \in changed'[i])
    OBVIOUS
  <2>1. i # j /\ op'[i] = op[i] /\ targets'[i] = targets[i]
    BY DEF TypeOK
  <2>2. changed[i] \subseteq changed'[i] /\ (new[i] # state[i] => i \in changed'[i])
    BY <2>1 DEF Committed, TypeOK
  <2> QED
    BY <2>1, <2>2 DEF SnapshotInv, SnapshotOf, Committed
<1> QED
  BY <1>1, <1>3, <1>4 DEF SnapshotOf, IsParent, Children

\* One statement makes no parent done or cancelled, and is a conflict of the others.
LEMMA WriteOneSnapshot ==
    ASSUME TypeOK, SnapshotInv, NEW j \in Job, NEW s \in State \ {"done", "cancelled"},
           WriteOne(j, s)
    PROVE  SnapshotInv'
<1> SUFFICES ASSUME NEW i \in Job
             PROVE  SnapshotOf(i)'
  BY DEF SnapshotInv
<1>1. /\ IsParent(i) /\ state'[i] = "done" => i \in wasDone'
      /\ IsParent(i) /\ state'[i] = "cancelled" => i \in wasCancelled'
  BY DEF WriteOne, TypeOK, SnapshotInv, SnapshotOf
<1>2. ASSUME NEW c \in targets'[i] PROVE state'[c] = "wait" \/ c \in changed'[i]
  <2>1. c \in targets[i] /\ c \in Job /\ op[i] \notin {"none", "owes"}
    BY <1>2 DEF WriteOne, TypeOK
  <2>2. changed'[i] = changed[i] \cup {j}
    BY <2>1 DEF WriteOne
  <2>3. c # j => state'[c] = state[c]
    BY <2>1 DEF WriteOne, TypeOK
  <2> QED
    BY <2>1, <2>2, <2>3 DEF SnapshotInv, SnapshotOf
<1>3. op'[i] \in {"toPending", "toWait"} =>
        targets'[i] = {} /\ (state'[i] # "wait" \/ i \in changed'[i])
  BY DEF WriteOne, TypeOK, SnapshotInv, SnapshotOf
<1> QED
  BY <1>1, <1>2, <1>3 DEF WriteOne, SnapshotInv, SnapshotOf, IsParent, Children

LEMMA RollbackSnapshot ==
    ASSUME TypeOK, SnapshotInv, NEW j \in Job, Rollback(j) PROVE SnapshotInv'
<1>1. ASSUME NEW i \in Job, i # j
      PROVE  targets'[i] = targets[i] /\ op'[i] = op[i] /\ changed'[i] = changed[i]
  BY <1>1 DEF Rollback, End, TypeOK
<1>2. targets'[j] = {} /\ op'[j] = "none"
  BY DEF Rollback, End, TypeOK
<1> QED
  BY <1>1, <1>2 DEF Rollback, SnapshotInv, SnapshotOf, IsParent, Children

LEMMA CommitOrRollbackSnapshot ==
    ASSUME TypeOK, SnapshotInv, NEW j \in Job, NEW kind, NEW own \in State,
           NEW children \in State, CommitOrRollback(j, kind, own, children)
    PROVE  SnapshotInv'
<1>1. CASE Serializable(j, targets[j] \cup {j})
  <2> DEFINE new == [i \in Job |-> IF i = j THEN own ELSE IF i \in targets[j] THEN children
                                   ELSE state[i]]
  <2>1. new \in [Job -> State]
    BY DEF TypeOK
  <2>2. End(j) /\ Committed(j, new)
    BY <1>1 DEF CommitOrRollback
  <2> HIDE DEF new
  <2> QED
    BY <2>1, <2>2, CommitSnapshot DEF End
<1>2. CASE ~Serializable(j, targets[j] \cup {j})
  BY <1>2, RollbackSnapshot DEF CommitOrRollback
<1> QED
  BY <1>1, <1>2

\* The inductive invariant: a transaction holds what its snapshot has shown to be
\* true, or the row in question is in conflict.
THEOREM SnapshotsCorrect == Spec => []SnapshotInv
<1>1. Init => SnapshotInv
  BY DEF Init, SnapshotInv, SnapshotOf
<1>2. TypeOK /\ SnapshotInv /\ [Next]_vars => SnapshotInv'
  <2> SUFFICES ASSUME TypeOK, SnapshotInv, [Next]_vars PROVE SnapshotInv'
    OBVIOUS
  <2>1. ASSUME NEW j \in Job, Perform(j) PROVE SnapshotInv'
    <3>1. [state EXCEPT ![j] = "done"] \in [Job -> State]
      BY DEF TypeOK, State
    <3>2. targets' = [targets EXCEPT ![j] = {}]
      BY <2>1 DEF Perform, TypeOK
    <3> QED
      BY <2>1, <3>1, <3>2, CommitSnapshot DEF Perform
  <2>2. ASSUME NEW j \in Job, Fail(j) PROVE SnapshotInv'
    BY <2>2, WriteOneSnapshot DEF Fail, State
  <2>3. ASSUME NEW j \in Job, BeginEnqueue(j) PROVE SnapshotInv'
    <3>1. Found(j, "enqueue", WaitingFor(j, "done", state[j]))
      <4> SUFFICES ASSUME NEW c \in WaitingFor(j, "done", state[j])
                   PROVE  j \in Parents[c] /\ state[c] = "wait" /\ Parents[c] \subseteq wasDone
        BY DEF Found
      <4>1. c \in Job /\ j \in Parents[c] /\ state[c] = "wait"
        BY DEF WaitingFor, Children
      <4>2. \A p \in Parents[c] : p \in Job /\ state[p] = "done" /\ IsParent(p)
        BY <4>1, GraphAssumption DEF WaitingFor, TypeOK, IsParent, Children
      <4> QED
        BY <4>1, <4>2 DEF SnapshotInv, SnapshotOf
    <3> QED
      BY <2>3, <3>1, FoundType, BeginSnapshot DEF BeginEnqueue, FoundOwn
  <2>4. ASSUME NEW j \in Job, BeginSetDone(j) \/ BeginCancel(j) PROVE SnapshotInv'
    <3>1. ASSUME NEW goal \in {"done", "cancelled"}, NEW c \in WaitingFor(j, goal, goal)
          PROVE  /\ j \in Parents[c] /\ state[c] = "wait"
                 /\ goal = "done" => Parents[c] \subseteq wasDone \cup {j}
                 /\ goal = "cancelled" => Parents[c] \subseteq wasCancelled \cup {j}
      <4>1. c \in Job /\ j \in Parents[c] /\ state[c] = "wait"
        BY <3>1 DEF WaitingFor, Children
      <4>2. \A p \in Parents[c] : p \in Job /\ IsParent(p) /\ (p # j => state[p] = goal)
        BY <3>1, <4>1, GraphAssumption DEF WaitingFor, TypeOK, IsParent, Children
      <4> QED
        BY <4>1, <4>2 DEF SnapshotInv, SnapshotOf
    <3>2. /\ Found(j, "setDone", WaitingFor(j, "done", "done"))
          /\ Found(j, "cancel", WaitingFor(j, "cancelled", "cancelled"))
      BY <3>1 DEF Found
    <3> QED
      BY <2>4, <3>2, FoundType, BeginSnapshot DEF BeginSetDone, BeginCancel, FoundOwn
  <2>5. ASSUME NEW j \in Job, BeginRunNow(j) PROVE SnapshotInv'
    <3>1. WaitingFor(j, "done", "started") = {}
      BY DEF WaitingFor, Children, TypeOK
    <3>2. Found(j, "runNow", WaitingFor(j, "done", "started"))
      BY <3>1 DEF Found
    <3> QED
      BY <2>5, <3>2, FoundType, BeginSnapshot DEF BeginRunNow, FoundOwn
  <2>6. ASSUME NEW j \in Job, CommitEnqueue(j) PROVE SnapshotInv'
    <3> DEFINE new == [i \in Job |-> IF i \in targets[j] THEN "pending" ELSE state[i]]
    <3>1. new \in [Job -> State]
      BY DEF TypeOK, State
    <3>2. End(j) /\ Committed(j, new)
      BY <2>6 DEF CommitEnqueue
    <3> HIDE DEF new
    <3> QED
      BY <3>1, <3>2, CommitSnapshot DEF End
  <2>7. ASSUME NEW j \in Job, AbandonEnqueue(j) \/ Crash(j) PROVE SnapshotInv'
    BY <2>7, RollbackSnapshot DEF AbandonEnqueue, Crash
  <2>8. ASSUME NEW j \in Job,
               CommitSetDone(j) \/ CommitCancel(j) \/ CommitRunNow(j) \/ CommitPending(j)
        PROVE  SnapshotInv'
    BY <2>8, CommitOrRollbackSnapshot
       DEF CommitSetDone, CommitCancel, CommitRunNow, CommitPending, State
  <2>9. ASSUME NEW j \in Job, Postpone(j) \/ BeginRequeue(j) PROVE SnapshotInv'
    BY <2>9, BeginSnapshot DEF Postpone, BeginRequeue, BeginPending, Found, FoundOwn
  <2>10. CASE UNCHANGED vars
    BY <2>10 DEF vars, graphVars, SnapshotInv, SnapshotOf, IsParent, Children
  <2> QED
    BY <2>1, <2>2, <2>3, <2>4, <2>5, <2>6, <2>7, <2>8, <2>9, <2>10
       DEF Next, Handler, SetDone, Cancel, RunNow, Retry
<1> QED
  BY <1>1, <1>2, TypeCorrect, PTL DEF Spec

-----------------------------------------------------------------------------
(* What a step may do to a waiting job *)

\* The part of PropagationSound that is about one job.
Sound(c) ==
    state[c] = "wait" =>
        /\ state'[c] = "pending" => Parents[c] \subseteq wasDone'
        /\ (state'[c] = "cancelled" /\ op[c] # "cancel") => Parents[c] \subseteq wasCancelled'

LEMMA CommitSound ==
    ASSUME TypeOK, SnapshotInv, NEW j \in Job, NEW c \in Job,
           CommitSetDone(j) \/ CommitRunNow(j) \/ CommitCancel(j) \/ CommitPending(j)
    PROVE  Sound(c)
<1>1. ASSUME NEW kind, NEW own, NEW children, CommitOrRollback(j, kind, own, children),
             c # j, state'[c] # state[c]
      PROVE  /\ c \in targets[j] /\ state'[c] = children /\ op[j] = kind
             /\ wasDone \subseteq wasDone' /\ (own = "done" => j \in wasDone')
             /\ wasCancelled \subseteq wasCancelled' /\ (own = "cancelled" => j \in wasCancelled')
  <2>1. Serializable(j, targets[j] \cup {j})
    BY <1>1 DEF CommitOrRollback, Rollback
  <2>2. Committed(j, [i \in Job |-> IF i = j THEN own
                                    ELSE IF i \in targets[j] THEN children
                                    ELSE state[i]])
    BY <1>1, <2>1 DEF CommitOrRollback
  <2>3. c \in targets[j] /\ state'[c] = children /\ op[j] = kind /\ state'[j] = own
    BY <1>1, <2>2 DEF Committed, CommitOrRollback
  <2>4. IsParent(j)
    BY <2>3 DEF SnapshotInv, SnapshotOf, IsParent, Children
  <2> QED
    BY <2>2, <2>3, <2>4 DEF Committed
<1>2. ASSUME NEW kind, NEW own, NEW children, CommitOrRollback(j, kind, own, children),
             state'[j] # state[j]
      PROVE  state'[j] = own /\ op[j] = kind
  BY <1>2 DEF CommitOrRollback, Rollback, Committed
<1>3. CASE CommitSetDone(j)
  BY <1>1, <1>2, <1>3 DEF CommitSetDone, Sound, SnapshotInv, SnapshotOf
<1>4. CASE CommitRunNow(j)
  BY <1>1, <1>2, <1>4 DEF CommitRunNow, Sound, SnapshotInv, SnapshotOf
<1>5. CASE CommitCancel(j)
  BY <1>1, <1>2, <1>5 DEF CommitCancel, Sound, SnapshotInv, SnapshotOf
<1>6. CASE CommitPending(j)
  <2>1. c # j => state'[c] = state[c]
    BY <1>1, <1>6 DEF CommitPending, SnapshotInv, SnapshotOf
  <2>2. CASE Serializable(j, targets[j] \cup {j})
    BY <1>6, <2>1, <2>2 DEF CommitPending, CommitOrRollback, Serializable, SnapshotInv, SnapshotOf, Sound
  <2>3. CASE ~Serializable(j, targets[j] \cup {j})
    BY <1>6, <2>3 DEF CommitPending, CommitOrRollback, Rollback, Sound
  <2> QED
    BY <2>2, <2>3
<1> QED
  BY <1>3, <1>4, <1>5, <1>6

\* A waiting job is released by the end of all its parents only, and cancelled by
\* others only when all its parents have been cancelled, for every graph.
THEOREM PropagationCorrect == Spec => PropagationSound
<1>1. ASSUME TypeOK, SnapshotInv, [Next]_vars, NEW c \in Job PROVE Sound(c)
  <2> USE <1>1
  <2>1. ASSUME NEW j \in Job, Perform(j) PROVE Sound(c)
    BY <2>1 DEF Perform, Committed, Sound, TypeOK
  <2>2. ASSUME NEW j \in Job, Fail(j) PROVE Sound(c)
    <3>1. state[j] # "wait" /\ (c # j => state'[c] = state[c])
      BY <2>2 DEF Fail, WriteOne, TypeOK
    <3> QED
      BY <3>1 DEF Sound
  <2>3. ASSUME NEW j \in Job,
               \/ BeginEnqueue(j) \/ BeginSetDone(j) \/ BeginCancel(j)
               \/ BeginRunNow(j) \/ BeginPending(j)
        PROVE  Sound(c)
    BY <2>3
       DEF BeginEnqueue, BeginSetDone, BeginCancel, BeginRunNow, BeginPending, Begin, Sound
  <2>4. ASSUME NEW j \in Job, CommitEnqueue(j) PROVE Sound(c)
    <3>1. state'[c] # state[c] => c \in targets[j] /\ state'[c] = "pending"
      BY <2>4 DEF CommitEnqueue, Committed
    <3>2. wasDone \subseteq wasDone' /\ op[j] = "enqueue"
      BY <2>4 DEF CommitEnqueue, Committed
    <3> QED
      BY <3>1, <3>2 DEF Sound, SnapshotInv, SnapshotOf
  <2>5. ASSUME NEW j \in Job, AbandonEnqueue(j) \/ Crash(j) PROVE Sound(c)
    BY <2>5 DEF AbandonEnqueue, Crash, Rollback, Sound
  <2>6. ASSUME NEW j \in Job,
               CommitSetDone(j) \/ CommitCancel(j) \/ CommitRunNow(j) \/ CommitPending(j)
        PROVE  Sound(c)
    BY <2>6, CommitSound
  <2>7. CASE UNCHANGED vars
    BY <2>7 DEF vars, graphVars, Sound
  <2> QED
    BY <2>1, <2>2, <2>3, <2>4, <2>5, <2>6, <2>7
       DEF Next, Handler, Postpone, BeginRequeue, SetDone, Cancel, RunNow, Retry
<1>2. TypeOK /\ SnapshotInv /\ [Next]_vars =>
        [\A c \in Job : state[c] = "wait" =>
            /\ state'[c] = "pending" => Parents[c] \subseteq wasDone'
            /\ (state'[c] = "cancelled" /\ op[c] # "cancel") =>
                  Parents[c] \subseteq wasCancelled']_vars
  BY <1>1 DEF Sound
<1> QED
  BY <1>2, TypeCorrect, SnapshotsCorrect, PTL DEF Spec, PropagationSound

\* The part of ReleaseOnlyWaiting that is about one transaction.
OnlyWaiting(j, c) ==
    (CommitEnqueue(j) \/ CommitSetDone(j) \/ CommitRunNow(j) \/ CommitCancel(j))
        /\ c # j /\ state'[c] # state[c]
        => state[c] = "wait"

\* A release, or a cancellation, never overwrites what a job has become since the
\* snapshot, for every graph.
THEOREM ReleaseCorrect == Spec => ReleaseOnlyWaiting
<1>1. ASSUME TypeOK, SnapshotInv, NEW j \in Job, NEW c \in Job PROVE OnlyWaiting(j, c)
  <2> USE <1>1
  <2> SUFFICES ASSUME c # j, state'[c] # state[c],
                      CommitEnqueue(j) \/ CommitSetDone(j) \/ CommitRunNow(j) \/ CommitCancel(j)
               PROVE  state[c] = "wait"
    BY DEF OnlyWaiting
  <2>1. CASE CommitEnqueue(j)
    <3>1. c \in targets[j] /\ c \notin changed[j]
      BY <2>1 DEF CommitEnqueue, Committed, Serializable
    <3> QED
      BY <3>1 DEF SnapshotInv, SnapshotOf
  <2>2. ASSUME NEW kind, NEW own, NEW children, CommitOrRollback(j, kind, own, children)
        PROVE  state[c] = "wait"
    <3>1. Serializable(j, targets[j] \cup {j})
      BY <2>2 DEF CommitOrRollback, Rollback
    <3>2. c \in targets[j]
      BY <2>2, <3>1 DEF CommitOrRollback, Committed
    <3> QED
      BY <3>1, <3>2 DEF Serializable, SnapshotInv, SnapshotOf
  <2> QED
    BY <2>1, <2>2 DEF CommitSetDone, CommitRunNow, CommitCancel
<1>2. TypeOK /\ SnapshotInv =>
        [\A j, c \in Job :
            (CommitEnqueue(j) \/ CommitSetDone(j) \/ CommitRunNow(j) \/ CommitCancel(j))
                /\ c # j /\ state'[c] # state[c]
                => state[c] = "wait"]_vars
  BY <1>1 DEF OnlyWaiting
<1> QED
  BY <1>2, TypeCorrect, SnapshotsCorrect, PTL DEF Spec, ReleaseOnlyWaiting

-----------------------------------------------------------------------------
(* No job is forgotten, when the handlers are alone *)

\* Two jobs with a parent in common have the same parents, as chain() and group()
\* make them.  Without it there are graphs in which a job is forgotten: of the jobs
\* c, after a and b, and d, after a, the release by a finds both; b releases c, the
\* release by a meets that write and is abandoned, and nobody looks for d again.
Layered == \A c, d \in Job : Parents[c] \cap Parents[d] # {} => Parents[c] = Parents[d]

\* With handlers alone, what has been done stays done, and a job that does not wait
\* has parents that are done: it never has to wait again.
DoneStays ==
    /\ \A j \in wasDone : state[j] = "done"
    /\ \A c \in Job : state[c] # "wait" => \A p \in Parents[c] : state[p] = "done"

\* What a transaction knows of its own job: the job is not waiting.
OwnState ==
    \A j \in Job :
        /\ op[j] \in {"none", "owes", "enqueue", "toPending"}
        /\ op[j] \in {"owes", "enqueue"} => state[j] = "done"
        /\ op[j] = "toPending" => state[j] \in {"pending", "failed"}

\* A release that has found a child has found its brothers that still wait.
BrothersFound ==
    \A j, c, d \in Job :
        op[j] = "enqueue" /\ c \in targets[j] /\ Parents[d] = Parents[c] /\ state[d] = "wait"
            => d \in targets[j]

\* The inductive invariant of a graph without users.
AloneInv == ~users => DoneStays /\ OwnState /\ BrothersFound /\ NoneForgotten

\* A commit of handlers alone: rows that are written were not done, were found
\* waiting or are the job's own.
LEMMA PerformAloneInv ==
    ASSUME TypeOK, SnapshotInv, AloneInv, ~users, users' = users, NEW j \in Job, Perform(j)
    PROVE  AloneInv'
<1>1. state' = [state EXCEPT ![j] = "done"] /\ state[j] = "pending" /\ op[j] = "none"
  BY DEF Perform, Committed
<1>2. op' = [op EXCEPT ![j] = "owes"] /\ targets' = targets
  BY DEF Perform
<1>3. DoneStays'
  BY <1>1 DEF AloneInv, DoneStays, TypeOK, Perform, Committed
<1>4. OwnState'
  BY <1>1, <1>2 DEF AloneInv, OwnState, TypeOK
<1>5. BrothersFound'
  BY <1>1, <1>2 DEF AloneInv, BrothersFound, TypeOK
<1>6. NoneForgotten'
  <2> SUFFICES ASSUME NEW c \in Job, state'[c] = "wait", Parents[c] # {},
                      \A p \in Parents[c] : state'[p] = "done"
               PROVE  WillRelease(c)'
    BY DEF NoneForgotten
  <2>1. CASE j \in Parents[c]
    BY <1>2, <2>1 DEF WillRelease, TypeOK
  <2>2. CASE j \notin Parents[c]
    <3>1. state[c] = "wait" /\ \A p \in Parents[c] : state[p] = "done"
      BY <1>1, <2>2, GraphAssumption DEF TypeOK
    <3>2. PICK p \in Parents[c] :
            \/ op[p] = "owes"
            \/ op[p] = "enqueue" /\ c \in targets[p] /\ Serializable(p, targets[p])
      BY <3>1 DEF AloneInv, NoneForgotten, WillRelease
    <3>3. p \in Job /\ p # j /\ op'[p] = op[p] /\ targets'[p] = targets[p]
      BY <1>2, <2>2, GraphAssumption DEF TypeOK
    <3>4. CASE op[p] = "owes"
      BY <3>3, <3>4 DEF WillRelease
    <3>5. CASE op[p] = "enqueue" /\ c \in targets[p] /\ Serializable(p, targets[p])
      <4>1. j \notin targets[p]
        BY <1>1, <3>3, <3>5 DEF Serializable, SnapshotInv, SnapshotOf
      <4>2. changed'[p] \subseteq changed[p] \cup {j}
        BY <1>1, <3>3, <3>5 DEF Perform, Committed, TypeOK
      <4>3. Serializable(p, targets[p])'
        BY <3>3, <3>5, <4>1, <4>2 DEF Serializable
      <4> QED
        BY <3>3, <3>5, <4>3 DEF WillRelease
    <3> QED
      BY <3>2, <3>4, <3>5
  <2> QED
    BY <2>1, <2>2
<1> QED
  BY <1>3, <1>4, <1>5, <1>6 DEF AloneInv

\* A write of a row that does not wait, or the end of a transaction about one, leaves
\* the releases of the others serializable.
LEMMA OwnRowAloneInv ==
    ASSUME TypeOK, SnapshotInv, AloneInv, ~users, users' = users, NEW j \in Job,
           NEW s \in {"pending", "failed"}, state[j] \in {"pending", "failed"},
           op[j] \in {"none", "toPending"}, state' = [state EXCEPT ![j] = s],
           op' = [op EXCEPT ![j] = "none"], targets' = [targets EXCEPT ![j] = {}],
           \A i \in Job : changed'[i] \subseteq changed[i] \cup {j},
           wasDone' \subseteq wasDone
    PROVE  AloneInv'
<1>1. DoneStays'
  <2>1. \A i \in Job : state[i] = "done" => state'[i] = "done"
    BY DEF TypeOK
  <2>2. \A i \in Job : state[i] = "wait" <=> state'[i] = "wait"
    BY DEF TypeOK
  <2> QED
    BY <2>1, <2>2, GraphAssumption DEF AloneInv, DoneStays, TypeOK
<1>2. OwnState'
  BY DEF AloneInv, OwnState, TypeOK
<1>3. BrothersFound'
  BY DEF AloneInv, BrothersFound, TypeOK
<1>4. NoneForgotten'
  <2> SUFFICES ASSUME NEW c \in Job, state'[c] = "wait", Parents[c] # {},
                      \A p \in Parents[c] : state'[p] = "done"
               PROVE  WillRelease(c)'
    BY DEF NoneForgotten
  <2>1. state[c] = "wait" /\ \A p \in Parents[c] : state[p] = "done" /\ p # j
    BY GraphAssumption DEF TypeOK
  <2>2. PICK p \in Parents[c] :
          \/ op[p] = "owes"
          \/ op[p] = "enqueue" /\ c \in targets[p] /\ Serializable(p, targets[p])
    BY <2>1 DEF AloneInv, NoneForgotten, WillRelease
  <2>3. p \in Job /\ p # j /\ op'[p] = op[p] /\ targets'[p] = targets[p]
    BY <2>1, GraphAssumption DEF TypeOK
  <2>4. CASE op[p] = "owes"
    BY <2>3, <2>4 DEF WillRelease
  <2>5. CASE op[p] = "enqueue" /\ c \in targets[p] /\ Serializable(p, targets[p])
    <3>1. j \notin targets[p]
      BY <2>3, <2>5 DEF Serializable, SnapshotInv, SnapshotOf
    <3>2. Serializable(p, targets[p])'
      BY <2>3, <2>5, <3>1 DEF Serializable
    <3> QED
      BY <2>3, <2>5, <3>2 DEF WillRelease
  <2> QED
    BY <2>2, <2>4, <2>5
<1> QED
  BY <1>1, <1>2, <1>3, <1>4 DEF AloneInv

\* A job that is set to pending was not waiting, and its parents are done.
LEMMA BeginPendingAlone ==
    ASSUME TypeOK, AloneInv, ~users, users' = users, NEW j \in Job,
           state[j] \in {"pending", "failed"}, BeginPending(j)
    PROVE  AloneInv'
<1>1. \A p \in Parents[j] : state[p] = "done"
  BY DEF AloneInv, DoneStays
<1>2. Begin(j, "none", "toPending", {})
  BY <1>1 DEF BeginPending
<1>3. DoneStays' /\ OwnState' /\ BrothersFound'
  BY <1>2 DEF AloneInv, DoneStays, OwnState, BrothersFound, Begin, TypeOK
<1>4. NoneForgotten'
  <2> SUFFICES ASSUME NEW c \in Job, state[c] = "wait", Parents[c] # {},
                      \A p \in Parents[c] : state[p] = "done"
               PROVE  WillRelease(c)'
    BY <1>2 DEF NoneForgotten, Begin
  <2>1. PICK p \in Parents[c] :
          \/ op[p] = "owes"
          \/ op[p] = "enqueue" /\ c \in targets[p] /\ Serializable(p, targets[p])
    BY DEF AloneInv, NoneForgotten, WillRelease
  <2>2. p # j /\ p \in Job
    BY <1>2, <2>1, GraphAssumption DEF Begin, TypeOK
  <2>3. op'[p] = op[p] /\ targets'[p] = targets[p] /\ changed' = changed
    BY <1>2, <2>2 DEF Begin, TypeOK
  <2> QED
    BY <2>1, <2>3 DEF WillRelease, Serializable
<1> QED
  BY <1>3, <1>4 DEF AloneInv

\* The release looks for the children with the state that is committed: it finds
\* every job that waits for the parents of one that it finds.
LEMMA BeginEnqueueAlone ==
    ASSUME TypeOK, AloneInv, ~users, users' = users, NEW j \in Job, BeginEnqueue(j)
    PROVE  AloneInv'
<1> DEFINE found == WaitingFor(j, "done", state[j])
<1>1. Begin(j, "owes", "enqueue", found)
  BY DEF BeginEnqueue
<1>2. \A c : c \in found <=>
               /\ c \in Job /\ j \in Parents[c] /\ state[c] = "wait"
               /\ \A p \in Parents[c] : state[p] = "done"
  <2>1. [state EXCEPT ![j] = state[j]] = state
    BY DEF TypeOK
  <2> QED
    BY <2>1 DEF WaitingFor, Children
<1> HIDE DEF found
<1>3. DoneStays' /\ OwnState'
  BY <1>1 DEF AloneInv, DoneStays, OwnState, Begin, TypeOK
<1>4. BrothersFound'
  BY <1>1, <1>2 DEF AloneInv, BrothersFound, Begin, TypeOK
<1>5. NoneForgotten'
  <2> SUFFICES ASSUME NEW c \in Job, state[c] = "wait", Parents[c] # {},
                      \A p \in Parents[c] : state[p] = "done"
               PROVE  WillRelease(c)'
    BY <1>1 DEF NoneForgotten, Begin
  <2>1. PICK p \in Parents[c] :
          \/ op[p] = "owes"
          \/ op[p] = "enqueue" /\ c \in targets[p] /\ Serializable(p, targets[p])
    BY DEF AloneInv, NoneForgotten, WillRelease
  <2>2. CASE p = j
    <3>1. c \in found
      BY <1>2, <2>2
    <3>2. op'[j] = "enqueue" /\ targets'[j] = found /\ changed'[j] = {}
      BY <1>1 DEF Begin, TypeOK
    <3> QED
      BY <2>2, <3>1, <3>2 DEF WillRelease, Serializable
  <2>3. CASE p # j
    <3>1. op'[p] = op[p] /\ targets'[p] = targets[p] /\ changed' = changed
      BY <1>1, <2>3, GraphAssumption DEF Begin, TypeOK
    <3> QED
      BY <2>1, <3>1 DEF WillRelease, Serializable
  <2> QED
    BY <2>2, <2>3
<1> QED
  BY <1>3, <1>4, <1>5 DEF AloneInv

\* A release that commits: a job that it does not release has no parent in common
\* with one that it does, so that the releases in progress for that job go on.
LEMMA CommitEnqueueAlone ==
    ASSUME Layered, TypeOK, SnapshotInv, AloneInv, ~users, users' = users, NEW j \in Job,
           CommitEnqueue(j)
    PROVE  AloneInv'
<1> DEFINE new == [i \in Job |-> IF i \in targets[j] THEN "pending" ELSE state[i]]
<1>1. /\ op[j] = "enqueue" /\ op' = [op EXCEPT ![j] = "none"]
      /\ targets' = [targets EXCEPT ![j] = {}] /\ Committed(j, new)
  BY DEF CommitEnqueue, End
<1>2. \A c \in targets[j] :
        c \in Job /\ j \in Parents[c] /\ state[c] = "wait" /\ Parents[c] \subseteq wasDone
  BY <1>1 DEF CommitEnqueue, Serializable, SnapshotInv, SnapshotOf, TypeOK
<1>3. /\ \A i \in Job : i \in targets[j] => state'[i] = "pending"
      /\ \A i \in Job : i \notin targets[j] => state'[i] = state[i]
  BY <1>1 DEF Committed
<1>4. state[j] = "done"
  BY <1>1 DEF AloneInv, OwnState
<1>5. \A i \in Job : state[i] = "done" <=> state'[i] = "done"
  BY <1>2, <1>3
<1>6. \A i \in Job : state'[i] = "wait" => state[i] = "wait" /\ i \notin targets[j]
  BY <1>3
<1>7. DoneStays'
  <2>1. \A i \in wasDone' : state'[i] = "done"
    <3>1. \A i \in wasDone' : i \in Job /\ (i \in wasDone \/ state'[i] = "done")
      BY <1>1 DEF Committed, TypeOK
    <3> QED
      BY <1>5, <3>1 DEF AloneInv, DoneStays
  <2>2. ASSUME NEW c \in Job, state'[c] # "wait", NEW p \in Parents[c] PROVE state'[p] = "done"
    <3>1. p \in Job
      BY GraphAssumption
    <3>2. state[p] = "done"
      BY <1>2, <1>3, <2>2 DEF AloneInv, DoneStays
    <3> QED
      BY <1>5, <3>1, <3>2
  <2> QED
    BY <2>1, <2>2 DEF DoneStays
<1>8. OwnState'
  <2> SUFFICES ASSUME NEW i \in Job
               PROVE  /\ op'[i] \in {"none", "owes", "enqueue", "toPending"}
                      /\ op'[i] \in {"owes", "enqueue"} => state'[i] = "done"
                      /\ op'[i] = "toPending" => state'[i] \in {"pending", "failed"}
    BY DEF OwnState
  <2>1. op'[i] \in {op[i], "none"}
    BY <1>1 DEF TypeOK
  <2>2. op[i] = "toPending" => i \notin targets[j]
    BY <1>2 DEF AloneInv, OwnState
  <2> QED
    BY <1>3, <1>5, <2>1, <2>2 DEF AloneInv, OwnState
<1>9. BrothersFound'
  <2> SUFFICES ASSUME NEW i \in Job, NEW c \in Job, NEW d \in Job, op'[i] = "enqueue",
                      c \in targets'[i], Parents[d] = Parents[c], state'[d] = "wait"
               PROVE  d \in targets'[i]
    BY DEF BrothersFound
  <2>1. i # j /\ op'[i] = op[i] /\ targets'[i] = targets[i]
    BY <1>1 DEF TypeOK
  <2> QED
    BY <1>6, <2>1 DEF AloneInv, BrothersFound
<1>10. NoneForgotten'
  <2> SUFFICES ASSUME NEW c \in Job, state'[c] = "wait", Parents[c] # {},
                      \A p \in Parents[c] : state'[p] = "done"
               PROVE  WillRelease(c)'
    BY DEF NoneForgotten
  <2>1. state[c] = "wait" /\ c \notin targets[j] /\ \A p \in Parents[c] : state[p] = "done"
    BY <1>5, <1>6, GraphAssumption
  <2>2. PICK p \in Parents[c] :
          \/ op[p] = "owes"
          \/ op[p] = "enqueue" /\ c \in targets[p] /\ Serializable(p, targets[p])
    BY <2>1 DEF AloneInv, NoneForgotten, WillRelease
  <2>3. p \in Job /\ p # j /\ op'[p] = op[p] /\ targets'[p] = targets[p]
    BY <1>1, <2>1, <2>2, GraphAssumption DEF TypeOK
  <2>4. CASE op[p] = "owes"
    BY <2>3, <2>4 DEF WillRelease
  <2>5. CASE op[p] = "enqueue" /\ c \in targets[p] /\ Serializable(p, targets[p])
    <3>1. j \notin targets[p]
      BY <1>4, <2>3, <2>5 DEF Serializable, SnapshotInv, SnapshotOf
    <3>2. ASSUME NEW d \in targets[p], d \in targets[j] PROVE FALSE
      <4>1. d \in Job /\ j \in Parents[d]
        BY <1>2, <3>2
      <4>2. p \in Parents[d]
        BY <2>3 DEF SnapshotInv, SnapshotOf
      <4>3. Parents[d] = Parents[c]
        BY <2>2, <4>1, <4>2 DEF Layered
      <4> QED
        BY <1>1, <2>1, <3>2, <4>1, <4>3 DEF AloneInv, BrothersFound
    <3>3. changed'[p] \subseteq changed[p] \cup targets[j] \cup {j}
      BY <1>1, <1>3, <2>3, <2>5 DEF Committed, TypeOK
    <3>4. Serializable(p, targets[p])'
      BY <2>3, <2>5, <3>1, <3>2, <3>3 DEF Serializable
    <3> QED
      BY <2>3, <2>5, <3>4 DEF WillRelease
  <2> QED
    BY <2>2, <2>4, <2>5
<1> QED
  BY <1>7, <1>8, <1>9, <1>10 DEF AloneInv

\* A release that is abandoned was in conflict: nobody has counted on it.
LEMMA AbandonAlone ==
    ASSUME TypeOK, AloneInv, ~users, users' = users, NEW j \in Job, Rollback(j),
           op[j] = "toPending" \/ AbandonEnqueue(j)
    PROVE  AloneInv'
<1>1. DoneStays' /\ OwnState' /\ BrothersFound'
  BY DEF AloneInv, DoneStays, OwnState, BrothersFound, Rollback, End, TypeOK
<1>2. NoneForgotten'
  <2> SUFFICES ASSUME NEW c \in Job, state[c] = "wait", Parents[c] # {},
                      \A p \in Parents[c] : state[p] = "done"
               PROVE  WillRelease(c)'
    BY DEF NoneForgotten, Rollback
  <2>1. PICK p \in Parents[c] :
          \/ op[p] = "owes"
          \/ op[p] = "enqueue" /\ c \in targets[p] /\ Serializable(p, targets[p])
    BY DEF AloneInv, NoneForgotten, WillRelease
  <2>2. p # j
    BY <2>1 DEF AbandonEnqueue
  <2>3. op'[p] = op[p] /\ targets'[p] = targets[p] /\ changed'[p] = changed[p]
    BY <2>2, GraphAssumption DEF Rollback, End, TypeOK
  <2> QED
    BY <2>1, <2>3 DEF WillRelease, Serializable
<1> QED
  BY <1>1, <1>2 DEF AloneInv

\* The end of a requeue or of a postponement.
LEMMA CommitPendingAlone ==
    ASSUME TypeOK, SnapshotInv, AloneInv, ~users, users' = users, NEW j \in Job,
           CommitPending(j)
    PROVE  AloneInv'
<1>1. op[j] = "toPending" /\ CommitOrRollback(j, "toPending", "pending", "pending")
  BY DEF CommitPending, CommitOrRollback, AloneInv, OwnState
<1>2. targets[j] = {}
  BY <1>1 DEF SnapshotInv, SnapshotOf
<1>3. state[j] \in {"pending", "failed"}
  BY <1>1 DEF AloneInv, OwnState
<1>4. CASE Serializable(j, targets[j] \cup {j})
  <2> DEFINE new == [i \in Job |-> IF i = j THEN "pending"
                                   ELSE IF i \in targets[j] THEN "pending" ELSE state[i]]
  <2>1. End(j) /\ Committed(j, new)
    BY <1>1, <1>4 DEF CommitOrRollback
  <2>2. new = [state EXCEPT ![j] = "pending"]
    BY <1>2 DEF TypeOK
  <2>3. state' = [state EXCEPT ![j] = "pending"]
    BY <2>1, <2>2 DEF Committed
  <2>4. \A i \in Job : changed'[i] \subseteq changed[i] \cup {j}
    BY <2>1, <2>2 DEF Committed, TypeOK
  <2>5. wasDone' \subseteq wasDone
    BY <2>1, <2>2 DEF Committed, SnapshotInv, SnapshotOf, TypeOK
  <2> QED
    BY <1>1, <1>3, <2>1, <2>3, <2>4, <2>5, OwnRowAloneInv DEF End
<1>5. CASE ~Serializable(j, targets[j] \cup {j})
  BY <1>1, <1>5, AbandonAlone DEF CommitOrRollback
<1> QED
  BY <1>4, <1>5

\* In a graph that chain() and group() make, and with handlers alone, a job whose
\* parents are all done is never forgotten: of the releases of the parents that find
\* it, the first to commit writes all that the others have found.
THEOREM GroupsForgetNone == ASSUME Layered PROVE Spec => []NoneForgotten
<1>1. Init => AloneInv
  BY GraphAssumption
     DEF Init, AloneInv, DoneStays, OwnState, BrothersFound, NoneForgotten
<1>2. TypeOK /\ SnapshotInv /\ AloneInv /\ [Next]_vars => AloneInv'
  <2> SUFFICES ASSUME TypeOK, SnapshotInv, AloneInv, [Next]_vars PROVE AloneInv'
    OBVIOUS
  <2>1. users' = users
    BY DEF Next, vars
  <2>2. CASE users
    BY <2>1, <2>2 DEF AloneInv
  <2>3. CASE ~users
    <3> USE <2>1, <2>3
    <3>1. ASSUME NEW j \in Job, Perform(j) PROVE AloneInv'
      BY <3>1, PerformAloneInv
    <3>2. ASSUME NEW j \in Job, Fail(j) PROVE AloneInv'
      <4>1. op = [op EXCEPT ![j] = "none"] /\ targets = [targets EXCEPT ![j] = {}]
        BY <3>2 DEF Fail, TypeOK
      <4>2. \A i \in Job : changed'[i] \subseteq changed[i] \cup {j}
        BY <3>2 DEF Fail, WriteOne
      <4> QED
        BY <3>2, <4>1, <4>2, OwnRowAloneInv DEF Fail, WriteOne
    <3>3. ASSUME NEW j \in Job, Postpone(j) \/ Retry(j) PROVE AloneInv'
      BY <3>3, BeginPendingAlone DEF Postpone, Retry, BeginRequeue
    <3>4. ASSUME NEW j \in Job, CommitPending(j) PROVE AloneInv'
      BY <3>4, CommitPendingAlone
    <3>5. ASSUME NEW j \in Job, BeginEnqueue(j) PROVE AloneInv'
      BY <3>5, BeginEnqueueAlone
    <3>6. ASSUME NEW j \in Job, CommitEnqueue(j) PROVE AloneInv'
      BY <3>6, CommitEnqueueAlone
    <3>7. ASSUME NEW j \in Job, AbandonEnqueue(j) PROVE AloneInv'
      BY <3>7, AbandonAlone DEF AbandonEnqueue
    <3>8. CASE UNCHANGED vars
      BY <3>8 DEF vars, graphVars, AloneInv, DoneStays, OwnState, BrothersFound,
                  NoneForgotten, WillRelease, Serializable
    <3> QED
      BY <3>1, <3>2, <3>3, <3>4, <3>5, <3>6, <3>7, <3>8 DEF Next, Handler
  <2> QED
    BY <2>2, <2>3
<1>3. AloneInv => NoneForgotten
  BY DEF AloneInv, NoneForgotten
<1> QED
  BY <1>1, <1>2, <1>3, TypeCorrect, SnapshotsCorrect, PTL DEF Spec

-----------------------------------------------------------------------------
(* DelayGraph: what is reached over any number of steps *)

\* A set of natural numbers has a least one.
LEMMA LeastExists ==
    ASSUME NEW T, T \subseteq Nat, T # {}
    PROVE  \E t \in T : \A u \in T : t <= u
<1>1. \E t \in T : \A u \in T : <<u, t>> \notin OpToRel(<, Nat)
  BY WFMin, NatLessThanWellFounded, Zenon
<1>2. PICK t \in T : \A u \in T : ~(u < t)
  BY <1>1 DEF OpToRel
<1> QED
  BY <1>2

\* Sets that hold what their members lead to.
Closed(next, seen) == \A n \in seen : next[n] \subseteq seen

\* The least of those with the members of seen.
Least(next, seen) ==
    {n \in DOMAIN next : \A c \in SUBSET DOMAIN next : seen \subseteq c /\ Closed(next, c) => n \in c}

More(next, seen) == seen \cup All([n \in seen |-> next[n]])

LEMMA MoreIs ==
    ASSUME NEW next, NEW seen
    PROVE  \A x : x \in More(next, seen) <=> x \in seen \/ \E n \in seen : x \in next[n]
  BY DEF More, All

\* A step towards the least closed set.
LEMMA LeastStep ==
    ASSUME NEW nodes, NEW next \in [nodes -> SUBSET nodes], NEW seen \in SUBSET nodes
    PROVE  /\ More(next, seen) \in SUBSET nodes
           /\ seen \subseteq More(next, seen)
           /\ Least(next, seen) =
                  IF More(next, seen) = seen THEN seen ELSE Least(next, More(next, seen))
<1>1. More(next, seen) \in SUBSET nodes /\ seen \subseteq More(next, seen)
  BY MoreIs
<1>2. ASSUME More(next, seen) = seen
      PROVE  Least(next, seen) = seen
  <2>1. Closed(next, seen)
    BY <1>2, MoreIs DEF Closed
  <2> QED
    BY <2>1 DEF Least
<1>3. \A c \in SUBSET nodes : seen \subseteq c /\ Closed(next, c)
                              <=> More(next, seen) \subseteq c /\ Closed(next, c)
  BY MoreIs DEF Closed
<1>4. Least(next, seen) = Least(next, More(next, seen))
  BY <1>3 DEF Least
<1> QED
  BY <1>1, <1>2, <1>4

\* Reached finds it.
LEMMA ReachedIsLeast ==
    ASSUME NEW nodes, IsFiniteSet(nodes), NEW next \in [nodes -> SUBSET nodes], NEW start \in nodes
    PROVE  Reached(next, start) = Least(next, {start})
<1> DEFINE Rec(visit) == visit = [seen \in SUBSET DOMAIN next |->
                             IF More(next, seen) = seen THEN seen ELSE visit[More(next, seen)]]
           visited == CHOOSE visit : Rec(visit)
           least == [seen \in SUBSET nodes |-> Least(next, seen)]
           Wrong == {seen \in SUBSET nodes : visited[seen] # Least(next, seen)}
           Lacks(seen) == Cardinality(nodes \ seen)
           Left == {Lacks(seen) : seen \in Wrong}
<1>1. Reached(next, start) = visited[{start}]
  BY DEF Reached, More
<1>2. Rec(least)
  <2>1. \A seen \in SUBSET nodes :
            least[seen] = IF More(next, seen) = seen THEN seen ELSE least[More(next, seen)]
    BY LeastStep
  <2> QED
    BY <2>1
<1>3. Rec(visited)
  BY <1>2, Zenon
<1>4. \A seen \in SUBSET nodes :
          visited[seen] = IF More(next, seen) = seen THEN seen ELSE visited[More(next, seen)]
  <2> HIDE DEF visited
  <2> QED
    BY <1>3
<1> HIDE DEF visited
<1>5. \A seen \in SUBSET nodes : IsFiniteSet(nodes \ seen) /\ Lacks(seen) \in Nat
  <2>1. ASSUME NEW seen \in SUBSET nodes PROVE IsFiniteSet(nodes \ seen)
    BY FS_Subset
  <2> QED
    BY <2>1, FS_CardinalityType
<1>6. ASSUME Wrong # {}
      PROVE  FALSE
  <2>1. Left \subseteq Nat /\ Left # {}
    BY <1>5, <1>6
  <2>2. PICK seen \in Wrong : \A s \in Wrong : Lacks(seen) <= Lacks(s)
    <3>1. \E t \in Left : \A u \in Left : t <= u
      BY <2>1, LeastExists
    <3> QED
      BY <3>1
  <2> DEFINE more == More(next, seen)
  <2>3. /\ more \in SUBSET nodes /\ seen \subseteq more
        /\ Least(next, seen) = IF more = seen THEN seen ELSE Least(next, more)
    BY LeastStep
  <2>4. more # seen /\ more \in Wrong
    BY <1>4, <2>3
  <2> HIDE DEF more
  <2>5. Lacks(more) <= Lacks(seen) /\ Lacks(more) # Lacks(seen)
    <3>1. nodes \ more \in SUBSET (nodes \ seen) /\ nodes \ more # nodes \ seen
      BY <2>3, <2>4
    <3> QED
      BY <1>5, <3>1, FS_Subset
  <2>6. Lacks(seen) \in Nat /\ Lacks(more) \in Nat
    BY <1>5, <2>3
  <2> HIDE DEF Lacks
  <2> QED
    BY <2>2, <2>4, <2>5, <2>6
<1> QED
  BY <1>1, <1>6

\* Reached is closed, holds the start, and nothing else than it has to.
LEMMA ReachedHolds ==
    ASSUME NEW nodes, IsFiniteSet(nodes), NEW next \in [nodes -> SUBSET nodes], NEW start \in nodes
    PROVE  /\ start \in Reached(next, start) /\ Reached(next, start) \subseteq nodes
           /\ Closed(next, Reached(next, start))
           /\ \A c \in SUBSET nodes : start \in c /\ Closed(next, c) => Reached(next, start) \subseteq c
<1>1. Reached(next, start) = Least(next, {start})
  BY ReachedIsLeast
<1>2. \A c \in SUBSET nodes : start \in c /\ Closed(next, c) => Least(next, {start}) \subseteq c
  BY DEF Least
<1>3. start \in Least(next, {start}) /\ Least(next, {start}) \subseteq nodes
  BY DEF Least
<1>4. Closed(next, Least(next, {start}))
  BY DEF Least, Closed
<1> QED
  BY <1>1, <1>2, <1>3, <1>4

-----------------------------------------------------------------------------
(* Nodes: units, and compounds of nodes that were made before *)

Below(c) == Delayable \cup 1..(c - 1)

WellMade ==
    /\ Len(made) \in Nat /\ Compounds = 1..Len(made)
    /\ \A c \in Compounds : /\ made[c].kind \in {"chain", "group"}
                            /\ made[c].members \in Seq(Below(c))
                            /\ made[c].kind = "chain" => made[c].members # <<>>
    /\ later \subseteq Nodes \X Nodes

LEMMA NodesFinite == ASSUME WellMade PROVE IsFiniteSet(Nodes)
<1>1. IsFiniteSet(Compounds)
  BY FS_Interval DEF WellMade
<1>2. IsFiniteSet(Delayable)
  BY DelayableAssumption
<1> QED
  BY <1>1, <1>2, FS_Union DEF Nodes

LEMMA MembersAre ==
    ASSUME WellMade, NEW c \in Compounds
    PROVE  /\ c \in Nat /\ c \notin Delayable /\ c \in Nodes
           /\ Len(made[c].members) \in Nat /\ Steps(c) = DOMAIN made[c].members
           /\ \A i \in Steps(c) : made[c].members[i] \in Members(c)
           /\ \A m \in Members(c) : \E i \in Steps(c) : m = made[c].members[i]
           /\ Members(c) \subseteq Below(c) /\ Members(c) \subseteq Nodes
           /\ c \in Chains => /\ Len(made[c].members) # 0
                              /\ First(made[c].members) \in Members(c)
                              /\ Last(made[c].members) \in Members(c)
<1>1. c \in Nat /\ c \notin Delayable /\ c \in Nodes
  BY DelayableAssumption DEF WellMade, Nodes
<1>2. Len(made[c].members) \in Nat /\ Steps(c) = DOMAIN made[c].members
  BY DEF WellMade, Steps
<1>3. /\ \A i \in Steps(c) : made[c].members[i] \in Members(c)
      /\ \A m \in Members(c) : \E i \in Steps(c) : m = made[c].members[i]
  BY <1>2 DEF Members, ToSet
<1>4. Members(c) \subseteq Below(c)
  BY <1>2 DEF Members, ToSet, WellMade
<1>5. Below(c) \subseteq Nodes
  BY DEF Below, WellMade, Nodes
<1>6. ASSUME c \in Chains
      PROVE  /\ Len(made[c].members) # 0
             /\ First(made[c].members) \in Members(c) /\ Last(made[c].members) \in Members(c)
  <2>1. Len(made[c].members) # 0
    BY <1>6 DEF WellMade, Chains
  <2>2. 1 \in Steps(c) /\ Len(made[c].members) \in Steps(c)
    BY <1>2, <2>1 DEF Steps
  <2> QED
    BY <1>3, <2>1, <2>2 DEF First, Last
<1> QED
  BY <1>1, <1>2, <1>3, <1>4, <1>5, <1>6

\* Of the compounds of a set, one has no member in it.
LEMMA FirstMade ==
    ASSUME WellMade, NEW cs \in SUBSET Nodes, cs \cap Delayable = {}, cs # {}
    PROVE  \E c \in cs : c \in Compounds /\ Members(c) \cap cs = {}
<1>1. cs \subseteq Compounds /\ cs \subseteq Nat
  BY DEF Nodes, WellMade
<1>2. PICK c \in cs : \A d \in cs : c <= d
  BY <1>1, LeastExists
<1>3. Members(c) \subseteq Below(c) /\ c \in Nat
  BY <1>1, MembersAre
<1>4. Members(c) \cap cs = {}
  <2>1. ASSUME NEW d \in Members(c) \cap cs PROVE FALSE
    <3>1. d \in 1..(c - 1) /\ d \in Nat
      BY <1>1, <1>3 DEF Below
    <3> QED
      BY <1>2, <1>3, <3>1
  <2> QED
    BY <2>1
<1> QED
  BY <1>1, <1>4

-----------------------------------------------------------------------------
(* What a node is made of *)

LEMMA InsideType == ASSUME WellMade PROVE [m \in Nodes |-> Inside(m)] \in [Nodes -> SUBSET Nodes]
<1>1. \A m \in Nodes : Inside(m) \in SUBSET Nodes
  BY MembersAre DEF Inside, Nodes
<1> QED
  BY <1>1

LEMMA WithinIs ==
    ASSUME WellMade, NEW n \in Nodes
    PROVE  /\ n \in Within(n) /\ Within(n) \subseteq Nodes
           /\ \A m \in Within(n) : Inside(m) \subseteq Within(n)
           /\ \A c \in SUBSET Nodes : n \in c /\ (\A m \in c : Inside(m) \subseteq c) => Within(n) \subseteq c
<1> DEFINE next == [m \in Nodes |-> Inside(m)]
<1>1. next \in [Nodes -> SUBSET Nodes]
  BY InsideType
<1>2. Within(n) = Reached(next, n)
  BY DEF Within
<1>3. \A m \in Nodes : next[m] = Inside(m)
  OBVIOUS
<1> HIDE DEF next
<1>4. /\ n \in Reached(next, n) /\ Reached(next, n) \subseteq Nodes
      /\ Closed(next, Reached(next, n))
      /\ \A c \in SUBSET Nodes : n \in c /\ Closed(next, c) => Reached(next, n) \subseteq c
  BY <1>1, NodesFinite, ReachedHolds
<1>5. \A c \in SUBSET Nodes : Closed(next, c) <=> \A m \in c : Inside(m) \subseteq c
  BY <1>3 DEF Closed
<1> QED
  BY <1>2, <1>4, <1>5

LEMMA WithinUnit == ASSUME WellMade, NEW d \in Delayable PROVE Within(d) = {d}
<1>1. d \in Nodes /\ Inside(d) = {}
  BY DEF Nodes, Inside
<1>2. {d} \in SUBSET Nodes /\ \A m \in {d} : Inside(m) \subseteq {d}
  BY <1>1
<1>3. d \in Within(d) /\ Within(d) \subseteq {d}
  BY <1>1, <1>2, WithinIs
<1> QED
  BY <1>3

LEMMA WithinMember ==
    ASSUME WellMade, NEW c \in Compounds, NEW m \in Members(c)
    PROVE  Within(m) \subseteq Within(c)
<1>1. m \in Nodes /\ c \in Nodes /\ Inside(c) = Members(c)
  BY MembersAre DEF Inside
<1>2. m \in Within(c) /\ Within(c) \in SUBSET Nodes /\ \A n \in Within(c) : Inside(n) \subseteq Within(c)
  BY <1>1, WithinIs
<1> QED
  BY <1>1, <1>2, WithinIs

LEMMA WithinCompound ==
    ASSUME WellMade, NEW c \in Compounds
    PROVE  Within(c) = {c} \cup UNION {Within(m) : m \in Members(c)}
<1> DEFINE all == {c} \cup UNION {Within(m) : m \in Members(c)}
<1>1. c \in Nodes /\ Inside(c) = Members(c) /\ Members(c) \subseteq Nodes
  BY MembersAre DEF Inside
<1>2. \A m \in Members(c) : /\ m \in Within(m) /\ Within(m) \subseteq Nodes
                            /\ \A n \in Within(m) : Inside(n) \subseteq Within(m)
  BY <1>1, WithinIs
<1>3. all \in SUBSET Nodes /\ \A n \in all : Inside(n) \subseteq all
  BY <1>1, <1>2
<1>4. Within(c) \subseteq all
  <2>1. c \in all
    OBVIOUS
  <2>2. \A s \in SUBSET Nodes : c \in s /\ (\A n \in s : Inside(n) \subseteq s) => Within(c) \subseteq s
    BY <1>1, WithinIs
  <2> HIDE DEF all
  <2> QED
    BY <1>3, <2>1, <2>2
<1>5. all \subseteq Within(c)
  BY <1>1, WithinIs, WithinMember
<1> QED
  BY <1>4, <1>5

\* The units of a unit and of a compound.
LEMMA UnitsAre ==
    ASSUME WellMade
    PROVE  /\ \A d \in Delayable : Units(d) = {d}
           /\ \A c \in Compounds : \A x : x \in Units(c) <=> \E m \in Members(c) : x \in Units(m)
           /\ \A n : Units(n) \subseteq Delayable
<1>1. \A d \in Delayable : Units(d) = {d}
  BY WithinUnit DEF Units
<1>2. \A c \in Compounds : \A x : x \in Units(c) <=> \E m \in Members(c) : x \in Units(m)
  BY WithinCompound, MembersAre DEF Units
<1> QED
  BY <1>1, <1>2 DEF Units

\* Without a chain in it, the units of a node.
Flat(n) == Within(n) \cap Chains = {}

LEMMA FlatMember ==
    ASSUME WellMade, NEW c \in Compounds, Flat(c)
    PROVE  c \notin Chains /\ \A m \in Members(c) : Flat(m)
  BY WithinMember, WithinCompound DEF Flat

-----------------------------------------------------------------------------
(* The ends of a node *)

OneEnds(ends, n) ==
    CASE n \in Delayable -> [head |-> {n}, tail |-> {n}]
      [] n \in Chains -> [head |-> ends[First(made[n].members)].tail,
                          tail |-> ends[Last(made[n].members)].head]
      [] OTHER -> [head |-> All([m \in Members(n) |-> ends[m].head]),
                   tail |-> All([m \in Members(n) |-> ends[m].tail])]

LEMMA Apart == ASSUME WellMade PROVE Delayable \cap Compounds = {} /\ Chains \subseteq Compounds
  BY MembersAre DEF Chains

LEMMA OneEndsUnit ==
    ASSUME WellMade, NEW e, NEW d \in Delayable PROVE OneEnds(e, d) = [head |-> {d}, tail |-> {d}]
<1>1. d \notin Chains
  BY Apart
<1> QED
  BY <1>1 DEF OneEnds

LEMMA OneEndsSame ==
    ASSUME WellMade, NEW e1, NEW e2, NEW n \in Nodes,
           n \notin Delayable => \A m \in Members(n) : e1[m] = e2[m]
    PROVE  OneEnds(e1, n) = OneEnds(e2, n)
<1>1. CASE n \in Delayable
  BY <1>1, OneEndsUnit
<1>2. CASE n \notin Delayable
  <2>1. n \in Compounds
    BY <1>2 DEF Nodes
  <2>2. n \in Chains => /\ e1[First(made[n].members)] = e2[First(made[n].members)]
                        /\ e1[Last(made[n].members)] = e2[Last(made[n].members)]
    BY <1>2, <2>1, MembersAre
  <2> DEFINE h1 == [m \in Members(n) |-> e1[m].head]
             h2 == [m \in Members(n) |-> e2[m].head]
             t1 == [m \in Members(n) |-> e1[m].tail]
             t2 == [m \in Members(n) |-> e2[m].tail]
  <2>3. h1 = h2 /\ t1 = t2
    BY <1>2
  <2>4. /\ n \in Chains => OneEnds(e1, n) = [head |-> e1[First(made[n].members)].tail,
                                            tail |-> e1[Last(made[n].members)].head]
        /\ n \in Chains => OneEnds(e2, n) = [head |-> e2[First(made[n].members)].tail,
                                            tail |-> e2[Last(made[n].members)].head]
        /\ n \notin Chains => OneEnds(e1, n) = [head |-> All(h1), tail |-> All(t1)]
        /\ n \notin Chains => OneEnds(e2, n) = [head |-> All(h2), tail |-> All(t2)]
    BY <1>2 DEF OneEnds
  <2> HIDE DEF h1, h2, t1, t2
  <2> QED
    BY <2>2, <2>3, <2>4
<1> QED
  BY <1>1, <1>2

\* The recursion ends: members were made before.
LEMMA EndsExist == ASSUME WellMade PROVE \E e : e = [n \in Nodes |-> OneEnds(e, n)]
<1> DEFINE To(k) == Delayable \cup 1..k
           Ended(k) == \E e : e = [n \in To(k) |-> OneEnds(e, n)]
           Missing == {k \in 0..Len(made) : ~Ended(k)}
<1>1. Ended(0)
  <2> DEFINE e == [n \in To(0) |-> [head |-> {n}, tail |-> {n}]]
  <2>1. To(0) = Delayable
    OBVIOUS
  <2> HIDE DEF To
  <2>2. \A n \in To(0) : OneEnds(e, n) = [head |-> {n}, tail |-> {n}]
    BY <2>1, OneEndsUnit
  <2>3. e = [n \in To(0) |-> OneEnds(e, n)]
    BY <2>2
  <2> QED
    BY <2>3
<1>2. ASSUME Missing # {} PROVE FALSE
  <2> HIDE DEF Ended
  <2>0. Missing \subseteq Nat
    BY DEF WellMade
  <2>1. PICK k \in Missing : \A i \in Missing : k <= i
    <3> HIDE DEF Missing
    <3> QED
      BY <1>2, <2>0, LeastExists
  <2>2. k \in Nat /\ k # 0 /\ k \in 1..Len(made) /\ k \in Compounds /\ k \in Nodes
    BY <1>1, <2>1 DEF WellMade, Nodes
  <2>3. Ended(k - 1)
    <3>1. k - 1 \in 0..Len(made) /\ ~(k <= k - 1)
      BY <2>2 DEF WellMade
    <3> QED
      BY <2>1, <3>1
  <2> USE DEF Ended
  <2>4. PICK e : e = [n \in To(k - 1) |-> OneEnds(e, n)]
    BY <2>3
  <2>5. To(k) = To(k - 1) \cup {k} /\ k \notin To(k - 1)
    BY <2>2, MembersAre
  <2> DEFINE f == [n \in To(k) |-> IF n = k THEN OneEnds(e, k) ELSE e[n]]
  <2>6. \A n \in To(k - 1) : f[n] = e[n] /\ e[n] = OneEnds(e, n)
    BY <2>4, <2>5
  <2>7. f[k] = OneEnds(e, k) /\ f = [n \in To(k) |-> f[n]]
    BY <2>5
  <2> HIDE DEF f
  <2>8. ASSUME NEW n \in To(k) PROVE f[n] = OneEnds(f, n)
    <3>1. n \in Nodes /\ (n \notin Delayable => n \in Compounds /\ n \in 1..k)
      BY <2>2 DEF WellMade, Nodes
    <3>2. n \notin Delayable => \A m \in Members(n) : m \in To(k - 1)
      <4>1. SUFFICES ASSUME n \notin Delayable, NEW m \in Members(n) PROVE m \in To(k - 1)
        OBVIOUS
      <4>2. m \in Delayable \cup 1..(n - 1) /\ n \in 1..k
        BY <3>1, <4>1, MembersAre DEF Below
      <4> QED
        BY <2>2, <4>2
    <3>3. OneEnds(f, n) = OneEnds(e, n)
      BY <2>6, <3>1, <3>2, OneEndsSame
    <3> QED
      BY <2>5, <2>6, <2>7, <3>3
  <2>9. f = [n \in To(k) |-> OneEnds(f, n)]
    BY <2>7, <2>8
  <2> QED
    BY <2>1, <2>9
<1>3. Ended(Len(made)) /\ To(Len(made)) = Nodes
  <2> HIDE DEF Ended
  <2>1. Len(made) \in 0..Len(made)
    BY DEF WellMade
  <2> QED
    BY <1>2, <2>1 DEF WellMade, Nodes
<1> QED
  BY <1>3

LEMMA EndsAre == ASSUME WellMade PROVE \A n \in Nodes : Ends[n] = OneEnds(Ends, n)
<1> DEFINE ends == CHOOSE e : e = [n \in Nodes |-> OneEnds(e, n)]
<1>1. Ends = ends
  BY DEF Ends, OneEnds
<1>2. ends = [n \in Nodes |-> OneEnds(ends, n)]
  BY EndsExist, Zenon
<1> HIDE DEF ends
<1> QED
  BY <1>1, <1>2

\* _head and _tail of each kind of node.
LEMMA EndsOf ==
    ASSUME WellMade
    PROVE  /\ \A d \in Delayable : Ends[d].head = {d} /\ Ends[d].tail = {d}
           /\ \A c \in Chains : /\ Ends[c].head = Ends[First(made[c].members)].tail
                                /\ Ends[c].tail = Ends[Last(made[c].members)].head
           /\ \A c \in Compounds \ Chains :
                  /\ \A x : x \in Ends[c].head <=> \E m \in Members(c) : x \in Ends[m].head
                  /\ \A x : x \in Ends[c].tail <=> \E m \in Members(c) : x \in Ends[m].tail
<1>1. \A n \in Nodes : Ends[n] = OneEnds(Ends, n)
  BY EndsAre
<1>2. \A d \in Delayable : Ends[d].head = {d} /\ Ends[d].tail = {d}
  BY <1>1, OneEndsUnit DEF Nodes
<1>3. \A c \in Compounds : c \in Nodes /\ c \notin Delayable
  BY MembersAre
<1>4. ASSUME NEW c \in Chains
      PROVE  /\ Ends[c].head = Ends[First(made[c].members)].tail
             /\ Ends[c].tail = Ends[Last(made[c].members)].head
  <2>1. c \in Nodes /\ c \notin Delayable
    BY <1>3 DEF Chains
  <2>2. Ends[c] = [head |-> Ends[First(made[c].members)].tail, tail |-> Ends[Last(made[c].members)].head]
    BY <1>1, <2>1 DEF OneEnds
  <2> QED
    BY <2>2
<1>5. ASSUME NEW c \in Compounds \ Chains
      PROVE  /\ \A x : x \in Ends[c].head <=> \E m \in Members(c) : x \in Ends[m].head
             /\ \A x : x \in Ends[c].tail <=> \E m \in Members(c) : x \in Ends[m].tail
  <2>1. Ends[c] = [head |-> All([m \in Members(c) |-> Ends[m].head]),
                   tail |-> All([m \in Members(c) |-> Ends[m].tail])]
    BY <1>1, <1>3 DEF OneEnds
  <2> QED
    BY <2>1 DEF All
<1> QED
  BY <1>2, <1>4, <1>5

\* The ends of a node are units of it.
LEMMA EndsInside ==
    ASSUME WellMade, NEW n \in Nodes
    PROVE  Ends[n].head \subseteq Units(n) /\ Ends[n].tail \subseteq Units(n)
<1> DEFINE Good(m) == Ends[m].head \subseteq Units(m) /\ Ends[m].tail \subseteq Units(m)
           wrong == {m \in Nodes : ~Good(m)}
<1>1. wrong \cap Delayable = {}
  <2>1. \A d \in Delayable : Good(d)
    BY EndsOf, UnitsAre
  <2> QED
    BY <2>1
<1>2. ASSUME wrong # {} PROVE FALSE
  <2>1. PICK c \in wrong : c \in Compounds /\ Members(c) \cap wrong = {}
    BY <1>1, <1>2, FirstMade
  <2>2. \A m \in Members(c) : Good(m)
    BY <2>1, MembersAre
  <2>3. \A m \in Members(c) : Units(m) \subseteq Units(c)
    BY <2>1, UnitsAre
  <2>4. Good(c)
    <3>1. CASE c \in Chains
      BY <2>1, <2>2, <2>3, <3>1, MembersAre, EndsOf
    <3>2. CASE c \notin Chains
      BY <2>1, <2>2, <2>3, <3>2, EndsOf
    <3> QED
      BY <3>1, <3>2
  <2> QED
    BY <2>1, <2>4
<1> QED
  BY <1>2

\* Without a chain in it, a node has the same ends, all its units.
LEMMA FlatEnds ==
    ASSUME WellMade, NEW n \in Nodes, Flat(n)
    PROVE  Ends[n].head = Units(n) /\ Ends[n].tail = Units(n)
<1> DEFINE Good(m) == Flat(m) => Ends[m].head = Units(m) /\ Ends[m].tail = Units(m)
           wrong == {m \in Nodes : ~Good(m)}
<1>1. wrong \cap Delayable = {}
  <2>1. \A d \in Delayable : Good(d)
    BY EndsOf, UnitsAre
  <2> QED
    BY <2>1
<1>2. ASSUME wrong # {} PROVE FALSE
  <2>1. PICK c \in wrong : c \in Compounds /\ Members(c) \cap wrong = {}
    BY <1>1, <1>2, FirstMade
  <2>2. c \notin Chains /\ \A m \in Members(c) : Flat(m)
    BY <2>1, FlatMember
  <2>3. \A m \in Members(c) : Ends[m].head = Units(m) /\ Ends[m].tail = Units(m)
    BY <2>1, <2>2, MembersAre
  <2>4. /\ \A x : x \in Ends[c].head <=> x \in Units(c)
        /\ \A x : x \in Ends[c].tail <=> x \in Units(c)
    BY <2>1, <2>2, <2>3, EndsOf, UnitsAre
  <2>5. Units(c) \subseteq Delayable /\ Ends[c].head \subseteq Units(c) /\ Ends[c].tail \subseteq Units(c)
    BY <2>1, UnitsAre, EndsInside
  <2> QED
    BY <2>1, <2>4, <2>5
<1> QED
  BY <1>2

-----------------------------------------------------------------------------
(* The graph of the jobs *)

LEMMA VerticesType ==
    ASSUME WellMade, NEW n \in Nodes
    PROVE  /\ Vertices(n) \subseteq Nodes /\ Starts(n) \subseteq Vertices(n)
           /\ Starts(n) # {} => Later(n) \subseteq Vertices(n)
           /\ n \in Compounds => Members(n) \subseteq Vertices(n)
<1>1. Later(n) \subseteq Nodes
  BY DEF Later, WellMade
<1>2. CASE n \in Delayable
  BY <1>1, <1>2, Apart DEF Vertices, Starts, Nodes
<1>3. CASE n \notin Delayable
  <2>1. n \in Compounds
    BY <1>3 DEF Nodes
  <2>2. Members(n) \subseteq Nodes /\ (n \in Chains => Last(made[n].members) \in Members(n))
    BY <2>1, MembersAre
  <2> QED
    BY <1>1, <1>3, <2>2 DEF Vertices, Starts
<1> QED
  BY <1>2, <1>3

LEMMA VisitedIs ==
    ASSUME WellMade, NEW top \in Nodes
    PROVE  top \in Visited(top) /\ Visited(top) \subseteq Nodes
           /\ \A n \in Visited(top) : Vertices(n) \subseteq Visited(top)
<1> DEFINE next == [n \in Nodes |-> Vertices(n)]
<1>1. next \in [Nodes -> SUBSET Nodes]
  BY VerticesType
<1>2. Visited(top) = Reached(next, top)
  BY DEF Visited
<1>3. \A m \in Nodes : next[m] = Vertices(m)
  OBVIOUS
<1> HIDE DEF next
<1>4. top \in Reached(next, top) /\ Reached(next, top) \subseteq Nodes /\ Closed(next, Reached(next, top))
  BY <1>1, NodesFinite, ReachedHolds
<1> QED
  BY <1>2, <1>3, <1>4 DEF Closed

\* An edge between nodes is one of a chain, or starts where on_done was called.
LEMMA EdgesAre ==
    ASSUME WellMade, NEW n \in Nodes, NEW e \in Edges(n)
    PROVE  /\ e = <<e[1], e[2]>> /\ e[1] \in Vertices(n) /\ e[2] \in Vertices(n)
           /\ \/ e[1] \in Starts(n) /\ <<n, e[2]>> \in later
              \/ /\ n \in Chains
                 /\ \E i \in Steps(n) : /\ i + 1 \in Steps(n)
                                        /\ e = <<made[n].members[i], made[n].members[i + 1]>>
<1>1. CASE e \in Starts(n) \X Later(n)
  <2>1. e[2] \in Later(n) => <<n, e[2]>> \in later
    BY DEF Later, WellMade
  <2> QED
    BY <1>1, <2>1, VerticesType
<1>2. CASE n \in Chains /\ e \in Serial(n)
  <2>1. PICK i \in Steps(n) \ {Len(made[n].members)} : e = <<made[n].members[i], made[n].members[i + 1]>>
    BY <1>2 DEF Serial
  <2>2. n \in Compounds
    BY <1>2, Apart
  <2>3. Len(made[n].members) \in Nat /\ \A j \in Steps(n) : made[n].members[j] \in Members(n)
    BY <2>2, MembersAre
  <2>4. i \in Steps(n) /\ i + 1 \in Steps(n)
    BY <2>1, <2>3 DEF Steps
  <2>5. made[n].members[i] \in Vertices(n) /\ made[n].members[i + 1] \in Vertices(n)
    BY <2>2, <2>3, <2>4, VerticesType
  <2> QED
    BY <1>2, <2>1, <2>4, <2>5
<1> QED
  BY <1>1, <1>2 DEF Edges

\* What was asked, of nodes.
Before(n, m) ==
    \/ <<n, m>> \in later
    \/ \E c \in Chains : \E i, j \in Steps(c) :
           i < j /\ n = made[c].members[i] /\ m = made[c].members[j]

LEMMA AskedIs ==
    ASSUME WellMade
    PROVE  /\ \A p \in Asked : \E n, m \in Nodes :
                  Before(n, m) /\ p[1] \in Units(n) /\ p[2] \in Units(m) /\ p = <<p[1], p[2]>>
           /\ \A n, m \in Nodes : Before(n, m) => \A x \in Units(n), y \in Units(m) : <<x, y>> \in Asked
<1> DEFINE units == [n \in Nodes |-> Units(n)]
           serial == UNION {{<<made[c].members[p[1]], made[c].members[p[2]]>> :
                              p \in {q \in Steps(c) \X Steps(c) : q[1] < q[2]}} : c \in Chains}
<1>1. Asked = UNION {units[p[1]] \X units[p[2]] : p \in serial \cup later}
  BY DEF Asked
<1>2. \A p : p \in serial <=> \E c \in Chains : \E i, j \in Steps(c) :
          i < j /\ p = <<made[c].members[i], made[c].members[j]>>
  <2> DEFINE Ahead(c) == {q \in Steps(c) \X Steps(c) : q[1] < q[2]}
             of(c) == {<<made[c].members[p[1]], made[c].members[p[2]]>> : p \in Ahead(c)}
  <2>1. ASSUME NEW c, NEW p, p \in of(c)
        PROVE  \E i, j \in Steps(c) : i < j /\ p = <<made[c].members[i], made[c].members[j]>>
    <3>1. PICK q \in Ahead(c) : p = <<made[c].members[q[1]], made[c].members[q[2]]>>
      BY <2>1
    <3>2. q[1] \in Steps(c) /\ q[2] \in Steps(c) /\ q[1] < q[2]
      OBVIOUS
    <3> QED
      BY <3>1, <3>2
  <2>2. ASSUME NEW c, NEW i \in Steps(c), NEW j \in Steps(c), i < j
        PROVE  <<made[c].members[i], made[c].members[j]>> \in of(c)
    <3>1. <<i, j>> \in Ahead(c)
      BY <2>2
    <3>2. \A q \in Ahead(c) : <<made[c].members[q[1]], made[c].members[q[2]]>> \in of(c)
      OBVIOUS
    <3> HIDE DEF Ahead, of
    <3> QED
      BY <3>1, <3>2
  <2>3. serial = UNION {of(c) : c \in Chains}
    OBVIOUS
  <2> HIDE DEF of, serial
  <2> QED
    BY <2>1, <2>2, <2>3
<1>3. \A p \in serial \cup later : p[1] \in Nodes /\ p[2] \in Nodes /\ p = <<p[1], p[2]>>
  <2>1. \A c \in Chains : \A i \in Steps(c) : made[c].members[i] \in Nodes
    BY Apart, MembersAre
  <2> HIDE DEF serial
  <2> QED
    BY <1>2, <2>1 DEF WellMade
<1>4. \A n, m : Before(n, m) <=> <<n, m>> \in serial \cup later
  <2> HIDE DEF serial
  <2> QED
    BY <1>2 DEF Before
<1>5. \A n \in Nodes : units[n] = Units(n)
  OBVIOUS
<1> HIDE DEF units, serial
<1>6. ASSUME NEW p \in Asked
      PROVE  \E n, m \in Nodes :
                 Before(n, m) /\ p[1] \in Units(n) /\ p[2] \in Units(m) /\ p = <<p[1], p[2]>>
  <2>1. PICK q \in serial \cup later : p \in units[q[1]] \X units[q[2]]
    BY <1>1
  <2>2. q[1] \in Nodes /\ q[2] \in Nodes /\ Before(q[1], q[2])
    BY <1>3, <1>4
  <2> QED
    BY <1>5, <2>1, <2>2
<1>7. ASSUME NEW n \in Nodes, NEW m \in Nodes, Before(n, m), NEW x \in Units(n), NEW y \in Units(m)
      PROVE  <<x, y>> \in Asked
  <2>1. <<n, m>> \in serial \cup later /\ <<x, y>> \in units[n] \X units[m]
    BY <1>4, <1>5, <1>7
  <2> QED
    BY <1>1, <2>1
<1> QED
  BY <1>6, <1>7

\* The ends of an edge between nodes are asked for, and are jobs.
LEMMA EdgeAsked ==
    ASSUME WellMade, NEW n \in Nodes, NEW e \in Edges(n), NEW x \in Units(e[1]), NEW y \in Units(e[2])
    PROVE  <<x, y>> \in Asked
<1>1. e[1] \in Nodes /\ e[2] \in Nodes
  BY EdgesAre, VerticesType
<1>2. CASE e[1] \in Starts(n) /\ <<n, e[2]>> \in later
  <2>1. Before(n, e[2])
    BY <1>2 DEF Before
  <2>2. x \in Units(n)
    <3>1. CASE n \in Delayable
      BY <1>2, <3>1 DEF Starts
    <3>2. CASE n \notin Delayable
      <4>1. n \in Compounds
        BY <3>2 DEF Nodes
      <4>2. e[1] \in Members(n)
        BY <1>2, <3>2, <4>1, MembersAre DEF Starts
      <4> QED
        BY <4>1, <4>2, UnitsAre
    <3> QED
      BY <3>1, <3>2
  <2> QED
    BY <1>1, <2>1, <2>2, AskedIs
<1>3. CASE \E c \in Chains : \E i \in Steps(c) : /\ i + 1 \in Steps(c)
                                                /\ e = <<made[c].members[i], made[c].members[i + 1]>>
  <2>0. PICK c \in Chains : \E i \in Steps(c) : /\ i + 1 \in Steps(c)
                                                /\ e = <<made[c].members[i], made[c].members[i + 1]>>
    BY <1>3
  <2>1. PICK i \in Steps(c) : /\ i + 1 \in Steps(c)
                              /\ e = <<made[c].members[i], made[c].members[i + 1]>>
    BY <2>0
  <2>2. Before(e[1], e[2])
    <3>1. i \in Int /\ i < i + 1
      BY DEF Steps
    <3> QED
      BY <2>1, <3>1 DEF Before
  <2> QED
    BY <1>1, <2>2, AskedIs
<1> QED
  BY <1>2, <1>3, EdgesAre

LEMMA ConnectedAre ==
    ASSUME WellMade, NEW top \in Nodes
    PROVE  /\ IsDirectedGraph(Connected(top)) /\ Connected(top).node \subseteq Delayable
           /\ Connected(top).edge \subseteq Asked
           /\ \A n \in Visited(top) : \A e \in Edges(n) : \A x \in Ends[e[1]].tail, y \in Ends[e[2]].head :
                  <<x, y>> \in Connected(top).edge
<1> DEFINE edges == UNION {Edges(n) : n \in Visited(top)}
           ends == Ends
<1>1. Connected(top) = [node |-> Visited(top) \cap Delayable,
                        edge |-> UNION {ends[e[1]].tail \X ends[e[2]].head : e \in edges}]
  BY DEF Connected
<1>2. \A e \in edges : \E n \in Visited(top) : n \in Nodes /\ e \in Edges(n)
  BY VisitedIs
<1>3. ASSUME NEW x, NEW e \in edges, x \in Units(e[1]) \cup Units(e[2])
      PROVE  x \in Visited(top) \cap Delayable
  <2>1. PICK n \in Visited(top) : n \in Nodes /\ e \in Edges(n)
    BY <1>2
  <2>2. /\ e[1] \in Visited(top) /\ e[2] \in Visited(top)
        /\ e[1] \in Nodes /\ e[2] \in Nodes
    BY <2>1, EdgesAre, VisitedIs
  <2>3. \A m \in Nodes : Inside(m) \subseteq Vertices(m)
    BY VerticesType DEF Inside, Nodes
  <2>4. \A m \in Visited(top) : m \in Nodes /\ Inside(m) \subseteq Visited(top)
    BY <2>3, VisitedIs
  <2>5. Within(e[1]) \subseteq Visited(top) /\ Within(e[2]) \subseteq Visited(top)
    BY <2>2, <2>4, WithinIs, VisitedIs
  <2> QED
    BY <1>3, <2>5 DEF Units
<1>4. \A e \in edges : /\ e[1] \in Nodes /\ e[2] \in Nodes
                       /\ ends[e[1]].tail \subseteq Units(e[1]) /\ ends[e[2]].head \subseteq Units(e[2])
  <2>1. \A e \in edges : e[1] \in Nodes /\ e[2] \in Nodes
    BY <1>2, EdgesAre, VerticesType
  <2> QED
    BY <2>1, EndsInside
<1>5. \A e \in edges : \A x \in Units(e[1]), y \in Units(e[2]) : <<x, y>> \in Asked
  BY <1>2, EdgeAsked
<1>6. \A n \in Visited(top) : \A e \in Edges(n) : e \in edges
  OBVIOUS
<1> HIDE DEF edges, ends
<1>7. \A p \in Connected(top).edge : \E e \in edges :
          p \in Units(e[1]) \X Units(e[2])
  BY <1>1, <1>4
<1>8. Connected(top).edge \subseteq Asked
  BY <1>5, <1>7
<1>9. Connected(top).edge \subseteq Connected(top).node \X Connected(top).node
  BY <1>1, <1>3, <1>7
<1>10. \A e \in edges : \A x \in ends[e[1]].tail, y \in ends[e[2]].head : <<x, y>> \in Connected(top).edge
  BY <1>1
<1> QED
  BY <1>1, <1>6, <1>8, <1>9, <1>10 DEF IsDirectedGraph, ends

-----------------------------------------------------------------------------
(* A set of jobs that holds what its members depend on holds what was asked to be before *)

\* The edges between the nodes are respected.
Linked(ps) ==
    \A n \in Nodes : \A e \in Edges(n) : Ends[e[2]].head \cap ps # {} => Ends[e[1]].tail \subseteq ps

\* A node is entered by its heads, and left by its tails.
Passed(ps, n) ==
    /\ Units(n) \cap ps # {} => Ends[n].head \cap ps # {}
    /\ Ends[n].tail \subseteq ps => Units(n) \subseteq ps

LEMMA SerialEdge ==
    ASSUME WellMade, NEW c \in Chains, NEW i \in Steps(c), i + 1 \in Steps(c)
    PROVE  <<made[c].members[i], made[c].members[i + 1]>> \in Edges(c)
<1>1. i # Len(made[c].members)
  BY Apart, MembersAre DEF Steps
<1>2. <<made[c].members[i], made[c].members[i + 1]>> \in Serial(c)
  BY <1>1 DEF Serial
<1> QED
  BY <1>2 DEF Edges

\* What begins in a chain is after all that is before it in the chain.
LEMMA ChainPassed ==
    ASSUME WellMade, ~Hollow, NEW ps, Linked(ps), NEW c \in Chains, \A m \in Members(c) : Passed(ps, m),
           NEW i \in Steps(c), Units(made[c].members[i]) \cap ps # {},
           NEW j \in Steps(c), j < i
    PROVE  Units(made[c].members[j]) \subseteq ps
<1> DEFINE M(k) == made[c].members[k]
           wrong == {k \in Steps(c) : k < i /\ ~(Units(M(k)) \subseteq ps)}
           left == {i - k : k \in wrong}
<1>1. c \in Compounds /\ c \in Nodes /\ \A k \in Steps(c) : M(k) \in Members(c) /\ M(k) \in Nodes /\ k \in Nat
  <2>1. c \in Compounds
    BY Apart
  <2>2. /\ c \in Nodes /\ Members(c) \subseteq Nodes
        /\ \A k \in Steps(c) : made[c].members[k] \in Members(c)
    BY <2>1, MembersAre
  <2>3. \A k \in Steps(c) : k \in Nat
    BY DEF Steps
  <2> QED
    BY <2>1, <2>2, <2>3
<1>2. ASSUME wrong # {} PROVE FALSE
  <2>1. left \subseteq Nat /\ left # {}
    BY <1>1, <1>2
  <2>2. PICK k \in wrong : \A l \in wrong : i - k <= i - l
    <3>1. \E t \in left : \A u \in left : t <= u
      BY <2>1, LeastExists
    <3> QED
      BY <3>1
  <2>3. k \in Steps(c) /\ k + 1 \in Steps(c) /\ k + 1 <= i /\ k \in Nat /\ i \in Nat
    BY <1>1, MembersAre DEF Steps
  <2>4. Units(M(k + 1)) \cap ps # {}
    <3>1. CASE k + 1 = i
      BY <3>1
    <3>2. CASE k + 1 # i
      <4>1. k + 1 \notin wrong
        BY <2>2, <2>3
      <4>2. Units(M(k + 1)) \subseteq ps
        BY <2>3, <3>2, <4>1
      <4>3. k + 1 \in 2..(Len(made[c].members) - 1)
        BY <1>1, <2>3, <3>2, MembersAre DEF Steps
      <4>4. Units(c) # {}
        BY <1>1, UnitsAre
      <4>5. Units(M(k + 1)) # {}
        BY <2>3, <4>3, <4>4 DEF Hollow
      <4> QED
        BY <4>2, <4>5
    <3> QED
      BY <3>1, <3>2
  <2> HIDE DEF M
  <2>5. Ends[M(k + 1)].head \cap ps # {}
    BY <1>1, <2>3, <2>4 DEF Passed
  <2>6. <<M(k), M(k + 1)>> \in Edges(c)
    BY <2>3, SerialEdge DEF M
  <2>7. Ends[M(k)].tail \subseteq ps
    BY <1>1, <2>5, <2>6 DEF Linked
  <2>8. Units(M(k)) \subseteq ps
    BY <1>1, <2>3, <2>7 DEF Passed
  <2> QED
    BY <2>8
<1> QED
  BY <1>2

\* In a program whose chains are connected at the right ends, each node is, but for the
\* top-level one.
LEMMA AllPassed ==
    ASSUME WellMade, ~Crossed, ~Hollow, NEW ps, Linked(ps)
    PROVE  \A n \in Nodes : (\E m \in Nodes : n \in Vertices(m)) => Passed(ps, n)
<1> DEFINE Placed(n) == \E m \in Nodes : n \in Vertices(m)
           wrong == {n \in Nodes : Placed(n) /\ ~Passed(ps, n)}
<1>1. wrong \cap Delayable = {}
  <2>1. ASSUME NEW d \in Delayable PROVE Passed(ps, d)
    <3>1. Units(d) = {d} /\ Ends[d].head = {d} /\ Ends[d].tail = {d}
      BY EndsOf, UnitsAre
    <3> QED
      BY <3>1 DEF Passed
  <2> QED
    BY <2>1
<1>2. ASSUME wrong # {} PROVE FALSE
  <2>1. PICK c \in wrong : c \in Compounds /\ Members(c) \cap wrong = {}
    BY <1>1, <1>2, FirstMade
  <2>2. \A m \in Members(c) : m \in Nodes /\ m \in Vertices(c)
    BY <2>1, MembersAre, VerticesType
  <2>3. \A m \in Members(c) : Passed(ps, m)
    BY <2>1, <2>2
  <2>4. CASE c \in Chains
    <3> DEFINE first == First(made[c].members)
               last == Last(made[c].members)
               len == Len(made[c].members)
    <3>0. \A i \in Steps(c) : Units(c) # {} => Units(made[c].members[i]) # {}
      BY <2>1, <2>4 DEF Hollow
    <3>1. /\ first \in Members(c) /\ last \in Members(c) /\ len \in Nat \ {0}
          /\ first = made[c].members[1] /\ last = made[c].members[len]
          /\ 1 \in Steps(c) /\ len \in Steps(c)
      <4>1. first \in Members(c) /\ last \in Members(c) /\ len \in Nat \ {0}
        BY <2>1, <2>4, MembersAre
      <4> QED
        BY <4>1 DEF First, Last, Steps
    <3>2. Flat(first) /\ Flat(last)
      BY <2>1, <2>4 DEF Crossed, Flat
    <3>3. Ends[c].head = Units(first) /\ Ends[c].tail = Units(last)
      BY <2>2, <2>4, <3>1, <3>2, EndsOf, FlatEnds
    <3> HIDE DEF first, last, len
    <3>4. ASSUME NEW x \in Units(c) \cap ps PROVE Ends[c].head \cap ps # {}
      <4>1. PICK m \in Members(c) : x \in Units(m)
        BY <2>1, UnitsAre
      <4>2. PICK i \in Steps(c) : m = made[c].members[i]
        BY <2>1, MembersAre
      <4>3. CASE i = 1
        BY <3>1, <3>3, <4>1, <4>2, <4>3
      <4>4. CASE i # 1
        <5>1. 1 < i
          BY <4>4 DEF Steps
        <5>2. Units(first) \subseteq ps
          BY <2>3, <2>4, <3>1, <4>1, <4>2, <5>1, ChainPassed
        <5>3. Units(first) # {}
          BY <3>0, <3>1
        <5> QED
          BY <3>3, <5>2, <5>3
      <4> QED
        BY <4>3, <4>4
    <3>5. ASSUME Ends[c].tail \subseteq ps, NEW x \in Units(c) PROVE x \in ps
      <4>1. PICK m \in Members(c) : x \in Units(m)
        BY <2>1, UnitsAre
      <4>2. PICK i \in Steps(c) : m = made[c].members[i]
        BY <2>1, MembersAre
      <4>3. CASE i = len
        BY <3>1, <3>3, <3>5, <4>1, <4>2, <4>3
      <4>4. CASE i # len
        <5>1. i < len
          BY <3>1, <4>4 DEF Steps, len
        <5>2. Units(last) # {} /\ Units(last) \subseteq ps
          BY <3>0, <3>1, <3>3, <3>5
        <5>3. Units(made[c].members[i]) \subseteq ps
          BY <2>3, <2>4, <3>1, <5>1, <5>2, ChainPassed
        <5> QED
          BY <4>1, <4>2, <5>3
      <4> QED
        BY <4>3, <4>4
    <3>6. Passed(ps, c)
      BY <3>4, <3>5 DEF Passed
    <3> QED
      BY <2>1, <3>6
  <2>5. CASE c \notin Chains
    <3>1. ASSUME NEW x \in Units(c) \cap ps PROVE Ends[c].head \cap ps # {}
      <4>1. PICK m \in Members(c) : x \in Units(m)
        BY <2>1, UnitsAre
      <4>2. PICK h \in Ends[m].head : h \in ps
        BY <2>3, <4>1 DEF Passed
      <4>3. h \in Ends[c].head
        BY <2>1, <2>5, EndsOf
      <4> QED
        BY <4>2, <4>3
    <3>2. ASSUME Ends[c].tail \subseteq ps, NEW x \in Units(c) PROVE x \in ps
      <4>1. PICK m \in Members(c) : x \in Units(m)
        BY <2>1, UnitsAre
      <4>2. Ends[m].tail \subseteq Ends[c].tail
        BY <2>1, <2>5, EndsOf
      <4> QED
        BY <2>3, <3>2, <4>1, <4>2 DEF Passed
    <3>3. Passed(ps, c)
      BY <3>1, <3>2 DEF Passed
    <3> QED
      BY <2>1, <3>3
  <2> QED
    BY <2>4, <2>5
<1> QED
  BY <1>2

\* All nodes that hold something are reached from the top-level one.
Complete(top) == \A n \in Nodes \ Visited(top) : n \in Delayable /\ Later(n) = {}

LEMMA AskedRespected ==
    ASSUME WellMade, ~Crossed, ~Hollow, NEW top \in Nodes, Complete(top), NEW ps,
           \A p \in Connected(top).edge : p[2] \in ps => p[1] \in ps
    PROVE  \A p \in Asked : p[2] \in ps => p[1] \in ps
<1>1. Linked(ps)
  <2>1. SUFFICES ASSUME NEW n \in Nodes, NEW e \in Edges(n), NEW y \in Ends[e[2]].head \cap ps,
                        NEW x \in Ends[e[1]].tail
                 PROVE  x \in ps
    BY DEF Linked
  <2>2. n \in Visited(top)
    BY Apart DEF Complete, Edges
  <2>3. <<x, y>> \in Connected(top).edge
    BY <2>2, ConnectedAre
  <2> QED
    BY <2>3
<1>2. \A n \in Nodes : (\E m \in Nodes : n \in Vertices(m)) => Passed(ps, n)
  BY <1>1, AllPassed
<1>3. \A c \in Chains : \A m \in Members(c) : Passed(ps, m)
  BY <1>2, Apart, MembersAre, VerticesType
<1>4. ASSUME NEW p \in Asked, p[2] \in ps
      PROVE  p[1] \in ps
  <2>1. PICK n \in Nodes : \E m \in Nodes : Before(n, m) /\ p[1] \in Units(n) /\ p[2] \in Units(m)
    BY AskedIs
  <2>2. PICK m \in Nodes : Before(n, m) /\ p[1] \in Units(n) /\ p[2] \in Units(m)
    BY <2>1
  <2>3. CASE <<n, m>> \in later
    <3>1. m \in Later(n)
      BY <2>3 DEF Later
    <3>0. Starts(n) # {}
      <4>1. n \notin Delayable => n \in Compounds /\ \A x \in Units(n) : \E k \in Members(n) : x \in Units(k)
        BY UnitsAre DEF Nodes
      <4> QED
        BY <2>2, <4>1 DEF Starts
    <3>2. m \in Vertices(n) /\ Starts(n) \subseteq Vertices(n) /\ Starts(n) \subseteq Nodes
      BY <3>0, <3>1, VerticesType
    <3>3. Ends[m].head \cap ps # {}
      BY <1>2, <1>4, <2>2, <3>2 DEF Passed
    <3>4. ASSUME NEW s \in Starts(n) PROVE Units(s) \subseteq ps
      <4>1. <<s, m>> \in Edges(n)
        BY <3>1 DEF Edges
      <4>2. Ends[s].tail \subseteq ps
        BY <1>1, <3>3, <4>1 DEF Linked
      <4> QED
        BY <1>2, <3>2, <4>2 DEF Passed
    <3>5. CASE n \in Delayable
      BY <2>2, <3>4, <3>5 DEF Starts
    <3>6. CASE n \in Chains
      <4> DEFINE len == Len(made[n].members)
      <4>1. /\ n \in Compounds /\ n \notin Delayable /\ len \in Nat \ {0} /\ len \in Steps(n)
            /\ Last(made[n].members) = made[n].members[len]
            /\ made[n].members[len] \in Nodes
        BY <3>6, Apart, MembersAre DEF Steps, Last
      <4>2. Units(made[n].members[len]) \subseteq ps /\ Units(made[n].members[len]) # {}
        <5>1. Units(made[n].members[len]) \subseteq ps
          BY <3>4, <3>6, <4>1 DEF Starts
        <5>2. Units(n) # {} /\ Later(n) # {}
          BY <2>2, <3>1
        <5> QED
          BY <3>6, <4>1, <5>1, <5>2 DEF Hollow
      <4>3. PICK k \in Members(n) : p[1] \in Units(k)
        BY <2>2, <4>1, UnitsAre
      <4>4. PICK i \in Steps(n) : k = made[n].members[i]
        BY <4>1, MembersAre
      <4>5. CASE i = len
        BY <4>2, <4>3, <4>4, <4>5
      <4>6. CASE i # len
        <5>1. i < len
          BY <4>1, <4>6 DEF Steps
        <5>2. Units(made[n].members[i]) \subseteq ps
          BY <1>1, <1>3, <3>6, <4>1, <4>2, <5>1, ChainPassed
        <5> QED
          BY <4>3, <4>4, <5>2
      <4> QED
        BY <4>5, <4>6
    <3>7. CASE n \notin Delayable /\ n \notin Chains
      <4>1. n \in Compounds /\ Starts(n) = Members(n)
        BY <3>7 DEF Starts, Nodes
      <4> QED
        BY <2>2, <3>4, <4>1, UnitsAre
    <3> QED
      BY <3>5, <3>6, <3>7
  <2>4. CASE \E c \in Chains : \E i, j \in Steps(c) :
                 i < j /\ n = made[c].members[i] /\ m = made[c].members[j]
    <3>1. PICK c \in Chains : \E i, j \in Steps(c) :
                 i < j /\ n = made[c].members[i] /\ m = made[c].members[j]
      BY <2>4
    <3>2. PICK i \in Steps(c), j \in Steps(c) :
                 i < j /\ n = made[c].members[i] /\ m = made[c].members[j]
      BY <3>1
    <3>3. Units(made[c].members[j]) \cap ps # {}
      BY <1>4, <2>2, <3>2
    <3>4. Units(made[c].members[i]) \subseteq ps
      BY <1>1, <1>3, <3>2, <3>3, ChainPassed
    <3> QED
      BY <2>2, <3>2, <3>4
  <2> QED
    BY <2>2, <2>3, <2>4 DEF Before
<1> QED
  BY <1>4

-----------------------------------------------------------------------------
(* Sequences without repetitions *)

LEMMA SeqsAre ==
    ASSUME NEW s, IsFiniteSet(s), NEW f \in SetToSeqs(s)
    PROVE  f \in Seq(s) /\ IsInjective(f) /\ ToSet(f) = s
<1> DEFINE n == Cardinality(s)
<1>1. n \in Nat
  BY FS_CardinalityType
<1>2. f \in [1..n -> s] /\ \A i, j \in 1..n : i # j => f[i] # f[j]
  BY DEF SetToSeqs
<1>3. f \in Seq(s) /\ IsInjective(f)
  BY <1>1, <1>2 DEF IsInjective
<1>4. IsFiniteSet(1..n) /\ Cardinality(1..n) = n
  BY <1>1, FS_Interval
<1>5. ToSet(f) = s
  <2>1. \A t \in SUBSET s : IsFiniteSet(t) /\ (Cardinality(t) = n => t = s)
    BY FS_Subset
  <2>2. ToSet(f) \in SUBSET s
    BY <1>2 DEF ToSet
  <2>3. ExistsBijection(1..n, ToSet(f))
    <3>1. f \in Bijection(1..n, ToSet(f))
      BY <1>2 DEF Bijection, Injection, Surjection, IsInjective, ToSet
    <3> QED
      BY <3>1 DEF ExistsBijection
  <2>4. Cardinality(ToSet(f)) = n
    BY <1>4, <2>3, FS_Bijection
  <2> QED
    BY <2>1, <2>2, <2>4
<1> QED
  BY <1>3, <1>5

LEMMA AppendOnce ==
    ASSUME NEW s, NEW q \in Seq(s), IsInjective(q), NEW x \in s \ ToSet(q)
    PROVE  /\ Append(q, x) \in Seq(s) /\ IsInjective(Append(q, x))
           /\ ToSet(Append(q, x)) = ToSet(q) \cup {x}
<1> DEFINE r == Append(q, x)
<1>1. /\ r \in Seq(s) /\ Len(q) \in Nat /\ DOMAIN q = 1..Len(q) /\ DOMAIN r = 1..(Len(q) + 1)
      /\ r[Len(q) + 1] = x /\ \A i \in 1..Len(q) : r[i] = q[i]
  OBVIOUS
<1> HIDE DEF r
<1>2. \A i \in 1..Len(q) : r[i] # x
  BY <1>1 DEF ToSet
<1>3. IsInjective(r)
  BY <1>1, <1>2 DEF IsInjective
<1>4. ToSet(r) = ToSet(q) \cup {x}
  BY <1>1 DEF ToSet
<1> QED
  BY <1>1, <1>3, <1>4 DEF r

\* The head of a queue is replaced with others at the end.
LEMMA QueueStep ==
    ASSUME NEW s, NEW q \in Seq(s), q # <<>>, IsInjective(q), NEW r \in Seq(s), IsInjective(r),
           ToSet(r) \cap ToSet(q) = {}
    PROVE  /\ Tail(q) \o r \in Seq(s) /\ IsInjective(Tail(q) \o r)
           /\ ToSet(Tail(q) \o r) = (ToSet(q) \ {Head(q)}) \cup ToSet(r)
           /\ Head(q) \in ToSet(q) /\ Head(q) \in s
<1> DEFINE t == Tail(q)
           c == Tail(q) \o r
<1>1. /\ t \in Seq(s) /\ Len(t) = Len(q) - 1 /\ Len(q) \in Nat \ {0} /\ DOMAIN q = 1..Len(q)
      /\ DOMAIN t = 1..Len(t) /\ \A i \in 1..Len(t) : t[i] = q[i + 1]
      /\ Head(q) = q[1]
  OBVIOUS
<1>2. /\ c \in Seq(s) /\ DOMAIN c = 1..(Len(t) + Len(r)) /\ Len(r) \in Nat /\ DOMAIN r = 1..Len(r)
      /\ \A i \in 1..Len(t) : c[i] = t[i]
      /\ \A i \in 1..Len(r) : c[Len(t) + i] = r[i]
  BY <1>1
<1> HIDE DEF t, c
<1>3. \A i \in DOMAIN c : \/ i \in 1..Len(t) /\ i + 1 \in DOMAIN q /\ c[i] = q[i + 1]
                          \/ i - Len(t) \in DOMAIN r /\ c[i] = r[i - Len(t)]
  <2>1. ASSUME NEW i \in DOMAIN c
        PROVE  \/ i \in 1..Len(t) /\ i + 1 \in DOMAIN q /\ c[i] = q[i + 1]
               \/ i - Len(t) \in DOMAIN r /\ c[i] = r[i - Len(t)]
    <3>1. CASE i <= Len(t)
      BY <1>1, <1>2, <3>1
    <3>2. CASE ~(i <= Len(t))
      <4>1. i - Len(t) \in 1..Len(r)
        BY <1>1, <1>2, <3>2
      <4>2. c[Len(t) + (i - Len(t))] = r[i - Len(t)]
        BY <1>2, <4>1
      <4>3. Len(t) + (i - Len(t)) = i
        BY <1>1, <1>2
      <4> QED
        BY <1>2, <4>1, <4>2, <4>3
    <3> QED
      BY <3>1, <3>2
  <2> QED
    BY <2>1
<1>4. IsInjective(c)
  <2>1. SUFFICES ASSUME NEW i \in DOMAIN c, NEW j \in DOMAIN c, c[i] = c[j] PROVE i = j
    BY DEF IsInjective
  <2>2. i \in Int /\ j \in Int /\ Len(t) \in Int
    BY <1>1, <1>2
  <2>3. CASE i \in 1..Len(t) /\ i + 1 \in DOMAIN q /\ c[i] = q[i + 1]
    <3>1. c[i] \in ToSet(q)
      BY <2>3 DEF ToSet
    <3>2. ~(j - Len(t) \in DOMAIN r /\ c[j] = r[j - Len(t)])
      BY <2>1, <3>1 DEF ToSet
    <3>3. j + 1 \in DOMAIN q /\ c[j] = q[j + 1]
      BY <1>3, <3>2
    <3>4. i + 1 = j + 1
      BY <2>1, <2>3, <3>3 DEF IsInjective
    <3> QED
      BY <2>2, <3>4
  <2>4. CASE i - Len(t) \in DOMAIN r /\ c[i] = r[i - Len(t)]
    <3>1. c[i] \in ToSet(r)
      BY <2>4 DEF ToSet
    <3>2. ~(j + 1 \in DOMAIN q /\ c[j] = q[j + 1])
      BY <2>1, <3>1 DEF ToSet
    <3>3. j - Len(t) \in DOMAIN r /\ c[j] = r[j - Len(t)]
      BY <1>3, <3>2
    <3>4. i - Len(t) = j - Len(t)
      BY <2>1, <2>4, <3>3 DEF IsInjective
    <3> QED
      BY <2>2, <3>4
  <2> QED
    BY <1>3, <2>3, <2>4
<1>5. ASSUME NEW x PROVE x \in ToSet(c) <=> x \in (ToSet(q) \ {Head(q)}) \cup ToSet(r)
  <2>1. ASSUME NEW i \in DOMAIN c, x = c[i] PROVE x \in (ToSet(q) \ {Head(q)}) \cup ToSet(r)
    <3>1. CASE i \in 1..Len(t) /\ i + 1 \in DOMAIN q /\ c[i] = q[i + 1]
      <4>1. i + 1 # 1 /\ 1 \in DOMAIN q
        BY <1>1, <3>1
      <4>2. q[i + 1] # q[1]
        BY <3>1, <4>1 DEF IsInjective
      <4> QED
        BY <1>1, <2>1, <3>1, <4>2 DEF ToSet
    <3>2. CASE i - Len(t) \in DOMAIN r /\ c[i] = r[i - Len(t)]
      BY <2>1, <3>2 DEF ToSet
    <3> QED
      BY <1>3, <3>1, <3>2
  <2>2. ASSUME x \in ToSet(q) \ {Head(q)} PROVE x \in ToSet(c)
    <3>1. PICK i \in DOMAIN q : x = q[i]
      BY <2>2 DEF ToSet
    <3>2. i # 1
      BY <1>1, <2>2, <3>1
    <3>3. i - 1 \in 1..Len(t) /\ (i - 1) + 1 = i
      BY <1>1, <3>2
    <3>4. i - 1 \in DOMAIN c /\ c[i - 1] = x
      BY <1>1, <1>2, <3>1, <3>3
    <3> QED
      BY <3>4 DEF ToSet
  <2>3. ASSUME x \in ToSet(r) PROVE x \in ToSet(c)
    <3>1. PICK i \in DOMAIN r : x = r[i]
      BY <2>3 DEF ToSet
    <3>2. Len(t) + i \in DOMAIN c /\ c[Len(t) + i] = x
      BY <1>1, <1>2, <3>1
    <3> QED
      BY <3>2 DEF ToSet
  <2> QED
    BY <2>1, <2>2, <2>3 DEF ToSet
<1>6. Head(q) \in ToSet(q) /\ Head(q) \in s
  BY <1>1 DEF ToSet
<1> QED
  BY <1>2, <1>4, <1>5, <1>6 DEF c

-----------------------------------------------------------------------------
(* The program and its jobs *)

\* What holds of the graph that delay() has made.
SoundGraph(graph) ==
    /\ IsDirectedGraph(graph) /\ graph.node \subseteq Delayable /\ graph.edge \subseteq Asked
    /\ Acyclic(Asked)
    /\ ~Crossed /\ ~Hollow =>
           \A ps : (\A p \in graph.edge : p[2] \in ps => p[1] \in ps)
                   => \A p \in Asked : p[2] \in ps => p[1] \in ps

\* What is performed never lacks what it depends on, and the queue of topological_sort holds
\* what is free.
DelayInv ==
    /\ DelayTypeOK /\ WellMade
    /\ stage = "building" => jobs = EmptyGraph /\ done = <<>> /\ queue = <<>>
    /\ stage # "building" => SoundGraph(jobs)
    /\ done \in Seq(jobs.node) /\ IsInjective(done) /\ Performed \subseteq Free(Performed)
    /\ queue \in Seq(jobs.node) /\ IsInjective(queue)
    /\ stage = "direct" => ToSet(queue) = Free(Performed) \ Performed

\* Calls of chain(), group() and on_done apart, nothing changes what was asked.
LEMMA AskedKept ==
    ASSUME made' = made, later' = later
    PROVE  /\ Asked' = Asked /\ (Crossed' <=> Crossed) /\ (Hollow' <=> Hollow)
           /\ (SoundGraph(jobs)' <=> SoundGraph(jobs'))
           /\ WellMade' <=> WellMade
<1>1. \A n : Inside(n)' = Inside(n) /\ Vertices(n)' = Vertices(n)
  <2>1. \A n : Members(n)' = Members(n) /\ Later(n)' = Later(n) /\ Starts(n)' = Starts(n)
    BY DEF Members, Later, Starts, Chains, Compounds
  <2> QED
    BY <2>1 DEF Inside, Vertices
<1>2. Nodes' = Nodes /\ Compounds' = Compounds /\ Chains' = Chains
  BY DEF Nodes, Compounds, Chains
<1>3. [m \in Nodes |-> Inside(m)]' = [m \in Nodes |-> Inside(m)]
  BY <1>1, <1>2
<1>4. \A n : Within(n)' = Within(n)
  BY <1>3 DEF Within
<1>5. \A n : Units(n)' = Units(n)
  BY <1>4 DEF Units
<1>6. [n \in Nodes |-> Units(n)]' = [n \in Nodes |-> Units(n)]
  BY <1>2, <1>5
<1>7. Asked' = Asked
  BY <1>2, <1>6 DEF Asked, Steps
<1>8. Crossed' <=> Crossed
  BY <1>1, <1>2, <1>4 DEF Crossed
<1>9. Hollow' <=> Hollow
  BY <1>1, <1>2, <1>5 DEF Hollow, Steps, Later
<1>10. SoundGraph(jobs)' <=> SoundGraph(jobs')
  BY <1>7, <1>8, <1>9 DEF SoundGraph, Acyclic
<1>11. WellMade' <=> WellMade
  BY <1>2 DEF WellMade, Below
<1> QED
  BY <1>7, <1>8, <1>9, <1>10, <1>11

LEMMA DelayInitInv == DelayInit => DelayInv
<1> SUFFICES ASSUME DelayInit PROVE DelayInv
  OBVIOUS
<1>1. Len(made) = 0 /\ Compounds = {} /\ 1..0 = {}
  BY DEF DelayInit, Compounds
<1>2. WellMade
  BY <1>1 DEF WellMade, DelayInit
<1>3. Performed = {} /\ ToSet(queue) = {}
  BY DEF Performed, ToSet, DelayInit
<1>4. IsDirectedGraph(EmptyGraph) /\ EmptyGraph.node = {}
  BY DEF IsDirectedGraph, EmptyGraph
<1>5. DelayTypeOK
  BY <1>1, <1>3, <1>4 DEF DelayTypeOK, DelayInit
<1>6. IsInjective(<<>>)
  BY DEF IsInjective
<1> QED
  BY <1>2, <1>3, <1>5, <1>6 DEF DelayInv, DelayInit

LEMMA SeqsGrow == ASSUME NEW s, NEW t, s \subseteq t, NEW q \in Seq(s) PROVE q \in Seq(t)
  OBVIOUS

LEMMA NewInv ==
    ASSUME DelayInv, NEW size \in 0..MaxSize, NEW members \in [1..size -> Nodes],
           NEW kind \in {"chain", "group"}, New(kind, members)
    PROVE  DelayInv'
<1> DEFINE r == [kind |-> kind, members |-> members]
<1>0. PICK k \in Nat \ {0} : k = Len(made) + 1
  BY DEF DelayInv, WellMade
<1>1. /\ stage = "building" /\ made' = Append(made, r) /\ later' = later
      /\ stage' = stage /\ jobs' = jobs /\ queue' = queue /\ done' = done
  BY DEF New
<1>2. WellMade /\ DelayTypeOK /\ jobs = EmptyGraph /\ done = <<>> /\ queue = <<>>
  BY <1>1 DEF DelayInv
<1>3. /\ members \in Seq(Nodes) /\ DOMAIN members = 1..size /\ size \in Nat
      /\ kind = "chain" => members # <<>>
  BY BoundsAssumption DEF New
<1>4. /\ made \in Seq([kind : {"chain", "group"}, members : Seq(Nodes)])
      /\ r \in [kind : {"chain", "group"}, members : Seq(Nodes)]
  BY <1>2, <1>3 DEF DelayTypeOK
<1>5. /\ Len(made) \in Nat /\ Len(made') = k /\ Compounds' = 1..k
      /\ made'[k] = r /\ \A c \in 1..Len(made) : made'[c] = made[c]
      /\ \A c \in 1..k : c \in 1..Len(made) \/ c = k
      /\ made' \in Seq([kind : {"chain", "group"}, members : Seq(Nodes)])
  BY <1>0, <1>1, <1>4 DEF Compounds
<1>6. Compounds = 1..Len(made) /\ Nodes \subseteq Nodes' /\ Below(k) = Nodes
  BY <1>0, <1>2, <1>5 DEF WellMade, Nodes, Below
<1>7. \A c \in 1..Len(made) : Members(c)' = Members(c)
  BY <1>5 DEF Members
<1>8. Members(k)' \subseteq Nodes
  <2>1. Members(k)' = ToSet(members)
    BY <1>5 DEF Members
  <2>2. ToSet(members) \subseteq Nodes
    BY <1>3 DEF ToSet
  <2> QED
    BY <2>1, <2>2
<1>9. WellMade'
  <2>1. \A c \in Compounds' : /\ made'[c].kind \in {"chain", "group"}
                              /\ made'[c].members \in Seq(Below(c))
                              /\ made'[c].kind = "chain" => made'[c].members # <<>>
    <3>1. ASSUME NEW c \in 1..Len(made)
          PROVE  /\ made'[c].kind \in {"chain", "group"}
                 /\ made'[c].members \in Seq(Below(c))
                 /\ made'[c].kind = "chain" => made'[c].members # <<>>
      BY <1>2, <1>5, <1>6 DEF WellMade
    <3>2. /\ made'[k].kind \in {"chain", "group"}
          /\ made'[k].members \in Seq(Below(k))
          /\ made'[k].kind = "chain" => made'[k].members # <<>>
      BY <1>3, <1>5, <1>6
    <3> QED
      BY <1>5, <3>1, <3>2
  <2>2. later' \subseteq Nodes' \X Nodes'
    BY <1>1, <1>2, <1>6 DEF WellMade
  <2> QED
    BY <1>5, <2>1, <2>2 DEF WellMade, Below
<1>10. DelayTypeOK'
  <2>1. made' \in Seq([kind : {"chain", "group"}, members : Seq(Nodes')])
    <3>1. Seq(Nodes) \subseteq Seq(Nodes')
      BY <1>6
    <3>2. [kind : {"chain", "group"}, members : Seq(Nodes)]
              \subseteq [kind : {"chain", "group"}, members : Seq(Nodes')]
      BY <3>1
    <3> QED
      BY <1>5, <3>2, SeqsGrow
  <2>2. \A c \in Compounds' : Members(c)' \subseteq Delayable \cup 1..(c - 1)
    <3>1. ASSUME NEW c \in 1..Len(made) PROVE Members(c)' \subseteq Delayable \cup 1..(c - 1)
      BY <1>2, <1>6, <1>7 DEF DelayTypeOK
    <3>2. Members(k)' \subseteq Delayable \cup 1..(k - 1)
      BY <1>5, <1>6, <1>8 DEF Below
    <3> QED
      BY <1>5, <3>1, <3>2
  <2>3. Performed' = Performed
    BY <1>1 DEF Performed
  <2> QED
    BY <1>1, <1>2, <1>6, <2>1, <2>2, <2>3 DEF DelayTypeOK
<1>11. Performed' = Performed /\ Free(Performed)' = Free(Performed)
  BY <1>1 DEF Performed, Free
<1> QED
  BY <1>1, <1>9, <1>10, <1>11 DEF DelayInv

LEMMA OnDoneInv ==
    ASSUME DelayInv, NEW n \in Nodes, NEW m \in Nodes, OnDone(n, m)
    PROVE  DelayInv'
<1>1. /\ stage = "building" /\ made' = made /\ later' = later \cup {<<n, m>>}
      /\ stage' = stage /\ jobs' = jobs /\ queue' = queue /\ done' = done
  BY DEF OnDone
<1>2. Nodes' = Nodes /\ Compounds' = Compounds /\ Performed' = Performed /\ Free(Performed)' = Free(Performed)
  BY <1>1 DEF Nodes, Compounds, Performed, Free
<1>3. WellMade'
  BY <1>1, <1>2 DEF DelayInv, WellMade, Below
<1>4. DelayTypeOK'
  BY <1>1, <1>2 DEF DelayInv, DelayTypeOK, Members
<1> QED
  BY <1>1, <1>2, <1>3, <1>4 DEF DelayInv

LEMMA DelayCallInv ==
    ASSUME DelayInv, NEW top \in Nodes, NEW outcome \in {"stored", "left", "direct"}, Delay(top, outcome)
    PROVE  DelayInv'
<1> DEFINE graph == Connected(top)
<1>1. /\ stage = "building" /\ Complete(top) /\ Acyclic(Asked) /\ jobs' = graph
      /\ stage' = outcome /\ made' = made /\ later' = later /\ done' = done
      /\ queue' \in IF outcome = "direct" THEN SetToSeqs(Roots(graph)) ELSE {<<>>}
  BY DEF Delay, Complete
<1>2. WellMade /\ done = <<>> /\ DelayTypeOK
  BY <1>1 DEF DelayInv
<1>3. IsDirectedGraph(graph) /\ graph.node \subseteq Delayable /\ graph.edge \subseteq Asked
  BY <1>2, ConnectedAre
<1>4. SoundGraph(graph)
  <2>1. ~Crossed /\ ~Hollow =>
            \A ps : (\A p \in graph.edge : p[2] \in ps => p[1] \in ps)
                    => \A p \in Asked : p[2] \in ps => p[1] \in ps
    BY <1>1, <1>2, AskedRespected
  <2> HIDE DEF graph
  <2> QED
    BY <1>1, <1>3, <2>1 DEF SoundGraph
<1> HIDE DEF graph
<1>5. SoundGraph(jobs)'
  <2>1. SoundGraph(jobs')
    BY <1>1, <1>4
  <2> QED
    BY <1>1, <2>1, AskedKept
<1>6. WellMade' /\ Nodes' = Nodes /\ Compounds' = Compounds
  BY <1>1, <1>2, AskedKept DEF Nodes, Compounds
<1>7. Performed' = {} /\ Free(Performed)' = Roots(graph) /\ Roots(graph) \subseteq graph.node
  BY <1>1, <1>2 DEF Performed, Free, Roots, ToSet
<1>8. queue' \in Seq(graph.node) /\ IsInjective(queue') /\ (outcome = "direct" => ToSet(queue') = Roots(graph))
  <2>1. CASE outcome = "direct"
    <3>1. IsFiniteSet(Roots(graph))
      BY <1>3, <1>7, DelayableAssumption, FS_Subset
    <3>2. queue' \in SetToSeqs(Roots(graph))
      BY <1>1, <2>1
    <3>3. queue' \in Seq(Roots(graph)) /\ IsInjective(queue') /\ ToSet(queue') = Roots(graph)
      BY <3>1, <3>2, SeqsAre
    <3> QED
      BY <1>7, <3>3
  <2>2. CASE outcome # "direct"
    <3>1. queue' = <<>>
      BY <1>1, <2>2
    <3> QED
      BY <2>2, <3>1 DEF IsInjective
  <2> QED
    BY <2>1, <2>2
<1>9. DelayTypeOK'
  <2>1. ToSet(queue') \subseteq graph.node
    BY <1>8 DEF ToSet
  <2>2. stage' \in {"building", "stored", "left", "direct"}
    BY <1>1
  <2>3. IsDirectedGraph(jobs)' /\ jobs'.node \subseteq Delayable /\ ToSet(queue)' \cup Performed' \subseteq jobs'.node
    BY <1>1, <1>3, <1>7, <2>1 DEF IsDirectedGraph
  <2>4. \A c \in Compounds' : Members(c)' \subseteq Delayable \cup 1..(c - 1)
    BY <1>1, <1>2, <1>6 DEF DelayTypeOK, Members
  <2>5. /\ made' \in Seq([kind : {"chain", "group"}, members : Seq(Nodes')])
        /\ later' \subseteq Nodes' \X Nodes'
    BY <1>1, <1>2, <1>6 DEF DelayTypeOK
  <2> QED
    BY <2>2, <2>3, <2>4, <2>5 DEF DelayTypeOK
<1>10. done' \in Seq(jobs'.node) /\ IsInjective(done')
  BY <1>1, <1>2 DEF IsInjective
<1> QED
  BY <1>1, <1>5, <1>6, <1>7, <1>8, <1>9, <1>10 DEF DelayInv

\* A free job that is performed frees those that waited for it as the last one.
LEMMA FreeStep ==
    ASSUME NEW ps, ps \subseteq Free(ps), NEW j \in Free(ps) \ ps
    PROVE  /\ ps \cup {j} \subseteq Free(ps \cup {j})
           /\ LET resolved == Successors(jobs, j) \cap Free(ps \cup {j}) IN
                 /\ resolved \cap (Free(ps) \ ps) = {}
                 /\ Free(ps \cup {j}) \ (ps \cup {j}) = ((Free(ps) \ ps) \ {j}) \cup resolved
<1>1. \A i : \A qs : i \in Free(qs) <=> i \in jobs.node /\ \A m \in jobs.node : <<m, i>> \in jobs.edge => m \in qs
  BY DEF Free, Predecessors
<1>2. \A i : i \in Successors(jobs, j) <=> i \in jobs.node /\ <<j, i>> \in jobs.edge
  BY DEF Successors
<1>3. j \in jobs.node /\ <<j, j>> \notin jobs.edge
  BY <1>1
<1> DEFINE resolved == Successors(jobs, j) \cap Free(ps \cup {j})
<1>4. \A i : i \in resolved <=> /\ i \in jobs.node /\ <<j, i>> \in jobs.edge
                              /\ \A m \in jobs.node : <<m, i>> \in jobs.edge => m \in ps \cup {j}
  BY <1>1, <1>2
<1>5. ps \cup {j} \subseteq Free(ps \cup {j})
  BY <1>1
<1>6. resolved \cap Free(ps) = {} /\ resolved \cap ps = {} /\ j \notin resolved
  BY <1>1, <1>3, <1>4
<1> HIDE DEF resolved
<1>7. ASSUME NEW i \in Free(ps \cup {j}) \ (ps \cup {j}) PROVE i \in ((Free(ps) \ ps) \ {j}) \cup resolved
  BY <1>1, <1>4, <1>7
<1>8. ASSUME NEW i \in ((Free(ps) \ ps) \ {j}) \cup resolved PROVE i \in Free(ps \cup {j}) \ (ps \cup {j})
  <2>1. CASE i \in (Free(ps) \ ps) \ {j}
    BY <1>1, <2>1
  <2>2. CASE i \in resolved
    <3>1. i \notin ps /\ i # j
      BY <1>6, <2>2
    <3>2. i \in Free(ps \cup {j})
      BY <1>1, <1>4, <2>2
    <3> QED
      BY <3>1, <3>2
  <2> QED
    BY <1>8, <2>1, <2>2
<1>9. Free(ps \cup {j}) \ (ps \cup {j}) = ((Free(ps) \ ps) \ {j}) \cup resolved
  BY <1>7, <1>8
<1> QED
  BY <1>5, <1>6, <1>9 DEF resolved

LEMMA PerformInv == ASSUME DelayInv, NEW j \in Delayable, PerformStored(j) PROVE DelayInv'
<1>1. /\ stage = "stored" /\ j \in Free(Performed) \ Performed /\ done' = Append(done, j)
      /\ made' = made /\ later' = later /\ stage' = stage /\ jobs' = jobs /\ queue' = queue
  BY DEF PerformStored
<1>2. done \in Seq(jobs.node) /\ IsInjective(done) /\ j \in jobs.node \ ToSet(done)
  BY <1>1 DEF DelayInv, Free, Performed
<1>3. done' \in Seq(jobs.node) /\ IsInjective(done') /\ ToSet(done') = ToSet(done) \cup {j}
  BY <1>1, <1>2, AppendOnce
<1>4. Performed' = Performed \cup {j} /\ Free(Performed)' = Free(Performed \cup {j})
  BY <1>1, <1>3 DEF Performed, Free
<1>5. Performed \cup {j} \subseteq Free(Performed \cup {j})
  BY <1>1, FreeStep DEF DelayInv
<1>6. WellMade' /\ SoundGraph(jobs)'
  BY <1>1, AskedKept DEF DelayInv
<1>7. DelayTypeOK'
  BY <1>1, <1>2, <1>4 DEF DelayInv, DelayTypeOK, Members, Compounds, Nodes
<1> QED
  BY <1>1, <1>3, <1>4, <1>5, <1>6, <1>7 DEF DelayInv

LEMMA YieldInv == ASSUME DelayInv, Yield PROVE DelayInv'
<1> DEFINE j == Head(queue)
<1>1. /\ stage = "direct" /\ queue # <<>> /\ done' = Append(done, j)
      /\ made' = made /\ later' = later /\ stage' = stage /\ jobs' = jobs
  BY DEF Yield
<1>2. PICK r \in SetToSeqs(Resolved(j)) : queue' = Tail(queue) \o r
  BY DEF Yield
<1>3. /\ queue \in Seq(jobs.node) /\ IsInjective(queue) /\ ToSet(queue) = Free(Performed) \ Performed
      /\ Performed \subseteq Free(Performed) /\ done \in Seq(jobs.node) /\ IsInjective(done)
      /\ jobs.node \subseteq Delayable
  BY <1>1 DEF DelayInv, DelayTypeOK
<1>4. j \in ToSet(queue) /\ j \in jobs.node
  <2>1. 1 \in DOMAIN queue /\ j = queue[1]
    BY <1>1, <1>3
  <2> QED
    BY <1>3, <2>1 DEF ToSet
<1> HIDE DEF j
<1>5. /\ Resolved(j) \subseteq jobs.node
      /\ Performed \cup {j} \subseteq Free(Performed \cup {j})
      /\ Resolved(j) \cap ToSet(queue) = {}
      /\ Free(Performed \cup {j}) \ (Performed \cup {j}) = (ToSet(queue) \ {j}) \cup Resolved(j)
  <2>1. j \in Free(Performed) \ Performed /\ Resolved(j) = Successors(jobs, j) \cap Free(Performed \cup {j})
    BY <1>3, <1>4 DEF Resolved
  <2>2. Resolved(j) \subseteq jobs.node
    BY <2>1 DEF Free
  <2> QED
    BY <1>3, <2>1, <2>2, FreeStep
<1>6. r \in Seq(Resolved(j)) /\ IsInjective(r) /\ ToSet(r) = Resolved(j)
  <2>1. IsFiniteSet(Resolved(j))
    BY <1>3, <1>5, DelayableAssumption, FS_Subset
  <2> QED
    BY <2>1, SeqsAre
<1>7. r \in Seq(jobs.node)
  BY <1>5, <1>6, SeqsGrow
<1>8. /\ queue' \in Seq(jobs.node) /\ IsInjective(queue')
      /\ ToSet(queue') = (ToSet(queue) \ {j}) \cup Resolved(j)
  BY <1>1, <1>2, <1>3, <1>5, <1>6, <1>7, QueueStep DEF j
<1>9. done' \in Seq(jobs.node) /\ IsInjective(done') /\ ToSet(done') = ToSet(done) \cup {j}
  <2>1. j \in jobs.node \ ToSet(done)
    BY <1>3, <1>4 DEF Performed
  <2> QED
    BY <1>1, <1>3, <2>1, AppendOnce
<1>10. Performed' = Performed \cup {j} /\ Free(Performed)' = Free(Performed \cup {j})
  BY <1>1, <1>9 DEF Performed, Free
<1>11. WellMade' /\ SoundGraph(jobs)'
  BY <1>1, AskedKept DEF DelayInv
<1>12. ToSet(queue') \cup (Performed \cup {j}) \subseteq jobs.node
  BY <1>3, <1>4, <1>5, <1>8 DEF Free
<1>13. DelayTypeOK'
  BY <1>1, <1>10, <1>12 DEF DelayInv, DelayTypeOK, Members, Compounds, Nodes
<1> QED
  BY <1>1, <1>5, <1>8, <1>9, <1>10, <1>11, <1>13 DEF DelayInv

LEMMA DelayNextInv == DelayInv /\ [DelayNext]_delayVars => DelayInv'
<1> SUFFICES ASSUME DelayInv, [DelayNext]_delayVars PROVE DelayInv'
  OBVIOUS
<1>1. CASE \E size \in 0..MaxSize : \E members \in [1..size -> Nodes] :
               IsInjective(members) /\ \E kind \in {"chain", "group"} : New(kind, members)
  BY <1>1, NewInv
<1>2. CASE \E n, m \in Nodes : OnDone(n, m)
  BY <1>2, OnDoneInv
<1>3. CASE \E top \in Nodes, outcome \in {"stored", "left", "direct"} : Delay(top, outcome)
  BY <1>3, DelayCallInv
<1>4. CASE \E j \in Delayable : PerformStored(j)
  BY <1>4, PerformInv
<1>5. CASE Yield
  BY <1>5, YieldInv
<1>6. CASE UNCHANGED delayVars
  <2>1. WellMade' /\ (SoundGraph(jobs)' <=> SoundGraph(jobs))
    BY <1>6, AskedKept DEF DelayInv, delayVars
  <2>2. Performed' = Performed /\ Free(Performed)' = Free(Performed)
    BY <1>6 DEF delayVars, Performed, Free
  <2>3. DelayTypeOK'
    BY <1>6, <2>2 DEF DelayInv, delayVars, DelayTypeOK, Members, Compounds, Nodes
  <2> QED
    BY <1>6, <2>1, <2>2, <2>3 DEF DelayInv, delayVars
<1> QED
  BY <1>1, <1>2, <1>3, <1>4, <1>5, <1>6 DEF DelayNext

THEOREM DelayInvariant == DelaySpec => []DelayInv
<1>1. DelayInit => DelayInv
  BY DelayInitInv
<1>2. DelayInv /\ [DelayNext]_delayVars => DelayInv'
  BY DelayNextInv
<1> QED
  BY <1>1, <1>2, PTL DEF DelaySpec

\* Nothing has been performed that was asked to wait for what has not.
LEMMA AskedFirst ==
    ASSUME DelayInv
    PROVE  InOrder
<1>1. SUFFICES ASSUME ~Crossed, ~Hollow, NEW p \in Asked, p[2] \in Performed PROVE p[1] \in Performed
  BY DEF InOrder
<1>2. CASE stage = "building"
  <2>1. Performed = {}
    BY <1>2 DEF DelayInv, Performed, ToSet
  <2> QED
    BY <1>1, <2>1
<1>3. CASE stage # "building"
  <2>1. SoundGraph(jobs) /\ Performed \subseteq Free(Performed)
    BY <1>3 DEF DelayInv
  <2>2. \A e \in jobs.edge : e[2] \in Performed => e[1] \in Performed
    <3>1. SUFFICES ASSUME NEW e \in jobs.edge, e[2] \in Performed PROVE e[1] \in Performed
      OBVIOUS
    <3>2. e = <<e[1], e[2]>> /\ e[1] \in jobs.node /\ e[2] \in jobs.node
      BY <2>1 DEF SoundGraph, IsDirectedGraph
    <3>3. e[1] \in Predecessors(jobs, e[2])
      BY <3>1, <3>2 DEF Predecessors
    <3> QED
      BY <2>1, <3>1, <3>3 DEF Free
  <2> QED
    BY <1>1, <2>1, <2>2 DEF SoundGraph
<1> QED
  BY <1>2, <1>3

\* Whatever chains, groups, empty ones too, and calls of on_done a program nests, no job is
\* executed before one that it was asked to follow, but where a chain is connected at the
\* wrong ends or has a member without units.
THEOREM OrderRespected == DelaySpec => []InOrder
<1>1. DelayInv => InOrder
  BY AskedFirst
<1> QED
  BY <1>1, DelayInvariant, PTL

LEMMA FreeWhenAskedDone ==
    ASSUME DelayInv
    PROVE  NoneHeld
<1>1. SUFFICES ASSUME stage = "stored", NEW j \in jobs.node,
                      \A p \in Asked : p[2] = j => p[1] \in Performed
               PROVE  j \in Free(Performed)
  BY DEF NoneHeld
<1>2. jobs.edge \subseteq Asked
  BY <1>1 DEF DelayInv, SoundGraph
<1>3. \A m \in Predecessors(jobs, j) : m \in Performed
  <2>1. SUFFICES ASSUME NEW m \in Predecessors(jobs, j) PROVE m \in Performed
    OBVIOUS
  <2>2. <<m, j>> \in Asked /\ <<m, j>>[2] = j /\ <<m, j>>[1] = m
    BY <1>2 DEF Predecessors
  <2> QED
    BY <1>1, <2>2
<1> QED
  BY <1>3 DEF Free

\* A stored job waits for none but those that chains and on_done put before it, in every program.
THEOREM WaitsForAskedOnly == DelaySpec => []NoneHeld
<1>1. DelayInv => NoneHeld
  BY FreeWhenAskedDone
<1> QED
  BY <1>1, DelayInvariant, PTL

\* When the queue is empty, all the jobs have been performed: among those that are left, one
\* would depend on none of the others.
LEMMA QueueEmpty ==
    ASSUME DelayInv
    PROVE  EachOnce
<1>1. SUFFICES ASSUME stage = "direct", queue = <<>> PROVE Performed = jobs.node
  BY DEF DelayInv, EachOnce
<1>2. /\ SoundGraph(jobs) /\ ToSet(queue) = Free(Performed) \ Performed
      /\ Performed \subseteq jobs.node
  BY <1>1 DEF DelayInv, DelayTypeOK
<1>3. Free(Performed) \subseteq Performed
  BY <1>1, <1>2 DEF ToSet
<1> DEFINE rest == jobs.node \ Performed
<1>4. ASSUME rest # {} PROVE FALSE
  <2>1. rest \in SUBSET Delayable
    BY <1>2 DEF SoundGraph
  <2>2. PICK n \in rest : \A m \in rest : <<m, n>> \notin Asked
    BY <1>2, <1>4, <2>1 DEF SoundGraph, Acyclic
  <2>3. \A m \in Predecessors(jobs, n) : m \in jobs.node /\ <<m, n>> \in Asked
    BY <1>2 DEF SoundGraph, Predecessors
  <2>4. n \in Free(Performed)
    BY <2>2, <2>3 DEF Free
  <2> QED
    BY <1>3, <2>4
<1> QED
  BY <1>2, <1>4

\* The direct execution performs each job once and, when nothing is left to yield, all of
\* them, for every graph.
THEOREM DirectPerformsEach == DelaySpec => []EachOnce
<1>1. DelayInv => EachOnce
  BY QueueEmpty
<1> QED
  BY <1>1, DelayInvariant, PTL
=============================================================================
