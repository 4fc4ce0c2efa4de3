------------------------------- MODULE JobLife -------------------------------
(***************************************************************************)
(* What the job queue promises of each job, whatever the runner, the       *)
(* handlers and the database do to keep the promise (JobQueue):            *)
(*   - one handler at a time performs it;                                  *)
(*   - a handler completes it only while it is open, and performs it;      *)
(*   - once it has ended (done, cancelled or failed) it is opened again by *)
(*     users only, or by those who did not know: a runner that has not     *)
(*     seen its last change, or a handler that had taken it before.        *)
(* "open" stands for pending, enqueued and started.                        *)
(***************************************************************************)
CONSTANTS
    Job,     \* the jobs
    Worker,  \* the handlers
    None     \* no handler

VARIABLES
    state,     \* of each job
    unseen,    \* jobs whose last change the runner has not seen
    serving,   \* the handlers that have taken each job and may still write it
    performer  \* the handler that performs each job

vars == <<state, unseen, serving, performer>>

State == {"absent", "open", "failed", "done", "cancelled"}

Init ==
    /\ state = [j \in Job |-> "absent"]
    /\ unseen = {}
    /\ serving = [j \in Job |-> {}]
    /\ performer = [j \in Job |-> None]

\* j comes to s, of which the runner may hear later.
Write(j, s) ==
    /\ state' = [state EXCEPT ![j] = s]
    /\ unseen' \subseteq unseen \cup {j}

-----------------------------------------------------------------------------
(* Users *)

Create(j) ==
    /\ state[j] = "absent"
    /\ Write(j, "open") /\ UNCHANGED <<serving, performer>>

Verdict(j, s) ==
    /\ state[j] # "absent" /\ s \in {"open", "done", "cancelled"}
    /\ s = "cancelled" => state[j] \in {"open", "failed"}
    /\ Write(j, s) /\ UNCHANGED <<serving, performer>>

-----------------------------------------------------------------------------
(* The runner *)

See == unseen' \subseteq unseen /\ UNCHANGED <<state, serving, performer>>

\* A job that has ended is dispatched only when the runner does not know it yet.
Dispatch(j) ==
    /\ state[j] = "open" \/ (j \in unseen /\ state[j] # "absent")
    /\ Write(j, "open") /\ UNCHANGED <<serving, performer>>

\* The jobs in D look dead: some of them are given up, the others are tried again.
FindDead(D) ==
    /\ \A j \in D : state[j] = "open"
    /\ \E given \in SUBSET D :
        state' = [j \in Job |-> IF j \in given THEN "failed" ELSE state[j]]
    /\ unseen' \subseteq unseen \cup D
    /\ UNCHANGED <<serving, performer>>

-----------------------------------------------------------------------------
(* Handlers *)

Leaves(w, j) == serving' = [serving EXCEPT ![j] = @ \ {w}]

Take(w, j) ==
    /\ state[j] = "open" /\ \A i \in Job : w \notin serving[i]
    /\ serving' = [serving EXCEPT ![j] = @ \cup {w}]
    /\ Write(j, "open") /\ UNCHANGED performer

Perform(w, j) ==
    /\ w \in serving[j] /\ performer[j] = None
    /\ performer' = [performer EXCEPT ![j] = w]
    /\ UNCHANGED <<state, unseen, serving>>

Complete(w, j) ==
    /\ performer[j] = w /\ state[j] = "open"
    /\ performer' = [performer EXCEPT ![j] = None]
    /\ Leaves(w, j) /\ Write(j, "done")

\* The job's function raises.
Raise(w, j) ==
    /\ performer[j] = w
    /\ performer' = [performer EXCEPT ![j] = None]
    /\ UNCHANGED <<state, unseen, serving>>

\* The handler postpones the job or declares it failed, whatever it has become.
StoreFailure(w, j) ==
    /\ w \in serving[j] /\ performer[j] # w
    /\ \E s \in {"open", "failed"} : Write(j, s)
    /\ Leaves(w, j) /\ UNCHANGED performer

Vanish(w, j) ==
    /\ w \in serving[j] /\ Leaves(w, j)
    /\ performer' = [performer EXCEPT ![j] = IF @ = w THEN None ELSE @]
    /\ UNCHANGED <<state, unseen>>

-----------------------------------------------------------------------------
User == \E j \in Job : Create(j) \/ \E s \in State : Verdict(j, s)

Runner == See \/ (\E j \in Job : Dispatch(j)) \/ (\E D \in SUBSET Job : FindDead(D))

Handler == \E w \in Worker, j \in Job :
    \/ Take(w, j) \/ Perform(w, j) \/ Complete(w, j)
    \/ Raise(w, j) \/ StoreFailure(w, j) \/ Vanish(w, j)

Next == User \/ Runner \/ Handler

Spec == Init /\ [][Next]_vars

=============================================================================
