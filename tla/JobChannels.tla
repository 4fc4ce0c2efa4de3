---------------------------- MODULE JobChannels ----------------------------
(***************************************************************************)
(* The tree of channels of the job runner (jobrunner/channels.py) and the  *)
(* turns of its loop that use it (jobrunner/runner.py).  A job enters the  *)
(* queue of its channel; a channel that has capacity marks its first job   *)
(* as running and puts it in the queue of its parent; the jobs that the    *)
(* root channel takes are set to enqueued in the database and executed.    *)
(*                                                                         *)
(* The database is seen through the state and the eta of each row, which   *)
(* handlers and users change at any time (JobQueue says how) and of which  *)
(* the runner is notified.  "active" stands for enqueued and started,      *)
(* "gone" for done, cancelled and deleted.                                 *)
(*                                                                         *)
(* Abstracted: the heaps of PriorityQueue are sets from which the first    *)
(* job is taken; the channel and the priority of a job do not change (an   *)
(* eta that changes goes through the same code); there is one database.    *)
(***************************************************************************)
EXTENDS Naturals, FiniteSets

CONSTANTS
    Channel,     \* the channels
    Root,        \* the root channel
    Parent,      \* the parent of every other channel
    Above,       \* the channels from a channel down to the root, both included
    Capacity,    \* capacity of each channel, 0 for unlimited
    Sequential,  \* the sequential channels
    Throttle,    \* seconds between two jobs of a channel, 0 for none
    Job,         \* the jobs: numbers, in the order of their creation
    Home,        \* the channel of each job
    Priority,    \* the priority of each job, the smallest first
    MaxTime      \* bound of the model: the clock stops there

ASSUME TreeAssumption ==
    /\ IsFiniteSet(Channel) /\ Root \in Channel
    /\ Parent \in [Channel \ {Root} -> Channel]
    /\ Above \in [Channel -> SUBSET Channel]
    /\ Above[Root] = {Root}
    /\ \A c \in Channel \ {Root} :
        Above[c] = {c} \cup Above[Parent[c]] /\ c \notin Above[Parent[c]]
    /\ \A c \in Channel : c \in Above[c] /\ Root \in Above[c]
    /\ \A c \in Channel : \A a \in Above[c] : Above[a] \subseteq Above[c]

\* Channel.configure refuses a sequential channel of another capacity.
ASSUME ConfigAssumption ==
    /\ Capacity \in [Channel -> Nat] /\ Throttle \in [Channel -> Nat]
    /\ Sequential \subseteq Channel
    /\ \A c \in Sequential : Capacity[c] = 1

ASSUME JobAssumption ==
    /\ Job \subseteq Nat /\ IsFiniteSet(Job)
    /\ Home \in [Job -> Channel] /\ Priority \in [Job -> Nat] /\ MaxTime \in Nat

VARIABLES
    state,    \* of the row of each job
    dbEta,    \* eta of the row of each job, 0 for none
    notifs,   \* jobs of which the runner has been notified
    queue,    \* Channel._queue
    running,  \* Channel._running
    failed,   \* Channel._failed
    eta,      \* eta of the ChannelJob
    pause,    \* Channel._pause_until
    flowed,   \* channels that have had their turn in get_jobs_to_run
    wakeup,   \* until when wait_notification sleeps, 0 for no limit
    now,      \* the clock
    pc        \* where the runner is in its loop

dbVars == <<state, dbEta>>
memVars == <<queue, running, failed, eta, pause>>
vars == <<state, dbEta, notifs, queue, running, failed, eta, pause, flowed, wakeup, now, pc>>

State == {"absent", "wait", "pending", "active", "failed", "gone"}
Eta == 0..MaxTime

TypeOK ==
    /\ state \in [Job -> State]
    /\ dbEta \in [Job -> Eta]
    /\ notifs \in SUBSET Job
    /\ queue \in [Channel -> SUBSET Job]
    /\ running \in [Channel -> SUBSET Job]
    /\ failed \in [Channel -> SUBSET Job]
    /\ eta \in [Job -> Eta]
    /\ pause \in [Channel -> Nat]
    /\ flowed \in SUBSET Channel
    /\ wakeup \in Nat
    /\ now \in Eta
    /\ pc \in {"down", "notify", "flow", "wait"}
    /\ (flowed # {} => pc = "flow") /\ (wakeup # 0 => pc = "wait")

-----------------------------------------------------------------------------
(* The order of jobs and what a channel can take *)

\* ChannelJob.sorting_key_ignoring_eta: priority, date_created, seq.
Before(i, j) == Priority[i] < Priority[j] \/ (Priority[i] = Priority[j] /\ i < j)

\* Mutant: off by one.
HasCapacityOrEqual(c) ==
    /\ ~(c \in Sequential /\ failed[c] # {})
    /\ Capacity[c] = 0 \/ Cardinality(running[c]) <= Capacity[c]

\* Channel.has_capacity: a sequential channel blocks on failed jobs.
HasCapacity(c) ==
    /\ ~(c \in Sequential /\ failed[c] # {})
    /\ Capacity[c] = 0 \/ Cardinality(running[c]) < Capacity[c]

\* The channel waits for the end of its throttle.
Paused(c) == Throttle[c] # 0 /\ pause[c] # 0 /\ now < pause[c]

Ready(c) == {j \in queue[c] : eta[j] <= now}
Later(c) == queue[c] \ Ready(c)

\* The first job of ChannelQueue._eta_queue: smallest eta first.
FirstLater(c, i) ==
    /\ i \in Later(c)
    /\ \A j \in Later(c) : eta[i] < eta[j] \/ (eta[i] = eta[j] /\ (i = j \/ Before(i, j)))

\* ChannelQueue.pop returns j.  A sequential queue waits for the job whose eta is
\* the next one, if it comes before j.
Pops(c, j) ==
    /\ j \in Ready(c)
    /\ \A i \in Ready(c) : i = j \/ Before(j, i)
    /\ c \in Sequential => \A i \in Later(c) : FirstLater(c, i) => Before(j, i)

\* get_jobs_to_run yields j from the queue of c.
CanTake(c, j) == HasCapacity(c) /\ ~Paused(c) /\ Pops(c, j)

\* The channels that a job still has to go through.
Downstream(c) == Above[c] \ {c}

\* Mutant: the children are not asked.
WakeTimesRoot == {eta[j] : j \in queue[Root]} \ {0}

\* Channel.get_wakeup_time: the ends of the pauses and the etas that matter.
WakeTimes ==
    UNION {IF pause[c] # 0 THEN {pause[c]} ELSE {eta[j] : j \in queue[c]} \ {0} :
           c \in {d \in Channel : /\ HasCapacity(d)
                                  /\ \A a \in Downstream(d) : HasCapacity(a) /\ pause[a] = 0}}

\* Mutant: the pause of a channel is forgotten.
WakesAtEta(t) ==
    LET etas == UNION {{eta[j] : j \in queue[c]} \ {0} : c \in Channel}
    IN  IF etas = {} THEN t = 0 ELSE t \in etas /\ \A u \in etas : t <= u

\* t is the time that get_wakeup_time returns.
WakesAt(t) ==
    IF WakeTimes = {} THEN t = 0 ELSE t \in WakeTimes /\ \A u \in WakeTimes : t <= u

-----------------------------------------------------------------------------
Init ==
    /\ state = [j \in Job |-> "absent"]
    /\ dbEta = [j \in Job |-> 0]
    /\ notifs = {}
    /\ queue = [c \in Channel |-> {}]
    /\ running = [c \in Channel |-> {}]
    /\ failed = [c \in Channel |-> {}]
    /\ eta = [j \in Job |-> 0]
    /\ pause = [c \in Channel |-> 0]
    /\ flowed = {}
    /\ wakeup = 0
    /\ now = 0
    /\ pc = "down"

-----------------------------------------------------------------------------
(* The rows *)

\* A committed write of the row of j, of which a running runner is notified.
Write(j, s, e) ==
    /\ state' = [state EXCEPT ![j] = s]
    /\ dbEta' = [dbEta EXCEPT ![j] = e]
    /\ notifs' = IF pc = "down" THEN notifs ELSE notifs \cup {j}
    /\ UNCHANGED <<memVars, flowed, wakeup, now, pc>>

Create(j, s, e) == state[j] = "absent" /\ s \in {"wait", "pending"} /\ Write(j, s, e)

\* Handlers, users and the search of dead jobs: from any state to any state but
\* "active", into which the runner alone brings a job, and with any eta, which a job that
\* fails or is gone keeps.  Job.set_pending makes a job wait again when a parent of it is
\* not done, or not done any more.
Update(j, s, e) ==
    /\ state[j] # "absent"
    /\ s \in {"wait", "pending", "failed", "gone", state[j]}
    /\ s \in {"failed", "gone"} => e = dbEta[j]
    /\ Write(j, s, e)

Tick ==
    /\ pc \in {"wait", "down"} /\ now < MaxTime
    /\ now' = now + 1
    /\ UNCHANGED <<dbVars, notifs, memVars, flowed, wakeup, pc>>

-----------------------------------------------------------------------------
(* ChannelManager.notify *)

\* The channels of C forget j; the channels of C get j.
Without(f, j, C) == [c \in Channel |-> IF c \in C THEN f[c] \ {j} ELSE f[c]]
With(f, j, C) == [c \in Channel |-> IF c \in C THEN f[c] \cup {j} ELSE f[c]]

Known(j) == \E c \in Channel : j \in queue[c] \cup running[c] \cup failed[c]

\* Mutant: a change of the eta is not looked at.
RescheduledNever(j) == FALSE

\* The eta has changed: the job is removed and created again.
Rescheduled(j) == Known(j) /\ eta[j] # dbEta[j]

\* Where j is found in f before its state is looked at.
Seen(f, j) == IF Rescheduled(j) THEN Without(f, j, Above[Home[j]]) ELSE f

\* Channel.remove, also for a row that has been deleted.
NotifyGone(j) ==
    /\ state[j] \in {"absent", "gone"}
    /\ queue' = Without(queue, j, Above[Home[j]])
    /\ running' = Without(running, j, Above[Home[j]])
    /\ failed' = Without(failed, j, Above[Home[j]])

\* WAIT_DEPENDENCIES: nothing is done; a job that waits again keeps the place it had.
NotifyWait(j) ==
    /\ state[j] = "wait"
    /\ queue' = Seen(queue, j) /\ running' = Seen(running, j) /\ failed' = Seen(failed, j)

\* Channel.set_pending: back to the queue of its channel, out of the others.
NotifyPending(j) ==
    LET home == Home[j] IN
    /\ state[j] = "pending"
    /\ IF j \in Seen(queue, j)[home]
       THEN queue' = queue /\ running' = running /\ failed' = failed
       ELSE /\ queue' = With(Without(Seen(queue, j), j, Above[home]), j, {home})
            /\ running' = Without(Seen(running, j), j, Above[home])
            /\ failed' = Without(Seen(failed, j), j, Above[home])

\* Channel.set_running: from its channel down to the root, or to the first
\* channel where it is running already.
Climbed(j) ==
    {c \in Above[Home[j]] :
        \A d \in Above[Home[j]] : c \in Above[d] => j \notin Seen(running, j)[d]}

NotifyActive(j) ==
    /\ state[j] = "active"
    /\ queue' = Without(Seen(queue, j), j, Climbed(j))
    /\ running' = With(Seen(running, j), j, Climbed(j))
    /\ failed' = Without(Seen(failed, j), j, Climbed(j))

\* Channel.set_failed: failed in its channel, out of the others.
NotifyFailed(j) ==
    LET home == Home[j] IN
    /\ state[j] = "failed"
    /\ IF j \in Seen(failed, j)[home]
       THEN queue' = queue /\ running' = running /\ failed' = failed
       ELSE /\ queue' = Without(Seen(queue, j), j, Above[home])
            /\ running' = Without(Seen(running, j), j, Above[home])
            /\ failed' = With(Without(Seen(failed, j), j, Above[home]), j, {home})

\* One turn of process_notifications.
ProcessNotification(j) ==
    /\ pc = "notify" /\ j \in notifs
    /\ notifs' = notifs \ {j}
    /\ eta' = IF Known(j) /\ ~Rescheduled(j) THEN eta ELSE [eta EXCEPT ![j] = dbEta[j]]
    /\ \/ NotifyGone(j) \/ NotifyWait(j) \/ NotifyPending(j)
       \/ NotifyActive(j) \/ NotifyFailed(j)
    /\ UNCHANGED <<dbVars, pause, flowed, wakeup, now, pc>>

-----------------------------------------------------------------------------
(* The loop of the runner *)

\* The rows in state s, in the channel c or upstream of it.
JobsIn(c, s) == {j \in Job : state[j] = s /\ c = Home[j]}
JobsUnder(c, s) == {j \in Job : state[j] = s /\ c \in Above[Home[j]]}

\* Mutant: the failed jobs are not loaded.
RunnerStartNoFailed ==
    /\ pc = "down"
    /\ queue' = [c \in Channel |-> JobsIn(c, "pending")]
    /\ running' = [c \in Channel |-> JobsUnder(c, "active")]
    /\ eta' = dbEta
    /\ pc' = "notify"
    /\ UNCHANGED <<dbVars, notifs, failed, pause, flowed, wakeup, now>>

\* initialize_databases: every row that is not done is notified to empty channels.
RunnerStart ==
    /\ pc = "down"
    /\ queue' = [c \in Channel |-> JobsIn(c, "pending")]
    /\ running' = [c \in Channel |-> JobsUnder(c, "active")]
    /\ failed' = [c \in Channel |-> JobsIn(c, "failed")]
    /\ eta' = dbEta
    /\ pc' = "notify"
    /\ UNCHANGED <<dbVars, notifs, pause, flowed, wakeup, now>>

\* Mutant: a new runner goes on with the turn of the old one.
RunnerFailInTurn(crash) ==
    /\ pc # "down"
    /\ queue' = [c \in Channel |-> {}]
    /\ running' = [c \in Channel |-> {}]
    /\ failed' = [c \in Channel |-> {}]
    /\ notifs' = {} /\ wakeup' = 0
    /\ pc' = "down"
    /\ UNCHANGED <<dbVars, eta, pause, flowed, now>>

\* An exception in the loop: remove_db takes every job out of the channels, which
\* keep their pauses.  (A crash of the process also resets the pauses.)
RunnerFail(crash) ==
    /\ pc # "down"
    /\ queue' = [c \in Channel |-> {}]
    /\ running' = [c \in Channel |-> {}]
    /\ failed' = [c \in Channel |-> {}]
    /\ pause' = IF crash THEN [c \in Channel |-> 0] ELSE pause
    /\ notifs' = {} /\ flowed' = {} /\ wakeup' = 0
    /\ pc' = "down"
    /\ UNCHANGED <<dbVars, eta, now>>

NotificationsDrained ==
    /\ pc = "notify" /\ notifs = {}
    /\ pc' = "flow" /\ flowed' = {}
    /\ UNCHANGED <<dbVars, notifs, memVars, wakeup, now>>

\* It is the turn of c in get_jobs_to_run: its children have had theirs.
Turn(c) ==
    /\ pc = "flow" /\ c \notin flowed
    /\ \A d \in Channel \ {Root} : Parent[d] = c => d \in flowed

\* ChannelQueue.pop: the jobs whose eta has come lose it.
EtaReached(c) == eta' = [j \in Job |-> IF j \in Ready(c) THEN 0 ELSE eta[j]]

\* After a job, a channel with a throttle is paused and has ended its turn.
EndTake(c) ==
    IF Throttle[c] = 0
    THEN pause' = pause /\ flowed' = flowed
    ELSE pause' = [pause EXCEPT ![c] = now + Throttle[c]] /\ flowed' = flowed \cup {c}

\* A channel gives a job to its parent.
Take(c, j) ==
    /\ c # Root /\ Turn(c) /\ CanTake(c, j)
    /\ queue' = [queue EXCEPT ![c] = @ \ {j}, ![Parent[c]] = @ \cup {j}]
    /\ running' = [running EXCEPT ![c] = @ \cup {j}]
    /\ EtaReached(c) /\ EndTake(c)
    /\ UNCHANGED <<dbVars, notifs, failed, wakeup, now, pc>>

\* The root channel gives a job to run_jobs: set_job_enqueued, and the request.
RunJob(j) ==
    /\ Turn(Root) /\ CanTake(Root, j)
    /\ queue' = [queue EXCEPT ![Root] = @ \ {j}]
    /\ running' = [running EXCEPT ![Root] = @ \cup {j}]
    /\ EtaReached(Root) /\ EndTake(Root)
    /\ state' = [state EXCEPT ![j] = "active"]
    /\ notifs' = notifs \cup {j}
    /\ UNCHANGED <<dbEta, failed, wakeup, now, pc>>

\* The turn of c ends: it is paused, full, or has nothing to take.
EndTurn(c) ==
    /\ Turn(c) /\ \A j \in Job : ~CanTake(c, j)
    /\ IF Paused(c) THEN pause' = pause ELSE pause' = [pause EXCEPT ![c] = 0]
    /\ IF ~Paused(c) /\ HasCapacity(c) THEN EtaReached(c) ELSE eta' = eta
    /\ flowed' = flowed \cup {c}
    /\ UNCHANGED <<dbVars, notifs, queue, running, failed, wakeup, now, pc>>

\* wait_notification: not at all, or until there is a notification or the time
\* has come (or SELECT_TIMEOUT, when there is no such time).
WaitNotification ==
    /\ pc = "flow" /\ Root \in flowed
    /\ IF notifs # {} THEN pc' = "notify" /\ wakeup' = 0
       ELSE pc' = "wait" /\ \E t \in {0} \cup WakeTimes : WakesAt(t) /\ wakeup' = t
    /\ flowed' = {}
    /\ UNCHANGED <<dbVars, notifs, memVars, now>>

WakeUp ==
    /\ pc = "wait" /\ (notifs # {} \/ wakeup <= now)
    /\ pc' = "notify" /\ wakeup' = 0
    /\ UNCHANGED <<dbVars, notifs, memVars, flowed, now>>

-----------------------------------------------------------------------------
Runner ==
    \/ RunnerStart \/ NotificationsDrained \/ WaitNotification \/ WakeUp
    \/ \E j \in Job : ProcessNotification(j) \/ RunJob(j)
    \/ \E c \in Channel : EndTurn(c) \/ \E j \in Job : Take(c, j)

Next ==
    \/ \E j \in Job, s \in State, e \in Eta : Create(j, s, e) \/ Update(j, s, e)
    \/ Runner \/ Tick \/ \E crash \in BOOLEAN : RunnerFail(crash)

Spec == Init /\ [][Next]_vars

-----------------------------------------------------------------------------
(* Safety *)

Up == pc # "down"

\* Where a job is: in every channel down to the root; in the queue of one, and in those
\* upstream of it; or failed in its own.
Arrived(j) ==
    /\ \A c \in Channel : j \notin queue[c] \cup failed[c]
    /\ \A c \in Channel : j \in running[c] <=> c \in Above[Home[j]]
OnItsWay(j) ==
    /\ \A c \in Channel : j \notin failed[c]
    /\ \E c \in Above[Home[j]] : \A d \in Channel :
        /\ j \in queue[d] <=> d = c
        /\ j \in running[d] <=> d \in Above[Home[j]] \ Above[c]
Blocking(j) ==
    \A c \in Channel : j \notin queue[c] \cup running[c] /\ (j \in failed[c] <=> c = Home[j])

\* The memory of the runner says what the rows say, but for the notifications it
\* has not processed: an active job has a place in every channel down to the
\* root, a pending job is on its way and not arrived, a failed job blocks its
\* channel, and no other job takes a place, but one that waits again for its parents
\* and is still where it was: it is only in one of these three ways.
MemoryInSync ==
    Up => \A j \in Job \ notifs :
        /\ state[j] = "active" => Arrived(j)
        /\ state[j] = "pending" => OnItsWay(j)
        /\ state[j] = "failed" => Blocking(j)
        /\ Known(j) => state[j] \in {"active", "pending", "failed", "wait"}
        /\ Known(j) => Arrived(j) \/ OnItsWay(j) \/ Blocking(j)

\* A channel never has more jobs than its capacity, in the memory of the runner
\* or in the database, although set_running does not look at it.
CapacityKept ==
    \A c \in Channel : Capacity[c] # 0 =>
        /\ Cardinality(running[c]) <= Capacity[c]
        /\ Cardinality(JobsUnder(c, "active")) <= Capacity[c]

\* A job is never executed before its eta, be it postponed while it is running or
\* while it waits in a channel downstream, unless the eta has changed since the
\* runner last looked.
EtaRespected ==
    [][\A j \in Job : RunJob(j) => j \in notifs \/ dbEta[j] <= now]_vars

\* While the runner sleeps no channel could give a job that would reach the root:
\* no pause that ends, and no eta that comes, is slept through.
NoOversleep ==
    (pc = "wait" /\ notifs = {} /\ (wakeup = 0 \/ now < wakeup)) =>
        \A c \in Channel, j \in Job :
            ~(CanTake(c, j) /\ \A a \in Downstream(c) : HasCapacity(a) /\ ~Paused(a))
=============================================================================
