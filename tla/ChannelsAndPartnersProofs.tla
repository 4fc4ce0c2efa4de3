---------------------- MODULE ChannelsAndPartnersProofs ----------------------
(***************************************************************************)
(* Proofs about JobChannels, for every tree of channels, every capacity,   *)
(* throttle and set of jobs: the memory of the runner agrees with the      *)
(* rows, no channel exceeds its capacity, no job is run before its eta and *)
(* no channel that could give a job is slept through.                      *)
(*                                                                         *)
(* Then about Partners, which shares nothing with it, for every set of     *)
(* orders, customers and settings, whatever the orders say and however     *)
(* often users interfere: nothing that a search would find is created      *)
(* twice, a customer keeps one contact, and the addresses of an order are  *)
(* those that it asks for.                                                 *)
(***************************************************************************)
EXTENDS JobChannels, Partners, FiniteSetTheorems, WellFoundedInduction, TLAPS

-----------------------------------------------------------------------------
(* The tree *)

LEMMA Tree ==
    /\ Root \in Channel /\ Above[Root] = {Root}
    /\ \A c \in Channel : c \in Above[c] /\ Root \in Above[c] /\ Above[c] \subseteq Channel
    /\ \A c \in Channel \ {Root} :
        /\ Parent[c] \in Channel
        /\ Above[c] = {c} \cup Above[Parent[c]] /\ c \notin Above[Parent[c]]
    /\ \A c \in Channel : \A a \in Above[c] : Above[a] \subseteq Above[c]
BY TreeAssumption

LEMMA ParentBelow ==
    ASSUME NEW c \in Channel \ {Root}
    PROVE  Parent[c] \in Above[c] /\ Parent[c] \in Channel /\ Parent[c] # c
BY Tree

\* Two channels are not below each other.
LEMMA TreeAcyclic ==
    ASSUME NEW c \in Channel, NEW d \in Above[c], c \in Above[d]
    PROVE  c = d
<1> SUFFICES ASSUME c # d PROVE FALSE
  OBVIOUS
<1>1. c # Root
  BY Tree
<1>2. d \in Above[Parent[c]]
  BY <1>1, Tree
<1> QED
  BY <1>1, <1>2, Tree

\* Among some channels there is one that has none of them downstream.
LEMMA LowestExists ==
    ASSUME NEW S, S \subseteq Channel, S # {}
    PROVE  \E c \in S : Downstream(c) \cap S = {}
<1> DEFINE Depth(c) == Cardinality(Above[c])
           Depths == {Depth(c) : c \in S}
<1>1. \A c \in Channel : IsFiniteSet(Above[c]) /\ Depth(c) \in Nat
  BY Tree, TreeAssumption, FS_Subset, FS_CardinalityType
<1>2. \A c \in Channel, d \in Channel : d \in Downstream(c) => Depth(d) < Depth(c)
  <2> SUFFICES ASSUME NEW c \in Channel, NEW d \in Channel, d \in Downstream(c)
               PROVE  Depth(d) < Depth(c)
    OBVIOUS
  <2>1. Above[d] \subseteq Above[c] /\ c \in Above[c] /\ c \notin Above[d]
    BY Tree, TreeAcyclic DEF Downstream
  <2>2. Depth(d) <= Depth(c) /\ (Depth(d) = Depth(c) => Above[d] = Above[c])
    BY <1>1, <2>1, FS_Subset
  <2> QED
    BY <1>1, <2>1, <2>2
<1>3. Depths \subseteq Nat /\ Depths # {}
  BY <1>1
<1>4. \E x \in Depths : \A y \in Depths : <<y, x>> \notin OpToRel(<, Nat)
  BY <1>3, WFMin, NatLessThanWellFounded, Zenon
<1>5. \E x \in Depths : \A y \in Depths : ~(y < x)
  BY <1>3, <1>4 DEF OpToRel
<1>6. PICK c \in S : \A y \in Depths : ~(y < Depth(c))
  BY <1>5, Zenon
<1>7. \A d \in S : ~(Depth(d) < Depth(c))
  BY <1>6, Zenon
<1> HIDE DEF Depth, Depths
<1>8. \A d \in S : d \notin Downstream(c)
  BY <1>2, <1>7, Zenon
<1> QED
  BY <1>8, Zenon

-----------------------------------------------------------------------------
(* Types *)

Places == [Channel -> SUBSET Job]

LEMMA PlacesKept ==
    ASSUME NEW f \in Places, NEW j \in Job, NEW C
    PROVE  Without(f, j, C) \in Places /\ With(f, j, C) \in Places
BY DEF Places, Without, With

LEMMA WakeTimesType ==
    ASSUME TypeOK
    PROVE  WakeTimes \subseteq Nat
BY JobAssumption DEF TypeOK, WakeTimes, Eta

LEMMA HomeType == \A j \in Job : Home[j] \in Channel /\ Home[j] \in Above[Home[j]]
BY JobAssumption, Tree

LEMMA NotificationTypes ==
    ASSUME TypeOK, NEW j \in Job, ProcessNotification(j)
    PROVE  TypeOK'
<1>1. queue \in Places /\ running \in Places /\ failed \in Places
  BY DEF TypeOK, Places
<1>2. Seen(queue, j) \in Places /\ Seen(running, j) \in Places /\ Seen(failed, j) \in Places
  BY <1>1, PlacesKept DEF Seen
<1>3. queue' \in Places /\ running' \in Places /\ failed' \in Places
  <2>1. CASE NotifyGone(j)
    BY <2>1, <1>1, PlacesKept DEF NotifyGone
  <2>2. CASE NotifyWait(j)
    BY <2>2, <1>2 DEF NotifyWait
  <2>3. CASE NotifyPending(j)
    BY <2>3, <1>1, <1>2, PlacesKept DEF NotifyPending
  <2>4. CASE NotifyActive(j)
    BY <2>4, <1>2, PlacesKept DEF NotifyActive
  <2>5. CASE NotifyFailed(j)
    BY <2>5, <1>1, <1>2, PlacesKept DEF NotifyFailed
  <2> QED
    BY <2>1, <2>2, <2>3, <2>4, <2>5 DEF ProcessNotification
<1>4. eta' \in [Job -> Eta] /\ notifs' \in SUBSET Job
  BY DEF ProcessNotification, TypeOK
<1> QED
  BY <1>3, <1>4 DEF ProcessNotification, TypeOK, dbVars, Places

\* What a turn leaves of the times of the jobs and of the channels.
LEMMA TurnTypes ==
    ASSUME TypeOK, NEW c \in Channel
    PROVE  /\ EtaReached(c) => eta' \in [Job -> Eta]
           /\ EndTake(c) => pause' \in [Channel -> Nat]
<1>1. 0 \in Eta
  BY JobAssumption DEF Eta
<1>2. now + Throttle[c] \in Nat
  BY ConfigAssumption, JobAssumption DEF TypeOK, Eta
<1> QED
  BY <1>1, <1>2 DEF TypeOK, EtaReached, EndTake

LEMMA TypeKept == TypeOK /\ [Next]_vars => TypeOK'
<1> SUFFICES ASSUME TypeOK, [Next]_vars PROVE TypeOK'
  OBVIOUS
<1> USE DEF memVars, dbVars
<1>1. ASSUME NEW j \in Job, NEW s \in State, NEW e \in Eta, Create(j, s, e) \/ Update(j, s, e)
      PROVE  TypeOK'
  BY <1>1 DEF Create, Update, Write, TypeOK
<1>2. CASE RunnerStart
  BY <1>2 DEF RunnerStart, TypeOK, JobsIn, JobsUnder
<1>3. CASE NotificationsDrained
  BY <1>3 DEF NotificationsDrained, TypeOK
<1>4. CASE WaitNotification
  BY <1>4, WakeTimesType DEF WaitNotification, TypeOK
<1>5. CASE WakeUp
  BY <1>5 DEF WakeUp, TypeOK
<1>6. ASSUME NEW j \in Job, RunJob(j)
      PROVE  TypeOK'
  <2>1. pause' \in [Channel -> Nat] /\ eta' \in [Job -> Eta] /\ flowed' \in SUBSET Channel
    BY <1>6, TurnTypes, Tree DEF RunJob, EndTake, TypeOK
  <2>2. queue' \in [Channel -> SUBSET Job] /\ running' \in [Channel -> SUBSET Job]
    BY <1>6 DEF RunJob, TypeOK
  <2>3. state' \in [Job -> State] /\ notifs' \in SUBSET Job
    BY <1>6 DEF RunJob, TypeOK, State
  <2> QED
    BY <1>6, <2>1, <2>2, <2>3 DEF RunJob, Turn, TypeOK
<1>7. ASSUME NEW c \in Channel, EndTurn(c)
      PROVE  TypeOK'
  <2>1. eta' \in [Job -> Eta]
    BY <1>7, TurnTypes DEF EndTurn, TypeOK
  <2>2. pause' \in [Channel -> Nat]
    BY <1>7 DEF EndTurn, TypeOK
  <2> QED
    BY <1>7, <2>1, <2>2 DEF EndTurn, Turn, TypeOK
<1>8. ASSUME NEW c \in Channel, NEW j \in Job, Take(c, j)
      PROVE  TypeOK'
  <2>1. pause' \in [Channel -> Nat] /\ eta' \in [Job -> Eta] /\ flowed' \in SUBSET Channel
    BY <1>8, TurnTypes DEF Take, EndTake, TypeOK
  <2>2. queue' \in [Channel -> SUBSET Job] /\ running' \in [Channel -> SUBSET Job]
    BY <1>8 DEF Take, TypeOK
  <2> QED
    BY <1>8, <2>1, <2>2 DEF Take, Turn, TypeOK
<1>9. CASE Tick
  BY <1>9, JobAssumption DEF Tick, TypeOK, Eta
<1>10. ASSUME NEW crash \in BOOLEAN, RunnerFail(crash)
       PROVE  TypeOK'
  BY <1>10 DEF RunnerFail, TypeOK
<1>11. CASE UNCHANGED vars
  BY <1>11 DEF vars, TypeOK
<1> QED
  BY <1>1, <1>2, <1>3, <1>4, <1>5, <1>6, <1>7, <1>8, <1>9, <1>10, <1>11, NotificationTypes
     DEF Next, Runner

\* Every variable of the runner and of its channels keeps its type.
THEOREM TypeCorrect == Spec => []TypeOK
<1>1. Init => TypeOK
  BY JobAssumption DEF Init, TypeOK, State, Eta
<1> QED
  BY <1>1, TypeKept, PTL DEF Spec

-----------------------------------------------------------------------------
(* The memory of the runner *)

\* Where a job has its places: in the queue of one channel, with a place among the
\* running jobs of all channels upstream of it and of none from it to the root; or among
\* the running jobs of all its channels; or failed in its channel and nowhere else.
PlaceInv(j) ==
    /\ \A c \in Channel :
        /\ j \in queue[c] \cup running[c] => c \in Above[Home[j]]
        /\ j \in failed[c] => c = Home[j]
        /\ j \in queue[c] =>
            /\ \A d \in Above[Home[j]] \ Above[c] : j \in running[d]
            /\ \A d \in Above[c] : j \notin running[d]
    /\ j \in failed[Home[j]] => \A c \in Channel : j \notin queue[c] \cup running[c]
    /\ (\E c \in Channel : j \in running[c]) =>
        (\E c \in Channel : j \in queue[c]) \/ \A c \in Above[Home[j]] : j \in running[c]

\* What the places of a job have to do with its row: an active row keeps its place
\* in all channels even while a notification of it is waiting.
RowInv(j) ==
    /\ Up /\ state[j] = "active" => \A c \in Above[Home[j]] : j \in running[c]
    /\ state[j] = "absent" => ~Known(j)
    /\ ~Up => ~Known(j) /\ j \notin notifs

\* The part of MemoryInSync that is about j.
SyncInv(j) ==
    Up /\ j \notin notifs =>
        /\ state[j] = "pending" => \E c \in Above[Home[j]] : j \in queue[c]
        /\ state[j] = "failed" => j \in failed[Home[j]]
        /\ Known(j) => state[j] \in {"active", "pending", "failed", "wait"}

JobInv(j) == PlaceInv(j) /\ RowInv(j) /\ SyncInv(j)

MemoryInv == \A j \in Job : JobInv(j)

\* The job has the same places.
SamePlaces(j) ==
    \A c \in Channel : /\ j \in queue'[c] <=> j \in queue[c]
                       /\ j \in running'[c] <=> j \in running[c]
                       /\ j \in failed'[c] <=> j \in failed[c]

\* A step that says nothing of a job, unless that it wakes its notification.
LEMMA Unconcerned ==
    ASSUME TypeOK, NEW j \in Job, JobInv(j), SamePlaces(j), state'[j] = state[j], Up' <=> Up,
           j \in notifs <=> j \in notifs'
    PROVE  JobInv(j)'
<1>1. Known(j)' <=> Known(j)
  BY DEF Known, SamePlaces
<1>2. PlaceInv(j)'
  BY HomeType, Tree DEF JobInv, PlaceInv, SamePlaces
<1>3. RowInv(j)'
  BY <1>1, HomeType, Tree DEF JobInv, RowInv, SamePlaces, Up
<1>4. SyncInv(j)'
  BY <1>1, HomeType, Tree DEF JobInv, SyncInv, SamePlaces, Up
<1> QED
  BY <1>2, <1>3, <1>4 DEF JobInv

\* The places of a job that has none, and that has just entered its channel.
Nowhere(j) == \A c \in Channel : j \notin queue'[c] /\ j \notin running'[c] /\ j \notin failed'[c]
Entered(j) ==
    \A c \in Channel : (j \in queue'[c] <=> c = Home[j]) /\ j \notin running'[c] /\ j \notin failed'[c]

LEMMA NewPlaces ==
    ASSUME NEW j \in Job, Nowhere(j) \/ Entered(j) \/ Arrived(j)' \/ Blocking(j)'
    PROVE  PlaceInv(j)'
BY HomeType, Tree DEF PlaceInv, Nowhere, Entered, Arrived, Blocking

\* What Seen shows of another job, and of the job itself.
LEMMA SeenOther ==
    ASSUME NEW f \in Places, NEW j \in Job, NEW i \in Job, i # j, NEW c \in Channel, NEW C
    PROVE  /\ i \in Seen(f, j)[c] <=> i \in f[c]
           /\ i \in Without(f, j, C)[c] <=> i \in f[c]
           /\ i \in With(f, j, C)[c] <=> i \in f[c]
BY DEF Seen, Places, Without, With

LEMMA SeenSelf ==
    ASSUME NEW f \in Places, NEW j \in Job, NEW c \in Channel, NEW C
    PROVE  /\ j \in Seen(f, j)[c] <=> j \in f[c] /\ ~(Rescheduled(j) /\ c \in Above[Home[j]])
           /\ j \in Without(f, j, C)[c] <=> j \in f[c] /\ c \notin C
           /\ j \in With(f, j, C)[c] <=> j \in f[c] \/ c \in C
           /\ Seen(f, j) \in Places
BY PlacesKept DEF Seen, Places, Without, With

\* The same of what the notifications do with what they have seen.
LEMMA MovedOther ==
    ASSUME NEW f \in Places, NEW j \in Job, NEW i \in Job, i # j, NEW c \in Channel, NEW C, NEW D
    PROVE  /\ i \in Without(Seen(f, j), j, C)[c] <=> i \in f[c]
           /\ i \in With(Seen(f, j), j, C)[c] <=> i \in f[c]
           /\ i \in With(Without(Seen(f, j), j, C), j, D)[c] <=> i \in f[c]
<1>1. Seen(f, j) \in Places
  BY PlacesKept DEF Seen
<1>2. Without(Seen(f, j), j, C) \in Places
  BY <1>1, PlacesKept
<1>3. i \in Seen(f, j)[c] <=> i \in f[c]
  BY SeenOther
<1>4. /\ i \in Without(Seen(f, j), j, C)[c] <=> i \in Seen(f, j)[c]
      /\ i \in With(Seen(f, j), j, C)[c] <=> i \in Seen(f, j)[c]
  BY <1>1, SeenOther
<1>5. i \in With(Without(Seen(f, j), j, C), j, D)[c] <=> i \in Without(Seen(f, j), j, C)[c]
  BY <1>2, SeenOther
<1> QED
  BY <1>3, <1>4, <1>5

LEMMA MovedSelf ==
    ASSUME NEW f \in Places, NEW j \in Job, NEW c \in Channel, NEW C
    PROVE  LET stays == j \in f[c] /\ ~(Rescheduled(j) /\ c \in Above[Home[j]])
           IN  /\ j \in Seen(f, j)[c] <=> stays
               /\ j \in Without(Seen(f, j), j, C)[c] <=> stays /\ c \notin C
               /\ j \in With(Seen(f, j), j, C)[c] <=> stays \/ c \in C
<1>1. Seen(f, j) \in Places
  BY PlacesKept DEF Seen
<1>2. j \in Seen(f, j)[c] <=> j \in f[c] /\ ~(Rescheduled(j) /\ c \in Above[Home[j]])
  BY SeenSelf
<1>3. /\ j \in Without(Seen(f, j), j, C)[c] <=> j \in Seen(f, j)[c] /\ c \notin C
      /\ j \in With(Seen(f, j), j, C)[c] <=> j \in Seen(f, j)[c] \/ c \in C
  BY <1>1, SeenSelf
<1> QED
  BY <1>2, <1>3

LEMMA PlacedSelf ==
    ASSUME NEW f \in Places, NEW j \in Job, NEW c \in Channel, NEW C, NEW D
    PROVE  LET stays == j \in f[c] /\ ~(Rescheduled(j) /\ c \in Above[Home[j]])
           IN  j \in With(Without(Seen(f, j), j, C), j, D)[c] <=> (stays /\ c \notin C) \/ c \in D
<1>1. Without(Seen(f, j), j, C) \in Places
  BY PlacesKept DEF Seen
<1>2. j \in With(Without(Seen(f, j), j, C), j, D)[c] <=> j \in Without(Seen(f, j), j, C)[c] \/ c \in D
  BY <1>1, SeenSelf
<1> QED
  BY <1>2, MovedSelf

LEMMA OthersKept ==
    ASSUME TypeOK, NEW j \in Job, ProcessNotification(j), NEW i \in Job, i # j
    PROVE  SamePlaces(i)
<1>1. queue \in Places /\ running \in Places /\ failed \in Places
  BY DEF TypeOK, Places
<1>2. Seen(queue, j) \in Places /\ Seen(running, j) \in Places /\ Seen(failed, j) \in Places
  BY <1>1, PlacesKept DEF Seen
<1>3. Without(Seen(queue, j), j, Above[Home[j]]) \in Places
      /\ Without(Seen(running, j), j, Above[Home[j]]) \in Places
      /\ Without(Seen(failed, j), j, Above[Home[j]]) \in Places
  BY <1>2, PlacesKept
<1>4. CASE NotifyGone(j)
  BY <1>4, <1>1, SeenOther DEF NotifyGone, SamePlaces
<1>5. CASE NotifyWait(j)
  BY <1>5, <1>1, MovedOther, SeenOther DEF NotifyWait, SamePlaces
<1>6. CASE NotifyPending(j)
  <2> DEFINE home == Home[j]
  <2>1. CASE j \in Seen(queue, j)[home]
    BY <1>6, <2>1 DEF NotifyPending, SamePlaces
  <2>2. CASE j \notin Seen(queue, j)[home]
    <3>1. /\ queue' = With(Without(Seen(queue, j), j, Above[home]), j, {home})
          /\ running' = Without(Seen(running, j), j, Above[home])
          /\ failed' = Without(Seen(failed, j), j, Above[home])
      BY <1>6, <2>2 DEF NotifyPending
    <3> QED
      BY <3>1, <1>1, MovedOther DEF SamePlaces
  <2> QED
    BY <2>1, <2>2
<1>7. CASE NotifyActive(j)
  BY <1>7, <1>1, <1>2, SeenOther DEF NotifyActive, SamePlaces
<1>8. CASE NotifyFailed(j)
  <2> DEFINE home == Home[j]
  <2>1. CASE j \in Seen(failed, j)[home]
    BY <1>8, <2>1 DEF NotifyFailed, SamePlaces
  <2>2. CASE j \notin Seen(failed, j)[home]
    <3>1. /\ queue' = Without(Seen(queue, j), j, Above[home])
          /\ running' = Without(Seen(running, j), j, Above[home])
          /\ failed' = With(Without(Seen(failed, j), j, Above[home]), j, {home})
      BY <1>8, <2>2 DEF NotifyFailed
    <3> QED
      BY <3>1, <1>1, MovedOther DEF SamePlaces
  <2> QED
    BY <2>1, <2>2
<1> QED
  BY <1>4, <1>5, <1>6, <1>7, <1>8 DEF ProcessNotification

\* What the notification of a job does to its places.
LEMMA SelfNotified ==
    ASSUME TypeOK, NEW j \in Job, JobInv(j), Up, ProcessNotification(j)
    PROVE  \/ state[j] \in {"absent", "gone", "wait"} /\ Nowhere(j)
           \/ state[j] = "wait" /\ SamePlaces(j)
           \/ state[j] = "pending" /\ (Entered(j) \/ (SamePlaces(j) /\ j \in queue'[Home[j]]))
           \/ state[j] = "active" /\ Arrived(j)'
           \/ state[j] = "failed" /\ Blocking(j)'
<1> DEFINE home == Home[j]
<1>1. queue \in Places /\ running \in Places /\ failed \in Places
  BY DEF TypeOK, Places
<1>2. Seen(queue, j) \in Places /\ Seen(running, j) \in Places /\ Seen(failed, j) \in Places
  BY <1>1, PlacesKept DEF Seen
<1>3. Without(Seen(queue, j), j, Above[home]) \in Places
      /\ Without(Seen(running, j), j, Above[home]) \in Places
      /\ Without(Seen(failed, j), j, Above[home]) \in Places
  BY <1>2, PlacesKept
<1>4. home \in Channel /\ home \in Above[home]
  BY HomeType
<1>5. \A c \in Channel : /\ j \in queue[c] => c \in Above[home]
                         /\ j \in running[c] => c \in Above[home]
                         /\ j \in failed[c] => c = home
  BY DEF JobInv, PlaceInv
<1>6. CASE NotifyGone(j)
  <2>1. \A c \in Channel : j \notin queue'[c] /\ j \notin running'[c] /\ j \notin failed'[c]
    BY <1>1, <1>4, <1>5, <1>6, SeenSelf DEF NotifyGone
  <2> QED
    BY <1>6, <2>1 DEF NotifyGone, Nowhere
<1>7. CASE NotifyWait(j)
  <2>1. CASE Rescheduled(j)
    <3>1. \A c \in Channel : j \notin queue'[c] /\ j \notin running'[c] /\ j \notin failed'[c]
      BY <1>1, <1>4, <1>5, <1>7, <2>1, SeenSelf DEF NotifyWait
    <3> QED
      BY <1>7, <3>1 DEF NotifyWait, Nowhere
  <2>2. CASE ~Rescheduled(j)
    BY <1>1, <1>7, <2>2, SeenSelf DEF NotifyWait, SamePlaces
  <2> QED
    BY <2>1, <2>2
<1>8. CASE NotifyPending(j)
  <2>1. CASE j \in Seen(queue, j)[home]
    BY <1>1, <1>4, <1>8, <2>1, SeenSelf DEF NotifyPending, SamePlaces
  <2>2. CASE j \notin Seen(queue, j)[home]
    <3>1. /\ queue' = With(Without(Seen(queue, j), j, Above[home]), j, {home})
          /\ running' = Without(Seen(running, j), j, Above[home])
          /\ failed' = Without(Seen(failed, j), j, Above[home])
      BY <1>8, <2>2 DEF NotifyPending
    <3>2. \A c \in Channel : (j \in queue'[c] <=> c = home) /\ j \notin running'[c] /\ j \notin failed'[c]
      <4>1. \A c \in Channel : j \in queue'[c] <=> c = home
        BY <1>1, <1>5, <3>1, PlacedSelf
      <4>2. \A c \in Channel : j \notin running'[c] /\ j \notin failed'[c]
        BY <1>1, <1>4, <1>5, <3>1, MovedSelf
      <4> QED
        BY <4>1, <4>2
    <3> QED
      BY <1>8, <3>2 DEF NotifyPending, Entered
  <2> QED
    BY <2>1, <2>2
<1>9. CASE NotifyActive(j)
  <2>1. state[j] = "active" /\ \A c \in Above[home] : j \in running[c]
    BY <1>9 DEF NotifyActive, JobInv, RowInv
  <2>2. \A c \in Channel : j \notin queue[c] /\ j \notin failed[c] /\ (j \in running[c] <=> c \in Above[home])
    BY <1>4, <1>5, <2>1, Tree DEF JobInv, PlaceInv
  <2>3. CASE Rescheduled(j)
    <3>1. Climbed(j) = Above[home]
      BY <1>1, <2>3, SeenSelf, Tree, <1>4 DEF Climbed
    <3>2. \A c \in Channel : j \notin queue'[c] /\ (j \in running'[c] <=> c \in Above[home]) /\ j \notin failed'[c]
      BY <1>1, <1>9, <2>2, <3>1, MovedSelf DEF NotifyActive
    <3> QED
      BY <2>1, <3>2 DEF Arrived
  <2>4. CASE ~Rescheduled(j)
    <3>1. Climbed(j) = {}
      BY <1>4, <2>1, <2>4 DEF Climbed, Seen
    <3>2. \A c \in Channel : j \notin queue'[c] /\ (j \in running'[c] <=> c \in Above[home]) /\ j \notin failed'[c]
      BY <1>1, <1>9, <2>2, <2>4, <3>1, MovedSelf DEF NotifyActive
    <3> QED
      BY <2>1, <3>2 DEF Arrived
  <2> QED
    BY <2>3, <2>4
<1>10. CASE NotifyFailed(j)
  <2>1. CASE j \in Seen(failed, j)[home]
    <3>1. j \in failed[home] /\ queue' = queue /\ running' = running /\ failed' = failed
      BY <1>1, <1>4, <1>10, <2>1, SeenSelf DEF NotifyFailed
    <3>2. \A c \in Channel : j \notin queue'[c] /\ j \notin running'[c] /\ (j \in failed'[c] <=> c = home)
      BY <1>5, <3>1 DEF JobInv, PlaceInv
    <3> QED
      BY <1>10, <3>2 DEF NotifyFailed, Blocking
  <2>2. CASE j \notin Seen(failed, j)[home]
    <3>1. /\ queue' = Without(Seen(queue, j), j, Above[home])
          /\ running' = Without(Seen(running, j), j, Above[home])
          /\ failed' = With(Without(Seen(failed, j), j, Above[home]), j, {home})
      BY <1>10, <2>2 DEF NotifyFailed
    <3>2. \A c \in Channel : j \notin queue'[c] /\ j \notin running'[c] /\ (j \in failed'[c] <=> c = home)
      BY <1>1, <1>5, <3>1, MovedSelf, PlacedSelf
    <3> QED
      BY <1>10, <3>2 DEF NotifyFailed, Blocking
  <2> QED
    BY <2>1, <2>2
<1> QED
  BY <1>6, <1>7, <1>8, <1>9, <1>10 DEF ProcessNotification

LEMMA NotificationKeepsMemory ==
    ASSUME TypeOK, MemoryInv, NEW j \in Job, ProcessNotification(j)
    PROVE  MemoryInv'
<1>1. Up /\ Up' /\ state' = state /\ notifs' = notifs \ {j}
  BY DEF ProcessNotification, Up, dbVars
<1>2. ASSUME NEW i \in Job, i # j PROVE JobInv(i)'
  BY <1>1, <1>2, OthersKept, Unconcerned DEF MemoryInv
<1>3. JobInv(j)'
  <2>1. JobInv(j)
    BY DEF MemoryInv
  <2>2. CASE state[j] \in {"absent", "gone", "wait"} /\ Nowhere(j)
    <3>1. PlaceInv(j)'
      BY <2>2, NewPlaces
    <3> QED
      BY <1>1, <2>2, <3>1, HomeType DEF Nowhere, JobInv, RowInv, SyncInv, Known
  <2>3. CASE state[j] = "pending" /\ Entered(j)
    <3>1. PlaceInv(j)'
      BY <2>3, NewPlaces
    <3> QED
      BY <1>1, <2>3, <3>1, HomeType DEF Entered, JobInv, RowInv, SyncInv, Known
  <2>4. CASE state[j] = "pending" /\ SamePlaces(j) /\ j \in queue'[Home[j]]
    <3>1. PlaceInv(j)'
      BY <2>1, <2>4, HomeType, Tree DEF JobInv, PlaceInv, SamePlaces
    <3>2. j \notin failed'[Home[j]]
      BY <3>1, <2>4, HomeType DEF PlaceInv
    <3> QED
      BY <1>1, <2>4, <3>1, <3>2, HomeType DEF JobInv, RowInv, SyncInv, Known
  <2>5. CASE state[j] = "active" /\ Arrived(j)'
    <3>1. PlaceInv(j)'
      BY <2>5, NewPlaces
    <3> QED
      BY <1>1, <2>5, <3>1, HomeType, Tree DEF Arrived, JobInv, RowInv, SyncInv, Known
  <2>6. CASE state[j] = "failed" /\ Blocking(j)'
    <3>1. PlaceInv(j)'
      BY <2>6, NewPlaces
    <3> QED
      BY <1>1, <2>6, <3>1, HomeType DEF Blocking, JobInv, RowInv, SyncInv, Known
  <2>7. CASE state[j] = "wait" /\ SamePlaces(j)
    <3>1. PlaceInv(j)'
      BY <2>1, <2>7, HomeType, Tree DEF JobInv, PlaceInv, SamePlaces
    <3> QED
      BY <1>1, <2>7, <3>1 DEF JobInv, RowInv, SyncInv
  <2> QED
    BY <1>1, <2>1, <2>2, <2>3, <2>4, <2>5, <2>6, <2>7, SelfNotified
<1> QED
  BY <1>2, <1>3 DEF MemoryInv

\* A job has one queue.
LEMMA OneQueue ==
    ASSUME NEW j \in Job, PlaceInv(j), NEW c \in Channel, NEW d \in Channel, j \in queue[c], j \in queue[d]
    PROVE  c = d
<1>1. c \in Above[Home[j]] /\ d \in Above[Home[j]]
  BY DEF PlaceInv
<1>2. c \in Above[d] /\ d \in Above[c]
  BY <1>1, Tree DEF PlaceInv
<1> QED
  BY <1>2, TreeAcyclic

LEMMA TakeKeepsMemory ==
    ASSUME TypeOK, MemoryInv, NEW c \in Channel, NEW j \in Job, Take(c, j)
    PROVE  MemoryInv'
<1> DEFINE home == Home[j]
           p == Parent[c]
<1>1. Up /\ Up' /\ state' = state /\ notifs' = notifs /\ failed' = failed
  BY DEF Take, Turn, Up, dbVars
<1>2. c \in Channel \ {Root} /\ j \in queue[c] /\ p \in Channel /\ p # c
  BY ParentBelow DEF Take, CanTake, Pops, Ready
<1>3. \A d \in Channel : /\ queue'[d] = IF d = c THEN queue[c] \ {j} ELSE IF d = p THEN queue[p] \cup {j} ELSE queue[d]
                         /\ running'[d] = IF d = c THEN running[c] \cup {j} ELSE running[d]
  BY <1>2 DEF Take, TypeOK
<1>4. ASSUME NEW i \in Job, i # j PROVE JobInv(i)'
  <2>1. SamePlaces(i)
    BY <1>1, <1>3, <1>4 DEF SamePlaces
  <2> QED
    BY <1>1, <1>4, <2>1, Unconcerned DEF MemoryInv
<1>5. PlaceInv(j) /\ RowInv(j) /\ SyncInv(j)
  BY DEF MemoryInv, JobInv
<1>6. \A d \in Channel : j \in queue'[d] <=> d = p
  BY <1>2, <1>3, <1>5, OneQueue
<1>7. c \in Above[home] /\ p \in Above[home] /\ Above[c] = {c} \cup Above[p] /\ c \notin Above[p] /\ p \in Above[p]
  BY <1>2, <1>5, HomeType, Tree DEF PlaceInv
<1>8. j \notin failed[home]
  BY <1>2, <1>5 DEF PlaceInv
<1>9. PlaceInv(j)'
  <2>1. \A d \in Channel : /\ j \in queue'[d] \cup running'[d] => d \in Above[home]
                           /\ j \in failed'[d] => d = home
    BY <1>1, <1>3, <1>5, <1>6, <1>7 DEF PlaceInv
  <2>2. \A d \in Above[home] \ Above[p] : j \in running'[d]
    BY <1>2, <1>3, <1>5, <1>7, HomeType, Tree DEF PlaceInv
  <2>3. \A d \in Above[p] : j \notin running'[d]
    BY <1>2, <1>3, <1>5, <1>7, Tree DEF PlaceInv
  <2>4. \A d \in Channel : j \notin failed'[d]
    BY <1>1, <1>5, <1>8 DEF PlaceInv
  <2>5. j \in queue'[p]
    BY <1>2, <1>6
  <2> QED
    BY <1>2, <1>6, <2>1, <2>2, <2>3, <2>4, <2>5, HomeType DEF PlaceInv
<1>10. Known(j) /\ state[j] # "active"
  BY <1>2, <1>5, <1>7, Tree DEF Known, PlaceInv, RowInv
<1>11. RowInv(j)' /\ SyncInv(j)'
  BY <1>1, <1>2, <1>5, <1>6, <1>7, <1>8, <1>10 DEF RowInv, SyncInv
<1> QED
  BY <1>4, <1>9, <1>11 DEF MemoryInv, JobInv

LEMMA RunKeepsMemory ==
    ASSUME TypeOK, MemoryInv, NEW j \in Job, RunJob(j)
    PROVE  /\ MemoryInv' /\ Up
           /\ \A c \in Above[Home[j]] \ {Root} : j \in running[c]
<1> DEFINE home == Home[j]
<1>1. Up /\ Up' /\ state' = [state EXCEPT ![j] = "active"] /\ notifs' = notifs \cup {j} /\ failed' = failed
  BY DEF RunJob, Turn, Up
<1>2. j \in queue[Root] /\ Root \in Channel
  BY Tree DEF RunJob, CanTake, Pops, Ready
<1>3. \A d \in Channel : /\ queue'[d] = IF d = Root THEN queue[Root] \ {j} ELSE queue[d]
                         /\ running'[d] = IF d = Root THEN running[Root] \cup {j} ELSE running[d]
  BY <1>2 DEF RunJob, TypeOK
<1>4. ASSUME NEW i \in Job, i # j PROVE JobInv(i)'
  <2>1. SamePlaces(i)
    BY <1>1, <1>3, <1>4 DEF SamePlaces
  <2>2. state'[i] = state[i]
    BY <1>1, <1>4 DEF TypeOK
  <2> QED
    BY <1>1, <1>4, <2>1, <2>2, Unconcerned DEF MemoryInv
<1>5. PlaceInv(j) /\ RowInv(j)
  BY DEF MemoryInv, JobInv
<1>6. \A c \in Above[home] \ {Root} : j \in running[c]
  BY <1>2, <1>5, Tree DEF PlaceInv
<1>7. Arrived(j)'
  <2>1. \A d \in Channel : j \notin queue'[d]
    BY <1>2, <1>3, <1>5, OneQueue
  <2>2. \A d \in Channel : j \in running'[d] <=> d \in Above[home]
    BY <1>2, <1>3, <1>5, <1>6, HomeType, Tree DEF PlaceInv
  <2>3. \A d \in Channel : j \notin failed'[d]
    BY <1>1, <1>2, <1>5 DEF PlaceInv
  <2> QED
    BY <2>1, <2>2, <2>3 DEF Arrived
<1>8. PlaceInv(j)'
  BY <1>7, NewPlaces
<1>9. state'[j] = "active"
  BY <1>1 DEF TypeOK
<1>10. RowInv(j)' /\ SyncInv(j)'
  BY <1>1, <1>7, <1>9, HomeType, Tree DEF RowInv, SyncInv, Arrived
<1> QED
  BY <1>1, <1>4, <1>6, <1>8, <1>10 DEF MemoryInv, JobInv

LEMMA WriteKeepsMemory ==
    ASSUME TypeOK, MemoryInv, NEW j \in Job, NEW s \in State, NEW e \in Eta,
           Create(j, s, e) \/ Update(j, s, e)
    PROVE  MemoryInv'
<1>1. /\ state' = [state EXCEPT ![j] = s] /\ UNCHANGED <<queue, running, failed>>
      /\ notifs' = (IF Up THEN notifs \cup {j} ELSE notifs) /\ (Up' <=> Up)
  BY DEF Create, Update, Write, Up, memVars
<1>2. \A i \in Job : SamePlaces(i) /\ (Known(i)' <=> Known(i))
  BY <1>1 DEF SamePlaces, Known
<1>3. ASSUME NEW i \in Job, i # j PROVE JobInv(i)'
  <2>1. state'[i] = state[i] /\ (i \in notifs' <=> i \in notifs)
    BY <1>1, <1>3 DEF TypeOK
  <2> QED
    BY <1>1, <1>2, <2>1, Unconcerned DEF MemoryInv
<1>4. PlaceInv(j) /\ RowInv(j) /\ state'[j] = s
  BY <1>1 DEF MemoryInv, JobInv, TypeOK
<1>5. PlaceInv(j)'
  BY <1>1, <1>4 DEF PlaceInv
<1>6. (s = "active" => state[j] = "active") /\ s # "absent"
  BY <1>4 DEF Create, Update, RowInv
<1>7. RowInv(j)' /\ SyncInv(j)'
  BY <1>1, <1>2, <1>4, <1>6 DEF RowInv, SyncInv
<1> QED
  BY <1>3, <1>5, <1>7 DEF MemoryInv, JobInv

LEMMA StartKeepsMemory ==
    ASSUME TypeOK, MemoryInv, RunnerStart
    PROVE  MemoryInv'
<1> SUFFICES ASSUME NEW j \in Job PROVE JobInv(j)'
  BY DEF MemoryInv
<1>1. state' = state /\ notifs' = notifs /\ Up' /\ ~Up
  BY DEF RunnerStart, Up, dbVars
<1>2. \A c \in Channel : /\ j \in queue'[c] <=> state[j] = "pending" /\ c = Home[j]
                         /\ j \in running'[c] <=> state[j] = "active" /\ c \in Above[Home[j]]
                         /\ j \in failed'[c] <=> state[j] = "failed" /\ c = Home[j]
  BY DEF RunnerStart, JobsIn, JobsUnder
<1>3. PlaceInv(j)'
  BY <1>2, HomeType, Tree DEF PlaceInv
<1>4. Known(j)' => state[j] \in {"active", "pending", "failed"}
  BY <1>2 DEF Known
<1>5. RowInv(j)' /\ SyncInv(j)'
  BY <1>1, <1>2, <1>4, HomeType, Tree DEF RowInv, SyncInv
<1> QED
  BY <1>3, <1>5 DEF JobInv

\* The memory of a runner that is down is empty.
LEMMA FailKeepsMemory ==
    ASSUME TypeOK, NEW crash \in BOOLEAN, RunnerFail(crash)
    PROVE  MemoryInv'
<1>1. notifs' = {} /\ ~Up' /\ \A j \in Job : Nowhere(j)
  BY DEF RunnerFail, Up, Nowhere
<1>2. \A j \in Job : PlaceInv(j)' /\ ~Known(j)'
  BY <1>1, NewPlaces DEF Known, Nowhere
<1> QED
  BY <1>1, <1>2 DEF MemoryInv, JobInv, RowInv, SyncInv

\* The other steps leave the rows, the notifications and the places as they are.
Aside == UNCHANGED <<state, notifs, queue, running, failed>> /\ (Up' <=> Up)

LEMMA AsideKeepsMemory == TypeOK /\ MemoryInv /\ Aside => MemoryInv'
<1> SUFFICES ASSUME TypeOK, MemoryInv, Aside, NEW j \in Job PROVE JobInv(j)'
  BY DEF MemoryInv
<1>1. SamePlaces(j) /\ state'[j] = state[j] /\ (j \in notifs <=> j \in notifs')
  BY DEF Aside, SamePlaces
<1> QED
  BY <1>1, Unconcerned DEF MemoryInv, Aside

LEMMA AsideSteps ==
    ASSUME \/ Tick \/ NotificationsDrained \/ WaitNotification \/ WakeUp
           \/ (\E c \in Channel : EndTurn(c)) \/ UNCHANGED vars
    PROVE  Aside
BY DEF Tick, NotificationsDrained, WaitNotification, WakeUp, EndTurn, Turn, Aside, Up, dbVars, memVars, vars

LEMMA MemoryKept == TypeOK /\ MemoryInv /\ [Next]_vars => MemoryInv'
<1> SUFFICES ASSUME TypeOK, MemoryInv, [Next]_vars PROVE MemoryInv'
  OBVIOUS
<1>1. ASSUME Aside PROVE MemoryInv'
  BY <1>1, AsideKeepsMemory
<1> QED
  BY <1>1, AsideSteps, WriteKeepsMemory, StartKeepsMemory, FailKeepsMemory, NotificationKeepsMemory,
     TakeKeepsMemory, RunKeepsMemory DEF Next, Runner

LEMMA MemoryCorrect == Spec => []MemoryInv
<1>1. Init => MemoryInv
  BY DEF Init, MemoryInv, JobInv, PlaceInv, RowInv, SyncInv, Known, Up
<1> QED
  BY <1>1, MemoryKept, TypeCorrect, PTL DEF Spec

\* The three shapes that the places of a job have.
LEMMA ShapesAre ==
    ASSUME NEW j \in Job, PlaceInv(j)
    PROVE  /\ (\E c \in Channel : j \in queue[c]) => OnItsWay(j)
           /\ (\A c \in Above[Home[j]] : j \in running[c]) => Arrived(j)
           /\ (\E c \in Channel : j \in failed[c]) => Blocking(j)
           /\ (\E c \in Channel : j \in running[c]) => OnItsWay(j) \/ Arrived(j)
<1>1. ASSUME NEW c \in Channel, j \in queue[c] PROVE OnItsWay(j)
  <2>1. c \in Above[Home[j]] /\ \A d \in Channel : j \in queue[d] <=> d = c
    BY <1>1, OneQueue DEF PlaceInv
  <2>2. \A d \in Channel : j \in running[d] <=> d \in Above[Home[j]] \ Above[c]
    BY <1>1 DEF PlaceInv
  <2>3. \A d \in Channel : j \notin failed[d]
    BY <1>1 DEF PlaceInv
  <2> QED
    BY <2>1, <2>2, <2>3 DEF OnItsWay
<1>2. ASSUME \A c \in Above[Home[j]] : j \in running[c] PROVE Arrived(j)
  <2>1. \A c \in Channel : j \in running[c] <=> c \in Above[Home[j]]
    BY <1>2 DEF PlaceInv
  <2>2. \A c \in Channel : j \notin queue[c] /\ j \notin failed[c]
    BY <1>2, HomeType, Tree DEF PlaceInv
  <2> QED
    BY <2>1, <2>2 DEF Arrived
<1>3. ASSUME NEW c \in Channel, j \in failed[c] PROVE Blocking(j)
  BY <1>3, HomeType DEF PlaceInv, Blocking
<1> QED
  BY <1>1, <1>2, <1>3 DEF PlaceInv

\* The memory of the runner says what the rows say, but for the notifications it has
\* not processed, for every tree of channels, whatever handlers and users do to the
\* rows and however often the runner fails and starts again.
THEOREM MemorySynchronised == Spec => []MemoryInSync
<1>1. ASSUME MemoryInv PROVE MemoryInSync
  <2> SUFFICES ASSUME Up, NEW j \in Job \ notifs
               PROVE  /\ state[j] = "active" => Arrived(j)
                      /\ state[j] = "pending" => OnItsWay(j)
                      /\ state[j] = "failed" => Blocking(j)
                      /\ Known(j) => state[j] \in {"active", "pending", "failed", "wait"}
                      /\ Known(j) => Arrived(j) \/ OnItsWay(j) \/ Blocking(j)
    BY DEF MemoryInSync
  <2>1. PlaceInv(j) /\ RowInv(j) /\ SyncInv(j)
    BY <1>1 DEF MemoryInv, JobInv
  <2>2. Known(j) => Arrived(j) \/ OnItsWay(j) \/ Blocking(j)
    BY <2>1, ShapesAre DEF Known
  <2>3. state[j] = "active" => Arrived(j)
    BY <2>1, ShapesAre DEF RowInv
  <2>4. state[j] = "pending" => OnItsWay(j)
    BY <2>1, ShapesAre, HomeType, Tree DEF SyncInv
  <2>5. state[j] = "failed" => Blocking(j)
    BY <2>1, ShapesAre, HomeType DEF SyncInv
  <2>6. Known(j) => state[j] \in {"active", "pending", "failed", "wait"}
    BY <2>1 DEF SyncInv
  <2> QED
    BY <2>2, <2>3, <2>4, <2>5, <2>6
<1> QED
  BY <1>1, MemoryCorrect, PTL

-----------------------------------------------------------------------------
(* Capacity *)

LEMMA JobsFinite ==
    ASSUME NEW S, S \subseteq Job
    PROVE  IsFiniteSet(S) /\ Cardinality(S) \in Nat
BY JobAssumption, FS_Subset, FS_CardinalityType

\* A set of jobs that does not grow stays within a bound, and one that has less
\* than the bound has room for a job.
LEMMA StaysWithin ==
    ASSUME NEW S, NEW T, T \subseteq Job, S \subseteq T, NEW n \in Nat, Cardinality(T) <= n
    PROVE  Cardinality(S) <= n
<1>1. IsFiniteSet(T) /\ Cardinality(T) \in Nat /\ Cardinality(S) \in Nat
  BY JobsFinite
<1>2. Cardinality(S) <= Cardinality(T)
  BY <1>1, FS_Subset
<1> QED
  BY <1>1, <1>2

LEMMA RoomForOne ==
    ASSUME NEW S, S \subseteq Job, NEW j \in Job, NEW n \in Nat, Cardinality(S) < n
    PROVE  Cardinality(S \cup {j}) <= n
<1>1. IsFiniteSet(S) /\ Cardinality(S) \in Nat
  BY JobsFinite
<1>2. Cardinality(S \cup {j}) = (IF j \in S THEN Cardinality(S) ELSE Cardinality(S) + 1)
  BY <1>1, FS_AddElement
<1> QED
  BY <1>1, <1>2

\* A step after which no channel has more jobs than before, in memory or in the
\* database.
LEMMA NoneGrows ==
    ASSUME TypeOK, CapacityKept,
           \A c \in Channel : running'[c] \subseteq running[c],
           \A j \in Job : state'[j] = "active" => state[j] = "active"
    PROVE  CapacityKept'
<1> SUFFICES ASSUME NEW c \in Channel, Capacity[c] # 0
             PROVE  /\ Cardinality(running'[c]) <= Capacity[c]
                    /\ Cardinality(JobsUnder(c, "active")') <= Capacity[c]
  BY DEF CapacityKept
<1>1. Capacity[c] \in Nat /\ running[c] \subseteq Job /\ JobsUnder(c, "active") \subseteq Job
  BY ConfigAssumption DEF TypeOK, JobsUnder
<1>2. running'[c] \subseteq running[c] /\ JobsUnder(c, "active")' \subseteq JobsUnder(c, "active")
  BY DEF JobsUnder
<1> QED
  BY <1>1, <1>2, StaysWithin DEF CapacityKept

LEMMA CapacityStays == TypeOK /\ TypeOK' /\ MemoryInv /\ MemoryInv' /\ CapacityKept /\ [Next]_vars => CapacityKept'
<1> SUFFICES ASSUME TypeOK, TypeOK', MemoryInv, MemoryInv', CapacityKept, [Next]_vars PROVE CapacityKept'
  OBVIOUS
<1>1. ASSUME Aside PROVE CapacityKept'
  BY <1>1, NoneGrows DEF Aside
<1>2. ASSUME NEW j \in Job, NEW s \in State, NEW e \in Eta, Create(j, s, e) \/ Update(j, s, e)
      PROVE  CapacityKept'
  <2>1. running' = running /\ \A i \in Job : state'[i] = "active" => state[i] = "active"
    BY <1>2 DEF Create, Update, Write, memVars, TypeOK
  <2> QED
    BY <2>1, NoneGrows
<1>3. CASE RunnerStart
  <2>1. state' = state /\ \A c \in Channel : running'[c] = JobsUnder(c, "active")
    BY <1>3 DEF RunnerStart, dbVars
  <2>2. \A c \in Channel : JobsUnder(c, "active")' = JobsUnder(c, "active")
    BY <2>1 DEF JobsUnder
  <2> QED
    BY <2>1, <2>2 DEF CapacityKept
<1>4. ASSUME NEW crash \in BOOLEAN, RunnerFail(crash)
      PROVE  CapacityKept'
  <2>1. state' = state /\ \A c \in Channel : running'[c] = {}
    BY <1>4 DEF RunnerFail, dbVars
  <2> QED
    BY <2>1, NoneGrows
<1>5. ASSUME NEW j \in Job, ProcessNotification(j)
      PROVE  CapacityKept'
  <2>1. state' = state /\ Up
    BY <1>5 DEF ProcessNotification, dbVars, Up
  <2>2. \A c \in Channel, i \in Job : i # j => (i \in running'[c] <=> i \in running[c])
    BY <1>5, OthersKept DEF SamePlaces
  <2>3. \A c \in Channel : j \in running'[c] => j \in running[c]
    BY <1>5, <2>1, SelfNotified DEF MemoryInv, JobInv, RowInv, Nowhere, Entered, SamePlaces, Arrived, Blocking
  <2>4. \A c \in Channel : running'[c] \subseteq Job
    BY DEF TypeOK
  <2> QED
    BY <2>1, <2>2, <2>3, <2>4, NoneGrows
<1>6. ASSUME NEW d \in Channel, NEW j \in Job, Take(d, j)
      PROVE  CapacityKept'
  <2>1. state' = state /\ \A c \in Channel : running'[c] = IF c = d THEN running[d] \cup {j} ELSE running[c]
    BY <1>6 DEF Take, dbVars, TypeOK
  <2>2. Capacity[d] # 0 => Cardinality(running[d]) < Capacity[d]
    BY <1>6 DEF Take, CanTake, HasCapacity
  <2>3. Capacity[d] # 0 => Cardinality(running'[d]) <= Capacity[d]
    BY <2>1, <2>2, RoomForOne, ConfigAssumption DEF TypeOK
  <2>4. \A c \in Channel : JobsUnder(c, "active")' = JobsUnder(c, "active")
    BY <2>1 DEF JobsUnder
  <2> QED
    BY <2>1, <2>3, <2>4 DEF CapacityKept
<1>7. ASSUME NEW j \in Job, RunJob(j)
      PROVE  CapacityKept'
  <2>1. \A c \in Channel : running'[c] = IF c = Root THEN running[Root] \cup {j} ELSE running[c]
    BY <1>7, Tree DEF RunJob, TypeOK
  <2>2. Capacity[Root] # 0 => Cardinality(running[Root]) < Capacity[Root]
    BY <1>7 DEF RunJob, CanTake, HasCapacity
  <2>3. \A c \in Channel : Capacity[c] # 0 => Cardinality(running'[c]) <= Capacity[c]
    <3>1. Capacity[Root] # 0 => Cardinality(running'[Root]) <= Capacity[Root]
      <4>1. Capacity[Root] \in Nat /\ running[Root] \in SUBSET Job /\ running'[Root] = running[Root] \cup {j}
        BY <2>1, ConfigAssumption, Tree DEF TypeOK
      <4> QED
        BY <2>2, <4>1, RoomForOne
    <3> QED
      BY <2>1, <3>1 DEF CapacityKept
  <2>4. \A c \in Channel : JobsUnder(c, "active")' \subseteq running'[c]
    BY <1>7 DEF RunJob, Turn, Up, MemoryInv, JobInv, RowInv, JobsUnder
  <2>5. \A c \in Channel : running'[c] \subseteq Job /\ Capacity[c] \in Nat
    BY ConfigAssumption DEF TypeOK
  <2> QED
    BY <2>3, <2>4, <2>5, StaysWithin DEF CapacityKept
<1> QED
  BY <1>1, <1>2, <1>3, <1>4, <1>5, <1>6, <1>7, AsideSteps DEF Next, Runner

\* No channel ever has more jobs than its capacity, in the memory of the runner or in
\* the database, for every tree and every capacity, although set_running gives a job
\* its places without a look at them.
THEOREM CapacityHolds == Spec => []CapacityKept
<1>1. Init => CapacityKept
  <2> SUFFICES ASSUME Init, NEW c \in Channel
               PROVE  running[c] = {} /\ JobsUnder(c, "active") = {}
    BY ConfigAssumption, FS_EmptySet DEF CapacityKept
  <2> QED
    BY DEF Init, JobsUnder
<1> QED
  BY <1>1, CapacityStays, TypeCorrect, MemoryCorrect, PTL DEF Spec

-----------------------------------------------------------------------------
(* Etas *)

\* The runner knows the eta of each row, but for the notifications it has not
\* processed, or has forgotten it because its time has come.
EtaInv == Up => \A j \in Job \ notifs : eta[j] = dbEta[j] \/ (eta[j] = 0 /\ dbEta[j] <= now)

LEMMA EtaKept == TypeOK /\ TypeOK' /\ EtaInv /\ [Next]_vars => EtaInv'
<1> SUFFICES ASSUME TypeOK, TypeOK', EtaInv, [Next]_vars PROVE EtaInv'
  OBVIOUS
<1>1. now \in Nat /\ \A j \in Job : eta[j] \in Nat /\ dbEta[j] \in Nat
  BY JobAssumption DEF TypeOK, Eta
<1>2. ASSUME UNCHANGED <<dbEta, eta>>, now' \in Nat, now <= now', notifs \subseteq notifs', Up' => Up
      PROVE  EtaInv'
  BY <1>1, <1>2 DEF EtaInv
<1>3. ASSUME NEW c \in Channel, EtaReached(c), UNCHANGED <<dbEta, now>>, notifs \subseteq notifs', Up' => Up
      PROVE  EtaInv'
  <2>1. \A j \in Job : eta'[j] = IF j \in Ready(c) THEN 0 ELSE eta[j]
    BY <1>3 DEF EtaReached
  <2>2. \A j \in Ready(c) : eta[j] <= now
    BY DEF Ready
  <2> QED
    BY <1>1, <1>3, <2>1, <2>2 DEF EtaInv
<1>4. ASSUME NEW j \in Job, NEW s \in State, NEW e \in Eta, Create(j, s, e) \/ Update(j, s, e)
      PROVE  EtaInv'
  <2>1. /\ \A i \in Job \ {j} : dbEta'[i] = dbEta[i]
        /\ eta' = eta /\ now' = now /\ pc' = pc
        /\ notifs' = IF pc = "down" THEN notifs ELSE notifs \cup {j}
    BY <1>4 DEF Create, Update, Write, memVars, TypeOK
  <2> QED
    BY <2>1 DEF EtaInv, Up
<1>5. ASSUME NEW j \in Job, ProcessNotification(j)
      PROVE  EtaInv'
  <2>1. Known(j) /\ ~Rescheduled(j) => eta[j] = dbEta[j]
    BY DEF Rescheduled
  <2>2. eta'[j] = dbEta[j] /\ \A i \in Job \ {j} : eta'[i] = eta[i]
    BY <1>5, <2>1 DEF ProcessNotification, TypeOK
  <2> QED
    BY <1>5, <2>2 DEF ProcessNotification, EtaInv, Up, dbVars
<1>6. CASE RunnerStart
  BY <1>6 DEF RunnerStart, EtaInv, dbVars
<1>7. ASSUME NEW crash \in BOOLEAN, RunnerFail(crash)
      PROVE  EtaInv'
  BY <1>7 DEF RunnerFail, EtaInv, Up
<1>8. CASE Tick
  BY <1>1, <1>2, <1>8 DEF Tick, dbVars, memVars, Up
<1>9. CASE NotificationsDrained \/ WaitNotification \/ WakeUp \/ UNCHANGED vars
  BY <1>1, <1>2, <1>9 DEF NotificationsDrained, WaitNotification, WakeUp, dbVars, memVars, vars, Up
<1>10. ASSUME NEW c \in Channel, EndTurn(c)
       PROVE  EtaInv'
  BY <1>1, <1>2, <1>3, <1>10 DEF EndTurn, Turn, Up, dbVars
<1>11. ASSUME NEW c \in Channel, NEW j \in Job, Take(c, j)
       PROVE  EtaInv'
  BY <1>3, <1>11 DEF Take, Turn, Up, dbVars
<1>12. ASSUME NEW j \in Job, RunJob(j)
       PROVE  EtaInv'
  BY <1>3, <1>12, Tree DEF RunJob, Turn, Up
<1> QED
  BY <1>4, <1>5, <1>6, <1>7, <1>8, <1>9, <1>10, <1>11, <1>12 DEF Next, Runner

LEMMA EtaCorrect == Spec => []EtaInv
<1>1. Init => EtaInv
  BY DEF Init, EtaInv, Up
<1> QED
  BY <1>1, EtaKept, TypeCorrect, PTL DEF Spec

\* No job is executed before its eta, unless the eta has changed since the runner last
\* looked: a postponed job is not carried to the root by a place it took before.
THEOREM EtaHolds == Spec => EtaRespected
<1>1. TypeOK /\ EtaInv => [\A j \in Job : RunJob(j) => j \in notifs \/ dbEta[j] <= now]_vars
  <2> SUFFICES ASSUME TypeOK, EtaInv, NEW j \in Job, RunJob(j), j \notin notifs
               PROVE  dbEta[j] <= now
    OBVIOUS
  <2>1. Up /\ eta[j] <= now
    BY DEF RunJob, Turn, Up, CanTake, Pops, Ready
  <2>2. now \in Nat /\ eta[j] \in Nat /\ dbEta[j] \in Nat
    BY JobAssumption DEF TypeOK, Eta
  <2> QED
    BY <2>1, <2>2 DEF EtaInv
<1> QED
  BY <1>1, TypeCorrect, EtaCorrect, PTL DEF EtaRespected

-----------------------------------------------------------------------------
(* Sleep *)

\* The jobs of a channel whose eta has been forgotten, and the one that pop would
\* return if no other eta were reached.
Eager(c) == {j \in queue[c] : eta[j] = 0}

FirstNotEager(c, i) ==
    /\ i \in queue[c] \ Eager(c)
    /\ \A j \in queue[c] \ Eager(c) : eta[i] < eta[j] \/ (eta[i] = eta[j] /\ (i = j \/ Before(i, j)))

PopsEager(c, j) ==
    /\ j \in Eager(c)
    /\ \A i \in Eager(c) : i = j \/ Before(j, i)
    /\ c \in Sequential => \A i \in queue[c] \ Eager(c) : FirstNotEager(c, i) => Before(j, i)

\* The channel has nothing to give until an eta, a notification or the end of a pause.
Settled(c) == pause[c] = 0 /\ HasCapacity(c) => \A j \in Job : ~PopsEager(c, j)

\* The channels that have had their turn have nothing to give, nor have those
\* upstream of them, and a runner that sleeps wakes up at the first time that matters.
SleepInv ==
    /\ \A c \in Channel : pause[c] # 0 => Throttle[c] # 0
    /\ pc = "flow" => \A c \in flowed : /\ Settled(c)
                                        /\ \A d \in Channel \ {Root} : Parent[d] = c => d \in flowed
    /\ pc = "wait" => /\ \A c \in Channel : Settled(c)
                      /\ \A t \in WakeTimes : wakeup # 0 /\ wakeup <= t

LEMMA SettledKept ==
    ASSUME NEW c \in Channel, Settled(c), pause'[c] = pause[c], queue'[c] = queue[c],
           running'[c] = running[c], failed'[c] = failed[c], \A j \in queue[c] : eta'[j] = eta[j]
    PROVE  Settled(c)'
<1>1. HasCapacity(c)' <=> HasCapacity(c)
  BY DEF HasCapacity
<1>2. Eager(c)' = Eager(c)
  BY DEF Eager
<1>3. \A i : FirstNotEager(c, i)' <=> FirstNotEager(c, i)
  BY <1>2 DEF FirstNotEager, Eager
<1>4. \A j : PopsEager(c, j)' <=> PopsEager(c, j)
  BY <1>2, <1>3 DEF PopsEager
<1> QED
  BY <1>1, <1>4 DEF Settled

\* When its turn ends because it has nothing to take, a channel is settled.
LEMMA EndTurnSettles ==
    ASSUME TypeOK, NEW c \in Channel, EndTurn(c)
    PROVE  Settled(c)'
<1>1. UNCHANGED <<queue, running, failed, now>> /\ \A j \in Job : ~CanTake(c, j)
  BY DEF EndTurn
<1>2. HasCapacity(c)' <=> HasCapacity(c)
  BY <1>1 DEF HasCapacity
<1>3. CASE Paused(c)
  BY <1>3 DEF EndTurn, Paused, Settled
<1>4. CASE ~HasCapacity(c)
  BY <1>2, <1>4 DEF Settled
<1>5. CASE ~Paused(c) /\ HasCapacity(c)
  <2>1. \A j \in Job : ~Pops(c, j)
    BY <1>1, <1>5 DEF CanTake
  <2>2. \A j \in Job : eta'[j] = IF j \in Ready(c) THEN 0 ELSE eta[j]
    BY <1>5 DEF EndTurn, EtaReached
  <2>3. queue[c] \subseteq Job /\ now \in Nat /\ 0 <= now
    BY JobAssumption DEF TypeOK, Eta
  <2>4. Eager(c)' = Ready(c)
    BY <1>1, <2>2, <2>3 DEF Eager, Ready
  <2>5. queue'[c] \ Eager(c)' = Later(c) /\ \A i \in Later(c) : eta'[i] = eta[i]
    BY <1>1, <2>2, <2>3, <2>4 DEF Later
  <2>6. \A i \in Later(c) : FirstLater(c, i) => FirstNotEager(c, i)'
    BY <2>5 DEF FirstLater, FirstNotEager
  <2>7. \A j \in Job : PopsEager(c, j)' => Pops(c, j)
    BY <2>4, <2>5, <2>6 DEF PopsEager, Pops
  <2> QED
    BY <2>1, <2>7 DEF Settled
<1> QED
  BY <1>3, <1>4, <1>5

\* A channel that has taken a job has ended its turn only if it is paused.
LEMMA EndTakeSettles ==
    ASSUME TypeOK, NEW c \in Channel, EndTake(c)
    PROVE  /\ \A d \in Channel \ {c} : pause'[d] = pause[d]
           /\ flowed' \subseteq flowed \cup {c} /\ flowed \subseteq flowed'
           /\ c \in flowed' => c \in flowed \/ Settled(c)'
           /\ pause'[c] # 0 => Throttle[c] # 0 \/ pause[c] # 0
<1>1. now \in Nat /\ Throttle[c] \in Nat
  BY ConfigAssumption, JobAssumption DEF TypeOK, Eta
<1> QED
  BY <1>1 DEF EndTake, Settled, TypeOK

LEMMA EtaOfOthers ==
    ASSUME MemoryInv, TypeOK, NEW c \in Channel, NEW d \in Channel, c # d, EtaReached(c)
    PROVE  \A j \in queue[d] : eta'[j] = eta[j]
<1> SUFFICES ASSUME NEW j \in queue[d] PROVE eta'[j] = eta[j]
  OBVIOUS
<1>1. j \in Job
  BY DEF TypeOK
<1>2. j \notin Ready(c)
  BY <1>1, OneQueue DEF Ready, MemoryInv, JobInv
<1> QED
  BY <1>1, <1>2 DEF EtaReached

LEMMA TakeKeepsSleep ==
    ASSUME TypeOK, MemoryInv, SleepInv, NEW c \in Channel, NEW j \in Job, Take(c, j)
    PROVE  SleepInv'
<1>1. pc = "flow" /\ pc' = "flow" /\ c \notin flowed /\ c \in Channel \ {Root}
  BY DEF Take, Turn
<1>2. \A d \in Channel \ {Root} : Parent[d] = c => d \in flowed
  BY DEF Take, Turn
<1>3. flowed \subseteq Channel
  BY DEF TypeOK
<1>4. ASSUME NEW d \in flowed PROVE Settled(d)'
  <2>1. d # c /\ d # Parent[c] /\ d \in Channel
    BY <1>1, <1>3 DEF SleepInv
  <2>2. queue'[d] = queue[d] /\ running'[d] = running[d] /\ failed' = failed
    BY <2>1, <1>1, ParentBelow DEF Take, TypeOK
  <2>3. pause'[d] = pause[d]
    BY <2>1, EndTakeSettles DEF Take
  <2>4. \A i \in queue[d] : eta'[i] = eta[i]
    BY <2>1, EtaOfOthers DEF Take
  <2> QED
    BY <1>1, <2>1, <2>2, <2>3, <2>4, SettledKept DEF SleepInv
<1>5. \A d \in flowed' : Settled(d)'
  BY <1>1, <1>4, EndTakeSettles DEF Take
<1>6. \A e \in flowed' : \A d \in Channel \ {Root} : Parent[d] = e => d \in flowed'
  BY <1>1, <1>2, EndTakeSettles DEF Take, SleepInv
<1>7. \A d \in Channel : pause'[d] # 0 => Throttle[d] # 0
  BY EndTakeSettles DEF Take, SleepInv
<1> QED
  BY <1>1, <1>5, <1>6, <1>7 DEF SleepInv

LEMMA RunKeepsSleep ==
    ASSUME TypeOK, MemoryInv, SleepInv, NEW j \in Job, RunJob(j)
    PROVE  SleepInv'
<1>1. pc = "flow" /\ pc' = "flow" /\ Root \notin flowed /\ Root \in Channel
  BY Tree DEF RunJob, Turn
<1>2. \A d \in Channel \ {Root} : Parent[d] = Root => d \in flowed
  BY DEF RunJob, Turn
<1>3. flowed \subseteq Channel
  BY DEF TypeOK
<1>4. ASSUME NEW d \in flowed PROVE Settled(d)'
  <2>1. d # Root /\ d \in Channel
    BY <1>1, <1>3
  <2>2. queue'[d] = queue[d] /\ running'[d] = running[d] /\ failed' = failed
    BY <2>1, <1>1 DEF RunJob, TypeOK
  <2>3. pause'[d] = pause[d]
    BY <2>1, <1>1, EndTakeSettles DEF RunJob
  <2>4. \A i \in queue[d] : eta'[i] = eta[i]
    BY <2>1, <1>1, EtaOfOthers DEF RunJob
  <2> QED
    BY <1>1, <2>1, <2>2, <2>3, <2>4, SettledKept DEF SleepInv
<1>5. \A d \in flowed' : Settled(d)'
  BY <1>1, <1>4, EndTakeSettles DEF RunJob
<1>6. \A e \in flowed' : \A d \in Channel \ {Root} : Parent[d] = e => d \in flowed'
  BY <1>1, <1>2, EndTakeSettles DEF RunJob, SleepInv
<1>7. \A d \in Channel : pause'[d] # 0 => Throttle[d] # 0
  BY <1>1, EndTakeSettles DEF RunJob, SleepInv
<1> QED
  BY <1>1, <1>5, <1>6, <1>7 DEF SleepInv

LEMMA EndTurnKeepsSleep ==
    ASSUME TypeOK, MemoryInv, SleepInv, NEW c \in Channel, EndTurn(c)
    PROVE  SleepInv'
<1>1. pc = "flow" /\ pc' = "flow" /\ flowed' = flowed \cup {c} /\ UNCHANGED <<queue, running, failed>>
  BY DEF EndTurn, Turn
<1>2. \A d \in Channel \ {Root} : Parent[d] = c => d \in flowed
  BY DEF EndTurn, Turn
<1>3. flowed \subseteq Channel
  BY DEF TypeOK
<1>4. \A d \in Channel : pause'[d] # 0 => pause'[d] = pause[d]
  BY DEF EndTurn, TypeOK
<1>5. ASSUME NEW d \in flowed, d # c PROVE Settled(d)'
  <2>1. pause'[d] = pause[d]
    BY <1>3, <1>5 DEF EndTurn, TypeOK
  <2>2. \A i \in queue[d] : eta'[i] = eta[i]
    BY <1>3, <1>5, EtaOfOthers DEF EndTurn
  <2> QED
    BY <1>1, <1>3, <2>1, <2>2, SettledKept DEF SleepInv
<1>6. \A d \in flowed' : Settled(d)'
  BY <1>1, <1>5, EndTurnSettles
<1> QED
  BY <1>1, <1>2, <1>4, <1>6 DEF SleepInv

\* The root channel has its turn after all the others.
LEMMA RootLast ==
    ASSUME TypeOK, SleepInv, pc = "flow", Root \in flowed
    PROVE  flowed = Channel
<1> SUFFICES ASSUME Channel \ flowed # {} PROVE FALSE
  BY DEF TypeOK
<1>1. PICK c \in Channel \ flowed : Downstream(c) \cap (Channel \ flowed) = {}
  BY LowestExists
<1>2. c # Root
  OBVIOUS
<1>3. Parent[c] \in Downstream(c) /\ Parent[c] \in Channel
  BY <1>2, ParentBelow DEF Downstream
<1> QED
  BY <1>1, <1>2, <1>3 DEF SleepInv

LEMMA SleepKept == TypeOK /\ TypeOK' /\ MemoryInv /\ SleepInv /\ [Next]_vars => SleepInv'
<1> SUFFICES ASSUME TypeOK, TypeOK', MemoryInv, SleepInv, [Next]_vars PROVE SleepInv'
  OBVIOUS
<1>1. ASSUME UNCHANGED memVars
      PROVE  (\A c \in Channel : Settled(c) => Settled(c)') /\ WakeTimes' = WakeTimes
  <2>1. \A c \in Channel : HasCapacity(c)' <=> HasCapacity(c)
    BY <1>1 DEF memVars, HasCapacity
  <2>2. WakeTimes' = WakeTimes
    BY <1>1, <2>1, Tree DEF memVars, WakeTimes, Downstream
  <2> QED
    BY <1>1, <2>2, SettledKept DEF memVars
<1>2. ASSUME UNCHANGED <<memVars, flowed, wakeup, pc>> PROVE SleepInv'
  BY <1>1, <1>2 DEF SleepInv, memVars, TypeOK
<1>3. ASSUME NEW j \in Job, NEW s \in State, NEW e \in Eta, Create(j, s, e) \/ Update(j, s, e)
      PROVE  SleepInv'
  BY <1>2, <1>3 DEF Create, Update, Write
<1>4. CASE Tick \/ UNCHANGED vars
  BY <1>2, <1>4 DEF Tick, vars, memVars
<1>5. ASSUME NEW j \in Job, ProcessNotification(j) PROVE SleepInv'
  BY <1>5 DEF ProcessNotification, SleepInv
<1>6. CASE RunnerStart
  BY <1>6 DEF RunnerStart, SleepInv
<1>7. ASSUME NEW crash \in BOOLEAN, RunnerFail(crash) PROVE SleepInv'
  BY <1>7 DEF RunnerFail, SleepInv
<1>8. CASE NotificationsDrained \/ WakeUp
  BY <1>8 DEF NotificationsDrained, WakeUp, SleepInv, memVars
<1>9. CASE WaitNotification
  <2>1. flowed = Channel /\ pc = "flow"
    BY <1>9, RootLast DEF WaitNotification
  <2>2. \A c \in Channel : Settled(c)'
    BY <1>1, <1>9, <2>1 DEF WaitNotification, SleepInv
  <2>3. WakeTimes' = WakeTimes
    BY <1>1, <1>9 DEF WaitNotification
  <2>4. pc' = "wait" => WakesAt(wakeup')
    BY <1>9 DEF WaitNotification
  <2>5. \A t \in WakeTimes : t # 0
    BY DEF WakeTimes
  <2>6. pc' = "wait" => \A t \in WakeTimes' : wakeup' # 0 /\ wakeup' <= t
    BY <2>3, <2>4, <2>5 DEF WakesAt
  <2> QED
    BY <1>9, <2>2, <2>6 DEF WaitNotification, SleepInv, memVars
<1> QED
  BY <1>3, <1>4, <1>5, <1>6, <1>7, <1>8, <1>9, TakeKeepsSleep, RunKeepsSleep, EndTurnKeepsSleep
     DEF Next, Runner

LEMMA SleepCorrect == Spec => []SleepInv
<1>1. Init => SleepInv
  BY DEF Init, SleepInv
<1> QED
  BY <1>1, SleepKept, TypeCorrect, MemoryCorrect, PTL DEF Spec

LEMMA SleepSafe == TypeOK /\ SleepInv => NoOversleep
<1> SUFFICES ASSUME TypeOK, SleepInv, pc = "wait", wakeup = 0 \/ now < wakeup,
                    NEW c \in Channel, NEW j \in Job, CanTake(c, j),
                    \A a \in Downstream(c) : HasCapacity(a) /\ ~Paused(a)
             PROVE  FALSE
  BY DEF NoOversleep
<1>1. \A a \in Above[c] : a \in Channel /\ HasCapacity(a) /\ ~Paused(a)
  BY Tree DEF CanTake, Downstream
<1>2. \A t \in WakeTimes : now < t
  <2>1. WakeTimes \subseteq Nat /\ now \in Nat /\ wakeup \in Nat
    BY WakeTimesType, JobAssumption DEF TypeOK, Eta
  <2> QED
    BY <2>1 DEF SleepInv
<1>3. \A a \in Above[c] : pause[a] = 0
  <2> DEFINE S == {a \in Above[c] : pause[a] # 0}
  <2> SUFFICES ASSUME S # {} PROVE FALSE
    OBVIOUS
  <2>1. PICK a \in S : Downstream(a) \cap S = {}
    BY <1>1, LowestExists
  <2>2. a \in Channel /\ pause[a] # 0 /\ Throttle[a] # 0 /\ ~Paused(a)
    BY <1>1 DEF SleepInv
  <2>3. \A d \in Downstream(a) : HasCapacity(d) /\ pause[d] = 0
    BY <1>1, <2>1, Tree DEF Downstream
  <2>4. pause[a] \in WakeTimes
    BY <1>1, <2>2, <2>3 DEF WakeTimes
  <2> QED
    BY <1>2, <2>2, <2>4 DEF Paused
<1>4. \A i \in queue[c] : eta[i] = 0 \/ now < eta[i]
  <2>1. {eta[i] : i \in queue[c]} \ {0} \subseteq WakeTimes
    BY <1>1, <1>3, Tree DEF WakeTimes, Downstream
  <2> QED
    BY <1>2, <2>1
<1>5. Ready(c) = Eager(c)
  <2>1. now \in Nat /\ \A i \in queue[c] : eta[i] \in Nat
    BY JobAssumption DEF TypeOK, Eta
  <2> QED
    BY <1>4, <2>1 DEF Ready, Eager
<1>6. PopsEager(c, j)
  BY <1>5 DEF CanTake, Pops, PopsEager, Later, FirstLater, FirstNotEager
<1> QED
  BY <1>1, <1>3, <1>6, Tree DEF SleepInv, Settled

\* While the runner sleeps no channel could give a job that would reach the root:
\* for every tree, no end of a pause and no eta is slept through.
THEOREM SleepsRightly == Spec => []NoOversleep
BY SleepSafe, SleepCorrect, TypeCorrect, PTL
-----------------------------------------------------------------------------
(* Contacts, and what a search compares *)

\* The provers do not know that a literal is a string.
Text == STRING \cup {None, "default"}

ContactRecord ==
    [name : Text, email : Text, street : Text, country : Text, is_company : BOOLEAN,
     parent : Nat, type : {"contact", "invoice", "delivery"}, active : BOOLEAN, known_as : SUBSET External]

\* A parent is older than what is under it, and a company has none.
Contacts(c) ==
    /\ c \in Seq(ContactRecord)
    /\ \A i \in DOMAIN c : c[i].parent < i
    /\ \A i \in DOMAIN c : c[i].is_company => c[i].parent = Nobody /\ c[i].type = "contact"

\* What never changes of a contact r that becomes s.
Keeps(r, s) ==
    /\ s.name = r.name /\ s.parent = r.parent /\ s.is_company = r.is_company /\ s.type = r.type
    /\ ~r.is_company => s.email = r.email
    /\ r.type # "contact" \/ r.street # None \/ r.country # None
          => s.street = r.street /\ s.country = r.country
    /\ s.active => r.active

\* Two contacts that a search would take for the same.
Twins(r, s) ==
    /\ r.active /\ s.active
    /\ s.name = r.name /\ s.parent = r.parent /\ s.is_company = r.is_company /\ s.type = r.type
    /\ ~r.is_company => s.email = r.email
    /\ r.type # "contact" => s.street = r.street /\ s.country = r.country
    /\ r.is_company \/ r.type # "contact" \/ ~Unknown(r)

\* A transaction makes k of the contacts c, and nothing that it would have found.
Grows(c, k) ==
    /\ Contacts(c) /\ Contacts(k) /\ Len(c) <= Len(k)
    /\ \A i \in DOMAIN c : Keeps(c[i], k[i]) /\ k[i].active = c[i].active
    /\ \A j \in DOMAIN k \ DOMAIN c : \A i \in 1..(j - 1) : ~Twins(k[i], k[j])

LEMMA ContactsAre ==
    ASSUME NEW c, Contacts(c)
    PROVE  /\ Len(c) \in Nat /\ DOMAIN c = 1..Len(c)
           /\ \A i \in DOMAIN c : c[i] \in ContactRecord
BY DEF Contacts

LEMMA TwinsKept ==
    ASSUME NEW r, NEW s, NEW t, NEW u, Keeps(r, t), Keeps(s, u), Twins(t, u),
           r.type # "contact" => ~r.is_company
    PROVE  Twins(r, s)
<1>1. /\ r.active /\ s.active /\ s.name = r.name /\ s.parent = r.parent
      /\ s.is_company = r.is_company /\ s.type = r.type
      /\ ~r.is_company => s.email = r.email
  BY DEF Keeps, Twins
<1>2. r.type # "contact" => s.street = r.street /\ s.country = r.country
  BY DEF Keeps, Twins
<1>3. r.is_company \/ r.type # "contact" \/ ~Unknown(r)
  BY DEF Keeps, Twins, Unknown
<1> QED
  BY <1>1, <1>2, <1>3 DEF Twins

LEMMA KeepsTwice ==
    ASSUME NEW r, NEW s, NEW t, Keeps(r, s), Keeps(s, t)
    PROVE  Keeps(r, t)
BY DEF Keeps

LEMMA GrowsTwice ==
    ASSUME NEW c, NEW k, NEW l, Grows(c, k), Grows(k, l)
    PROVE  Grows(c, l)
<1>1. /\ Contacts(c) /\ Contacts(k) /\ Contacts(l) /\ Len(c) <= Len(k) /\ Len(k) <= Len(l)
  BY DEF Grows
<1>2. /\ Len(c) \in Nat /\ DOMAIN c = 1..Len(c) /\ Len(k) \in Nat /\ DOMAIN k = 1..Len(k)
      /\ Len(l) \in Nat /\ DOMAIN l = 1..Len(l)
  BY <1>1, ContactsAre
<1>3. Len(c) <= Len(l) /\ DOMAIN c \subseteq DOMAIN k /\ DOMAIN k \subseteq DOMAIN l
  BY <1>1, <1>2
<1>4. \A i \in DOMAIN c : Keeps(c[i], l[i]) /\ l[i].active = c[i].active
  <2> SUFFICES ASSUME NEW i \in DOMAIN c
               PROVE  Keeps(c[i], l[i]) /\ l[i].active = c[i].active
    OBVIOUS
  <2>1. Keeps(c[i], k[i]) /\ k[i].active = c[i].active
    BY DEF Grows
  <2>2. Keeps(k[i], l[i]) /\ l[i].active = k[i].active
    BY <1>3 DEF Grows
  <2> QED
    BY <2>1, <2>2, KeepsTwice
<1>5. \A j \in DOMAIN l \ DOMAIN c : \A i \in 1..(j - 1) : ~Twins(l[i], l[j])
  <2> SUFFICES ASSUME NEW j \in DOMAIN l \ DOMAIN c, NEW i \in 1..(j - 1), Twins(l[i], l[j])
               PROVE  FALSE
    OBVIOUS
  <2>1. j \in DOMAIN k
    BY DEF Grows
  <2>2. i \in DOMAIN k
    BY <1>2, <2>1
  <2>3. k[i].type # "contact" => ~k[i].is_company
    BY <1>1, <2>2 DEF Contacts
  <2>4. Keeps(k[i], l[i]) /\ Keeps(k[j], l[j])
    BY <2>1, <2>2 DEF Grows
  <2>5. Twins(k[i], k[j])
    BY <2>3, <2>4, TwinsKept
  <2> QED
    BY <2>1, <2>5 DEF Grows
<1> QED
  BY <1>1, <1>3, <1>4, <1>5 DEF Grows

LEMMA GrowsNot == ASSUME NEW c, Contacts(c) PROVE Grows(c, c)
<1>1. /\ Len(c) \in Nat /\ \A i \in DOMAIN c : c[i] \in ContactRecord
  BY ContactsAre
<1>2. \A i \in DOMAIN c : Keeps(c[i], c[i])
  BY DEF Keeps
<1> QED
  BY <1>1, <1>2 DEF Grows

-----------------------------------------------------------------------------
(* Searching and creating *)

\* What the fields of an address are.
Says(p) == p.name \in Text /\ p.email \in Text /\ p.street \in Text /\ p.country \in Text

\* A contact that a search of customers finds keeps what it was found by.
LEMMA FilledGrows ==
    ASSUME NEW c, Contacts(c), NEW i \in DOMAIN c, NEW p, Says(p), c[i].type = "contact",
           c[i].is_company \/ p.email = None \/ c[i].email = p.email
    PROVE  /\ Filled(Found(c, i), p).id = i
           /\ Grows(c, Filled(Found(c, i), p).contact)
           /\ Len(Filled(Found(c, i), p).contact) = Len(c)
<1> DEFINE f == Found(c, i)
           r == c[i]
           s == [r EXCEPT !.street = p.street, !.email = p.email, !.country = p.country]
           k == [c EXCEPT ![i] = s]
<1>1. f.contact = c /\ f.id = i
  BY DEF Found
<1>2. /\ Len(c) \in Nat /\ DOMAIN c = 1..Len(c) /\ \A j \in DOMAIN c : c[j] \in ContactRecord
  BY ContactsAre
<1>3. CASE r.street = None /\ r.email = None /\ r.country = None
  <2>1. Filled(f, p) = Found(k, i)
    BY <1>1, <1>3 DEF Filled
  <2>2. s \in ContactRecord
    BY <1>2 DEF ContactRecord, Says
  <2>3. /\ s.name = r.name /\ s.parent = r.parent /\ s.is_company = r.is_company /\ s.type = r.type
        /\ s.email = p.email /\ s.active = r.active
    BY <1>2 DEF ContactRecord
  <2>4. k \in Seq(ContactRecord) /\ Len(k) = Len(c) /\ DOMAIN k = DOMAIN c
    <3>1. k \in [1..Len(c) -> ContactRecord]
      BY <1>2, <2>2 DEF Contacts
    <3> QED
      BY <1>2, <3>1
  <2>5. k[i] = s /\ \A j \in DOMAIN c : j # i => k[j] = c[j]
    BY DEF Contacts
  <2>6. Keeps(r, s)
    BY <1>3, <2>3 DEF Keeps
  <2>7. \A j \in DOMAIN c : Keeps(c[j], k[j]) /\ k[j].active = c[j].active
    BY <2>3, <2>5, <2>6 DEF Keeps
  <2>8. Contacts(k)
    BY <2>3, <2>4, <2>5 DEF Contacts
  <2>9. Grows(c, k)
    BY <1>2, <2>4, <2>7, <2>8 DEF Grows
  <2>10. Len(k) = Len(c)
    BY <2>4
  <2> HIDE DEF k, s
  <2> QED
    BY <2>1, <2>9, <2>10 DEF Found
<1>4. CASE ~(r.street = None /\ r.email = None /\ r.country = None)
  <2>1. Filled(f, p) = f
    BY <1>1, <1>4 DEF Filled
  <2> QED
    BY <1>1, <2>1, GrowsNot
<1> QED
  BY <1>3, <1>4

LEMMA CreatedGrows ==
    ASSUME NEW c, Contacts(c), NEW r \in ContactRecord, r.parent <= Len(c),
           r.is_company => r.parent = Nobody /\ r.type = "contact",
           \A i \in DOMAIN c : ~Twins(c[i], r)
    PROVE  /\ Created(c, r).id = Len(c) + 1
           /\ Created(c, r).contact[Len(c) + 1] = r
           /\ Grows(c, Created(c, r).contact)
           /\ Len(Created(c, r).contact) = Len(c) + 1
<1> DEFINE k == Append(c, r)
<1>1. Created(c, r).id = Len(c) + 1 /\ Created(c, r).contact = k
  BY DEF Created, Found
<1>2. /\ Len(c) \in Nat /\ DOMAIN c = 1..Len(c) /\ c \in Seq(ContactRecord)
  BY ContactsAre DEF Contacts
<1>3. /\ k \in Seq(ContactRecord) /\ Len(k) = Len(c) + 1 /\ DOMAIN k = 1..(Len(c) + 1)
      /\ k[Len(c) + 1] = r /\ \A i \in DOMAIN c : k[i] = c[i]
  BY <1>2
<1>4. Contacts(k)
  <2>1. r.parent \in Nat
    BY DEF ContactRecord
  <2>2. \A i \in DOMAIN k : i \in DOMAIN c \/ i = Len(c) + 1
    BY <1>2, <1>3
  <2> QED
    BY <1>2, <1>3, <2>1, <2>2 DEF Contacts
<1>5. \A i \in DOMAIN c : Keeps(c[i], k[i]) /\ k[i].active = c[i].active
  BY <1>3 DEF Keeps
<1>6. \A j \in DOMAIN k \ DOMAIN c : \A i \in 1..(j - 1) : ~Twins(k[i], k[j])
  BY <1>2, <1>3
<1> QED
  BY <1>1, <1>2, <1>3, <1>4, <1>5, <1>6 DEF Grows

\* The oldest of some contacts, and the youngest.
LEMMA MinIs ==
    ASSUME NEW T, T \subseteq Nat, T # {}
    PROVE  Min(T) \in T /\ \A t \in T : Min(T) <= t
<1>1. \E t \in T : \A u \in T : <<u, t>> \notin OpToRel(<, Nat)
  BY WFMin, NatLessThanWellFounded, Zenon
<1>2. PICK t \in T : \A u \in T : ~(u < t)
  BY <1>1 DEF OpToRel
<1>3. \A u \in T : t <= u
  BY <1>2
<1> QED
  BY <1>3 DEF Min

LEMMA MaxIs ==
    ASSUME NEW n \in Nat, NEW T, T \subseteq 1..n, T # {}
    PROVE  Max(T) \in T
<1> DEFINE back == {n - t : t \in T}
<1>0. \A t \in T : t \in 1..n /\ n - t \in Nat
  OBVIOUS
<1>1. back \subseteq Nat
  BY <1>0
<1>2. back # {}
  OBVIOUS
<1>3. Min(back) \in back /\ \A u \in back : Min(back) <= u
  BY <1>1, <1>2, MinIs
<1>4. PICK t \in T : Min(back) = n - t
  BY <1>3
<1>5. \A u \in T : n - t <= n - u
  BY <1>3, <1>4
<1>6. \A u \in T : t >= u
  BY <1>0, <1>5
<1> QED
  BY <1>6 DEF Max

LEMMA CompanyRecordIs ==
    ASSUME NEW p, Says(p), NEW name \in Text
    PROVE  LET r == Record(p, name, TRUE, Nobody, "contact") IN
           /\ r \in ContactRecord /\ r.name = name /\ r.is_company
           /\ r.parent = Nobody /\ r.type = "contact" /\ r.active
BY DEF Record, ContactRecord, Says, Text, Nobody

Person(p, parent, type) == Record(p, p.name, FALSE, parent, type)

LEMMA PersonRecordIs ==
    ASSUME NEW p, Says(p), NEW parent \in Nat, NEW type \in {"contact", "invoice", "delivery"}
    PROVE  LET r == Person(p, parent, type) IN
           /\ r \in ContactRecord /\ r.name = p.name /\ ~r.is_company
           /\ r.parent = parent /\ r.type = type /\ r.active
           /\ r.email = p.email /\ r.street = p.street /\ r.country = p.country
BY DEF Person, Record, ContactRecord, Says

LEMMA CompanyIs ==
    ASSUME NEW c, Contacts(c), NEW p, Says(p), p.company \in Text
    PROVE  LET f == Company(c, p) IN
           /\ Grows(c, f.contact)
           /\ p.company = None => f = Found(c, Nobody)
           /\ p.company # None =>
                 /\ f.id \in DOMAIN f.contact
                 /\ f.contact[f.id].is_company /\ f.contact[f.id].name = p.company
                 /\ f.contact[f.id].active
<1>1. CASE p.company = None
  <2>1. Company(c, p) = Found(c, Nobody)
    BY <1>1 DEF Company
  <2> QED
    BY <1>1, <2>1, GrowsNot DEF Found
<1>2. CASE p.company # None
  <2> DEFINE there == {i \in DOMAIN c : c[i].active /\ c[i].is_company /\ c[i].name = p.company}
             r == Record(p, p.company, TRUE, Nobody, "contact")
             g == IF there # {} THEN Found(c, Max(there)) ELSE Created(c, r)
  <2>1. Company(c, p) = Filled(g, p)
    BY <1>2 DEF Company, Among
  <2>2. /\ Len(c) \in Nat /\ DOMAIN c = 1..Len(c) /\ \A i \in DOMAIN c : c[i] \in ContactRecord
    BY ContactsAre
  <2>3. /\ g = Found(g.contact, g.id) /\ Grows(c, g.contact) /\ g.id \in DOMAIN g.contact
        /\ g.contact[g.id].is_company /\ g.contact[g.id].name = p.company /\ g.contact[g.id].active
    <3>1. CASE there # {}
      <4>1. Max(there) \in there
        BY <2>2, <3>1, MaxIs
      <4>2. g = Found(c, Max(there))
        BY <3>1
      <4> QED
        BY <4>1, <4>2, GrowsNot DEF Found
    <3>2. CASE there = {}
      <4>1. g = Created(c, r)
        BY <3>2
      <4>2. /\ r \in ContactRecord /\ r.name = p.company /\ r.is_company /\ r.parent = Nobody
            /\ r.type = "contact" /\ r.active
        BY CompanyRecordIs
      <4> HIDE DEF r
      <4>3. \A i \in DOMAIN c : ~Twins(c[i], r)
        BY <3>2, <4>2 DEF Twins
      <4>4. r.parent <= Len(c)
        BY <2>2, <4>2 DEF Nobody
      <4>5. /\ g.id = Len(c) + 1 /\ g.contact[g.id] = r /\ Grows(c, g.contact)
            /\ Len(g.contact) = Len(c) + 1
        BY <4>1, <4>2, <4>3, <4>4, CreatedGrows
      <4> HIDE DEF g
      <4>8. Contacts(g.contact)
        BY <4>5 DEF Grows
      <4>9. DOMAIN g.contact = 1..Len(g.contact)
        BY <4>8, ContactsAre
      <4>6. g.id \in DOMAIN g.contact
        BY <2>2, <4>5, <4>9
      <4>7. g = Found(g.contact, g.id)
        BY <4>1 DEF Created, Found, g
      <4> QED
        BY <4>2, <4>5, <4>6, <4>7
    <3> QED
      BY <3>1, <3>2
  <2> HIDE DEF g
  <2>4. Contacts(g.contact) /\ g.contact[g.id].type = "contact"
    BY <2>3 DEF Grows, Contacts
  <2> DEFINE h == Filled(g, p)
  <2>5. /\ h.id = g.id /\ Grows(g.contact, h.contact) /\ Len(h.contact) = Len(g.contact)
    BY <2>3, <2>4, FilledGrows
  <2>6. Keeps(g.contact[g.id], h.contact[g.id]) /\ h.contact[g.id].active = g.contact[g.id].active
    BY <2>3, <2>5 DEF Grows
  <2>7. h.id \in DOMAIN h.contact
    BY <2>3, <2>4, <2>5, ContactsAre DEF Grows
  <2>8. Grows(c, h.contact)
    BY <2>3, <2>5, GrowsTwice
  <2> QED
    BY <1>2, <2>1, <2>3, <2>5, <2>6, <2>7, <2>8 DEF Keeps
<1> QED
  BY <1>1, <1>2

\* Whom a search for a customer compares with.
LEMMA SearchIs ==
    ASSUME NEW c, Contacts(c), NEW p, Says(p), NEW parent \in 0..Len(c),
           setting.search \in {"all", "email"}
    PROVE  LET f == SearchOrCreate(c, p, parent)
               r == f.contact[f.id]
           IN  /\ Grows(c, f.contact) /\ f.id \in DOMAIN f.contact
               /\ r.active /\ ~r.is_company /\ r.type = "contact" /\ r.parent = parent
               /\ Unknown(p) \/ SameCustomer(p, parent, r)
               /\ \A i \in 1..(f.id - 1) : f.contact[i].active => ~SameCustomer(p, parent, f.contact[i])
<1> DEFINE there == {i \in DOMAIN c : c[i].active /\ SameCustomer(p, parent, c[i])}
           new == Person(p, parent, "contact")
           f == SearchOrCreate(c, p, parent)
<1>1. f = IF there # {} THEN Filled(Found(c, Min(there)), p) ELSE Created(c, new)
  BY DEF SearchOrCreate, Among, Person
<1>2. /\ Len(c) \in Nat /\ DOMAIN c = 1..Len(c) /\ \A i \in DOMAIN c : c[i] \in ContactRecord
  BY ContactsAre
<1>3. CASE there # {}
  <2>0. there \subseteq Nat
    BY <1>2
  <2>1. Min(there) \in there /\ \A i \in there : Min(there) <= i
    BY <1>3, <2>0, MinIs
  <2> DEFINE m == Min(there)
  <2> HIDE DEF m
  <2>2. m \in DOMAIN c /\ c[m].active /\ SameCustomer(p, parent, c[m]) /\ \A i \in there : m <= i
    BY <2>1 DEF m
  <2>3. c[m].type = "contact" /\ ~c[m].is_company /\ c[m].parent = parent
    BY <2>2 DEF SameCustomer
  <2>4. p.email = None \/ c[m].email = p.email
    BY <2>2 DEF SameCustomer
  <2>5. f = Filled(Found(c, m), p)
    BY <1>1, <1>3 DEF m
  <2>6. f.id = m /\ Grows(c, f.contact) /\ Len(f.contact) = Len(c)
    BY <2>2, <2>3, <2>4, <2>5, FilledGrows
  <2>7. \A i \in DOMAIN c : /\ Keeps(c[i], f.contact[i]) /\ f.contact[i].active = c[i].active
                            /\ SameCustomer(p, parent, f.contact[i]) => SameCustomer(p, parent, c[i])
    <3> SUFFICES ASSUME NEW i \in DOMAIN c
                 PROVE  /\ Keeps(c[i], f.contact[i]) /\ f.contact[i].active = c[i].active
                        /\ SameCustomer(p, parent, f.contact[i]) => SameCustomer(p, parent, c[i])
      OBVIOUS
    <3>1. Keeps(c[i], f.contact[i]) /\ f.contact[i].active = c[i].active
      BY <2>6 DEF Grows
    <3> QED
      BY <3>1 DEF Keeps, SameCustomer
  <2>8. f.id \in DOMAIN f.contact
    BY <1>2, <2>2, <2>6, ContactsAre DEF Grows
  <2>9. \A i \in 1..(f.id - 1) : f.contact[i].active => ~SameCustomer(p, parent, f.contact[i])
    <3> SUFFICES ASSUME NEW i \in 1..(m - 1), f.contact[i].active, SameCustomer(p, parent, f.contact[i])
                 PROVE  FALSE
      BY <2>6
    <3>1. i \in DOMAIN c
      BY <1>2, <2>2
    <3>2. i \in there
      BY <2>7, <3>1
    <3> QED
      BY <1>2, <2>2, <3>2
  <2>10. f.contact[m].active /\ Keeps(c[m], f.contact[m])
    BY <2>2, <2>7
  <2>11. SameCustomer(p, parent, f.contact[m])
    BY <2>2, <2>10 DEF Keeps, SameCustomer
  <2> QED
    BY <2>3, <2>6, <2>8, <2>9, <2>10, <2>11 DEF Keeps
<1>4. CASE there = {}
  <2>1. f = Created(c, new)
    BY <1>1, <1>4
  <2>2. /\ new \in ContactRecord /\ new.name = p.name /\ ~new.is_company /\ new.parent = parent
        /\ new.type = "contact" /\ new.active /\ new.email = p.email
    <3>1. parent \in Nat /\ "contact" \in {"contact", "invoice", "delivery"}
      BY <1>2
    <3> QED
      BY <3>1, PersonRecordIs
  <2> HIDE DEF new
  <2>3. Unknown(p) \/ SameCustomer(p, parent, new)
    BY <2>2 DEF Unknown, SameCustomer
  <2>4. \A i \in DOMAIN c : ~Twins(c[i], new)
    <3> SUFFICES ASSUME NEW i \in DOMAIN c, Twins(c[i], new)
                 PROVE  FALSE
      OBVIOUS
    <3>1. /\ c[i].active /\ c[i].name = p.name /\ c[i].parent = parent /\ ~c[i].is_company
          /\ c[i].type = "contact" /\ c[i].email = p.email /\ ~Unknown(c[i])
      BY <2>2 DEF Twins
    <3>2. SameCustomer(p, parent, c[i])
      BY <3>1 DEF SameCustomer, Unknown
    <3> QED
      BY <1>4, <3>1, <3>2
  <2>5. /\ f.id = Len(c) + 1 /\ f.contact[f.id] = new /\ Grows(c, f.contact)
        /\ Len(f.contact) = Len(c) + 1
    BY <1>2, <2>1, <2>2, <2>4, CreatedGrows
  <2>6. f.id \in DOMAIN f.contact
    BY <1>2, <2>5, ContactsAre DEF Grows
  <2>7. \A i \in 1..(f.id - 1) : f.contact[i].active => ~SameCustomer(p, parent, f.contact[i])
    <3> SUFFICES ASSUME NEW i \in 1..(f.id - 1), f.contact[i].active, SameCustomer(p, parent, f.contact[i])
                 PROVE  FALSE
      OBVIOUS
    <3>1. i \in DOMAIN c
      BY <1>2, <2>5
    <3>2. Keeps(c[i], f.contact[i]) /\ f.contact[i].active = c[i].active
      BY <2>5, <3>1 DEF Grows
    <3>3. SameCustomer(p, parent, c[i])
      BY <3>2 DEF Keeps, SameCustomer
    <3> QED
      BY <1>4, <3>1, <3>2, <3>3
  <2> QED
    BY <2>2, <2>3, <2>5, <2>6, <2>7
<1> QED
  BY <1>3, <1>4

-----------------------------------------------------------------------------
(* The customer of an order *)

LEMMA SameKept ==
    ASSUME NEW p, NEW parent, NEW r, NEW s, Keeps(r, s)
    PROVE  SameCustomer(p, parent, r) <=> SameCustomer(p, parent, s)
BY DEF Keeps, SameCustomer

\* The oldest that a search for p finds in k, or nothing to be looked for.
Searched(k, id, p) ==
    /\ ~k[id].is_company /\ k[id].type = "contact"
    /\ \/ Unknown(p)
       \/ /\ SameCustomer(p, k[id].parent, k[id])
          /\ p.company = None => k[id].parent = Nobody
          /\ \A i \in 1..(id - 1) : k[i].active => ~SameCustomer(p, k[id].parent, k[i])

\* What becomes the customer of an order that says p.
CustomerIs(k, id, mapped, p) ==
    /\ id \in DOMAIN k
    /\ setting.skip /\ p.company # None => k[id].is_company /\ k[id].name = p.company
    /\ ~setting.skip =>
          /\ ~k[id].is_company
          /\ p.company # None => /\ k[id].parent # Nobody /\ k[k[id].parent].is_company
                                 /\ k[k[id].parent].name = p.company
    /\ \/ id = mapped /\ (k[id].is_company <=> setting.skip)
       \/ setting.skip /\ p.company # None
       \/ Searched(k, id, p)
    /\ p.company = None /\ mapped # Nobody /\ k[mapped].active /\ (k[mapped].is_company <=> setting.skip)
          => id = mapped

LEMMA CustomerKept ==
    ASSUME NEW k, NEW l, Grows(k, l), NEW id, NEW p, NEW mapped \in 0..Len(k), CustomerIs(k, id, mapped, p)
    PROVE  CustomerIs(l, id, mapped, p)
<1>1. /\ Len(k) \in Nat /\ DOMAIN k = 1..Len(k) /\ Len(l) \in Nat /\ DOMAIN l = 1..Len(l)
      /\ Len(k) <= Len(l)
  BY ContactsAre DEF Grows
<1>2. \A i \in DOMAIN k : Keeps(k[i], l[i]) /\ l[i].active = k[i].active
  BY DEF Grows
<1>3. id \in DOMAIN k /\ id \in DOMAIN l
  BY <1>1 DEF CustomerIs
<1>4. /\ l[id].name = k[id].name /\ l[id].parent = k[id].parent /\ l[id].is_company = k[id].is_company
      /\ l[id].type = k[id].type
  BY <1>2, <1>3 DEF Keeps
<1>5. k[id].parent # Nobody =>
          k[id].parent \in DOMAIN k /\ Keeps(k[k[id].parent], l[k[id].parent])
  <2>1. k[id] \in ContactRecord /\ k[id].parent < id
    BY <1>3, ContactsAre DEF Grows, Contacts
  <2>2. k[id].parent \in Nat
    BY <2>1 DEF ContactRecord
  <2>3. k[id].parent # Nobody => k[id].parent \in DOMAIN k
    BY <1>1, <1>3, <2>1, <2>2 DEF Nobody
  <2> QED
    BY <1>2, <2>3
<1>6. Searched(k, id, p) => Searched(l, id, p)
  <2> SUFFICES ASSUME Searched(k, id, p), ~Unknown(p)
               PROVE  /\ SameCustomer(p, l[id].parent, l[id])
                      /\ \A i \in 1..(id - 1) : l[i].active => ~SameCustomer(p, l[id].parent, l[i])
    BY <1>4 DEF Searched
  <2>1. SameCustomer(p, l[id].parent, l[id])
    BY <1>2, <1>3, <1>4, SameKept DEF Searched
  <2>2. ASSUME NEW i \in 1..(id - 1), l[i].active, SameCustomer(p, l[id].parent, l[i])
        PROVE  FALSE
    <3>1. i \in DOMAIN k
      BY <1>1, <1>3
    <3>2. k[i].active /\ SameCustomer(p, k[id].parent, k[i])
      BY <1>2, <1>4, <2>2, <3>1, SameKept
    <3> QED
      BY <3>2 DEF Searched
  <2> QED
    BY <2>1, <2>2
<1>7. mapped # Nobody => /\ mapped \in DOMAIN k /\ l[mapped].active = k[mapped].active
                         /\ l[mapped].is_company = k[mapped].is_company
  <2>1. mapped # Nobody => mapped \in DOMAIN k
    BY <1>1 DEF Nobody
  <2> QED
    BY <1>2, <2>1 DEF Keeps
<1>8. setting.skip /\ p.company # None => l[id].is_company /\ l[id].name = p.company
  BY <1>4 DEF CustomerIs
<1>9. ~setting.skip =>
          /\ ~l[id].is_company
          /\ p.company # None => /\ l[id].parent # Nobody /\ l[l[id].parent].is_company
                                 /\ l[l[id].parent].name = p.company
  BY <1>4, <1>5 DEF CustomerIs, Keeps
<1>10. \/ id = mapped /\ (l[id].is_company <=> setting.skip)
       \/ setting.skip /\ p.company # None
       \/ Searched(l, id, p)
  BY <1>4, <1>6 DEF CustomerIs
<1>11. p.company = None /\ mapped # Nobody /\ l[mapped].active /\ (l[mapped].is_company <=> setting.skip)
          => id = mapped
  BY <1>7 DEF CustomerIs
<1> QED
  BY <1>3, <1>8, <1>9, <1>10, <1>11 DEF CustomerIs

LEMMA PartnerIs ==
    ASSUME NEW c, Contacts(c), NEW p, Says(p), p.company \in Text, NEW mapped \in 0..Len(c),
           setting.search \in {"all", "email"}, setting.skip \in BOOLEAN
    PROVE  LET f == Partner(c, mapped, p)
           IN  Grows(c, f.contact) /\ CustomerIs(f.contact, f.id, mapped, p)
<1> DEFINE g == Company(c, p)
           k == g.contact
           f == PartnerOf(g, mapped, p)
<1>1. Partner(c, mapped, p) = f
  BY DEF Partner
<1>2. /\ Grows(c, k)
      /\ p.company = None => k = c /\ g.id = Nobody
      /\ p.company # None => /\ g.id \in DOMAIN k /\ k[g.id].is_company /\ k[g.id].name = p.company
                             /\ k[g.id].active
  BY CompanyIs DEF Found
<1>3. /\ Contacts(k) /\ Len(k) \in Nat /\ DOMAIN k = 1..Len(k) /\ Len(c) \in Nat /\ Len(c) <= Len(k)
      /\ DOMAIN c = 1..Len(c)
  BY <1>2, ContactsAre DEF Grows
<1>4. /\ \A i \in DOMAIN k : k[i] \in ContactRecord /\ (k[i].is_company => k[i].parent = Nobody)
      /\ \A i \in DOMAIN k : k[i].is_company \in BOOLEAN
  BY <1>3, ContactsAre DEF Contacts, ContactRecord
<1>5. p.company # None => g.id # Nobody
  BY <1>2, <1>3 DEF Nobody
<1> HIDE DEF g
<1>6. CASE mapped # Nobody /\ Compatible(k[mapped], mapped, g.id)
  <2>1. f = Found(k, mapped)
    BY <1>6 DEF PartnerOf
  <2>2. mapped \in DOMAIN k
    BY <1>3, <1>6 DEF Nobody
  <2>3. /\ k[mapped].is_company <=> setting.skip
        /\ p.company # None => IF setting.skip THEN mapped = g.id ELSE k[mapped].parent = g.id
    BY <1>5, <1>6, <2>2, <1>4 DEF Compatible
  <2>4. CustomerIs(k, mapped, mapped, p)
    BY <1>2, <1>5, <2>2, <2>3 DEF CustomerIs
  <2> QED
    BY <1>1, <1>2, <2>1, <2>4 DEF Found
<1>7. CASE ~(mapped # Nobody /\ Compatible(k[mapped], mapped, g.id)) /\ setting.skip /\ p.company # None
  <2>1. f = g
    BY <1>7 DEF PartnerOf
  <2>2. CustomerIs(k, g.id, mapped, p)
    BY <1>2, <1>7 DEF CustomerIs
  <2> QED
    BY <1>1, <1>2, <2>1, <2>2
<1>8. CASE /\ ~(mapped # Nobody /\ Compatible(k[mapped], mapped, g.id))
           /\ ~(setting.skip /\ p.company # None)
  <2>1. f = SearchOrCreate(k, p, g.id)
    BY <1>8 DEF PartnerOf
  <2>2. g.id \in 0..Len(k)
    BY <1>2, <1>3 DEF Nobody
  <2> DEFINE l == f.contact
             id == f.id
  <2>3. /\ Grows(k, l) /\ id \in DOMAIN l /\ l[id].active /\ ~l[id].is_company /\ l[id].type = "contact"
        /\ l[id].parent = g.id /\ (Unknown(p) \/ SameCustomer(p, g.id, l[id]))
        /\ \A i \in 1..(id - 1) : l[i].active => ~SameCustomer(p, g.id, l[i])
    BY <1>3, <2>1, <2>2, SearchIs
  <2> HIDE DEF f
  <2>4. Searched(l, id, p)
    BY <1>2, <2>3 DEF Searched
  <2>5. \A i \in DOMAIN k : Keeps(k[i], l[i]) /\ l[i].active = k[i].active
    BY <2>3 DEF Grows
  <2>6. ~setting.skip /\ p.company # None =>
            l[id].parent # Nobody /\ l[l[id].parent].is_company /\ l[l[id].parent].name = p.company
    BY <1>2, <1>5, <2>3, <2>5 DEF Keeps
  <2>7. ~(p.company = None /\ mapped # Nobody /\ l[mapped].active /\ (l[mapped].is_company <=> setting.skip))
    <3> SUFFICES ASSUME p.company = None, mapped # Nobody, l[mapped].active,
                        l[mapped].is_company <=> setting.skip
                 PROVE  FALSE
      OBVIOUS
    <3>1. mapped \in DOMAIN k
      BY <1>3 DEF Nobody
    <3>2. k[mapped].active /\ (k[mapped].is_company <=> setting.skip)
      BY <2>5, <3>1 DEF Keeps
    <3>3. Compatible(k[mapped], mapped, g.id)
      BY <1>2, <1>4, <3>1, <3>2 DEF Compatible
    <3> QED
      BY <1>8, <3>3
  <2>8. CustomerIs(l, id, mapped, p)
    BY <1>8, <2>3, <2>4, <2>6, <2>7 DEF CustomerIs
  <2> QED
    BY <1>1, <1>2, <2>3, <2>8, GrowsTwice
<1> QED
  BY <1>6, <1>7, <1>8

\* The contacts, and one of them.
Pair(f) == f = Found(f.contact, f.id)

LEMMA FoundPartner ==
    ASSUME NEW c, NEW p, NEW mapped
    PROVE  Pair(Partner(c, mapped, p))
<1>1. \A k, i : Pair(Found(k, i)) /\ Pair(Created(k, i))
  BY DEF Pair, Found, Created
<1>2. \A f : Pair(f) => Pair(Filled(f, p))
  BY <1>1 DEF Filled
<1>3. Pair(Company(c, p))
  BY <1>1, <1>2 DEF Company
<1>4. \A k, parent : Pair(SearchOrCreate(k, p, parent))
  BY <1>1, <1>2 DEF SearchOrCreate
<1> QED
  BY <1>1, <1>3, <1>4 DEF Partner, PartnerOf

LEMMA KnownGrows ==
    ASSUME NEW c, Contacts(c), NEW i \in DOMAIN c, NEW e \in External
    PROVE  /\ KnownAs(e, Found(c, i)).id = i
           /\ Grows(c, KnownAs(e, Found(c, i)).contact)
<1> DEFINE s == [c[i] EXCEPT !.known_as = @ \cup {e}]
           k == [c EXCEPT ![i] = s]
<1>1. KnownAs(e, Found(c, i)) = Found(k, i)
  BY DEF KnownAs, Found
<1>2. /\ Len(c) \in Nat /\ DOMAIN c = 1..Len(c) /\ \A j \in DOMAIN c : c[j] \in ContactRecord
  BY ContactsAre
<1>3. s \in ContactRecord
  BY <1>2 DEF ContactRecord
<1>4. /\ s.name = c[i].name /\ s.parent = c[i].parent /\ s.is_company = c[i].is_company
      /\ s.type = c[i].type /\ s.email = c[i].email /\ s.active = c[i].active
      /\ s.street = c[i].street /\ s.country = c[i].country
  BY <1>2 DEF ContactRecord
<1> HIDE DEF s
<1>5. k \in Seq(ContactRecord) /\ Len(k) = Len(c) /\ DOMAIN k = DOMAIN c
  <2>1. k \in [1..Len(c) -> ContactRecord]
    BY <1>2, <1>3 DEF Contacts
  <2> QED
    BY <1>2, <2>1
<1>6. k[i] = s /\ \A j \in DOMAIN c : j # i => k[j] = c[j]
  BY DEF Contacts
<1> HIDE DEF k
<1>7. \A j \in DOMAIN c : Keeps(c[j], k[j]) /\ k[j].active = c[j].active
  BY <1>4, <1>6 DEF Keeps
<1>8. Contacts(k)
  BY <1>4, <1>5, <1>6 DEF Contacts
<1>9. Grows(c, k)
  BY <1>2, <1>5, <1>7, <1>8 DEF Grows
<1> QED
  BY <1>1, <1>9 DEF Found

-----------------------------------------------------------------------------
(* The addresses of an order *)

\* A contact for an address p of a customer.
AddressFor(k, id, customer, p) ==
    /\ id \in DOMAIN k /\ Alike(k[id], p)
    /\ \/ id = customer \/ k[id].parent = customer
       \/ k[id].is_company /\ k[id].name = p.company
       \/ k[id].parent # Nobody /\ k[k[id].parent].name = p.company

LEMMA AddressKept ==
    ASSUME NEW k, NEW l, Contacts(k), DOMAIN k \subseteq DOMAIN l,
           \A i \in DOMAIN k : Keeps(k[i], l[i]),
           NEW id, NEW customer, NEW p, AddressFor(k, id, customer, p)
    PROVE  AddressFor(l, id, customer, p)
<1>1. id \in DOMAIN k /\ id \in DOMAIN l /\ Alike(k[id], p) /\ Keeps(k[id], l[id])
  BY DEF AddressFor
<1>2. Alike(l[id], p)
  BY <1>1 DEF Alike, Keeps
<1>3. k[id].parent # Nobody => k[id].parent \in DOMAIN k
  <2>1. k[id] \in ContactRecord /\ k[id].parent < id /\ DOMAIN k = 1..Len(k) /\ Len(k) \in Nat
    BY <1>1, ContactsAre DEF Contacts
  <2>2. k[id].parent \in Nat
    BY <2>1 DEF ContactRecord
  <2> QED
    BY <1>1, <2>1, <2>2 DEF Nobody
<1>4. k[id].parent # Nobody => l[k[id].parent].name = k[k[id].parent].name
  BY <1>3 DEF Keeps
<1> QED
  BY <1>1, <1>2, <1>4 DEF AddressFor, Keeps

LEMMA OwnOrAddress ==
    ASSUME NEW own, Contacts(own.contact), own.id \in DOMAIN own.contact, own = Found(own.contact, own.id),
           NEW p, Says(p), NEW customer, NEW parent \in 0..Len(own.contact),
           NEW type \in {"invoice", "delivery"},
           own.id = customer \/ (own.contact[own.id].is_company /\ own.contact[own.id].name = p.company),
           parent = customer \/ (parent # Nobody /\ own.contact[parent].name = p.company)
    PROVE  LET f == AddressOrOwn(own, p, parent, type)
           IN  Grows(own.contact, f.contact) /\ AddressFor(f.contact, f.id, customer, p)
<1> DEFINE c == own.contact
           there == {i \in DOMAIN c : c[i].active /\ SameAddress(p, parent, c[i])}
           typed == {i \in DOMAIN c : c[i].active /\ c[i].type = type /\ SameAddress(p, parent, c[i])}
           new == Person(p, parent, type)
           f == AddressOrOwn(own, p, parent, type)
<1>1. f = IF HasChanges(c[own.id], p)
          THEN IF typed \cup there # {} THEN Found(c, Max(IF typed # {} THEN typed ELSE there))
               ELSE Created(c, new)
          ELSE own
  BY DEF AddressOrOwn, Among, Person
<1>2. /\ Len(c) \in Nat /\ DOMAIN c = 1..Len(c) /\ \A i \in DOMAIN c : c[i] \in ContactRecord
      /\ Grows(c, c)
  BY ContactsAre, GrowsNot
<1>3. CASE ~HasChanges(c[own.id], p)
  <2>1. f = own
    BY <1>1, <1>3
  <2>2. Alike(c[own.id], p)
    BY <1>3 DEF HasChanges, Alike
  <2> QED
    BY <1>2, <2>1, <2>2 DEF AddressFor
<1>4. CASE HasChanges(c[own.id], p) /\ typed \cup there # {}
  <2> DEFINE from == IF typed # {} THEN typed ELSE there
             id == Max(from)
  <2>1. from # {} /\ from \subseteq 1..Len(c) /\ from \subseteq there
    BY <1>2, <1>4
  <2> HIDE DEF from
  <2>2. id \in there
    BY <1>2, <2>1, MaxIs
  <2>3. f = Found(c, id)
    BY <1>1, <1>4 DEF from
  <2> HIDE DEF id
  <2>4. /\ id \in DOMAIN c /\ SameAddress(p, parent, c[id])
    BY <2>2
  <2>5. AddressFor(c, id, customer, p)
    BY <2>4 DEF AddressFor, SameAddress, Alike
  <2> QED
    BY <1>2, <2>3, <2>5 DEF Found
<1>5. CASE HasChanges(c[own.id], p) /\ typed \cup there = {}
  <2>1. f = Created(c, new)
    BY <1>1, <1>5
  <2>2. /\ new \in ContactRecord /\ new.name = p.name /\ ~new.is_company /\ new.parent = parent
        /\ new.type = type /\ new.active /\ new.email = p.email
        /\ new.street = p.street /\ new.country = p.country
    BY <1>2, PersonRecordIs
  <2> HIDE DEF new
  <2>3. \A i \in DOMAIN c : ~Twins(c[i], new)
    <3> SUFFICES ASSUME NEW i \in DOMAIN c, Twins(c[i], new)
                 PROVE  FALSE
      OBVIOUS
    <3>1. /\ c[i].active /\ c[i].name = p.name /\ c[i].parent = parent /\ c[i].type = type
          /\ c[i].email = p.email /\ c[i].street = p.street /\ c[i].country = p.country
      BY <2>2 DEF Twins
    <3>2. SameAddress(p, parent, c[i])
      BY <3>1 DEF SameAddress
    <3> QED
      BY <1>5, <3>1, <3>2
  <2>4. /\ f.id = Len(c) + 1 /\ f.contact[f.id] = new /\ Grows(c, f.contact)
        /\ Len(f.contact) = Len(c) + 1
    <3>1. new.parent <= Len(c) /\ (new.is_company => new.parent = Nobody /\ new.type = "contact")
      BY <1>2, <2>2
    <3> HIDE DEF c, f
    <3>2. Contacts(c)
      BY DEF c
    <3> QED
      BY <2>1, <2>2, <2>3, <3>1, <3>2, CreatedGrows
  <2> HIDE DEF f
  <2>5. Contacts(f.contact)
    BY <2>4 DEF Grows
  <2>6. f.id \in DOMAIN f.contact
    BY <1>2, <2>4, <2>5, ContactsAre
  <2>7. parent # Nobody => f.contact[parent].name = c[parent].name
    <3>1. parent # Nobody => parent \in DOMAIN c
      BY <1>2 DEF Nobody
    <3> QED
      BY <2>4, <3>1 DEF Grows, Keeps
  <2>8. AddressFor(f.contact, f.id, customer, p)
    BY <2>2, <2>4, <2>6, <2>7 DEF AddressFor, Alike
  <2> QED
    BY <2>4, <2>8 DEF f
<1> QED
  BY <1>3, <1>4, <1>5

LEMMA AddressIs ==
    ASSUME NEW c, Contacts(c), NEW customer \in DOMAIN c, NEW p, Says(p), p.company \in Text,
           NEW type \in {"invoice", "delivery"}
    PROVE  LET f == AddressOf(c, customer, p, type)
           IN  Grows(c, f.contact) /\ AddressFor(f.contact, f.id, customer, p)
<1> DEFINE g == IF setting.manual THEN Found(c, Nobody) ELSE Company(c, p)
           k == g.contact
           own == IF setting.skip /\ p.company # None THEN Company(k, p) ELSE Found(k, customer)
           l == own.contact
           parent == IF g.id = Nobody THEN customer ELSE g.id
           f == AddressOrOwn(own, p, parent, type)
<1>1. AddressOf(c, customer, p, type) = f
  BY DEF AddressOf, AddressUnder
<1>2. Grows(c, k) /\ (g.id # Nobody => g.id \in DOMAIN k /\ k[g.id].name = p.company)
  <2>1. CASE setting.manual
    <3>1. g = Found(c, Nobody)
      BY <2>1
    <3> QED
      BY <3>1, GrowsNot DEF Found
  <2>2. CASE ~setting.manual
    <3>1. g = Company(c, p)
      BY <2>2
    <3> QED
      BY <3>1, CompanyIs DEF Found
  <2> QED
    BY <2>1, <2>2
<1> HIDE DEF g
<1>3. Contacts(k) /\ customer \in DOMAIN k
  <2>1. Contacts(k) /\ Len(c) <= Len(k)
    BY <1>2 DEF Grows
  <2> QED
    BY <2>1, ContactsAre
<1>4. /\ Grows(k, l) /\ own.id \in DOMAIN l /\ own = Found(l, own.id)
      /\ own.id = customer \/ (l[own.id].is_company /\ l[own.id].name = p.company)
  <2>1. CASE setting.skip /\ p.company # None
    <3>1. own = Company(k, p)
      BY <2>1
    <3>2. own = Found(l, own.id)
      BY <2>1, <3>1 DEF Company, Filled, Found, Created
    <3> QED
      BY <1>3, <2>1, <3>1, <3>2, CompanyIs
  <2>2. CASE ~(setting.skip /\ p.company # None)
    <3>1. own = Found(k, customer)
      BY <2>2
    <3> QED
      BY <1>3, <3>1, GrowsNot DEF Found
  <2> QED
    BY <2>1, <2>2
<1> HIDE DEF own
<1>5. /\ Contacts(l) /\ Len(k) \in Nat /\ DOMAIN k = 1..Len(k) /\ Len(l) \in Nat
      /\ DOMAIN l = 1..Len(l) /\ Len(k) <= Len(l)
  BY <1>4, ContactsAre DEF Grows
<1>6. parent \in 0..Len(l) /\ (parent = customer \/ (parent # Nobody /\ l[parent].name = p.company))
  <2>1. g.id # Nobody => g.id \in 0..Len(l) /\ l[g.id].name = p.company
    BY <1>2, <1>4, <1>5 DEF Grows, Keeps
  <2>2. customer \in 0..Len(l)
    BY <1>3, <1>5
  <2> QED
    BY <2>1, <2>2
<1> HIDE DEF parent
<1>7. Grows(l, f.contact) /\ AddressFor(f.contact, f.id, customer, p)
  BY <1>4, <1>5, <1>6, OwnOrAddress
<1> QED
  BY <1>1, <1>2, <1>4, <1>7, GrowsTwice

-----------------------------------------------------------------------------
(* What a transaction makes of its snapshot *)

LEMMA DataIs ==
    ASSUME NEW d \in Data
    PROVE  /\ d.external \in External \cup {None}
           /\ Says(Billing(d)) /\ Says(Shipping(d)) /\ Says(Customer(d))
           /\ Billing(d).company \in Text /\ Shipping(d).company \in Text /\ Customer(d).company \in Text
           /\ Customer(d).name = d.name /\ Customer(d).email = d.email
<1>1. /\ d.external \in External \cup {None} /\ d.name \in Text /\ d.email \in Text
      /\ d.home \in Fields /\ d.billing \in Fields /\ d.shipping \in Fields
  BY DataAssumption DEF Text
<1>2. ASSUME NEW a \in Fields
      PROVE  Says(Given(d, a)) /\ Given(d, a).company \in Text /\ Given(d, a).email = d.email
  BY <1>1 DEF Given, Says, Fields, Text
<1>3. Says(Billing(d)) /\ Billing(d).company \in Text /\ Billing(d).email = d.email
  BY <1>1, <1>2 DEF Billing
<1>4. Says(Shipping(d)) /\ Shipping(d).company \in Text
  BY <1>1, <1>2, <1>3 DEF Shipping
<1>5. None \in Text
  BY DEF Text
<1>6. /\ Says(Customer(d)) /\ Customer(d).company \in Text
      /\ Customer(d).name = d.name /\ Customer(d).email = d.email
  <2>1. CASE Billing(d).name = d.name
    BY <1>3, <2>1 DEF Customer
  <2>2. CASE Billing(d).name # d.name
    BY <1>1, <1>3, <1>5, <2>2 DEF Customer, Says
  <2> QED
    BY <2>1, <2>2
<1> QED
  BY <1>1, <1>3, <1>4, <1>6

LEMMA SettingIs ==
    ASSUME setting \in Setting
    PROVE  /\ setting.skip \in BOOLEAN /\ setting.manual \in BOOLEAN /\ setting.search \in {"all", "email"}
           /\ setting.default \in {0, 1}
BY SettingAssumption

\* What the transaction of an order has read.
Snapshot(o) ==
    /\ Contacts(snap[o].contact) /\ setting.default <= Len(snap[o].contact)
    /\ \A e \in External : snap[o].mapping[e] \in Unmapped..Len(snap[o].contact)

LEMMA OutcomeIs ==
    ASSUME NEW o \in Order, data[o] \in Data, setting \in Setting, Snapshot(o),
           ~MissingCustomer(o), ~MissingMapping(o)
    PROVE  LET c == snap[o].contact
               out == Outcome(o)
               mapped == MappedTo(snap[o], Ext(o))
               d == data[o]
           IN  /\ Grows(c, out.contact) /\ mapped \in 0..Len(c)
               /\ out.customer \in DOMAIN out.contact
               /\ out.invoice \in DOMAIN out.contact /\ out.delivery \in DOMAIN out.contact
               /\ Guest(o) => out.contact = c
               /\ ~Guest(o) => /\ AddressFor(out.contact, out.invoice, out.customer, Billing(d))
                               /\ AddressFor(out.contact, out.delivery, out.customer, Shipping(d))
               /\ ~Guest(o) /\ setting.manual => mapped # Nobody
               /\ ~Guest(o) /\ ~setting.manual => CustomerIs(out.contact, out.customer, mapped, Customer(d))
<1> DEFINE c == snap[o].contact
           out == Outcome(o)
           mapped == MappedTo(snap[o], Ext(o))
           d == data[o]
<1>1. /\ setting.skip \in BOOLEAN /\ setting.manual \in BOOLEAN /\ setting.search \in {"all", "email"}
      /\ setting.default \in {0, 1}
  BY SettingIs
<1>2. /\ Contacts(c) /\ Len(c) \in Nat /\ DOMAIN c = 1..Len(c) /\ setting.default <= Len(c)
  BY ContactsAre DEF Snapshot
<1>3. mapped \in 0..Len(c) /\ (mapped # Nobody => mapped \in DOMAIN c)
  <2>1. Ext(o) # None => Ext(o) \in External
    BY DataIs DEF Ext
  <2>2. Ext(o) # None => snap[o].mapping[Ext(o)] \in (0 - 1)..Len(c)
    BY <2>1 DEF Snapshot, Unmapped
  <2> QED
    BY <1>2, <2>2 DEF MappedTo, Open, Nobody
<1> HIDE DEF mapped
<1>4. CASE Guest(o)
  <2>1. out = [contact |-> c, customer |-> setting.default, invoice |-> setting.default, delivery |-> setting.default]
    BY <1>4 DEF Outcome, Shipped, Found
  <2>2. setting.default # Nobody
    BY <1>4 DEF MissingCustomer
  <2>3. setting.default \in DOMAIN c
    BY <1>1, <1>2, <2>2 DEF Nobody
  <2> HIDE DEF out
  <2>4. out.contact = c /\ out.customer \in DOMAIN c /\ out.invoice \in DOMAIN c /\ out.delivery \in DOMAIN c
    BY <2>1, <2>3
  <2>5. Grows(c, c)
    BY <1>2, GrowsNot
  <2> QED
    BY <1>3, <1>4, <2>4, <2>5 DEF out, mapped
<1>5. CASE ~Guest(o)
  <2>1. Ext(o) \in External /\ d.external # None
    BY <1>5, DataIs DEF Guest, Ext
  <2> DEFINE first == IF setting.manual THEN Found(c, mapped)
                      ELSE KnownAs(Ext(o), Partner(c, mapped, Customer(d)))
             k == first.contact
             customer == first.id
  <2>2. out = Addressed(d, first)
    BY <1>5 DEF Outcome, mapped
  <2>3. setting.manual => mapped # Nobody
    BY <1>5 DEF MissingMapping, mapped
  <2>4. /\ Grows(c, k) /\ customer \in DOMAIN k
        /\ ~setting.manual => CustomerIs(k, customer, mapped, Customer(d))
    <3>1. CASE setting.manual
      <4>1. first = Found(c, mapped)
        BY <3>1
      <4> QED
        BY <1>2, <1>3, <2>3, <3>1, <4>1, GrowsNot DEF Found
    <3>2. CASE ~setting.manual
      <4> DEFINE f == Partner(c, mapped, Customer(d))
      <4>1. Grows(c, f.contact) /\ CustomerIs(f.contact, f.id, mapped, Customer(d))
        BY <1>1, <1>2, <1>3, DataIs, PartnerIs
      <4>2. f = Found(f.contact, f.id)
        BY FoundPartner DEF Pair
      <4>3. first = KnownAs(Ext(o), f)
        BY <3>2
      <4> HIDE DEF f
      <4>4. f.id \in DOMAIN f.contact /\ Contacts(f.contact)
        BY <4>1 DEF CustomerIs, Grows
      <4>5. /\ KnownAs(Ext(o), Found(f.contact, f.id)).id = f.id
            /\ Grows(f.contact, KnownAs(Ext(o), Found(f.contact, f.id)).contact)
        BY <2>1, <4>4, KnownGrows
      <4>6. customer = f.id /\ Grows(f.contact, k)
        BY <4>2, <4>3, <4>5
      <4> HIDE DEF first
      <4>7. mapped \in 0..Len(f.contact)
        BY <1>2, <1>3, <4>1, <4>4, ContactsAre DEF Grows
      <4>8. CustomerIs(k, customer, mapped, Customer(d))
        BY <4>1, <4>6, <4>7, CustomerKept
      <4>9. Grows(c, k)
        BY <4>1, <4>6, GrowsTwice
      <4> QED
        BY <4>8, <4>9 DEF CustomerIs
    <3> QED
      BY <3>1, <3>2
  <2> HIDE DEF first
  <2> DEFINE billing == AddressOf(k, customer, Billing(d), "invoice")
             l == billing.contact
             shipping == AddressOf(l, customer, Shipping(d), "delivery")
             n == shipping.contact
  <2>5. /\ out.contact = n /\ out.customer = customer /\ out.invoice = billing.id
        /\ out.delivery = shipping.id
    BY <2>2 DEF Addressed, Billed, Shipped
  <2>6. Contacts(k)
    BY <2>4 DEF Grows
  <2>7. Grows(k, l) /\ AddressFor(l, billing.id, customer, Billing(d))
    BY <2>4, <2>6, DataIs, AddressIs
  <2> HIDE DEF billing
  <2>8. Contacts(l) /\ customer \in DOMAIN l /\ DOMAIN k \subseteq DOMAIN l
    <3>1. Contacts(l) /\ Len(k) <= Len(l)
      BY <2>7 DEF Grows
    <3>2. DOMAIN k \subseteq DOMAIN l
      BY <2>6, <3>1, ContactsAre
    <3> QED
      BY <2>4, <3>1, <3>2
  <2>9. Grows(l, n) /\ AddressFor(n, shipping.id, customer, Shipping(d))
    BY <2>8, DataIs, AddressIs
  <2> HIDE DEF shipping
  <2>10. Contacts(n) /\ DOMAIN l \subseteq DOMAIN n
    <3>1. Contacts(n) /\ Len(l) <= Len(n)
      BY <2>9 DEF Grows
    <3>2. DOMAIN l \subseteq DOMAIN n
      BY <2>8, <3>1, ContactsAre
    <3> QED
      BY <3>1, <3>2
  <2>11. AddressFor(n, billing.id, customer, Billing(d))
    <3>1. \A i \in DOMAIN l : Keeps(l[i], n[i])
      BY <2>9 DEF Grows
    <3> QED
      BY <2>7, <2>8, <2>10, <3>1, AddressKept
  <2>12. Grows(k, n)
    BY <2>7, <2>9, GrowsTwice
  <2>13. Grows(c, n)
    BY <2>4, <2>12, GrowsTwice
  <2>14. ~setting.manual => CustomerIs(n, customer, mapped, Customer(d))
    <3>1. mapped \in 0..Len(k)
      BY <1>2, <1>3, <2>4, <2>6, ContactsAre DEF Grows
    <3> QED
      BY <2>4, <2>12, <3>1, CustomerKept
  <2> HIDE DEF out
  <2>15. billing.id \in DOMAIN n /\ shipping.id \in DOMAIN n /\ customer \in DOMAIN n
    BY <2>8, <2>9, <2>10, <2>11 DEF AddressFor
  <2> QED
    BY <1>3, <1>5, <2>3, <2>5, <2>9, <2>11, <2>13, <2>14, <2>15 DEF out, mapped
<1> QED
  BY <1>4, <1>5

-----------------------------------------------------------------------------
(* What a transaction makes of the table *)

\* A contact of the transaction of o, in the table.
Lifted(o, r) == [r EXCEPT !.parent = Moved(o, @)]

\* The transaction of o, which has made c of its snapshot, can write what it has changed.
Mergeable(o, c) ==
    /\ Contacts(contact) /\ Grows(snap[o].contact, c)
    /\ Len(snap[o].contact) <= Len(contact)
    /\ \A i \in DOMAIN snap[o].contact :
          /\ Keeps(snap[o].contact[i], contact[i])
          /\ c[i] # snap[o].contact[i] => contact[i] = snap[o].contact[i]

\* The contacts of the snapshot, of the table and of the transaction are a, b and m.
Sizes(o, c, a, b, m) ==
    /\ a \in Nat /\ b \in Nat /\ m \in Nat /\ a <= b /\ a <= m
    /\ a = Len(snap[o].contact) /\ DOMAIN snap[o].contact = 1..a
    /\ b = Len(contact) /\ DOMAIN contact = 1..b
    /\ m = Len(c) /\ DOMAIN c = 1..m
    /\ \A i \in 0..a : Moved(o, i) = i
    /\ \A i \in (a + 1)..m : Moved(o, i) = i + b - a

LEMMA MovedIs ==
    ASSUME NEW o, NEW c, Mergeable(o, c)
    PROVE  \E a, b, m : Sizes(o, c, a, b, m)
<1>1. Contacts(contact) /\ Contacts(snap[o].contact) /\ Contacts(c)
  BY DEF Mergeable, Grows
<1>2. Len(snap[o].contact) <= Len(c) /\ Len(snap[o].contact) <= Len(contact)
  BY DEF Mergeable, Grows
<1>3. /\ Len(snap[o].contact) \in Nat /\ DOMAIN snap[o].contact = 1..Len(snap[o].contact)
      /\ Len(contact) \in Nat /\ DOMAIN contact = 1..Len(contact)
      /\ Len(c) \in Nat /\ DOMAIN c = 1..Len(c)
  BY <1>1, ContactsAre
<1>4. \A i \in 0..Len(snap[o].contact) : Moved(o, i) = i
  BY <1>3 DEF Moved
<1>5. \A i \in (Len(snap[o].contact) + 1)..Len(c) : Moved(o, i) = i + Len(contact) - Len(snap[o].contact)
  <2> SUFFICES ASSUME NEW i \in (Len(snap[o].contact) + 1)..Len(c)
               PROVE  Moved(o, i) = i + Len(contact) - Len(snap[o].contact)
    OBVIOUS
  <2>1. i > Len(snap[o].contact)
    BY <1>3
  <2> QED
    BY <2>1 DEF Moved
<1>6. Sizes(o, c, Len(snap[o].contact), Len(contact), Len(c))
  BY <1>2, <1>3, <1>4, <1>5 DEF Sizes
<1> QED
  BY <1>6

\* Where a contact that the transaction has created goes in the table.
LEMMA ShiftIs ==
    ASSUME NEW a \in Nat, NEW b \in Nat, NEW m \in Nat, a <= b, a <= m, NEW i \in (a + 1)..m
    PROVE  i + b - a \in 1..(b + m - a) /\ i + b - a > b /\ (i + b - a) - b + a = i
OBVIOUS

LEMMA LiftedIs ==
    ASSUME NEW o, NEW r \in ContactRecord, Moved(o, r.parent) \in Nat
    PROVE  LET s == Lifted(o, r) IN
           /\ s \in ContactRecord /\ s.parent = Moved(o, r.parent)
           /\ s.name = r.name /\ s.email = r.email /\ s.street = r.street /\ s.country = r.country
           /\ s.is_company = r.is_company /\ s.type = r.type /\ s.active = r.active
BY DEF Lifted, ContactRecord

\* The contacts of the table, record by record.
LEMMA MergedAt ==
    ASSUME NEW o, NEW c, NEW a, NEW b, NEW m, Sizes(o, c, a, b, m)
    PROVE  LET k == Merge(o, c) IN
           /\ k = [i \in 1..(b + m - a) |-> k[i]]
           /\ \A i \in 1..a : k[i] = IF c[i] # snap[o].contact[i] THEN c[i] ELSE contact[i]
           /\ \A i \in (a + 1)..b : k[i] = contact[i]
           /\ \A i \in (a + 1)..m : Moved(o, i) \in 1..(b + m - a) /\ k[Moved(o, i)] = Lifted(o, c[i])
           /\ \A i \in (b + 1)..(b + m - a) : \E j \in (a + 1)..m : i = Moved(o, j)
<1> DEFINE k == Merge(o, c)
<1>1. k = [i \in 1..(b + m - a) |->
              IF i > b THEN Lifted(o, c[i - b + a])
              ELSE IF i <= a /\ c[i] # snap[o].contact[i] THEN c[i] ELSE contact[i]]
  BY DEF Merge, Lifted, Sizes
<1> HIDE DEF k
<1>2. a \in Nat /\ b \in Nat /\ m \in Nat /\ a <= b /\ a <= m
  BY DEF Sizes
<1>3. \A i \in 1..a : k[i] = IF c[i] # snap[o].contact[i] THEN c[i] ELSE contact[i]
  <2>1. \A i \in 1..a : i \in 1..(b + m - a) /\ ~(i > b) /\ i <= a
    BY <1>2
  <2> QED
    BY <1>1, <2>1
<1>4. \A i \in (a + 1)..b : k[i] = contact[i]
  <2>1. \A i \in (a + 1)..b : i \in 1..(b + m - a) /\ ~(i > b) /\ ~(i <= a)
    BY <1>2
  <2> QED
    BY <1>1, <2>1
<1>5. \A i \in (a + 1)..m : Moved(o, i) \in 1..(b + m - a) /\ k[Moved(o, i)] = Lifted(o, c[i])
  <2> SUFFICES ASSUME NEW i \in (a + 1)..m
               PROVE  Moved(o, i) \in 1..(b + m - a) /\ k[Moved(o, i)] = Lifted(o, c[i])
    OBVIOUS
  <2>1. i + b - a \in 1..(b + m - a) /\ i + b - a > b /\ (i + b - a) - b + a = i
    BY <1>2, ShiftIs
  <2>2. k[i + b - a] = Lifted(o, c[i])
    BY <1>1, <2>1
  <2>3. Moved(o, i) = i + b - a
    BY DEF Sizes
  <2> QED
    BY <2>1, <2>2, <2>3
<1>6. \A i \in (b + 1)..(b + m - a) : \E j \in (a + 1)..m : i = Moved(o, j)
  <2> SUFFICES ASSUME NEW i \in (b + 1)..(b + m - a)
               PROVE  \E j \in (a + 1)..m : i = Moved(o, j)
    OBVIOUS
  <2>1. i - b + a \in (a + 1)..m /\ (i - b + a) + b - a = i
    BY <1>2
  <2>2. Moved(o, i - b + a) = i
    BY <2>1 DEF Sizes
  <2> QED
    BY <2>1, <2>2
<1>7. k = [i \in 1..(b + m - a) |-> k[i]]
  BY <1>1
<1> QED
  BY <1>3, <1>4, <1>5, <1>6, <1>7 DEF k

LEMMA MergeIs ==
    ASSUME NEW o, NEW c, Mergeable(o, c), NEW a, NEW b, NEW m, Sizes(o, c, a, b, m)
    PROVE  LET s == snap[o].contact
               k == Merge(o, c)
           IN  /\ Contacts(k) /\ Len(k) = b + m - a /\ DOMAIN k = 1..(b + m - a)
               /\ \A i \in 1..b : Keeps(contact[i], k[i])
               /\ \A i \in (a + 1)..b : k[i] = contact[i]
               /\ \A i \in 1..a : c[i] = s[i] => k[i] = contact[i]
               /\ \A i \in 1..m : /\ Moved(o, i) \in DOMAIN k
                                  /\ Keeps(Lifted(o, c[i]), k[Moved(o, i)])
               /\ \A i \in 1..m : /\ c[i] \in ContactRecord /\ c[i].parent \in 0..m
                                  /\ Moved(o, c[i].parent) \in Nat
<1> DEFINE s == snap[o].contact
           k == Merge(o, c)
           n == b + m - a
           Placed(r, i) == /\ r \in ContactRecord /\ r.parent \in Nat /\ r.parent < i
                           /\ r.is_company => r.parent = Nobody /\ r.type = "contact"
<1>1. a \in Nat /\ b \in Nat /\ m \in Nat /\ a <= b /\ a <= m /\ n \in Nat /\ b <= n /\ a <= n
  BY DEF Sizes
<1>2. DOMAIN s = 1..a /\ DOMAIN contact = 1..b /\ DOMAIN c = 1..m
  BY DEF Sizes
<1>3. /\ \A i \in 0..a : Moved(o, i) = i
      /\ \A i \in (a + 1)..m : Moved(o, i) = i + b - a
  BY DEF Sizes
<1>4. k = [i \in 1..n |-> k[i]]
  BY MergedAt
<1>5. \A i \in 1..a : k[i] = IF c[i] # s[i] THEN c[i] ELSE contact[i]
  BY MergedAt
<1>6. \A i \in (a + 1)..b : k[i] = contact[i]
  BY MergedAt
<1>7. \A i \in (a + 1)..m : Moved(o, i) \in 1..n /\ k[Moved(o, i)] = Lifted(o, c[i])
  BY MergedAt
<1>8. \A i \in (b + 1)..n : \E j \in (a + 1)..m : i = Moved(o, j)
  BY MergedAt
<1> HIDE DEF k, n, s
<1>9. Contacts(contact) /\ Contacts(c)
  BY DEF Mergeable, Grows
<1>10. (\A i \in 1..m : Placed(c[i], i)) /\ (\A i \in 1..b : Placed(contact[i], i))
  BY <1>2, <1>9, ContactsAre DEF Contacts, ContactRecord
<1>11. \A i \in 1..a : Keeps(s[i], c[i]) /\ Keeps(s[i], contact[i]) /\ (c[i] # s[i] => contact[i] = s[i])
  BY <1>2 DEF Mergeable, Grows, s
<1>12. \A i \in 1..m : /\ c[i].parent \in 0..m
                       /\ Moved(o, c[i].parent) \in Nat /\ Moved(o, c[i].parent) < Moved(o, i)
                       /\ i <= a => Moved(o, c[i].parent) = c[i].parent
  <2> SUFFICES ASSUME NEW i \in 1..m
               PROVE  /\ c[i].parent \in 0..m
                      /\ Moved(o, c[i].parent) \in Nat /\ Moved(o, c[i].parent) < Moved(o, i)
                      /\ i <= a => Moved(o, c[i].parent) = c[i].parent
    OBVIOUS
  <2> DEFINE q == c[i].parent
  <2>1. q \in Nat /\ q < i
    BY <1>10
  <2> HIDE DEF q
  <2>2. CASE i <= a
    <3>1. i \in 0..a /\ q \in 0..a
      BY <1>1, <2>1, <2>2
    <3>2. Moved(o, i) = i /\ Moved(o, q) = q
      BY <1>3, <3>1
    <3> QED
      BY <1>1, <2>1, <3>2 DEF q
  <2>3. CASE i > a /\ q <= a
    <3>1. i \in (a + 1)..m /\ q \in 0..a
      BY <1>1, <2>1, <2>3
    <3>2. Moved(o, i) = i + b - a /\ Moved(o, q) = q
      BY <1>3, <3>1
    <3>3. q < i + b - a
      BY <1>1, <2>3, <3>1
    <3> QED
      BY <1>1, <2>1, <2>3, <3>2, <3>3 DEF q
  <2>4. CASE i > a /\ q > a
    <3>1. i \in (a + 1)..m /\ q \in (a + 1)..m
      BY <1>1, <2>1, <2>4
    <3>2. Moved(o, i) = i + b - a /\ Moved(o, q) = q + b - a
      BY <1>3, <3>1
    <3>3. q + b - a \in Nat /\ q + b - a < i + b - a
      BY <1>1, <2>1, <3>1
    <3> QED
      BY <1>1, <2>1, <2>4, <3>2, <3>3 DEF q
  <2> QED
    BY <1>1, <2>1, <2>2, <2>3, <2>4
<1> HIDE DEF Placed
<1>13. \A i \in 1..m : c[i] \in ContactRecord
  BY <1>10 DEF Placed
<1>14. \A i \in 1..m : /\ Lifted(o, c[i]) \in ContactRecord
                       /\ Lifted(o, c[i]).parent = Moved(o, c[i].parent)
                       /\ Lifted(o, c[i]).name = c[i].name /\ Lifted(o, c[i]).email = c[i].email
                       /\ Lifted(o, c[i]).street = c[i].street /\ Lifted(o, c[i]).country = c[i].country
                       /\ Lifted(o, c[i]).is_company = c[i].is_company
                       /\ Lifted(o, c[i]).type = c[i].type /\ Lifted(o, c[i]).active = c[i].active
  <2> SUFFICES ASSUME NEW i \in 1..m
               PROVE  /\ Lifted(o, c[i]) \in ContactRecord
                      /\ Lifted(o, c[i]).parent = Moved(o, c[i].parent)
                      /\ Lifted(o, c[i]).name = c[i].name /\ Lifted(o, c[i]).email = c[i].email
                      /\ Lifted(o, c[i]).street = c[i].street /\ Lifted(o, c[i]).country = c[i].country
                      /\ Lifted(o, c[i]).is_company = c[i].is_company
                      /\ Lifted(o, c[i]).type = c[i].type /\ Lifted(o, c[i]).active = c[i].active
    OBVIOUS
  <2>1. c[i] \in ContactRecord /\ Moved(o, c[i].parent) \in Nat
    BY <1>12, <1>13
  <2> QED
    BY <2>1, LiftedIs
<1>15. \A i \in 1..n : Placed(k[i], i)
  <2> SUFFICES ASSUME NEW i \in 1..n
               PROVE  Placed(k[i], i)
    OBVIOUS
  <2>1. CASE i > b
    <3>1. PICK j \in (a + 1)..m : i = Moved(o, j)
      <4>1. i \in (b + 1)..n
        BY <1>1, <2>1
      <4> QED
        BY <1>8, <4>1
    <3>2. j \in 1..m
      BY <1>1
    <3>3. k[i] = Lifted(o, c[j])
      BY <1>7, <3>1
    <3>4. Moved(o, Nobody) = Nobody
      BY <1>1, <1>3 DEF Nobody
    <3>5. Placed(c[j], j)
      BY <1>10, <3>2
    <3>6. /\ k[i] \in ContactRecord /\ k[i].parent = Moved(o, c[j].parent)
          /\ k[i].is_company = c[j].is_company /\ k[i].type = c[j].type
      BY <1>14, <3>2, <3>3
    <3>7. k[i].parent \in Nat /\ k[i].parent < i
      BY <1>12, <3>1, <3>2, <3>6
    <3> QED
      BY <3>4, <3>5, <3>6, <3>7 DEF Placed
  <2>2. CASE i <= a /\ c[i] # s[i]
    <3>1. i \in 1..a /\ i \in 1..m
      BY <1>1, <2>2
    <3>2. k[i] = c[i]
      BY <1>5, <2>2, <3>1
    <3> QED
      BY <1>10, <3>1, <3>2
  <2>3. CASE i <= a /\ c[i] = s[i]
    <3>1. i \in 1..a /\ i \in 1..b
      BY <1>1, <2>3
    <3>2. k[i] = contact[i]
      BY <1>5, <2>3, <3>1
    <3> QED
      BY <1>10, <3>1, <3>2
  <2>4. CASE i > a /\ i <= b
    <3>1. i \in (a + 1)..b /\ i \in 1..b
      BY <1>1, <2>4
    <3>2. k[i] = contact[i]
      BY <1>6, <3>1
    <3> QED
      BY <1>10, <3>1, <3>2
  <2> QED
    BY <1>1, <2>1, <2>2, <2>3, <2>4
<1>16. Contacts(k) /\ Len(k) = n /\ DOMAIN k = 1..n
  <2>1. k \in [1..n -> ContactRecord]
    BY <1>4, <1>15 DEF Placed
  <2>2. k \in Seq(ContactRecord) /\ Len(k) = n /\ DOMAIN k = 1..n
    BY <1>1, <2>1
  <2> QED
    BY <1>15, <2>2 DEF Contacts, Placed
<1>17. \A i \in 1..a : Keeps(contact[i], k[i]) /\ Keeps(c[i], k[i]) /\ (c[i] = s[i] => k[i] = contact[i])
  <2> SUFFICES ASSUME NEW i \in 1..a
               PROVE  Keeps(contact[i], k[i]) /\ Keeps(c[i], k[i]) /\ (c[i] = s[i] => k[i] = contact[i])
    OBVIOUS
  <2>1. CASE c[i] # s[i]
    <3>1. k[i] = c[i] /\ contact[i] = s[i] /\ Keeps(s[i], c[i])
      BY <1>5, <1>11, <2>1
    <3>2. Keeps(c[i], c[i])
      BY DEF Keeps
    <3> QED
      BY <2>1, <3>1, <3>2
  <2>2. CASE c[i] = s[i]
    <3>1. k[i] = contact[i] /\ Keeps(s[i], contact[i])
      BY <1>5, <1>11, <2>2
    <3>2. Keeps(contact[i], contact[i])
      BY DEF Keeps
    <3> QED
      BY <2>2, <3>1, <3>2
  <2> QED
    BY <2>1, <2>2
<1>18. \A i \in 1..b : Keeps(contact[i], k[i])
  <2> SUFFICES ASSUME NEW i \in 1..b
               PROVE  Keeps(contact[i], k[i])
    OBVIOUS
  <2>1. i \in 1..a \/ i \in (a + 1)..b
    BY <1>1
  <2>2. CASE i \in (a + 1)..b
    <3>1. k[i] = contact[i]
      BY <1>6, <2>2
    <3> QED
      BY <3>1 DEF Keeps
  <2> QED
    BY <1>17, <2>1, <2>2
<1>19. \A i \in 1..m : Moved(o, i) \in 1..n /\ Keeps(Lifted(o, c[i]), k[Moved(o, i)])
  <2> SUFFICES ASSUME NEW i \in 1..m
               PROVE  Moved(o, i) \in 1..n /\ Keeps(Lifted(o, c[i]), k[Moved(o, i)])
    OBVIOUS
  <2>1. CASE i > a
    <3>1. i \in (a + 1)..m
      BY <1>1, <2>1
    <3>2. Moved(o, i) \in 1..n /\ k[Moved(o, i)] = Lifted(o, c[i])
      BY <1>7, <3>1
    <3> QED
      BY <3>2 DEF Keeps
  <2>2. CASE i <= a
    <3>1. i \in 1..a /\ i \in 0..a /\ i \in 1..n
      BY <1>1, <2>2
    <3>2. Moved(o, i) = i /\ Moved(o, c[i].parent) = c[i].parent
      BY <1>3, <1>12, <2>2, <3>1
    <3>3. Keeps(c[i], k[i])
      BY <1>17, <3>1
    <3> QED
      BY <1>14, <3>1, <3>2, <3>3 DEF Keeps
  <2> QED
    BY <1>1, <2>1, <2>2
<1> QED
  BY <1>6, <1>12, <1>13, <1>16, <1>17, <1>18, <1>19 DEF k, n, s

LEMMA MovedApart ==
    ASSUME NEW o, NEW c, NEW a, NEW b, NEW m, Sizes(o, c, a, b, m)
    PROVE  /\ \A i \in 0..m : Moved(o, i) \in Nat
           /\ \A i \in 0..m, j \in 0..m : Moved(o, i) = Moved(o, j) => i = j
           /\ Moved(o, Nobody) = Nobody
<1>1. a \in Nat /\ b \in Nat /\ m \in Nat /\ a <= b /\ a <= m
  BY DEF Sizes
<1>2. \A i \in 0..m : \/ i \in 0..a /\ Moved(o, i) = i
                      \/ i \in (a + 1)..m /\ Moved(o, i) = i + b - a
  <2> SUFFICES ASSUME NEW i \in 0..m
               PROVE  \/ i \in 0..a /\ Moved(o, i) = i
                      \/ i \in (a + 1)..m /\ Moved(o, i) = i + b - a
    OBVIOUS
  <2>1. i \in 0..a \/ i \in (a + 1)..m
    BY <1>1
  <2> QED
    BY <2>1 DEF Sizes
<1>3. \A i \in 0..m : Moved(o, i) \in Nat
  BY <1>1, <1>2
<1>4. \A i \in 0..m, j \in 0..m : Moved(o, i) = Moved(o, j) => i = j
  <2> SUFFICES ASSUME NEW i \in 0..m, NEW j \in 0..m, Moved(o, i) = Moved(o, j)
               PROVE  i = j
    OBVIOUS
  <2>1. \/ i \in 0..a /\ Moved(o, i) = i
        \/ i \in (a + 1)..m /\ Moved(o, i) = i + b - a
    BY <1>2
  <2>2. \/ j \in 0..a /\ Moved(o, j) = j
        \/ j \in (a + 1)..m /\ Moved(o, j) = j + b - a
    BY <1>2
  <2> QED
    BY <1>1, <2>1, <2>2
<1>5. Moved(o, Nobody) = Nobody
  BY <1>1, <1>2 DEF Nobody
<1> QED
  BY <1>3, <1>4, <1>5

\* What is before a contact of the transaction, in the table: others that the transaction
\* does not see, and those that were before it.
LEMMA BelowIs ==
    ASSUME NEW o, NEW c, NEW a, NEW b, NEW m, Sizes(o, c, a, b, m),
           NEW j \in 1..m, NEW i \in 1..(Moved(o, j) - 1)
    PROVE  \/ i \in (a + 1)..b /\ Moved(o, j) \in (b + 1)..(b + m - a)
           \/ \E h \in 1..(j - 1) : i = Moved(o, h)
<1>1. a \in Nat /\ b \in Nat /\ m \in Nat /\ a <= b /\ a <= m
  BY DEF Sizes
<1>2. CASE j <= a
  <2>1. Moved(o, j) = j
    BY <1>1, <1>2 DEF Sizes
  <2>2. i \in 1..(j - 1) /\ i \in 0..a
    BY <1>1, <1>2, <2>1
  <2>3. Moved(o, i) = i
    BY <2>2 DEF Sizes
  <2> QED
    BY <2>2, <2>3
<1>3. CASE j > a
  <2>1. j \in (a + 1)..m
    BY <1>1, <1>3
  <2>2. Moved(o, j) = j + b - a
    BY <2>1 DEF Sizes
  <2>3. Moved(o, j) \in (b + 1)..(b + m - a)
    BY <1>1, <2>1, <2>2
  <2>4. CASE i <= a
    <3>1. i \in 0..a /\ i \in 1..(j - 1)
      BY <1>1, <1>3, <2>2, <2>4
    <3>2. Moved(o, i) = i
      BY <3>1 DEF Sizes
    <3> QED
      BY <3>1, <3>2
  <2>5. CASE i > a /\ i <= b
    <3>1. i \in (a + 1)..b
      BY <1>1, <2>2, <2>5
    <3> QED
      BY <2>3, <3>1
  <2>6. CASE i > b
    <3>1. i - b + a \in (a + 1)..m /\ i - b + a \in 1..(j - 1) /\ (i - b + a) + b - a = i
      BY <1>1, <2>1, <2>2, <2>6
    <3>2. Moved(o, i - b + a) = (i - b + a) + b - a
      BY <3>1 DEF Sizes
    <3> QED
      BY <3>1, <3>2
  <2> QED
    BY <1>1, <2>2, <2>4, <2>5, <2>6
<1> QED
  BY <1>1, <1>2, <1>3

\* Contacts created while the transaction did not see them, and contacts it has created.
Unseen(a, b, m) == ((a + 1)..b) \X ((b + 1)..(b + m - a))

\* Contacts that are the same in the table are so in the transaction.
LEMMA LiftedTwins ==
    ASSUME NEW o, NEW c, NEW a, NEW b, NEW m, Sizes(o, c, a, b, m),
           NEW r \in ContactRecord, r.parent \in 0..m, r.type # "contact" => ~r.is_company,
           NEW s \in ContactRecord, s.parent \in 0..m,
           NEW t, NEW u, Keeps(Lifted(o, r), t), Keeps(Lifted(o, s), u), Twins(t, u)
    PROVE  Twins(r, s)
<1>1. /\ \A i \in 0..m : Moved(o, i) \in Nat
      /\ \A i \in 0..m, j \in 0..m : Moved(o, i) = Moved(o, j) => i = j
  BY MovedApart
<1>2. LET l == Lifted(o, r) IN
      /\ l.parent = Moved(o, r.parent)
      /\ l.name = r.name /\ l.email = r.email /\ l.street = r.street /\ l.country = r.country
      /\ l.is_company = r.is_company /\ l.type = r.type /\ l.active = r.active
  BY <1>1, LiftedIs
<1>3. LET l == Lifted(o, s) IN
      /\ l.parent = Moved(o, s.parent)
      /\ l.name = s.name /\ l.email = s.email /\ l.street = s.street /\ l.country = s.country
      /\ l.is_company = s.is_company /\ l.type = s.type /\ l.active = s.active
  BY <1>1, LiftedIs
<1>4. Twins(Lifted(o, r), Lifted(o, s))
  BY <1>2, TwinsKept
<1>5. r.parent = s.parent
  <2>1. Moved(o, r.parent) = Moved(o, s.parent)
    BY <1>2, <1>3, <1>4 DEF Twins
  <2> QED
    BY <1>1, <2>1
<1> QED
  BY <1>2, <1>3, <1>4, <1>5 DEF Twins, Unknown

LEMMA MergedKeys ==
    ASSUME NEW o, NEW c, Mergeable(o, c), NEW a, NEW b, NEW m, Sizes(o, c, a, b, m),
           NEW h, \A j \in 1..b : \A i \in 1..(j - 1) : Twins(contact[i], contact[j]) => <<i, j>> \in h,
           NEW j \in 1..(b + m - a), NEW i \in 1..(j - 1), Twins(Merge(o, c)[i], Merge(o, c)[j])
    PROVE  <<i, j>> \in h \cup Unseen(a, b, m)
<1> DEFINE k == Merge(o, c)
<1>1. a \in Nat /\ b \in Nat /\ m \in Nat /\ a <= b /\ a <= m
  BY DEF Sizes
<1>2. \A x \in 1..b : Keeps(contact[x], k[x])
  BY MergeIs
<1>3. \A x \in 1..m : /\ Keeps(Lifted(o, c[x]), k[Moved(o, x)])
                      /\ c[x] \in ContactRecord /\ c[x].parent \in 0..m
  BY MergeIs
<1>4. Twins(k[i], k[j])
  OBVIOUS
<1> HIDE DEF k
<1>5. CASE j <= b
  <2>1. i \in 1..b /\ j \in 1..b
    BY <1>1, <1>5
  <2>2. contact[i].type # "contact" => ~contact[i].is_company
    BY <2>1 DEF Mergeable, Contacts, Sizes
  <2>3. Twins(contact[i], contact[j])
    BY <1>2, <1>4, <2>1, <2>2, TwinsKept
  <2> QED
    BY <2>1, <2>3
<1>6. CASE j > b
  <2>1. j \in (b + 1)..(b + m - a)
    BY <1>1, <1>6
  <2>2. PICK y \in (a + 1)..m : j = Moved(o, y)
    BY <2>1, MergedAt
  <2>3. y \in 1..m
    BY <1>1
  <2>4. ASSUME NEW x \in 1..(y - 1), i = Moved(o, x)
        PROVE  FALSE
    <3>1. x \in 1..m
      BY <1>1
    <3>2. c[x].type # "contact" => ~c[x].is_company
      BY <3>1 DEF Mergeable, Grows, Contacts, Sizes
    <3>3. Twins(c[x], c[y])
      BY <1>3, <1>4, <2>2, <2>3, <2>4, <3>1, <3>2, LiftedTwins
    <3>4. y \in DOMAIN c \ DOMAIN snap[o].contact
      BY <1>1, <2>3 DEF Sizes
    <3> QED
      BY <3>3, <3>4 DEF Mergeable, Grows
  <2>5. i \in (a + 1)..b
    BY <2>2, <2>3, <2>4, BelowIs
  <2> QED
    BY <2>1, <2>5 DEF Unseen
<1> QED
  BY <1>1, <1>5, <1>6

\* What a search has found first is the first in the table too, of those that the
\* transaction has seen.
LEMMA SearchedMerged ==
    ASSUME NEW o, NEW c, Mergeable(o, c), NEW a, NEW b, NEW m, Sizes(o, c, a, b, m),
           NEW p, NEW id \in 1..m, Searched(c, id, p), ~Unknown(p)
    PROVE  LET k == Merge(o, c)
               r == Moved(o, id)
           IN  /\ SameCustomer(p, k[r].parent, k[r])
               /\ p.company = None => k[r].parent = Nobody
               /\ \A i \in 1..(r - 1) :
                     k[i].active /\ SameCustomer(p, k[r].parent, k[i]) => <<i, r>> \in Unseen(a, b, m)
<1> DEFINE k == Merge(o, c)
           r == Moved(o, id)
<1>1. a \in Nat /\ b \in Nat /\ m \in Nat /\ a <= b /\ a <= m
  BY DEF Sizes
<1>2. /\ \A i \in 0..m : Moved(o, i) \in Nat
      /\ \A i \in 0..m, j \in 0..m : Moved(o, i) = Moved(o, j) => i = j
      /\ Moved(o, Nobody) = Nobody
  BY MovedApart
<1>3. \A x \in 1..m : /\ Keeps(Lifted(o, c[x]), k[Moved(o, x)])
                      /\ c[x] \in ContactRecord /\ c[x].parent \in 0..m
  BY MergeIs
<1> HIDE DEF k
<1>4. ASSUME NEW x \in 1..m
      PROVE  LET l == Lifted(o, c[x])
                 t == k[Moved(o, x)]
             IN  /\ l.parent = Moved(o, c[x].parent) /\ t.parent = Moved(o, c[x].parent)
                 /\ l.name = c[x].name /\ l.email = c[x].email
                 /\ l.is_company = c[x].is_company /\ l.type = c[x].type /\ l.active = c[x].active
                 /\ t.active => c[x].active
                 /\ SameCustomer(p, Moved(o, c[x].parent), l) <=> SameCustomer(p, c[x].parent, c[x])
                 /\ SameCustomer(p, Moved(o, c[x].parent), t) <=> SameCustomer(p, c[x].parent, c[x])
  <2>1. c[x] \in ContactRecord /\ Moved(o, c[x].parent) \in Nat /\ Keeps(Lifted(o, c[x]), k[Moved(o, x)])
    BY <1>2, <1>3
  <2>2. LET l == Lifted(o, c[x]) IN
        /\ l.parent = Moved(o, c[x].parent)
        /\ l.name = c[x].name /\ l.email = c[x].email /\ l.street = c[x].street /\ l.country = c[x].country
        /\ l.is_company = c[x].is_company /\ l.type = c[x].type /\ l.active = c[x].active
    BY <2>1, LiftedIs
  <2>3. SameCustomer(p, Moved(o, c[x].parent), Lifted(o, c[x])) <=> SameCustomer(p, c[x].parent, c[x])
    BY <2>2 DEF SameCustomer
  <2>4. SameCustomer(p, Moved(o, c[x].parent), Lifted(o, c[x]))
            <=> SameCustomer(p, Moved(o, c[x].parent), k[Moved(o, x)])
    BY <2>1, SameKept
  <2> QED
    BY <2>1, <2>2, <2>3, <2>4 DEF Keeps
<1>5. /\ SameCustomer(p, c[id].parent, c[id]) /\ (p.company = None => c[id].parent = Nobody)
      /\ \A i \in 1..(id - 1) : c[i].active => ~SameCustomer(p, c[id].parent, c[i])
  BY DEF Searched
<1>6. k[r].parent = Moved(o, c[id].parent) /\ SameCustomer(p, k[r].parent, k[r])
  BY <1>4, <1>5
<1>7. p.company = None => k[r].parent = Nobody
  BY <1>2, <1>5, <1>6
<1>8. ASSUME NEW i \in 1..(r - 1), k[i].active, SameCustomer(p, k[r].parent, k[i])
      PROVE  <<i, r>> \in Unseen(a, b, m)
  <2>1. ASSUME NEW h \in 1..(id - 1), i = Moved(o, h)
        PROVE  FALSE
    <3>1. h \in 1..m
      BY <1>1
    <3>2. k[i].parent = Moved(o, c[h].parent) /\ c[h].active
      BY <1>4, <1>8, <2>1, <3>1
    <3>3. k[i].parent = k[r].parent
      BY <1>8 DEF SameCustomer
    <3>4. c[h].parent = c[id].parent
      BY <1>2, <1>3, <1>6, <3>1, <3>2, <3>3
    <3>5. SameCustomer(p, c[h].parent, c[h])
      BY <1>4, <1>8, <2>1, <3>1, <3>2, <3>3
    <3> QED
      BY <1>5, <3>2, <3>4, <3>5
  <2>2. i \in (a + 1)..b /\ r \in (b + 1)..(b + m - a)
    BY <2>1, BelowIs
  <2> QED
    BY <2>2 DEF Unseen
<1> QED
  BY <1>6, <1>7, <1>8 DEF k

\* What becomes of the parent of a contact of the transaction.
LEMMA ParentMerged ==
    ASSUME NEW o, NEW c, Mergeable(o, c), NEW a, NEW b, NEW m, Sizes(o, c, a, b, m), NEW id \in 1..m
    PROVE  LET k == Merge(o, c)
               r == Moved(o, id)
           IN  /\ r \in 1..(b + m - a) /\ k[r].parent = Moved(o, c[id].parent)
               /\ k[r].name = c[id].name /\ k[r].is_company = c[id].is_company
               /\ k[r].active => c[id].active
               /\ c[id].street # None \/ c[id].country # None => k[r].street = c[id].street /\ k[r].country = c[id].country
               /\ c[id].parent # Nobody =>
                     /\ k[r].parent # Nobody /\ k[k[r].parent].name = c[c[id].parent].name
                     /\ k[k[r].parent].is_company = c[c[id].parent].is_company
<1> DEFINE k == Merge(o, c)
<1>1. m \in Nat
  BY DEF Sizes
<1>2. /\ \A i \in 0..m : Moved(o, i) \in Nat
      /\ \A i \in 0..m, j \in 0..m : Moved(o, i) = Moved(o, j) => i = j
      /\ Moved(o, Nobody) = Nobody
  BY MovedApart
<1>3. \A x \in 1..m : /\ Keeps(Lifted(o, c[x]), k[Moved(o, x)]) /\ Moved(o, x) \in DOMAIN k
                      /\ c[x] \in ContactRecord /\ c[x].parent \in 0..m
  BY MergeIs
<1>4. DOMAIN k = 1..(b + m - a)
  BY MergeIs
<1> HIDE DEF k
<1>5. ASSUME NEW x \in 1..m
      PROVE  LET t == k[Moved(o, x)]
             IN  /\ t.parent = Moved(o, c[x].parent) /\ t.name = c[x].name /\ t.is_company = c[x].is_company
                 /\ t.active => c[x].active
                 /\ c[x].street # None \/ c[x].country # None => t.street = c[x].street /\ t.country = c[x].country
  <2>1. c[x] \in ContactRecord /\ Moved(o, c[x].parent) \in Nat /\ Keeps(Lifted(o, c[x]), k[Moved(o, x)])
    BY <1>2, <1>3
  <2>2. LET l == Lifted(o, c[x]) IN
        /\ l.parent = Moved(o, c[x].parent)
        /\ l.name = c[x].name /\ l.email = c[x].email /\ l.street = c[x].street /\ l.country = c[x].country
        /\ l.is_company = c[x].is_company /\ l.type = c[x].type /\ l.active = c[x].active
    BY <2>1, LiftedIs
  <2> QED
    BY <2>1, <2>2 DEF Keeps
<1>6. c[id].parent # Nobody => /\ Moved(o, c[id].parent) # Nobody
                               /\ k[Moved(o, c[id].parent)].name = c[c[id].parent].name
                               /\ k[Moved(o, c[id].parent)].is_company = c[c[id].parent].is_company
  <2> SUFFICES ASSUME c[id].parent # Nobody
               PROVE  /\ Moved(o, c[id].parent) # Nobody
                      /\ k[Moved(o, c[id].parent)].name = c[c[id].parent].name
                      /\ k[Moved(o, c[id].parent)].is_company = c[c[id].parent].is_company
    OBVIOUS
  <2>1. c[id].parent \in 1..m /\ c[id].parent \in 0..m /\ 0 \in 0..m
    BY <1>1, <1>3 DEF Nobody
  <2> QED
    BY <1>2, <1>5, <2>1 DEF Nobody
<1> QED
  BY <1>3, <1>4, <1>5, <1>6 DEF k

LEMMA AddressMerged ==
    ASSUME NEW o, NEW c, Mergeable(o, c), NEW a, NEW b, NEW m, Sizes(o, c, a, b, m),
           NEW id, NEW customer, NEW p, AddressFor(c, id, customer, p)
    PROVE  AddressFor(Merge(o, c), Moved(o, id), Moved(o, customer), p)
<1> DEFINE k == Merge(o, c)
           r == Moved(o, id)
<1>1. id \in 1..m /\ Alike(c[id], p)
  BY DEF AddressFor, Sizes
<1>2. DOMAIN k = 1..(b + m - a)
  BY MergeIs
<1>3. /\ r \in 1..(b + m - a) /\ k[r].parent = Moved(o, c[id].parent)
      /\ k[r].name = c[id].name /\ k[r].is_company = c[id].is_company
      /\ c[id].street # None \/ c[id].country # None => k[r].street = c[id].street /\ k[r].country = c[id].country
      /\ c[id].parent # Nobody =>
            k[r].parent # Nobody /\ k[k[r].parent].name = c[c[id].parent].name
  BY <1>1, ParentMerged
<1> HIDE DEF k
<1>4. Alike(k[r], p)
  BY <1>1, <1>3 DEF Alike
<1>5. \/ r = Moved(o, customer) \/ k[r].parent = Moved(o, customer)
      \/ k[r].is_company /\ k[r].name = p.company
      \/ k[r].parent # Nobody /\ k[k[r].parent].name = p.company
  BY <1>3 DEF AddressFor
<1> QED
  BY <1>2, <1>3, <1>4, <1>5 DEF AddressFor, k

-----------------------------------------------------------------------------
(* The invariant *)

TypeInv ==
    /\ setting \in Setting /\ data \in [Order -> Data]
    /\ Contacts(contact) /\ setting.default <= Len(contact)
    /\ mapping \in [External -> Unmapped..Len(contact)]
    /\ job \in [Order -> {"waiting", "failed", "done"} \cup Active]
    /\ DOMAIN snap = Order /\ DOMAIN changed = Order /\ DOMAIN result = Order

\* Since the snapshot of an order, contacts have been added, and what has changed
\* of the others, and of the mappings, is in changed.
HasSeen(o) ==
    /\ Snapshot(o) /\ Len(snap[o].contact) <= Len(contact)
    /\ \A i \in DOMAIN snap[o].contact :
          /\ Keeps(snap[o].contact[i], contact[i])
          /\ contact[i] # snap[o].contact[i] => ContactRow(i) \in changed[o]
    /\ \A e \in External :
          snap[o].mapping[e] # Unmapped /\ mapping[e] # snap[o].mapping[e] => MappingRow(e) \in changed[o]

SnapInv == \A o \in Order : job[o] \in Active => HasSeen(o)

\* No contact that a search would have found has been created, but at the same time.
KeyInv ==
    \A j \in DOMAIN contact : \A i \in 1..(j - 1) : Twins(contact[i], contact[j]) => <<i, j>> \in apart

ResultInv ==
    \A o \in Done :
        result[o].customer \in DOMAIN contact
        /\ result[o].invoice \in DOMAIN contact /\ result[o].delivery \in DOMAIN contact

\* With a manual mapping, who is mapped has been chosen.
ChosenInv ==
    setting.manual =>
        /\ \A e \in External : mapping[e] > Open => e \in chosen
        /\ \A o \in Order, e \in External : job[o] \in Active /\ snap[o].mapping[e] > Open => e \in chosen
        /\ \A o \in Done : Ext(o) # None => Ext(o) \in chosen

Served(e) == {o \in Done : Ext(o) = e}
ForCompany(e) == \E q \in Served(e) : Customer(data[q]).company # None

\* What the order q says has found the contact r, and found it first.
FirstFound(q, r) ==
    \/ Unknown(Customer(data[q]))
    \/ /\ SameCustomer(Customer(data[q]), contact[r].parent, contact[r])
       /\ Customer(data[q]).company = None => contact[r].parent = Nobody
       /\ \A i \in 1..(r - 1) :
             contact[i].active /\ SameCustomer(Customer(data[q]), contact[r].parent, contact[i])
             => <<i, r>> \in apart

CompanyOf(r, name) == contact[r].is_company /\ contact[r].name = name

\* The customer of an order, who is looked for as a person.
PersonInv(o) ==
    LET r == result[o].customer
        company == Customer(data[o]).company
    IN  /\ ~contact[r].is_company
        /\ company # None => contact[r].parent # Nobody /\ CompanyOf(contact[r].parent, company)
        /\ \E q \in Served(Ext(o)) : FirstFound(q, r)
        /\ company = None /\ ~ForCompany(Ext(o)) /\ contact[r].active => r = mapping[Ext(o)]

\* The customer of an order, who is looked for as a company if there is one.
FirmInv(o) ==
    LET r == result[o].customer
        company == Customer(data[o]).company
    IN  /\ company # None => CompanyOf(r, company)
        /\ company = None => IF contact[r].is_company THEN ForCompany(Ext(o)) ELSE FirstFound(o, r)

\* The mapping of a customer is what the last of their orders has written.
ExternalInv(e) ==
    /\ \/ mapping[e] = Unmapped /\ Served(e) = {}
       \/ \E q \in Served(e) : mapping[e] = result[q].customer
    /\ \A o \in Served(e) : IF setting.skip THEN FirmInv(o) ELSE PersonInv(o)

CustomerInv == ~setting.manual => \A e \in External \ chosen : ExternalInv(e)

PInv == TypeInv /\ SnapInv /\ KeyInv /\ ResultInv /\ ChosenInv /\ CustomerInv

LEMMA PInvInit == PartnersInit => PInv
<1> SUFFICES ASSUME PartnersInit
             PROVE  PInv
  OBVIOUS
<1>1. /\ setting \in Setting /\ data \in [Order -> Data] /\ contact = Start(setting.default)
      /\ mapping = [e \in External |-> Unmapped] /\ job = [o \in Order |-> "waiting"]
      /\ DOMAIN snap = Order /\ DOMAIN changed = Order /\ DOMAIN result = Order
  BY DEF PartnersInit
<1>2. setting.default \in {0, 1}
  BY <1>1, SettingIs
<1> DEFINE n == setting.default
           r == Record([email |-> None, street |-> None, country |-> None], "default", FALSE, Nobody, "contact")
<1>3. r \in ContactRecord /\ ~r.is_company /\ r.parent = 0
  <2>1. r = [name |-> "default", email |-> None, street |-> None, country |-> None, is_company |-> FALSE,
             parent |-> 0, type |-> "contact", active |-> TRUE, known_as |-> {}]
    BY DEF Record, Nobody
  <2>2. None \in Text /\ "default" \in Text
    BY DEF Text
  <2>3. {} \in SUBSET External
    OBVIOUS
  <2>4. [name |-> "default", email |-> None, street |-> None, country |-> None, is_company |-> FALSE,
         parent |-> 0, type |-> "contact", active |-> TRUE, known_as |-> {}] \in ContactRecord
    BY <2>2, <2>3 DEF ContactRecord
  <2> HIDE DEF r
  <2> QED
    BY <2>1, <2>4
<1>4. contact = [i \in 1..n |-> r]
  BY <1>1 DEF Start
<1> HIDE DEF r, n
<1>5. n \in Nat /\ n <= 1
  BY <1>2 DEF n
<1>6. contact \in Seq(ContactRecord) /\ Len(contact) = n /\ DOMAIN contact = 1..n
      /\ \A i \in 1..n : contact[i] = r
  <2>1. contact \in [1..n -> ContactRecord]
    BY <1>3, <1>4
  <2> QED
    BY <1>4, <1>5, <2>1
<1>7. Contacts(contact)
  BY <1>3, <1>6 DEF Contacts
<1>8. mapping \in [External -> Unmapped..Len(contact)]
  BY <1>1, <1>5, <1>6 DEF Unmapped
<1>9. setting.default <= Len(contact)
  BY <1>5, <1>6 DEF n
<1>10. TypeInv
  BY <1>1, <1>7, <1>8, <1>9 DEF TypeInv
<1>11. Done = {} /\ \A o \in Order : job[o] \notin Active
  BY <1>1 DEF Done, Active
<1>12. KeyInv
  BY <1>5, <1>6 DEF KeyInv
<1>13. ChosenInv
  BY <1>1, <1>11 DEF ChosenInv, Unmapped, Open
<1>14. CustomerInv
  BY <1>1, <1>11 DEF CustomerInv, ExternalInv, Served
<1> QED
  BY <1>10, <1>11, <1>12, <1>13, <1>14 DEF PInv, SnapInv, ResultInv

-----------------------------------------------------------------------------
(* What steps keep *)

\* What has been found first stays so.
LEMMA FirstFoundKept ==
    ASSUME UNCHANGED orders, apart \subseteq apart', NEW q, NEW r \in Nat, FirstFound(q, r),
           \A i \in 1..r : Keeps(contact[i], contact'[i]), r # 0
    PROVE  FirstFound(q, r)'
<1> DEFINE p == Customer(data[q])
<1>1. setting' = setting /\ data' = data
  BY DEF orders
<1>2. r \in 1..r /\ \A i \in 1..(r - 1) : i \in 1..r
  OBVIOUS
<1>3. Keeps(contact[r], contact'[r]) /\ contact'[r].parent = contact[r].parent
  BY <1>2 DEF Keeps
<1>4. Unknown(p) => Unknown(p)'
  BY <1>1 DEF Unknown, Customer, Billing, Given
<1>5. p' = p
  BY <1>1 DEF Customer, Billing, Given
<1> HIDE DEF p
<1>6. ASSUME NEW i \in 1..r
      PROVE  SameCustomer(p, contact[r].parent, contact[i])' <=> SameCustomer(p, contact[r].parent, contact[i])
  <2>1. Keeps(contact[i], contact'[i])
    OBVIOUS
  <2> QED
    BY <1>1, <1>3, <1>5, <2>1 DEF SameCustomer, Keeps
<1>7. CASE Unknown(p)
  BY <1>4, <1>7 DEF FirstFound, p
<1>8. CASE ~Unknown(p)
  <2>1. /\ SameCustomer(p, contact[r].parent, contact[r])
        /\ p.company = None => contact[r].parent = Nobody
        /\ \A i \in 1..(r - 1) :
             contact[i].active /\ SameCustomer(p, contact[r].parent, contact[i]) => <<i, r>> \in apart
    BY <1>8 DEF FirstFound, p
  <2>2. SameCustomer(p, contact[r].parent, contact[r])'
    BY <1>2, <1>6, <2>1
  <2>3. p'.company = None => contact'[r].parent = Nobody
    BY <1>3, <1>5, <2>1
  <2>4. ASSUME NEW i \in 1..(r - 1), contact'[i].active, SameCustomer(p, contact[r].parent, contact[i])'
        PROVE  <<i, r>> \in apart'
    <3>1. i \in 1..r /\ Keeps(contact[i], contact'[i])
      BY <1>2
    <3>2. contact[i].active
      BY <2>4, <3>1 DEF Keeps
    <3>3. SameCustomer(p, contact[r].parent, contact[i])
      BY <1>6, <2>4, <3>1
    <3> QED
      BY <2>1, <3>2, <3>3
  <2> QED
    BY <2>2, <2>3, <2>4 DEF FirstFound, p
<1> QED
  BY <1>7, <1>8

\* What holds of the orders of a customer still does when one more is done.
LEMMA ServedKept ==
    ASSUME UNCHANGED orders, apart \subseteq apart', Contacts(contact), ResultInv,
           \A i \in DOMAIN contact : Keeps(contact[i], contact'[i]),
           NEW e \in External, Served(e) \subseteq Served(e)',
           \A q \in Served(e) : result'[q] = result[q],
           Served(e) # {} /\ ~setting.skip /\ ~ForCompany(e)' /\ contact'[mapping[e]].active
               => mapping'[e] = mapping[e],
           ExternalInv(e)
    PROVE  \A o \in Served(e) : (IF setting.skip THEN FirmInv(o) ELSE PersonInv(o))'
<1>1. setting' = setting /\ data' = data
  BY DEF orders
<1>2. \A q \in Order : Ext(q)' = Ext(q) /\ Customer(data[q])' = Customer(data[q])
  BY <1>1 DEF Ext, Customer, Billing, Given
<1>3. Served(e) \subseteq Order /\ \A q \in Served(e) : q \in Done /\ Ext(q) = e
  BY DEF Served, Done
<1>4. ForCompany(e) => ForCompany(e)'
  BY <1>2, <1>3 DEF ForCompany
<1>5. ASSUME NEW o \in Served(e), NEW r, r = result[o].customer
      PROVE  /\ r \in DOMAIN contact /\ r \in Nat /\ r # 0 /\ result'[o].customer = r
             /\ contact'[r].is_company = contact[r].is_company
             /\ contact'[r].name = contact[r].name
             /\ contact'[r].active => contact[r].active
             /\ contact'[r].parent = contact[r].parent
             /\ contact[r].parent # Nobody =>
                   Keeps(contact[contact[r].parent], contact'[contact[r].parent])
             /\ \A q : FirstFound(q, r) => FirstFound(q, r)'
  <2>1. r \in DOMAIN contact /\ result'[o].customer = r
    BY <1>3, <1>5 DEF ResultInv
  <2>2. /\ Len(contact) \in Nat /\ DOMAIN contact = 1..Len(contact)
        /\ \A i \in DOMAIN contact : contact[i] \in ContactRecord
    BY ContactsAre
  <2>3. r \in Nat /\ r # 0 /\ 1..r \subseteq DOMAIN contact
    BY <2>1, <2>2
  <2>4. Keeps(contact[r], contact'[r])
    BY <2>1
  <2>5. contact[r].parent # Nobody => contact[r].parent \in DOMAIN contact
    <3>1. contact[r].parent \in Nat /\ contact[r].parent < r
      BY <2>1, <2>2 DEF Contacts, ContactRecord
    <3> QED
      BY <2>2, <2>3, <3>1 DEF Nobody
  <2>6. ASSUME NEW q, FirstFound(q, r)
        PROVE  FirstFound(q, r)'
    <3>1. \A i \in 1..r : Keeps(contact[i], contact'[i])
      BY <2>3
    <3> QED
      BY <2>3, <2>6, <3>1, FirstFoundKept
  <2> QED
    BY <2>1, <2>3, <2>4, <2>5, <2>6 DEF Keeps
<1>6. ASSUME NEW o \in Served(e)
      PROVE  /\ setting.skip /\ FirmInv(o) => FirmInv(o)'
             /\ ~setting.skip /\ PersonInv(o) => PersonInv(o)'
  <2> PICK r : r = result[o].customer
    OBVIOUS
  <2> PICK company : company = Customer(data[o]).company
    OBVIOUS
  <2>1. /\ result'[o].customer = r
        /\ contact'[r].is_company = contact[r].is_company
        /\ contact'[r].name = contact[r].name
        /\ contact'[r].active => contact[r].active
        /\ contact'[r].parent = contact[r].parent
        /\ contact[r].parent # Nobody =>
              Keeps(contact[contact[r].parent], contact'[contact[r].parent])
        /\ \A q : FirstFound(q, r) => FirstFound(q, r)'
    BY <1>5
  <2>2. o \in Order /\ Ext(o) = e /\ Ext(o)' = e /\ (Customer(data[o]).company)' = company
    BY <1>2, <1>3
  <2>4. ASSUME ~setting.skip, PersonInv(o)
        PROVE  PersonInv(o)'
    <3>1. /\ ~contact[r].is_company
          /\ company # None => contact[r].parent # Nobody /\ CompanyOf(contact[r].parent, company)
          /\ \E q \in Served(e) : FirstFound(q, r)
          /\ company = None /\ ~ForCompany(e) /\ contact[r].active => r = mapping[e]
      BY <2>2, <2>4 DEF PersonInv
    <3>2. \E q \in Served(e)' : FirstFound(q, r)'
      BY <1>3, <2>1, <3>1
    <3>3. company # None => contact'[r].parent # Nobody /\ CompanyOf(contact[r].parent, company)'
      BY <2>1, <2>2, <3>1 DEF CompanyOf, Keeps
    <3>4. company = None /\ ~ForCompany(e)' /\ contact'[r].active => r = mapping'[e]
      BY <1>4, <2>1, <2>4, <3>1
    <3> QED
      BY <2>1, <2>2, <3>1, <3>2, <3>3, <3>4 DEF PersonInv
  <2>5. ASSUME FirmInv(o)
        PROVE  FirmInv(o)'
    BY <1>4, <2>1, <2>2, <2>5 DEF FirmInv, CompanyOf
  <2> QED
    BY <2>4, <2>5
<1> QED
  BY <1>1, <1>6 DEF ExternalInv

LEMMA SeenKept ==
    ASSUME UNCHANGED orders, NEW o \in Order, HasSeen(o), snap'[o] = snap[o], changed[o] \subseteq changed'[o],
           Len(snap[o].contact) <= Len(contact'),
           \A i \in DOMAIN snap[o].contact :
              Keeps(contact[i], contact'[i]) /\ (contact'[i] # contact[i] => ContactRow(i) \in changed'[o]),
           \A e \in External : mapping'[e] # mapping[e] => MappingRow(e) \in changed'[o]
    PROVE  HasSeen(o)'
<1>1. setting' = setting /\ snap[o]' = snap[o] /\ changed[o]' = changed'[o]
  BY DEF orders
<1>2. Snapshot(o)'
  BY <1>1 DEF HasSeen, Snapshot
<1>3. ASSUME NEW i \in DOMAIN snap[o].contact
      PROVE  /\ Keeps(snap[o].contact[i], contact'[i])
             /\ contact'[i] # snap[o].contact[i] => ContactRow(i) \in changed'[o]
  <2>1. /\ Keeps(snap[o].contact[i], contact[i])
        /\ contact[i] # snap[o].contact[i] => ContactRow(i) \in changed[o]
    BY DEF HasSeen
  <2> QED
    BY <2>1, KeepsTwice
<1>4. \A e \in External :
          snap[o].mapping[e] # Unmapped /\ mapping'[e] # snap[o].mapping[e] => MappingRow(e) \in changed'[o]
  BY DEF HasSeen
<1> QED
  BY <1>1, <1>2, <1>3, <1>4 DEF HasSeen, ContactRow, MappingRow

\* A step that creates no contact and completes no order.
Keeping ==
    /\ UNCHANGED <<orders, result, apart>> /\ Done' = Done /\ DOMAIN contact' = DOMAIN contact
    /\ \A i \in DOMAIN contact : Keeps(contact[i], contact'[i])
    /\ chosen \subseteq chosen'
    /\ ~setting.manual => \A e \in External \ chosen' : mapping'[e] = mapping[e]

LEMMA KeepingSteps ==
    ASSUME TypeInv, KeyInv, ResultInv, CustomerInv, Keeping
    PROVE  KeyInv' /\ ResultInv' /\ CustomerInv'
<1>1. setting' = setting /\ data' = data /\ result' = result /\ apart' = apart /\ Done' = Done
  BY DEF Keeping, orders
<1>2. /\ Len(contact) \in Nat /\ DOMAIN contact = 1..Len(contact) /\ DOMAIN contact' = DOMAIN contact
      /\ Contacts(contact)
  BY ContactsAre DEF TypeInv, Keeping
<1>3. KeyInv'
  <2> SUFFICES ASSUME NEW j \in DOMAIN contact, NEW i \in 1..(j - 1), Twins(contact'[i], contact'[j])
               PROVE  <<i, j>> \in apart
    BY <1>1, <1>2, Zenon DEF KeyInv, Twins, Unknown
  <2>1. i \in DOMAIN contact /\ Keeps(contact[i], contact'[i]) /\ Keeps(contact[j], contact'[j])
    BY <1>2 DEF Keeping
  <2>2. contact[i].type # "contact" => ~contact[i].is_company
    BY <1>2, <2>1 DEF Contacts
  <2> QED
    BY <2>1, <2>2, TwinsKept DEF KeyInv
<1>4. ResultInv'
  BY <1>1, <1>2 DEF ResultInv
<1>5. CustomerInv'
  <2> SUFFICES ASSUME ~setting.manual, NEW e \in External \ chosen'
               PROVE  ExternalInv(e)'
    BY <1>1 DEF CustomerInv
  <2>1. e \in External \ chosen /\ mapping'[e] = mapping[e] /\ ExternalInv(e)
    BY DEF Keeping, CustomerInv
  <2>2. Served(e)' = Served(e)
    BY <1>1 DEF Served, Ext
  <2>3. UNCHANGED orders /\ \A i \in DOMAIN contact : Keeps(contact[i], contact'[i])
    BY DEF Keeping
  <2>4. \A o \in Served(e) : (IF setting.skip THEN FirmInv(o) ELSE PersonInv(o))'
    BY <1>1, <1>2, <2>1, <2>2, <2>3, ServedKept
  <2>5. \/ mapping'[e] = Unmapped /\ Served(e)' = {}
        \/ \E q \in Served(e)' : mapping'[e] = result'[q].customer
    BY <1>1, <2>1, <2>2 DEF ExternalInv
  <2> QED
    BY <1>1, <2>2, <2>4, <2>5 DEF ExternalInv
<1> QED
  BY <1>3, <1>4, <1>5

LEMMA KeepsItself == ASSUME Contacts(contact) PROVE \A i \in DOMAIN contact : Keeps(contact[i], contact[i])
BY DEF Keeps

\* A transaction that ends without a commit.
LEMMA EndStep ==
    ASSUME TypeInv, SnapInv, ChosenInv, NEW o \in Order, NEW becomes \in {"waiting", "failed"},
           job[o] \in Active, Inform({o}, {}), End(o, becomes),
           UNCHANGED <<orders, tables, result, apart, chosen>>
    PROVE  TypeInv' /\ SnapInv' /\ ChosenInv' /\ Keeping
<1>1. /\ setting' = setting /\ data' = data /\ contact' = contact /\ mapping' = mapping
      /\ result' = result /\ apart' = apart /\ chosen' = chosen
  BY DEF orders, tables
<1>2. job' = [job EXCEPT ![o] = becomes] /\ snap' = [snap EXCEPT ![o] = NoSnapshot]
  BY DEF End
<1>3. /\ job \in [Order -> {"waiting", "failed", "done"} \cup Active] /\ DOMAIN snap = Order
      /\ Contacts(contact) /\ job[o] # "done"
  BY DEF TypeInv, Active
<1>4. \A p \in Order : p # o => job'[p] = job[p] /\ snap'[p] = snap[p]
  BY <1>2, <1>3
<1>5. job'[o] = becomes /\ becomes \notin Active /\ becomes # "done"
  BY <1>2, <1>3 DEF Active
<1>6. \A p \in Order : p # o /\ job[p] \in Active => changed'[p] = changed[p]
  BY DEF Inform
<1>7. TypeInv'
  <2>1. job' \in [Order -> {"waiting", "failed", "done"} \cup Active]
    BY <1>2, <1>3
  <2>2. DOMAIN snap' = Order /\ DOMAIN changed' = Order
    BY <1>2, <1>3 DEF Inform
  <2> QED
    BY <1>1, <2>1, <2>2 DEF TypeInv, Contacts
<1>8. SnapInv'
  <2> SUFFICES ASSUME NEW p \in Order, job'[p] \in Active
               PROVE  HasSeen(p)'
    BY DEF SnapInv, Active
  <2>1. p # o /\ job[p] \in Active
    BY <1>4, <1>5
  <2>2. HasSeen(p) /\ snap'[p] = snap[p] /\ changed'[p] = changed[p]
    BY <1>4, <1>6, <2>1 DEF SnapInv
  <2>3. /\ \A i \in DOMAIN snap[p].contact : Keeps(contact[i], contact'[i])
        /\ Len(snap[p].contact) <= Len(contact')
    BY <1>1, <2>2 DEF HasSeen, Keeps
  <2> QED
    BY <1>1, <2>2, <2>3, SeenKept
<1>9. ChosenInv'
  <2>1. Done' = Done /\ \A p \in Order : Ext(p)' = Ext(p)
    BY <1>1, <1>3, <1>4, <1>5 DEF Done, Ext
  <2>2. \A p \in Order : job'[p] \in Active => job[p] \in Active /\ snap'[p] = snap[p]
    BY <1>4, <1>5
  <2>3. Done \subseteq Order
    BY DEF Done
  <2> QED
    BY <1>1, <2>1, <2>2, <2>3 DEF ChosenInv, Active
<1>10. Keeping
  <2>1. Done' = Done
    BY <1>3, <1>4, <1>5 DEF Done
  <2> QED
    BY <1>1, <1>3, <2>1, KeepsItself DEF Keeping, orders
<1> QED
  BY <1>7, <1>8, <1>9, <1>10

LEMMA BeginStep ==
    ASSUME TypeInv, SnapInv, ChosenInv, NEW o \in Order, Begin(o)
    PROVE  TypeInv' /\ SnapInv' /\ ChosenInv' /\ Keeping
<1>1. /\ setting' = setting /\ data' = data /\ contact' = contact /\ mapping' = mapping
      /\ result' = result /\ apart' = apart /\ chosen' = chosen /\ changed' = changed
  BY DEF Begin, orders, tables
<1>2. /\ job[o] = "waiting" /\ job' = [job EXCEPT ![o] = "doing"]
      /\ snap' = [snap EXCEPT ![o] = [contact |-> contact, mapping |-> mapping]]
  BY DEF Begin
<1>3. /\ job \in [Order -> {"waiting", "failed", "done"} \cup Active] /\ DOMAIN snap = Order
      /\ Contacts(contact) /\ setting.default <= Len(contact)
      /\ mapping \in [External -> Unmapped..Len(contact)]
  BY DEF TypeInv
<1>4. \A p \in Order : p # o => job'[p] = job[p] /\ snap'[p] = snap[p]
  BY <1>2, <1>3
<1>5. job'[o] = "doing" /\ snap'[o] = [contact |-> contact, mapping |-> mapping]
  BY <1>2, <1>3
<1>6. Done' = Done
  BY <1>2, <1>3, <1>4, <1>5 DEF Done
<1>7. TypeInv'
  <2>1. job' \in [Order -> {"waiting", "failed", "done"} \cup Active]
    BY <1>2, <1>3 DEF Active
  <2>2. DOMAIN snap' = Order
    BY <1>2, <1>3
  <2> QED
    BY <1>1, <2>1, <2>2 DEF TypeInv, Contacts
<1>8. HasSeen(o)'
  <2>1. /\ Contacts(snap'[o].contact) /\ setting'.default <= Len(snap'[o].contact)
        /\ \A e \in External : snap'[o].mapping[e] \in Unmapped..Len(snap'[o].contact)
    BY <1>1, <1>3, <1>5
  <2>2. Snapshot(o)'
    BY <2>1 DEF Snapshot, Contacts
  <2>3. Len(contact) <= Len(contact)
    BY <1>3, ContactsAre
  <2> QED
    BY <1>1, <1>3, <1>5, <2>2, <2>3, KeepsItself DEF HasSeen
<1>9. SnapInv'
  <2> SUFFICES ASSUME NEW p \in Order, job'[p] \in Active, p # o
               PROVE  HasSeen(p)'
    BY <1>8 DEF SnapInv, Active
  <2>1. HasSeen(p) /\ snap'[p] = snap[p] /\ changed'[p] = changed[p]
    BY <1>1, <1>4 DEF SnapInv
  <2>2. /\ \A i \in DOMAIN snap[p].contact : Keeps(contact[i], contact'[i])
        /\ Len(snap[p].contact) <= Len(contact')
    BY <1>1, <2>1 DEF HasSeen, Keeps
  <2>3. UNCHANGED orders
    BY DEF Begin
  <2> QED
    BY <1>1, <2>1, <2>2, <2>3, SeenKept
<1>10. ChosenInv'
  <2>1. \A p \in Order : Ext(p)' = Ext(p)
    BY <1>1 DEF Ext
  <2>2. Done \subseteq Order
    BY DEF Done
  <2>3. ASSUME setting.manual, NEW p \in Order, NEW e \in External, job'[p] \in Active, snap'[p].mapping[e] > Open
        PROVE  e \in chosen
    <3>1. CASE p = o
      BY <1>5, <2>3, <3>1 DEF ChosenInv
    <3>2. CASE p # o
      BY <1>4, <2>3, <3>2 DEF ChosenInv
    <3> QED
      BY <3>1, <3>2
  <2> QED
    BY <1>1, <1>6, <2>1, <2>2, <2>3 DEF ChosenInv, Active
<1>11. Keeping
  BY <1>1, <1>3, <1>6, KeepsItself DEF Keeping, orders
<1> QED
  BY <1>7, <1>9, <1>10, <1>11

\* Jobs that wait again have no transaction.
LEMMA RequeuedIs ==
    ASSUME TypeInv, NEW e
    PROVE  /\ Requeued(e) \in [Order -> {"waiting", "failed", "done"} \cup Active]
           /\ \A p \in Order : Requeued(e)[p] \in Active <=> job[p] \in Active
           /\ \A p \in Order : Requeued(e)[p] \in Active => Requeued(e)[p] = job[p]
           /\ \A p \in Order : Requeued(e)[p] = "done" <=> job[p] = "done"
BY DEF Requeued, TypeInv, Active

LEMMA RequeueStep ==
    ASSUME TypeInv, SnapInv, ChosenInv, NEW o \in Order, Requeue(o)
    PROVE  TypeInv' /\ SnapInv' /\ ChosenInv' /\ Keeping
<1>1. /\ setting' = setting /\ data' = data /\ contact' = contact /\ mapping' = mapping /\ snap' = snap
      /\ result' = result /\ apart' = apart /\ chosen' = chosen /\ changed' = changed
  BY DEF Requeue, orders, tables
<1>2. job[o] = "failed" /\ job' = [job EXCEPT ![o] = "waiting"]
  BY DEF Requeue
<1>3. job \in [Order -> {"waiting", "failed", "done"} \cup Active] /\ Contacts(contact)
  BY DEF TypeInv
<1>4. \A p \in Order : job'[p] \in Active <=> job[p] \in Active
  BY <1>2, <1>3 DEF Active
<1>5. Done' = Done /\ \A p \in Order : Ext(p)' = Ext(p)
  BY <1>1, <1>2, <1>3 DEF Done, Ext
<1>6. TypeInv'
  <2>1. job' \in [Order -> {"waiting", "failed", "done"} \cup Active]
    BY <1>2, <1>3
  <2> QED
    BY <1>1, <2>1 DEF TypeInv, Contacts
<1>7. SnapInv'
  BY <1>1, <1>4 DEF SnapInv, Active, HasSeen, Snapshot, Contacts, ContactRow, MappingRow
<1>8. ChosenInv'
  <2>1. Done \subseteq Order
    BY DEF Done
  <2> QED
    BY <1>1, <1>4, <1>5, <2>1 DEF ChosenInv, Active
<1>9. Keeping
  BY <1>1, <1>3, <1>5, KeepsItself DEF Keeping, orders
<1> QED
  BY <1>6, <1>7, <1>8, <1>9

LEMMA StutterStep ==
    ASSUME TypeInv, SnapInv, ChosenInv, UNCHANGED partnersVars
    PROVE  TypeInv' /\ SnapInv' /\ ChosenInv' /\ Keeping
<1>1. /\ setting' = setting /\ data' = data /\ contact' = contact /\ mapping' = mapping /\ snap' = snap
      /\ result' = result /\ apart' = apart /\ chosen' = chosen /\ changed' = changed /\ job' = job
  BY DEF partnersVars, orders, tables
<1>2. Contacts(contact)
  BY DEF TypeInv
<1>3. Done' = Done /\ \A p \in Order : Ext(p)' = Ext(p)
  BY <1>1 DEF Done, Ext
<1>4. TypeInv'
  BY <1>1 DEF TypeInv, Contacts, Active
<1>5. SnapInv'
  BY <1>1 DEF SnapInv, Active, HasSeen, Snapshot, Contacts, ContactRow, MappingRow
<1>6. ChosenInv'
  <2>1. Done \subseteq Order
    BY DEF Done
  <2> QED
    BY <1>1, <1>3, <2>1 DEF ChosenInv, Active
<1>7. Keeping
  BY <1>1, <1>2, <1>3, KeepsItself DEF Keeping, orders
<1> QED
  BY <1>4, <1>5, <1>6, <1>7

LEMMA NotifyStep ==
    ASSUME TypeInv, SnapInv, ChosenInv, NEW o \in Order, NotifyMissing(o)
    PROVE  TypeInv' /\ SnapInv' /\ ChosenInv' /\ Keeping
<1>1. /\ setting' = setting /\ data' = data /\ contact' = contact /\ snap' = snap
      /\ result' = result /\ apart' = apart /\ chosen' = chosen
  BY DEF NotifyMissing, orders
<1>2. job[o] = "doing" /\ job' = [job EXCEPT ![o] = "notified"] /\ setting.manual /\ ~Guest(o)
  BY DEF NotifyMissing, MissingMapping
<1>3. /\ job \in [Order -> {"waiting", "failed", "done"} \cup Active] /\ Contacts(contact)
      /\ mapping \in [External -> Unmapped..Len(contact)] /\ data[o] \in Data
  BY DEF TypeInv
<1>4. Ext(o) \in External
  BY <1>2, <1>3, DataIs DEF Ext, Guest
<1>5. \A p \in Order : job'[p] \in Active <=> job[p] \in Active
  BY <1>2, <1>3 DEF Active
<1>6. Done' = Done /\ \A p \in Order : Ext(p)' = Ext(p)
  BY <1>1, <1>2, <1>3 DEF Done, Ext
<1>7. /\ \A e \in External : mapping'[e] = mapping[e] \/ mapping'[e] = Open
      /\ mapping' \in [External -> Unmapped..Len(contact)]
  <2>1. Open \in Unmapped..Len(contact)
    BY <1>3, ContactsAre DEF Open, Unmapped
  <2> QED
    BY <1>3, <1>4, <2>1 DEF NotifyMissing
<1>8. ASSUME NEW p \in Order, job[p] \in Active
      PROVE  /\ changed[p] \subseteq changed'[p]
             /\ \A e \in External : mapping'[e] # mapping[e] => MappingRow(e) \in changed'[p]
  BY <1>3, <1>4, <1>8 DEF NotifyMissing
<1>9. TypeInv'
  <2>1. job' \in [Order -> {"waiting", "failed", "done"} \cup Active]
    BY <1>2, <1>3 DEF Active
  <2>2. DOMAIN changed' = Order
    BY DEF NotifyMissing
  <2> QED
    BY <1>1, <1>7, <2>1, <2>2 DEF TypeInv, Contacts
<1>10. SnapInv'
  <2> SUFFICES ASSUME NEW p \in Order, job'[p] \in Active
               PROVE  HasSeen(p)'
    BY DEF SnapInv, Active
  <2>1. job[p] \in Active /\ HasSeen(p) /\ snap'[p] = snap[p]
    BY <1>1, <1>5 DEF SnapInv
  <2>2. /\ \A i \in DOMAIN snap[p].contact : Keeps(contact[i], contact'[i])
        /\ Len(snap[p].contact) <= Len(contact')
    BY <1>1, <2>1 DEF HasSeen, Keeps
  <2>3. UNCHANGED orders
    BY DEF NotifyMissing
  <2> QED
    BY <1>1, <1>8, <2>1, <2>2, <2>3, SeenKept
<1>11. ChosenInv'
  <2>1. Done \subseteq Order
    BY DEF Done
  <2>2. \A e \in External : mapping'[e] > Open => mapping[e] > Open
    BY <1>7 DEF Open
  <2> QED
    BY <1>1, <1>5, <1>6, <2>1, <2>2 DEF ChosenInv, Active
<1>12. Keeping
  BY <1>1, <1>2, <1>3, <1>6, KeepsItself DEF Keeping, orders
<1> QED
  BY <1>9, <1>10, <1>11, <1>12

LEMMA MapStep ==
    ASSUME TypeInv, SnapInv, ChosenInv, NEW e \in External, NEW i \in DOMAIN contact, MapContact(e, i)
    PROVE  TypeInv' /\ SnapInv' /\ ChosenInv' /\ Keeping
<1>1. /\ setting' = setting /\ data' = data /\ contact' = contact /\ snap' = snap
      /\ result' = result /\ apart' = apart /\ chosen' = chosen \cup {e}
  BY DEF MapContact, orders
<1>2. mapping' = [mapping EXCEPT ![e] = i] /\ job' = Requeued(e)
  BY DEF MapContact
<1>3. /\ job \in [Order -> {"waiting", "failed", "done"} \cup Active] /\ Contacts(contact)
      /\ mapping \in [External -> Unmapped..Len(contact)]
  BY DEF TypeInv
<1>4. /\ job' \in [Order -> {"waiting", "failed", "done"} \cup Active]
      /\ \A p \in Order : job'[p] \in Active <=> job[p] \in Active
      /\ \A p \in Order : job'[p] = "done" <=> job[p] = "done"
  BY <1>2, RequeuedIs
<1>5. Done' = Done /\ \A p \in Order : Ext(p)' = Ext(p)
  BY <1>1, <1>4 DEF Done, Ext
<1>6. /\ mapping' \in [External -> Unmapped..Len(contact)]
      /\ \A f \in External : f # e => mapping'[f] = mapping[f]
  <2>1. i \in Unmapped..Len(contact)
    BY <1>3, ContactsAre DEF Unmapped
  <2> QED
    BY <1>2, <1>3, <2>1
<1>7. ASSUME NEW p \in Order, job[p] \in Active
      PROVE  changed[p] \subseteq changed'[p] /\ MappingRow(e) \in changed'[p]
  BY <1>7 DEF MapContact, Inform
<1>8. TypeInv'
  <2>1. DOMAIN changed' = Order
    BY DEF MapContact, Inform
  <2> QED
    BY <1>1, <1>4, <1>6, <2>1 DEF TypeInv, Contacts, Active
<1>9. SnapInv'
  <2> SUFFICES ASSUME NEW p \in Order, job'[p] \in Active
               PROVE  HasSeen(p)'
    BY DEF SnapInv, Active
  <2>1. job[p] \in Active /\ HasSeen(p) /\ snap'[p] = snap[p]
    BY <1>1, <1>4 DEF SnapInv
  <2>2. /\ \A x \in DOMAIN snap[p].contact : Keeps(contact[x], contact'[x])
        /\ Len(snap[p].contact) <= Len(contact')
    BY <1>1, <2>1 DEF HasSeen, Keeps
  <2>3. UNCHANGED orders
    BY DEF MapContact
  <2>4. /\ changed[p] \subseteq changed'[p]
        /\ \A f \in External : mapping'[f] # mapping[f] => MappingRow(f) \in changed'[p]
    BY <1>6, <1>7, <2>1
  <2> QED
    BY <1>1, <2>1, <2>2, <2>3, <2>4, SeenKept
<1>10. ChosenInv'
  <2>1. Done \subseteq Order
    BY DEF Done
  <2> QED
    BY <1>1, <1>4, <1>5, <1>6, <2>1 DEF ChosenInv, Active
<1>11. Keeping
  BY <1>1, <1>3, <1>5, <1>6, KeepsItself DEF Keeping, orders
<1> QED
  BY <1>8, <1>9, <1>10, <1>11

LEMMA ArchiveStep ==
    ASSUME TypeInv, SnapInv, ChosenInv, NEW i \in DOMAIN contact, Archive(i)
    PROVE  TypeInv' /\ SnapInv' /\ ChosenInv' /\ Keeping
<1>1. /\ setting' = setting /\ data' = data /\ mapping' = mapping /\ snap' = snap /\ job' = job
      /\ result' = result /\ apart' = apart /\ chosen' = chosen
  BY DEF Archive, orders
<1>2. contact' = [contact EXCEPT ![i].active = FALSE]
  BY DEF Archive
<1>3. /\ Contacts(contact) /\ Len(contact) \in Nat /\ DOMAIN contact = 1..Len(contact)
      /\ \A x \in DOMAIN contact : contact[x] \in ContactRecord
  BY ContactsAre DEF TypeInv
<1> DEFINE r == [contact[i] EXCEPT !.active = FALSE]
<1>4. /\ r \in ContactRecord /\ Keeps(contact[i], r) /\ r.parent = contact[i].parent
      /\ r.is_company = contact[i].is_company /\ r.type = contact[i].type
  BY <1>3 DEF ContactRecord, Keeps
<1>5. contact' = [contact EXCEPT ![i] = r]
  BY <1>2
<1> HIDE DEF r
<1>6. /\ DOMAIN contact' = DOMAIN contact /\ contact'[i] = r
      /\ \A x \in DOMAIN contact : x # i => contact'[x] = contact[x]
      /\ contact' \in Seq(ContactRecord) /\ Len(contact') = Len(contact)
  <2>1. contact \in [1..Len(contact) -> ContactRecord] /\ contact' \in [1..Len(contact) -> ContactRecord]
    BY <1>3, <1>4, <1>5 DEF Contacts
  <2> QED
    BY <1>3, <1>5, <2>1
<1>7. \A x \in DOMAIN contact : Keeps(contact[x], contact'[x])
  BY <1>3, <1>4, <1>6, KeepsItself
<1>8. Contacts(contact')
  BY <1>3, <1>4, <1>6 DEF Contacts
<1>9. ASSUME NEW p \in Order, job[p] \in Active
      PROVE  changed[p] \subseteq changed'[p] /\ ContactRow(i) \in changed'[p]
  BY <1>9 DEF Archive, Inform
<1>10. TypeInv'
  <2>1. DOMAIN changed' = Order
    BY DEF Archive, Inform
  <2> QED
    BY <1>1, <1>6, <1>8, <2>1 DEF TypeInv, Contacts, Active
<1>11. SnapInv'
  <2> SUFFICES ASSUME NEW p \in Order, job'[p] \in Active
               PROVE  HasSeen(p)'
    BY DEF SnapInv, Active
  <2>1. job[p] \in Active /\ HasSeen(p) /\ snap'[p] = snap[p]
    BY <1>1 DEF SnapInv
  <2>2. DOMAIN snap[p].contact \subseteq DOMAIN contact /\ Len(snap[p].contact) <= Len(contact')
    <3>1. Len(snap[p].contact) <= Len(contact) /\ Contacts(snap[p].contact)
      BY <2>1 DEF HasSeen, Snapshot
    <3> QED
      BY <1>3, <1>6, <3>1, ContactsAre
  <2>3. UNCHANGED orders
    BY DEF Archive
  <2>4. /\ changed[p] \subseteq changed'[p]
        /\ \A x \in DOMAIN snap[p].contact :
              Keeps(contact[x], contact'[x]) /\ (contact'[x] # contact[x] => ContactRow(x) \in changed'[p])
    BY <1>6, <1>7, <1>9, <2>1, <2>2
  <2> QED
    BY <1>1, <2>1, <2>2, <2>3, <2>4, SeenKept
<1>12. Done' = Done
  BY <1>1 DEF Done
<1>13. ChosenInv'
  <2>1. Done \subseteq Order /\ \A p \in Order : Ext(p)' = Ext(p)
    BY <1>1 DEF Done, Ext
  <2> QED
    BY <1>1, <1>12, <2>1 DEF ChosenInv, Active
<1>14. Keeping
  BY <1>1, <1>6, <1>7, <1>12 DEF Keeping, orders
<1> QED
  BY <1>10, <1>11, <1>13, <1>14

-----------------------------------------------------------------------------
(* The commit of an order *)

LEMMA CommitIs ==
    ASSUME TypeInv, SnapInv, NEW o \in Order, Commit(o)
    PROVE  LET out == Outcome(o)
               d == data[o]
               mapped == MappedTo(snap[o], Ext(o))
           IN  /\ Mergeable(o, out.contact)
               /\ out.customer \in DOMAIN out.contact
               /\ out.invoice \in DOMAIN out.contact /\ out.delivery \in DOMAIN out.contact
               /\ ~Guest(o) => /\ AddressFor(out.contact, out.invoice, out.customer, Billing(d))
                               /\ AddressFor(out.contact, out.delivery, out.customer, Shipping(d))
               /\ ~Guest(o) /\ setting.manual => snap[o].mapping[Ext(o)] > Open
               /\ Maps(o) => /\ CustomerIs(out.contact, out.customer, mapped, Customer(d))
                             /\ mapping[Ext(o)] = snap[o].mapping[Ext(o)]
               /\ ~Guest(o) => Ext(o) \in External
               /\ Store(o, out, Written(o, out.contact))
<1> DEFINE out == Outcome(o)
           c == out.contact
<1>1. /\ job[o] = "doing" /\ ~MissingCustomer(o) /\ ~MissingMapping(o) /\ ~Violates(o)
      /\ Store(o, out, Written(o, c))
  BY DEF Commit
<1>2. HasSeen(o) /\ Contacts(contact) /\ setting \in Setting /\ data[o] \in Data
  BY <1>1 DEF TypeInv, SnapInv, Active
<1>3. /\ Grows(snap[o].contact, c)
      /\ out.customer \in DOMAIN c /\ out.invoice \in DOMAIN c /\ out.delivery \in DOMAIN c
      /\ ~Guest(o) => /\ AddressFor(c, out.invoice, out.customer, Billing(data[o]))
                      /\ AddressFor(c, out.delivery, out.customer, Shipping(data[o]))
      /\ ~Guest(o) /\ setting.manual => MappedTo(snap[o], Ext(o)) # Nobody
      /\ ~Guest(o) /\ ~setting.manual =>
            CustomerIs(c, out.customer, MappedTo(snap[o], Ext(o)), Customer(data[o]))
  BY <1>1, <1>2, OutcomeIs DEF HasSeen
<1>4. ~Guest(o) => Ext(o) \in External
  BY <1>2, DataIs DEF Guest, Ext
<1> HIDE DEF out
<1>5. Written(o, c) \cap changed[o] = {}
  BY <1>1 DEF Store
<1>6. \A i \in DOMAIN snap[o].contact : c[i] # snap[o].contact[i] => contact[i] = snap[o].contact[i]
  <2> SUFFICES ASSUME NEW i \in DOMAIN snap[o].contact, c[i] # snap[o].contact[i]
               PROVE  contact[i] = snap[o].contact[i]
    OBVIOUS
  <2>1. ContactRow(i) \in Written(o, c)
    BY DEF Written
  <2>2. contact[i] # snap[o].contact[i] => ContactRow(i) \in changed[o]
    BY <1>2 DEF HasSeen
  <2> QED
    BY <1>5, <2>1, <2>2
<1>7. Mergeable(o, c)
  BY <1>2, <1>3, <1>6 DEF Mergeable, HasSeen
<1>8. Maps(o) => mapping[Ext(o)] = snap[o].mapping[Ext(o)]
  <2> SUFFICES ASSUME Maps(o)
               PROVE  mapping[Ext(o)] = snap[o].mapping[Ext(o)]
    OBVIOUS
  <2>1. MappingRow(Ext(o)) \in Written(o, c) /\ Ext(o) \in External
    BY <1>4 DEF Written, Maps
  <2>2. snap[o].mapping[Ext(o)] = Unmapped => mapping[Ext(o)] = Unmapped
    BY <1>1 DEF Violates
  <2>3. snap[o].mapping[Ext(o)] # Unmapped /\ mapping[Ext(o)] # snap[o].mapping[Ext(o)]
            => MappingRow(Ext(o)) \in changed[o]
    BY <1>2, <2>1 DEF HasSeen
  <2> QED
    BY <1>5, <2>1, <2>2, <2>3
<1>9. ~Guest(o) /\ setting.manual => snap[o].mapping[Ext(o)] > Open
  BY <1>3 DEF MappedTo
<1> QED
  BY <1>1, <1>3, <1>4, <1>7, <1>8, <1>9 DEF Maps, out

\* The tables and the jobs after the commit.
Committed(o, out, a, b, m) ==
    /\ out = Outcome(o) /\ Mergeable(o, out.contact) /\ Sizes(o, out.contact, a, b, m)
    /\ UNCHANGED <<orders, chosen>>
    /\ contact' = Merge(o, out.contact) /\ Contacts(contact') /\ Len(contact') = b + m - a
    /\ DOMAIN contact' = 1..(b + m - a)
    /\ mapping' = IF Maps(o) THEN [mapping EXCEPT ![Ext(o)] = Moved(o, out.customer)] ELSE mapping
    /\ apart' = apart \cup Unseen(a, b, m)
    /\ job[o] = "doing" /\ job'[o] = "done"
    /\ job' \in [Order -> {"waiting", "failed", "done"} \cup Active]
    /\ \A p \in Order : p # o => /\ job'[p] \in Active <=> job[p] \in Active
                                 /\ job'[p] = "done" <=> job[p] = "done"
                                 /\ snap'[p] = snap[p] /\ result'[p] = result[p]
    /\ result'[o] = [customer |-> Moved(o, out.customer), invoice |-> Moved(o, out.invoice),
                     delivery |-> Moved(o, out.delivery)]
    /\ DOMAIN snap' = Order /\ DOMAIN changed' = Order /\ DOMAIN result' = Order
    /\ \A p \in Order : p # o /\ job[p] \in Active =>
          changed'[p] = changed[p] \cup Written(o, out.contact)

LEMMA CommitTables ==
    ASSUME TypeInv, SnapInv, NEW o \in Order, Commit(o)
    PROVE  \E out, a, b, m : Committed(o, out, a, b, m)
<1> PICK out : out = Outcome(o)
  OBVIOUS
<1>1. Mergeable(o, out.contact) /\ Store(o, out, Written(o, out.contact))
  BY CommitIs
<1>2. PICK a, b, m : Sizes(o, out.contact, a, b, m)
  BY <1>1, MovedIs
<1>3. /\ contact' = Merge(o, out.contact)
      /\ mapping' = IF Maps(o) THEN [mapping EXCEPT ![Ext(o)] = Moved(o, out.customer)] ELSE mapping
      /\ apart' = apart \cup ((Len(snap[o].contact) + 1)..Len(contact)) \X ((Len(contact) + 1)..Len(contact'))
      /\ Inform({o}, Written(o, out.contact))
      /\ result' = [result EXCEPT ![o] = [customer |-> Moved(o, out.customer),
                       invoice |-> Moved(o, out.invoice), delivery |-> Moved(o, out.delivery)]]
  BY <1>1 DEF Store
<1>4. Contacts(contact') /\ Len(contact') = b + m - a /\ DOMAIN contact' = 1..(b + m - a)
  BY <1>1, <1>2, <1>3, MergeIs
<1>5. apart' = apart \cup Unseen(a, b, m)
  BY <1>2, <1>3, <1>4 DEF Sizes, Unseen
<1>6. /\ job[o] = "doing" /\ job' = [Requeued(Ext(o)) EXCEPT ![o] = "done"]
      /\ snap' = [snap EXCEPT ![o] = NoSnapshot] /\ UNCHANGED <<orders, chosen>>
  BY DEF Commit
<1>7. /\ Requeued(Ext(o)) \in [Order -> {"waiting", "failed", "done"} \cup Active]
      /\ \A p \in Order : Requeued(Ext(o))[p] \in Active <=> job[p] \in Active
      /\ \A p \in Order : Requeued(Ext(o))[p] = "done" <=> job[p] = "done"
  BY RequeuedIs
<1>8. DOMAIN snap = Order /\ DOMAIN changed = Order /\ DOMAIN result = Order
  BY DEF TypeInv
<1>9. /\ job'[o] = "done" /\ job' \in [Order -> {"waiting", "failed", "done"} \cup Active]
      /\ \A p \in Order : p # o => job'[p] = Requeued(Ext(o))[p]
  BY <1>6, <1>7
<1>10. /\ \A p \in Order : p # o => snap'[p] = snap[p] /\ result'[p] = result[p]
       /\ result'[o] = [customer |-> Moved(o, out.customer), invoice |-> Moved(o, out.invoice),
                        delivery |-> Moved(o, out.delivery)]
       /\ DOMAIN snap' = Order /\ DOMAIN result' = Order
  BY <1>3, <1>6, <1>8
<1>11. /\ DOMAIN changed' = Order
       /\ \A p \in Order : p # o /\ job[p] \in Active => changed'[p] = changed[p] \cup Written(o, out.contact)
  BY <1>3, <1>8 DEF Inform
<1>12. \A p \in Order : p # o => /\ job'[p] \in Active <=> job[p] \in Active
                                 /\ job'[p] = "done" <=> job[p] = "done"
  BY <1>7, <1>9
<1>13. /\ out = Outcome(o) /\ Mergeable(o, out.contact) /\ Sizes(o, out.contact, a, b, m)
       /\ UNCHANGED <<orders, chosen>>
  BY <1>1, <1>2, <1>6
<1>14. Committed(o, out, a, b, m)
  BY <1>3, <1>4, <1>5, <1>6, <1>9, <1>10, <1>11, <1>12, <1>13 DEF Committed
<1> QED
  BY <1>14

\* What the commit makes of the contacts that were in the table, and where it puts its own.
LEMMA CommitMerges ==
    ASSUME TypeInv, SnapInv, NEW o \in Order, Commit(o), NEW out, NEW a, NEW b, NEW m, Committed(o, out, a, b, m)
    PROVE  /\ a \in Nat /\ b \in Nat /\ m \in Nat /\ a <= b /\ a <= m
           /\ DOMAIN contact = 1..b /\ b = Len(contact) /\ DOMAIN contact' = 1..(b + m - a)
           /\ DOMAIN contact \subseteq DOMAIN contact' /\ Len(contact) <= Len(contact')
           /\ \A i \in DOMAIN contact : Keeps(contact[i], contact'[i])
           /\ \A i \in DOMAIN contact : contact'[i] # contact[i] => ContactRow(i) \in Written(o, out.contact)
           /\ DOMAIN out.contact = 1..m
           /\ \A i \in DOMAIN out.contact : Moved(o, i) \in DOMAIN contact'
           /\ out.customer \in 1..m /\ out.invoice \in 1..m /\ out.delivery \in 1..m
<1> DEFINE c == out.contact
<1>1. /\ Mergeable(o, c) /\ Sizes(o, c, a, b, m) /\ contact' = Merge(o, c) /\ Len(contact') = b + m - a
      /\ DOMAIN contact' = 1..(b + m - a) /\ out = Outcome(o)
  BY DEF Committed
<1>2. /\ a \in Nat /\ b \in Nat /\ m \in Nat /\ a <= b /\ a <= m /\ b = Len(contact)
      /\ DOMAIN contact = 1..b /\ DOMAIN c = 1..m /\ DOMAIN snap[o].contact = 1..a
  BY <1>1 DEF Sizes
<1>3. /\ \A i \in 1..b : Keeps(contact[i], contact'[i])
      /\ \A i \in (a + 1)..b : contact'[i] = contact[i]
      /\ \A i \in 1..a : c[i] = snap[o].contact[i] => contact'[i] = contact[i]
      /\ \A i \in 1..m : Moved(o, i) \in DOMAIN contact'
  BY <1>1, MergeIs
<1>4. out.customer \in DOMAIN c /\ out.invoice \in DOMAIN c /\ out.delivery \in DOMAIN c
  BY <1>1, CommitIs
<1>5. ASSUME NEW i \in 1..b, contact'[i] # contact[i]
      PROVE  ContactRow(i) \in Written(o, c)
  <2>1. i \in 1..a \/ i \in (a + 1)..b
    BY <1>2
  <2>2. i \in DOMAIN snap[o].contact /\ c[i] # snap[o].contact[i]
    BY <1>2, <1>3, <1>5, <2>1
  <2> QED
    BY <2>2 DEF Written
<1>6. 1..b \subseteq 1..(b + m - a) /\ b <= b + m - a
  BY <1>2
<1> QED
  BY <1>1, <1>2, <1>3, <1>4, <1>5, <1>6

LEMMA CommitTypes ==
    ASSUME TypeInv, SnapInv, ResultInv, ChosenInv, NEW o \in Order, Commit(o),
           NEW out, NEW a, NEW b, NEW m, Committed(o, out, a, b, m)
    PROVE  TypeInv' /\ SnapInv' /\ ResultInv' /\ ChosenInv'
<1> DEFINE c == out.contact
<1>1. /\ setting' = setting /\ data' = data /\ chosen' = chosen /\ Contacts(contact')
      /\ mapping' = IF Maps(o) THEN [mapping EXCEPT ![Ext(o)] = Moved(o, out.customer)] ELSE mapping
      /\ job[o] = "doing" /\ job'[o] = "done"
      /\ job' \in [Order -> {"waiting", "failed", "done"} \cup Active]
      /\ \A p \in Order : p # o => /\ job'[p] \in Active <=> job[p] \in Active
                                   /\ job'[p] = "done" <=> job[p] = "done"
                                   /\ snap'[p] = snap[p] /\ result'[p] = result[p]
      /\ result'[o] = [customer |-> Moved(o, out.customer), invoice |-> Moved(o, out.invoice),
                       delivery |-> Moved(o, out.delivery)]
      /\ DOMAIN snap' = Order /\ DOMAIN changed' = Order /\ DOMAIN result' = Order
      /\ \A p \in Order : p # o /\ job[p] \in Active => changed'[p] = changed[p] \cup Written(o, c)
  BY DEF Committed, orders
<1>2. /\ a \in Nat /\ b \in Nat /\ m \in Nat /\ a <= b /\ a <= m
      /\ DOMAIN contact = 1..b /\ b = Len(contact) /\ DOMAIN contact' = 1..(b + m - a)
      /\ DOMAIN contact \subseteq DOMAIN contact' /\ Len(contact) <= Len(contact')
      /\ \A i \in DOMAIN contact : Keeps(contact[i], contact'[i])
      /\ \A i \in DOMAIN contact : contact'[i] # contact[i] => ContactRow(i) \in Written(o, c)
      /\ \A i \in DOMAIN c : Moved(o, i) \in DOMAIN contact'
      /\ DOMAIN c = 1..m /\ out.customer \in 1..m /\ out.invoice \in 1..m /\ out.delivery \in 1..m
  BY CommitMerges
<1>3. /\ setting \in Setting /\ data \in [Order -> Data] /\ setting.default <= Len(contact)
      /\ mapping \in [External -> Unmapped..Len(contact)] /\ setting.default \in {0, 1}
  BY SettingIs DEF TypeInv
<1>4. Len(contact') = b + m - a
  BY DEF Committed
<1>5. Moved(o, out.customer) \in 1..(b + m - a) /\ b + m - a \in Nat
  BY <1>2
<1>6. ~Guest(o) => Ext(o) \in External
  BY CommitIs
<1>7. TypeInv'
  <2>1. mapping' \in [External -> Unmapped..Len(contact')]
    <3>1. Moved(o, out.customer) \in Unmapped..Len(contact')
      BY <1>4, <1>5 DEF Unmapped
    <3>2. Unmapped..Len(contact) \subseteq Unmapped..Len(contact')
      BY <1>2, <1>4 DEF Unmapped
    <3>3. mapping \in [External -> Unmapped..Len(contact')]
      BY <1>3, <3>2
    <3> QED
      BY <1>1, <3>1, <3>3
  <2>2. setting.default <= Len(contact')
    BY <1>2, <1>3, <1>4
  <2>3. Contacts(contact)'
    BY <1>1 DEF Contacts
  <2> QED
    BY <1>1, <1>3, <2>1, <2>2, <2>3 DEF TypeInv, Active
<1>8. SnapInv'
  <2> SUFFICES ASSUME NEW p \in Order, job'[p] \in Active
               PROVE  HasSeen(p)'
    BY DEF SnapInv, Active
  <2>1. p # o /\ job[p] \in Active
    BY <1>1 DEF Active
  <2>2. HasSeen(p) /\ snap'[p] = snap[p] /\ changed'[p] = changed[p] \cup Written(o, c)
    BY <1>1, <2>1 DEF SnapInv
  <2>3. DOMAIN snap[p].contact \subseteq DOMAIN contact /\ Len(snap[p].contact) <= Len(contact')
    <3>1. Len(snap[p].contact) <= Len(contact) /\ Contacts(snap[p].contact)
      BY <2>2 DEF HasSeen, Snapshot
    <3>2. Len(snap[p].contact) \in Nat /\ DOMAIN snap[p].contact = 1..Len(snap[p].contact)
      BY <3>1, ContactsAre
    <3> QED
      BY <1>2, <1>4, <3>1, <3>2
  <2>4. UNCHANGED orders
    BY DEF Committed
  <2>5. ASSUME NEW e \in External, mapping'[e] # mapping[e]
        PROVE  MappingRow(e) \in Written(o, c)
    <3>1. Maps(o) /\ e = Ext(o)
      BY <1>1, <1>3, <2>5
    <3> QED
      BY <3>1 DEF Written
  <2> QED
    BY <1>2, <2>2, <2>3, <2>4, <2>5, SeenKept
<1>9. ResultInv'
  <2> SUFFICES ASSUME NEW p \in Order, job'[p] = "done"
               PROVE  /\ result'[p].customer \in DOMAIN contact'
                      /\ result'[p].invoice \in DOMAIN contact' /\ result'[p].delivery \in DOMAIN contact'
    BY DEF ResultInv, Done
  <2>1. CASE p = o
    BY <1>1, <1>2, <2>1
  <2>2. CASE p # o
    <3>1. p \in Done /\ result'[p] = result[p]
      BY <1>1, <2>2 DEF Done
    <3> QED
      BY <1>2, <3>1 DEF ResultInv
  <2> QED
    BY <2>1, <2>2
<1>10. ChosenInv'
  <2> SUFFICES ASSUME setting.manual
               PROVE  ChosenInv'
    BY <1>1 DEF ChosenInv
  <2>1. mapping' = mapping
    BY <1>1 DEF Maps
  <2>2. Done \subseteq Order /\ \A p \in Order : Ext(p)' = Ext(p)
    BY <1>1 DEF Done, Ext
  <2>3. ASSUME NEW p \in Order, NEW e \in External, job'[p] \in Active, snap'[p].mapping[e] > Open
        PROVE  e \in chosen
    <3>1. p # o
      BY <1>1, <2>3 DEF Active
    <3> QED
      BY <1>1, <2>3, <3>1 DEF ChosenInv
  <2>4. ASSUME NEW p \in Order, job'[p] = "done", Ext(p) # None
        PROVE  Ext(p) \in chosen
    <3>1. CASE p = o
      <4>1. snap[o].mapping[Ext(o)] > Open /\ Ext(o) \in External /\ job[o] \in Active
        BY <1>1, <1>6, <2>4, <3>1, CommitIs DEF Guest, Ext, Active
      <4> QED
        BY <3>1, <4>1 DEF ChosenInv
    <3>2. CASE p # o
      <4>1. p \in Done
        BY <1>1, <2>4, <3>2 DEF Done
      <4> QED
        BY <2>4, <4>1 DEF ChosenInv
    <3> QED
      BY <3>1, <3>2
  <2>5. \A e \in External : mapping[e] > Open => e \in chosen
    BY DEF ChosenInv
  <2> QED
    BY <1>1, <2>1, <2>2, <2>3, <2>4, <2>5 DEF ChosenInv, Active, Done
<1> QED
  BY <1>7, <1>8, <1>9, <1>10

LEMMA CommitKeys ==
    ASSUME TypeInv, SnapInv, KeyInv, NEW o \in Order, Commit(o),
           NEW out, NEW a, NEW b, NEW m, Committed(o, out, a, b, m)
    PROVE  KeyInv'
<1>1. /\ Mergeable(o, out.contact) /\ Sizes(o, out.contact, a, b, m) /\ contact' = Merge(o, out.contact)
      /\ DOMAIN contact' = 1..(b + m - a) /\ apart' = apart \cup Unseen(a, b, m) /\ setting' = setting
  BY DEF Committed, orders
<1>2. \A j \in 1..b : \A i \in 1..(j - 1) : Twins(contact[i], contact[j]) => <<i, j>> \in apart
  BY <1>1 DEF KeyInv, Sizes
<1>3. ASSUME NEW j \in 1..(b + m - a), NEW i \in 1..(j - 1), Twins(contact'[i], contact'[j])
      PROVE  <<i, j>> \in apart'
  BY <1>1, <1>2, <1>3, MergedKeys
<1> QED
  BY <1>1, <1>3, Zenon DEF KeyInv, Twins, Unknown

\* The search that the order has made decides, also among the contacts of the table.
LEMMA CommitFinds ==
    ASSUME TypeInv, SnapInv, NEW o \in Order, Commit(o),
           NEW out, NEW a, NEW b, NEW m, Committed(o, out, a, b, m),
           Searched(out.contact, out.customer, Customer(data[o]))
    PROVE  LET r == Moved(o, out.customer) IN
           \/ Unknown(Customer(data[o]))
           \/ /\ SameCustomer(Customer(data[o]), contact'[r].parent, contact'[r])
              /\ Customer(data[o]).company = None => contact'[r].parent = Nobody
              /\ \A i \in 1..(r - 1) :
                    contact'[i].active /\ SameCustomer(Customer(data[o]), contact'[r].parent, contact'[i])
                    => <<i, r>> \in apart'
<1>1. /\ Mergeable(o, out.contact) /\ Sizes(o, out.contact, a, b, m) /\ contact' = Merge(o, out.contact)
      /\ apart' = apart \cup Unseen(a, b, m)
  BY DEF Committed
<1>2. out.customer \in 1..m
  BY CommitMerges
<1> QED
  BY <1>1, <1>2, SearchedMerged

\* The orders of the customer whose order is done.
LEMMA CommitServed ==
    ASSUME TypeInv, SnapInv, ResultInv, NEW o \in Order, Commit(o), Maps(o),
           NEW out, NEW a, NEW b, NEW m, Committed(o, out, a, b, m), ExternalInv(Ext(o))
    PROVE  ExternalInv(Ext(o))'
<1> PICK e : e = Ext(o)
  OBVIOUS
<1> PICK p : p = Customer(data[o])
  OBVIOUS
<1> PICK r : r = Moved(o, out.customer)
  OBVIOUS
<1> DEFINE c == out.contact
           id == out.customer
<1>1. /\ setting' = setting /\ data' = data /\ UNCHANGED orders /\ contact' = Merge(o, c)
      /\ mapping' = [mapping EXCEPT ![e] = r] /\ apart \subseteq apart'
      /\ job[o] = "doing" /\ job'[o] = "done"
      /\ \A q \in Order : q # o => (job'[q] = "done" <=> job[q] = "done") /\ result'[q] = result[q]
      /\ result'[o].customer = r
      /\ Sizes(o, c, a, b, m) /\ Mergeable(o, c) /\ out = Outcome(o)
  BY DEF Committed, orders
<1>2. /\ e \in External /\ Contacts(contact) /\ mapping \in [External -> Unmapped..Len(contact)]
      /\ setting.skip \in BOOLEAN
  BY CommitIs, SettingIs DEF TypeInv, Maps
<1>3. mapping'[e] = r
  BY <1>1, <1>2
<1>4. /\ a \in Nat /\ b \in Nat /\ m \in Nat /\ a <= b /\ a <= m /\ DOMAIN contact = 1..b
      /\ \A i \in DOMAIN contact : Keeps(contact[i], contact'[i])
      /\ id \in 1..m /\ DOMAIN c = 1..m
  BY CommitMerges
<1>5. CustomerIs(c, id, MappedTo(snap[o], e), p) /\ mapping[e] = snap[o].mapping[e]
  BY <1>1, CommitIs
<1>6. \A q : Ext(q)' = Ext(q) /\ Customer(data[q])' = Customer(data[q])
  BY <1>1 DEF Ext, Customer, Billing, Given
<1>7. /\ Served(e)' = Served(e) \cup {o} /\ o \notin Served(e)
      /\ \A q \in Served(e) : q \in Done /\ result'[q] = result[q] /\ q # o
  <2>1. o \notin Served(e)
    BY <1>1 DEF Served, Done
  <2>2. Done' = Done \cup {o}
    BY <1>1 DEF Done
  <2>3. Served(e)' = Served(e) \cup {o}
    BY <1>6, <2>2 DEF Served
  <2>4. \A q \in Served(e) : q \in Done /\ q \in Order /\ q # o
    BY <2>1 DEF Served, Done
  <2> QED
    BY <1>1, <2>1, <2>3, <2>4
<1>8. /\ r \in 1..(b + m - a) /\ contact'[r].parent = Moved(o, c[id].parent)
      /\ contact'[r].name = c[id].name /\ contact'[r].is_company = c[id].is_company
      /\ c[id].parent # Nobody =>
            /\ contact'[r].parent # Nobody /\ contact'[contact'[r].parent].name = c[c[id].parent].name
            /\ contact'[contact'[r].parent].is_company = c[c[id].parent].is_company
  <2>1. Mergeable(o, c) /\ Sizes(o, c, a, b, m) /\ contact' = Merge(o, c) /\ id \in 1..m
    BY <1>1, <1>4
  <2> QED
    BY <2>1, ParentMerged
\* The contact that the customer had before, when an order of theirs is done.
<1> PICK mapped : mapped = MappedTo(snap[o], e)
  OBVIOUS
<1>9. ASSUME Served(e) # {}
      PROVE  /\ mapping[e] = mapped /\ mapped \in 1..a /\ Moved(o, mapped) = mapped
             /\ contact'[mapped].active => c[mapped].active
             /\ c[mapped].is_company = contact[mapped].is_company
             /\ \E q \in Served(e) : mapped = result[q].customer
  <2>1. PICK q \in Served(e) : mapping[e] = result[q].customer
    BY <1>9 DEF ExternalInv
  <2>2. mapping[e] \in 1..b
    BY <1>4, <1>7, <2>1 DEF ResultInv
  <2>3. e # None
    BY <1>2, DataAssumption
  <2>4. mapped = mapping[e]
    BY <1>4, <1>5, <2>2, <2>3 DEF MappedTo, Open
  <2>5. mapped \in Unmapped..a
    <3>1. snap[o].mapping[e] \in Unmapped..Len(snap[o].contact)
      BY <1>1, <1>2 DEF SnapInv, HasSeen, Snapshot, Active
    <3> QED
      BY <1>1, <1>5, <2>4, <3>1 DEF Sizes
  <2>6. mapped \in 1..a
    BY <1>4, <2>2, <2>4, <2>5 DEF Unmapped
  <2>7. Moved(o, mapped) = mapped
    <3>1. mapped \in 0..a
      BY <1>4, <2>6
    <3> QED
      BY <1>1, <3>1 DEF Sizes
  <2>8. mapped \in 1..m /\ mapped \in DOMAIN contact
    BY <1>4, <2>6
  <2>9. /\ contact'[mapped].active => c[mapped].active
        /\ contact'[mapped].is_company = c[mapped].is_company
    BY <1>1, <2>7, <2>8, ParentMerged
  <2>10. contact'[mapped].is_company = contact[mapped].is_company
    BY <1>4, <2>8 DEF Keeps
  <2> QED
    BY <2>1, <2>4, <2>6, <2>7, <2>9, <2>10
<1>10. ForCompany(e) => ForCompany(e)'
  BY <1>6, <1>7 DEF ForCompany
<1>11. \A q \in Served(e) : (IF setting.skip THEN FirmInv(q) ELSE PersonInv(q))'
  <2>1. ASSUME Served(e) # {}, ~setting.skip, ~ForCompany(e)', contact'[mapping[e]].active
        PROVE  mapping'[e] = mapping[e]
    <3>1. PICK q \in Served(e) : mapped = result[q].customer
      BY <1>9, <2>1
    <3>2. ~contact[mapped].is_company
      BY <2>1, <3>1 DEF ExternalInv, PersonInv
    <3>3. c[mapped].active /\ ~c[mapped].is_company /\ mapped # Nobody
      BY <1>4, <1>9, <2>1, <3>2 DEF Nobody
    <3>4. p.company = None
      BY <1>6, <1>7, <2>1 DEF ForCompany
    <3>5. id = mapped
      BY <1>5, <2>1, <3>3, <3>4 DEF CustomerIs
    <3> QED
      BY <1>3, <1>9, <2>1, <3>5
  <2> QED
    BY <1>1, <1>2, <1>4, <1>7, <2>1, ServedKept
\* The order that is done.
<1>12. ASSUME Searched(c, id, p)
       PROVE  FirstFound(o, r)' /\ ~contact'[r].is_company
  <2>1. \/ Unknown(p)
        \/ /\ SameCustomer(p, contact'[r].parent, contact'[r])
           /\ p.company = None => contact'[r].parent = Nobody
           /\ \A i \in 1..(r - 1) :
                 contact'[i].active /\ SameCustomer(p, contact'[r].parent, contact'[i]) => <<i, r>> \in apart'
    BY <1>12, CommitFinds
  <2>2. (Customer(data[o]))' = p
    BY <1>6
  <2>3. ~contact'[r].is_company
    BY <1>8, <1>12 DEF Searched
  <2>4. FirstFound(o, r)'
    <3>1. CASE Unknown(p)
      <4>1. Unknown(Customer(data[o]))'
        BY <1>1, <2>2, <3>1 DEF Unknown
      <4> QED
        BY <4>1 DEF FirstFound
    <3>2. CASE ~Unknown(p)
      <4>1. \A i : SameCustomer(p, contact'[r].parent, contact'[i])
                      <=> SameCustomer(Customer(data[o]), contact[r].parent, contact[i])'
        BY <1>1, <2>2 DEF SameCustomer
      <4> QED
        BY <2>1, <2>2, <3>2, <4>1 DEF FirstFound
    <3> QED
      BY <3>1, <3>2
  <2> QED
    BY <2>3, <2>4
<1>13. ASSUME setting.skip
       PROVE  (IF setting.skip THEN FirmInv(o) ELSE PersonInv(o))'
  <2>1. p.company # None => CompanyOf(r, p.company)'
    BY <1>5, <1>8, <1>13 DEF CustomerIs, CompanyOf
  <2>2. ASSUME p.company = None
        PROVE  IF contact'[r].is_company THEN ForCompany(e)' ELSE FirstFound(o, r)'
    <3>1. CASE Searched(c, id, p)
      BY <1>12, <3>1
    <3>2. CASE id = mapped /\ c[id].is_company
      <4>1. Served(e) # {}
        <5>1. mapped # Nobody
          BY <1>4, <3>2 DEF Nobody
        <5>2. mapping[e] # Unmapped
          BY <1>5, <5>1 DEF MappedTo, Open, Unmapped, Nobody
        <5> QED
          BY <5>2 DEF ExternalInv
      <4>2. PICK q \in Served(e) : mapped = result[q].customer
        BY <1>9, <4>1
      <4>3. contact[mapped].is_company
        BY <1>9, <3>2, <4>1
      <4>4. FirmInv(q) /\ Ext(q) = e
        BY <1>13 DEF ExternalInv, Served
      <4>5. ForCompany(e)
        BY <4>2, <4>3, <4>4 DEF FirmInv, ForCompany
      <4> QED
        BY <1>8, <1>10, <3>2, <4>5
    <3> QED
      BY <1>5, <1>13, <2>2, <3>1, <3>2 DEF CustomerIs
  <2>3. FirmInv(o)'
    BY <1>1, <1>6, <2>1, <2>2 DEF FirmInv
  <2> QED
    BY <1>1, <1>13, <2>3
<1>14. ASSUME ~setting.skip
       PROVE  (IF setting.skip THEN FirmInv(o) ELSE PersonInv(o))'
  <2>1. ~contact'[r].is_company
    BY <1>5, <1>8, <1>14 DEF CustomerIs
  <2>2. p.company # None => contact'[r].parent # Nobody /\ CompanyOf(contact[r].parent, p.company)'
    BY <1>5, <1>8, <1>14 DEF CustomerIs, CompanyOf
  <2>3. \E q \in Served(e)' : FirstFound(q, r)'
    <3>1. CASE Searched(c, id, p)
      BY <1>7, <1>12, <3>1
    <3>2. CASE id = mapped
      <4>1. Served(e) # {}
        <5>1. mapped # Nobody
          BY <1>4, <3>2 DEF Nobody
        <5>2. mapping[e] # Unmapped
          BY <1>5, <5>1 DEF MappedTo, Open, Unmapped, Nobody
        <5> QED
          BY <5>2 DEF ExternalInv
      <4>2. PICK q \in Served(e) : mapped = result[q].customer
        BY <1>9, <4>1
      <4>3. PersonInv(q) /\ Ext(q) = e
        BY <1>14 DEF ExternalInv, Served
      <4>4. PICK h \in Served(e) : FirstFound(h, mapped)
        BY <4>2, <4>3 DEF PersonInv
      <4>5. r = mapped /\ mapped \in Nat /\ mapped # 0 /\ 1..mapped \subseteq DOMAIN contact
        BY <1>4, <1>9, <3>2, <4>1
      <4>6. FirstFound(h, mapped)'
        BY <1>1, <1>4, <4>4, <4>5, FirstFoundKept
      <4> QED
        BY <1>7, <4>5, <4>6
    <3> QED
      BY <1>5, <1>14, <3>1, <3>2 DEF CustomerIs
  <2>4. PersonInv(o)'
    BY <1>1, <1>3, <1>6, <2>1, <2>2, <2>3 DEF PersonInv
  <2> QED
    BY <1>1, <1>14, <2>4
<1>15. \A q \in Served(e)' : (IF setting.skip THEN FirmInv(q) ELSE PersonInv(q))'
  BY <1>7, <1>11, <1>13, <1>14
<1>16. \E q \in Served(e)' : mapping'[e] = result'[q].customer
  BY <1>1, <1>3, <1>7
<1>17. ExternalInv(e)'
  BY <1>15, <1>16 DEF ExternalInv
<1>18. Ext(o)' = e
  BY <1>6
<1> QED
  BY <1>17, <1>18 DEF ExternalInv

LEMMA CommitStep ==
    ASSUME PInv, NEW o \in Order, Commit(o)
    PROVE  PInv'
<1>1. TypeInv /\ SnapInv /\ KeyInv /\ ResultInv /\ ChosenInv /\ CustomerInv
  BY DEF PInv
<1>2. PICK out, a, b, m : Committed(o, out, a, b, m)
  BY <1>1, CommitTables
<1>3. TypeInv' /\ SnapInv' /\ ResultInv' /\ ChosenInv' /\ KeyInv'
  BY <1>1, <1>2, CommitTypes, CommitKeys
<1>4. CustomerInv'
  <2>1. /\ setting' = setting /\ data' = data /\ UNCHANGED orders /\ chosen' = chosen /\ apart \subseteq apart'
        /\ mapping' = IF Maps(o) THEN [mapping EXCEPT ![Ext(o)] = Moved(o, out.customer)] ELSE mapping
        /\ job[o] = "doing" /\ job'[o] = "done"
        /\ \A q \in Order : q # o => (job'[q] = "done" <=> job[q] = "done") /\ result'[q] = result[q]
    BY <1>2 DEF Committed, orders
  <2> SUFFICES ASSUME ~setting.manual, NEW e \in External \ chosen
               PROVE  ExternalInv(e)'
    BY <2>1 DEF CustomerInv
  <2>2. ExternalInv(e) /\ e # None
    BY <1>1, DataAssumption DEF CustomerInv
  <2>3. CASE Ext(o) = e
    <3>1. Maps(o)
      BY <2>2, <2>3 DEF Maps, Guest, Ext
    <3>2. ExternalInv(Ext(o))'
      BY <1>1, <1>2, <2>2, <2>3, <3>1, CommitServed
    <3>3. Ext(o)' = e
      BY <2>1, <2>3 DEF Ext
    <3> QED
      BY <3>2, <3>3 DEF ExternalInv
  <2>4. CASE Ext(o) # e
    <3>1. mapping'[e] = mapping[e]
      <4>1. mapping \in [External -> Unmapped..Len(contact)]
        BY <1>1 DEF TypeInv
      <4> QED
        BY <2>1, <2>4, <4>1
    <3>2. Served(e)' = Served(e)
      <4>1. \A q : Ext(q)' = Ext(q)
        BY <2>1 DEF Ext
      <4>2. Done' = Done \cup {o}
        BY <2>1 DEF Done
      <4> QED
        BY <2>4, <4>1, <4>2 DEF Served
    <3>3. \A q \in Served(e) : result'[q] = result[q]
      BY <2>1, <2>4 DEF Served, Done
    <3>4. Contacts(contact) /\ \A i \in DOMAIN contact : Keeps(contact[i], contact'[i])
      BY <1>1, <1>2, CommitMerges DEF TypeInv
    <3>5. \A q \in Served(e) : (IF setting.skip THEN FirmInv(q) ELSE PersonInv(q))'
      BY <1>1, <2>1, <2>2, <3>1, <3>2, <3>3, <3>4, ServedKept
    <3>6. \/ mapping'[e] = Unmapped /\ Served(e)' = {}
          \/ \E q \in Served(e)' : mapping'[e] = result'[q].customer
      BY <2>2, <3>1, <3>2, <3>3 DEF ExternalInv
    <3> QED
      BY <2>1, <3>2, <3>5, <3>6 DEF ExternalInv
  <2> QED
    BY <2>3, <2>4
<1> QED
  BY <1>3, <1>4 DEF PInv

LEMMA PInvNext == PInv /\ [PartnersNext]_partnersVars => PInv'
<1> SUFFICES ASSUME PInv, [PartnersNext]_partnersVars
             PROVE  PInv'
  OBVIOUS
<1>1. TypeInv /\ SnapInv /\ KeyInv /\ ResultInv /\ ChosenInv /\ CustomerInv
  BY DEF PInv
<1>2. TypeInv' /\ SnapInv' /\ ChosenInv' /\ Keeping => PInv'
  BY <1>1, KeepingSteps DEF PInv
<1>3. ASSUME NEW o \in Order, Begin(o)
      PROVE  PInv'
  BY <1>1, <1>2, <1>3, BeginStep
<1>4. ASSUME NEW o \in Order, Commit(o)
      PROVE  PInv'
  BY <1>4, CommitStep
<1>5. ASSUME NEW o \in Order, Retry(o)
      PROVE  PInv'
  <2>1. /\ job[o] \in Active /\ Inform({o}, {}) /\ End(o, "waiting")
        /\ UNCHANGED <<orders, tables, result, apart, chosen>>
    BY <1>5 DEF Retry
  <2> QED
    BY <1>1, <1>2, <2>1, EndStep
<1>6. ASSUME NEW o \in Order, Fail(o)
      PROVE  PInv'
  <2>1. /\ job[o] \in Active /\ Inform({o}, {}) /\ End(o, "failed")
        /\ UNCHANGED <<orders, tables, result, apart, chosen>>
    BY <1>6 DEF Fail, Active
  <2> QED
    BY <1>1, <1>2, <2>1, EndStep
<1>7. ASSUME NEW o \in Order, NotifyMissing(o)
      PROVE  PInv'
  BY <1>1, <1>2, <1>7, NotifyStep
<1>8. ASSUME NEW o \in Order, FailMissing(o)
      PROVE  PInv'
  <2>1. /\ job[o] \in Active /\ Inform({o}, {}) /\ End(o, "failed")
        /\ UNCHANGED <<orders, tables, result, apart, chosen>>
    BY <1>8 DEF FailMissing, Active
  <2> QED
    BY <1>1, <1>2, <2>1, EndStep
<1>9. ASSUME NEW o \in Order, Requeue(o)
      PROVE  PInv'
  BY <1>1, <1>2, <1>9, RequeueStep
<1>10. ASSUME NEW i \in DOMAIN contact, Archive(i)
       PROVE  PInv'
  BY <1>1, <1>2, <1>10, ArchiveStep
<1>11. ASSUME NEW i \in DOMAIN contact, NEW e \in External, MapContact(e, i)
       PROVE  PInv'
  BY <1>1, <1>2, <1>11, MapStep
<1>12. CASE UNCHANGED partnersVars
  BY <1>1, <1>2, <1>12, StutterStep
<1> QED
  BY <1>3, <1>4, <1>5, <1>6, <1>7, <1>8, <1>9, <1>10, <1>11, <1>12 DEF PartnersNext

-----------------------------------------------------------------------------
(* Theorems *)

\* The inductive invariant of the orders and their contacts.
THEOREM ContactsInvariant == PartnersSpec => []PInv
<1>1. PartnersInit => PInv
  BY PInvInit
<1>2. PInv /\ [PartnersNext]_partnersVars => PInv'
  BY PInvNext
<1> QED
  BY <1>1, <1>2, PTL DEF PartnersSpec

\* What the type invariant adds to the inductive one: an order that is not being done
\* has no snapshot, one that is not done no contacts, and only rows change.
Rows(c) == {MappingRow(e) : e \in External} \cup {ContactRow(i) : i \in DOMAIN c}

RestInv ==
    /\ \A o \in Order : /\ job[o] \notin Active => snap[o] = NoSnapshot
                        /\ job[o] # "done" => result[o] = NoResult
    /\ changed \in [Order -> SUBSET Rows(contact)]
    /\ acts \in 0..MaxActs /\ chosen \subseteq External
    /\ apart \subseteq (1..Len(contact)) \X (1..Len(contact))

\* An act of a user is counted, or there is none.
LEMMA ActsCounted ==
    ASSUME acts \in 0..MaxActs, Act \/ acts' = acts
    PROVE  acts' \in 0..MaxActs
BY ActsAssumption DEF Act

\* Rows that have changed are made known to the transactions in progress.
LEMMA InformRows ==
    ASSUME changed \in [Order -> SUBSET Rows(contact)], Rows(contact) \subseteq Rows(contact'),
           NEW by, NEW rows, rows \subseteq Rows(contact'), Inform(by, rows)
    PROVE  changed' \in [Order -> SUBSET Rows(contact')]
BY DEF Inform

LEMMA RestOfCommit ==
    ASSUME PInv, RestInv, NEW o \in Order, Commit(o)
    PROVE  RestInv'
<1>1. TypeInv /\ SnapInv
  BY DEF PInv
<1>2. PICK out, a, b, m : Committed(o, out, a, b, m)
  BY <1>1, CommitTables
<1>3. /\ a \in Nat /\ b \in Nat /\ m \in Nat /\ a <= b /\ a <= m
      /\ DOMAIN contact = 1..b /\ b = Len(contact) /\ DOMAIN contact \subseteq DOMAIN contact'
  BY <1>1, <1>2, CommitMerges
<1>4. /\ Len(contact') = b + m - a /\ apart' = apart \cup Unseen(a, b, m) /\ chosen' = chosen
      /\ job'[o] = "done" /\ DOMAIN snap[o].contact = 1..a /\ out = Outcome(o)
      /\ \A p \in Order : p # o => /\ job'[p] \in Active <=> job[p] \in Active
                                   /\ job'[p] = "done" <=> job[p] = "done"
                                   /\ snap'[p] = snap[p] /\ result'[p] = result[p]
  BY <1>2 DEF Committed, Sizes
<1>5. snap'[o] = NoSnapshot /\ acts' = acts
  BY <1>1 DEF Commit, TypeInv
<1>6. \A p \in Order : /\ job'[p] \notin Active => snap'[p] = NoSnapshot
                       /\ job'[p] # "done" => result'[p] = NoResult
  BY <1>4, <1>5 DEF RestInv
<1>7. Rows(contact) \subseteq Rows(contact')
  BY <1>3 DEF Rows
<1>8. Written(o, out.contact) \subseteq Rows(contact) /\ Inform({o}, Written(o, out.contact))
  <2>1. ~Guest(o) => Ext(o) \in External
    BY <1>1, CommitIs
  <2>2. DOMAIN snap[o].contact \subseteq DOMAIN contact
    BY <1>3, <1>4
  <2>3. Inform({o}, Written(o, out.contact))
    BY <1>1, <1>4, CommitIs DEF Store
  <2> QED
    BY <2>1, <2>2, <2>3 DEF Written, Maps, Rows
<1>9. changed' \in [Order -> SUBSET Rows(contact')]
  BY <1>7, <1>8, InformRows DEF RestInv
<1>10. apart' \subseteq (1..Len(contact')) \X (1..Len(contact'))
  <2>1. 1..b \subseteq 1..(b + m - a) /\ (a + 1)..b \subseteq 1..(b + m - a)
        /\ (b + 1)..(b + m - a) \subseteq 1..(b + m - a)
    BY <1>3
  <2>2. apart \subseteq (1..b) \X (1..b)
    BY <1>3 DEF RestInv
  <2> QED
    BY <1>4, <2>1, <2>2 DEF Unseen
<1>11. acts' \in 0..MaxActs /\ chosen' \subseteq External
  BY <1>4, <1>5 DEF RestInv
<1> QED
  BY <1>6, <1>9, <1>10, <1>11 DEF RestInv

\* Steps that create no contacts.
LEMMA RestKept ==
    ASSUME RestInv, Len(contact') = Len(contact), DOMAIN contact' = DOMAIN contact, apart' = apart, result' = result,
           Act \/ acts' = acts, chosen' \subseteq External,
           changed' = changed \/ \E by : \E rows \in SUBSET Rows(contact) : Inform(by, rows),
           \A o \in Order : /\ job'[o] \notin Active => snap'[o] = NoSnapshot
                            /\ job'[o] # "done" => job[o] # "done"
    PROVE  RestInv'
<1>1. Rows(contact') = Rows(contact)
  BY DEF Rows
<1>2. changed' \in [Order -> SUBSET Rows(contact')]
  <2>1. CASE changed' = changed
    BY <1>1, <2>1 DEF RestInv
  <2>2. CASE \E by : \E rows \in SUBSET Rows(contact) : Inform(by, rows)
    BY <1>1, <2>2, InformRows DEF RestInv
  <2> QED
    BY <2>1, <2>2
<1>3. acts' \in 0..MaxActs
  BY ActsCounted DEF RestInv
<1> QED
  BY <1>2, <1>3 DEF RestInv

LEMMA RestOfEnd ==
    ASSUME TypeInv, RestInv, NEW o \in Order, NEW becomes \in {"waiting", "failed"}, job[o] \in Active,
           Inform({o}, {}), End(o, becomes), UNCHANGED <<contact, result, acts, apart, chosen>>
    PROVE  RestInv'
<1>1. \A p \in Order : /\ job'[p] \notin Active => snap'[p] = NoSnapshot
                       /\ job'[p] # "done" => job[p] # "done"
  BY DEF End, TypeInv, RestInv, Active
<1>2. \E by : \E rows \in SUBSET Rows(contact) : Inform(by, rows)
  <2>1. {} \in SUBSET Rows(contact)
    OBVIOUS
  <2> QED
    BY <2>1
<1> QED
  BY <1>1, <1>2, RestKept DEF RestInv

LEMMA RestNext ==
    ASSUME PInv, RestInv, [PartnersNext]_partnersVars
    PROVE  RestInv'
<1>1. TypeInv /\ chosen \subseteq External
  BY DEF PInv, RestInv
<1>2. /\ DOMAIN contact = 1..Len(contact)
      /\ job \in [Order -> {"waiting", "failed", "done"} \cup Active]
      /\ DOMAIN snap = Order
  BY <1>1, ContactsAre DEF TypeInv
<1>3. ASSUME NEW o \in Order, Begin(o)
      PROVE  RestInv'
  <2>1. \A p \in Order : /\ job'[p] \notin Active => snap'[p] = NoSnapshot
                         /\ job'[p] # "done" => job[p] # "done"
    BY <1>2, <1>3 DEF Begin, RestInv, Active
  <2>2. UNCHANGED <<contact, changed, result, acts, apart, chosen>>
    BY <1>3 DEF Begin, tables
  <2> QED
    BY <1>1, <2>1, <2>2, RestKept
<1>4. ASSUME NEW o \in Order, Commit(o)
      PROVE  RestInv'
  BY <1>4, RestOfCommit
<1>5. ASSUME NEW o \in Order, Retry(o)
      PROVE  RestInv'
  BY <1>1, <1>5, RestOfEnd DEF Retry, tables
<1>6. ASSUME NEW o \in Order, Fail(o)
      PROVE  RestInv'
  BY <1>1, <1>6, RestOfEnd DEF Fail, tables, Active
<1>7. ASSUME NEW o \in Order, NotifyMissing(o)
      PROVE  RestInv'
  <2>1. \A p \in Order : /\ job'[p] \notin Active => snap'[p] = NoSnapshot
                         /\ job'[p] # "done" => job[p] # "done"
    BY <1>2, <1>7 DEF NotifyMissing, RestInv, Active
  <2>2. UNCHANGED <<contact, result, acts, apart, chosen>>
    BY <1>7 DEF NotifyMissing
  <2>3. Ext(o) \in External
    BY <1>1, <1>7, DataIs DEF NotifyMissing, MissingMapping, Guest, Ext, TypeInv
  <2>4. MappingRow(Ext(o)) \in Rows(contact)
    BY <2>3 DEF Rows
  <2>5. \A p \in Order : changed'[p] = changed[p] \/ changed'[p] = changed[p] \cup {MappingRow(Ext(o))}
    BY <1>7 DEF NotifyMissing
  <2>6. DOMAIN changed' = Order
    BY <1>7 DEF NotifyMissing
  <2>7. changed' \in [Order -> SUBSET Rows(contact)]
    <3>1. changed' = [p \in Order |-> changed'[p]]
      BY <1>7 DEF NotifyMissing
    <3>2. \A p \in Order : changed'[p] \in SUBSET Rows(contact)
      BY <2>4, <2>5 DEF RestInv
    <3> QED
      BY <3>1, <3>2
  <2> QED
    BY <2>1, <2>2, <2>7 DEF RestInv, Rows
<1>8. ASSUME NEW o \in Order, FailMissing(o)
      PROVE  RestInv'
  BY <1>1, <1>8, RestOfEnd DEF FailMissing, tables, Active
<1>9. ASSUME NEW o \in Order, Requeue(o)
      PROVE  RestInv'
  <2>1. \A p \in Order : /\ job'[p] \notin Active => snap'[p] = NoSnapshot
                         /\ job'[p] # "done" => job[p] # "done"
    BY <1>2, <1>9 DEF Requeue, RestInv, Active
  <2>2. UNCHANGED <<contact, changed, result, apart, chosen>> /\ Act
    BY <1>9 DEF Requeue, tables
  <2> QED
    BY <1>1, <2>1, <2>2, RestKept
<1>10. ASSUME NEW i \in DOMAIN contact, Archive(i)
       PROVE  RestInv'
  <2>1. contact' = [contact EXCEPT ![i].active = FALSE] /\ Act /\ Inform({}, {ContactRow(i)})
        /\ UNCHANGED <<job, snap, result, apart, chosen>>
    BY <1>10 DEF Archive
  <2>2. {ContactRow(i)} \in SUBSET Rows(contact)
    BY DEF Rows
  <2>3. Len(contact') = Len(contact) /\ DOMAIN contact' = DOMAIN contact
    <3>1. Contacts(contact') /\ Contacts(contact)
      BY <1>1, <1>10, ArchiveStep DEF PInv, TypeInv
    <3>2. DOMAIN contact' = DOMAIN contact
      BY <2>1
    <3> QED
      BY <3>1, <3>2, ContactsAre
  <2>4. \A p \in Order : /\ job'[p] \notin Active => snap'[p] = NoSnapshot
                         /\ job'[p] # "done" => job[p] # "done"
    BY <2>1 DEF RestInv
  <2>5. \E by : \E rows \in SUBSET Rows(contact) : Inform(by, rows)
    BY <2>1, <2>2
  <2> QED
    BY <1>1, <2>1, <2>3, <2>4, <2>5, RestKept
<1>11. ASSUME NEW i \in DOMAIN contact, NEW e \in External, MapContact(e, i)
       PROVE  RestInv'
  <2>1. Act /\ Inform({}, {MappingRow(e)}) /\ chosen' = chosen \cup {e} /\ job' = Requeued(e)
        /\ UNCHANGED <<contact, snap, result, apart>>
    BY <1>11 DEF MapContact
  <2>2. {MappingRow(e)} \in SUBSET Rows(contact)
    BY DEF Rows
  <2>3. \A p \in Order : /\ job'[p] \notin Active => snap'[p] = NoSnapshot
                         /\ job'[p] # "done" => job[p] # "done"
    BY <1>1, <2>1, RequeuedIs DEF RestInv
  <2>4. \E by : \E rows \in SUBSET Rows(contact) : Inform(by, rows)
    BY <2>1, <2>2
  <2> QED
    BY <1>1, <2>1, <2>3, <2>4, RestKept
<1>12. CASE UNCHANGED partnersVars
  BY <1>12 DEF partnersVars, tables, RestInv, Rows, Active
<1> QED
  BY <1>3, <1>4, <1>5, <1>6, <1>7, <1>8, <1>9, <1>10, <1>11, <1>12 DEF PartnersNext

\* The contacts, mappings, jobs and snapshots keep their types, whatever is created and
\* committed in whatever order: a contact has a parent older than itself, an order has
\* contacts when it is done and only then, and what others have changed are rows.
THEOREM PartnersTypeCorrect == PartnersSpec => []PartnersTypeOK
<1>1. PartnersInit => RestInv
  <2> SUFFICES ASSUME PartnersInit
               PROVE  RestInv
    OBVIOUS
  <2>1. changed = [o \in Order |-> {}] /\ acts = 0 /\ apart = {} /\ chosen = {}
        /\ snap = [o \in Order |-> NoSnapshot] /\ result = [o \in Order |-> NoResult]
    BY DEF PartnersInit
  <2> QED
    BY <2>1, ActsAssumption DEF RestInv
<1>2. PInv /\ RestInv /\ [PartnersNext]_partnersVars => RestInv'
  BY RestNext
<1>3. PInv /\ RestInv => PartnersTypeOK
  <2> SUFFICES ASSUME PInv, RestInv
               PROVE  PartnersTypeOK
    OBVIOUS
  <2>1. TypeInv /\ ResultInv
    BY DEF PInv
  <2>2. Contacts(contact) /\ DOMAIN contact = 1..Len(contact) /\ Len(contact) \in Nat
        /\ \A i \in DOMAIN contact : contact[i] \in ContactRecord
    BY <2>1, ContactsAre DEF TypeInv
  <2>3. \A i \in DOMAIN contact : /\ contact[i].parent \in 0..(i - 1)
                                  /\ contact[i].is_company => contact[i].parent = Nobody
    BY <2>2 DEF Contacts, ContactRecord
  <2>4. \A o \in Order : (result[o] = NoResult) <=> job[o] # "done"
    <3>1. \A o \in Order : job[o] = "done" => result[o].customer \in DOMAIN contact
      BY <2>1 DEF ResultInv, Done
    <3>2. NoResult.customer \notin DOMAIN contact
      BY <2>2 DEF NoResult, Nobody
    <3> QED
      BY <3>1, <3>2 DEF RestInv
  <2> QED
    BY <2>1, <2>3, <2>4 DEF PartnersTypeOK, TypeInv, RestInv, Rows
<1> QED
  BY <1>1, <1>2, <1>3, ContactsInvariant, PTL DEF PartnersSpec

\* Two contacts of which neither is archived are not the same to a search, unless
\* two transactions that did not see each other have created them.
LEMMA SameAreApart ==
    ASSUME TypeInv, KeyInv, NEW i \in DOMAIN contact, NEW j \in DOMAIN contact, i # j,
           contact[i].active, contact[j].active,
           contact[i].name = contact[j].name, contact[i].parent = contact[j].parent,
           contact[i].is_company = contact[j].is_company, contact[i].type = contact[j].type,
           ~contact[i].is_company => contact[i].email = contact[j].email,
           contact[i].type # "contact" =>
               contact[i].street = contact[j].street /\ contact[i].country = contact[j].country,
           contact[i].is_company \/ contact[i].type # "contact" \/ ~Unknown(contact[i])
    PROVE  <<i, j>> \in apart \/ <<j, i>> \in apart
<1>1. /\ Twins(contact[i], contact[j]) /\ Twins(contact[j], contact[i])
  BY DEF Twins, Unknown
<1>2. i \in Nat /\ j \in Nat /\ i # 0 /\ j # 0
  BY ContactsAre DEF TypeInv
<1>3. i \in 1..(j - 1) \/ j \in 1..(i - 1)
  BY <1>2
<1> QED
  BY <1>1, <1>3 DEF KeyInv

\* No contact is created that a search would have found, whatever orders are created
\* together and whatever users archive and map, unless the order had no e-mail to search
\* by or the other contact was created at the same time.
THEOREM SearchedBeforeCreated == PartnersSpec => []NoDuplicates
<1>1. PInv => NoDuplicates
  <2> SUFFICES ASSUME PInv, NEW i \in DOMAIN contact, NEW j \in DOMAIN contact,
                      i # j, <<i, j>> \notin apart, <<j, i>> \notin apart, ~Archived(i), ~Archived(j),
                      [contact[i] EXCEPT !.known_as = {}] = [contact[j] EXCEPT !.known_as = {}],
                      ~Unknown(contact[i])
               PROVE  FALSE
    BY DEF NoDuplicates
  <2>1. TypeInv /\ KeyInv
    BY DEF PInv
  <2>2. contact[i] \in ContactRecord /\ contact[j] \in ContactRecord
    BY <2>1, ContactsAre DEF TypeInv
  <2>3. /\ contact[i].name = contact[j].name /\ contact[i].parent = contact[j].parent
        /\ contact[i].is_company = contact[j].is_company /\ contact[i].type = contact[j].type
        /\ contact[i].email = contact[j].email
        /\ contact[i].street = contact[j].street /\ contact[i].country = contact[j].country
    BY <2>2 DEF ContactRecord
  <2>4. contact[i].active /\ contact[j].active
    BY DEF Archived
  <2> QED
    BY <2>1, <2>3, <2>4, SameAreApart
<1> QED
  BY <1>1, ContactsInvariant, PTL

\* Of two contacts found first by what says the same, under the same parent, one was
\* created while the other was.
LEMMA FirstOfTwo ==
    ASSUME TypeInv, NEW r \in DOMAIN contact, NEW s \in DOMAIN contact, r # s,
           contact[r].active, contact[s].active, contact[r].parent = contact[s].parent,
           NEW q, FirstFound(q, r), NEW h, FirstFound(h, s), ~Unknown(Customer(data[q])),
           Customer(data[q]).name = Customer(data[h]).name, Customer(data[q]).email = Customer(data[h]).email
    PROVE  <<r, s>> \in apart \/ <<s, r>> \in apart
<1>1. ~Unknown(Customer(data[h]))
  BY DEF Unknown
<1>2. \A parent, t : SameCustomer(Customer(data[q]), parent, t) <=> SameCustomer(Customer(data[h]), parent, t)
  BY DEF SameCustomer
<1>3. r \in Nat /\ s \in Nat /\ r # 0 /\ s # 0
  BY ContactsAre DEF TypeInv
<1>4. CASE s < r
  <2>1. s \in 1..(r - 1)
    BY <1>3, <1>4
  <2>2. SameCustomer(Customer(data[q]), contact[r].parent, contact[s])
    BY <1>1, <1>2 DEF FirstFound
  <2> QED
    BY <2>1, <2>2 DEF FirstFound
<1>5. CASE r < s
  <2>1. r \in 1..(s - 1)
    BY <1>3, <1>5
  <2>2. SameCustomer(Customer(data[h]), contact[s].parent, contact[r])
    BY <1>2 DEF FirstFound
  <2> QED
    BY <1>1, <2>1, <2>2 DEF FirstFound
<1> QED
  BY <1>3, <1>4, <1>5

\* Two companies of the same name, neither of which is archived.
LEMMA TwofoldIs ==
    ASSUME TypeInv, KeyInv, NEW i \in DOMAIN contact, NEW j \in DOMAIN contact, i # j, NEW name,
           CompanyOf(i, name), CompanyOf(j, name), contact[i].active, contact[j].active
    PROVE  Twofold(name)
<1>1. /\ contact[i].parent = contact[j].parent /\ contact[i].type = "contact" /\ contact[j].type = "contact"
      /\ contact[i].name = contact[j].name /\ contact[i].is_company = contact[j].is_company
  BY DEF CompanyOf, TypeInv, Contacts
<1>2. contact[i].is_company
  BY DEF CompanyOf
<1>3. <<i, j>> \in apart \/ <<j, i>> \in apart
  BY <1>1, <1>2, SameAreApart
<1> QED
  BY <1>3 DEF Twofold, CompanyOf

\* The parent of a contact that is not archived, nor is its parent.
LEMMA ParentIs ==
    ASSUME TypeInv, NEW r \in DOMAIN contact, ~Archived(r), contact[r].parent # Nobody
    PROVE  contact[r].parent \in DOMAIN contact /\ contact[contact[r].parent].active
<1>1. /\ DOMAIN contact = 1..Len(contact) /\ Len(contact) \in Nat /\ contact[r] \in ContactRecord
      /\ contact[r].parent < r
  BY ContactsAre DEF TypeInv, Contacts
<1>2. contact[r].parent \in DOMAIN contact
  <2>1. contact[r].parent \in Nat
    BY <1>1 DEF ContactRecord
  <2> QED
    BY <1>1, <2>1 DEF Nobody
<1> QED
  BY <1>2 DEF Archived

\* Orders of the same customer that say the same have the same contact, however they
\* are created together and whatever users archive, but for what OneContact names.
THEOREM SameCustomerSameContact == PartnersSpec => []OneContact
<1>1. PInv => OneContact
  <2> SUFFICES ASSUME PInv, NEW o \in Done, NEW p \in Done,
                      Ext(o) = Ext(p), Ext(o) # None, Customer(data[o]) = Customer(data[p]),
                      result[o].customer # result[p].customer,
                      ~Archived(result[o].customer), ~Archived(result[p].customer), Ext(o) \notin chosen,
                      ~(Customer(data[o]).company = None /\ AlsoForCompany(o)),
                      ~(Customer(data[o]).company # None /\ Twofold(Customer(data[o]).company)),
                      setting.skip = (Customer(data[o]).company = None) =>
                         /\ ~Unknown(data[o]) /\ <<result[o].customer, result[p].customer>> \notin apart
                         /\ <<result[p].customer, result[o].customer>> \notin apart,
                      ~(~setting.skip /\ Customer(data[o]).company # None /\ AlsoNamed(o))
               PROVE  FALSE
    BY DEF OneContact
  <2> DEFINE r == result[o].customer
             s == result[p].customer
             company == Customer(data[o]).company
             e == Ext(o)
  <2>1. TypeInv /\ KeyInv /\ ResultInv /\ ChosenInv /\ CustomerInv
    BY DEF PInv
  <2>2. r \in DOMAIN contact /\ s \in DOMAIN contact /\ contact[r].active /\ contact[s].active
    BY <2>1 DEF ResultInv, Archived
  <2>3. /\ \A q \in Order : data[q] \in Data
        /\ \A q \in Order : Customer(data[q]).name = data[q].name /\ Customer(data[q]).email = data[q].email
        /\ \A q \in Order : data[q].external \in External \cup {None}
        /\ setting.skip \in BOOLEAN /\ Done \subseteq Order
    BY <2>1, DataIs, SettingIs DEF TypeInv, Done
  <2>4. e \in External /\ ~setting.manual
    BY <2>1, <2>3 DEF ChosenInv, Ext
  <2>5. ExternalInv(e) /\ o \in Served(e) /\ p \in Served(e) /\ Served(e) \subseteq Done
    BY <2>1, <2>4 DEF CustomerInv, Served
  <2>6. ForCompany(e) => AlsoForCompany(o)
    BY DEF ForCompany, AlsoForCompany, Served
  <2>7. CASE setting.skip /\ company # None
    <3>1. CompanyOf(r, company) /\ CompanyOf(s, company)
      BY <2>5, <2>7 DEF ExternalInv, FirmInv
    <3> QED
      BY <2>1, <2>2, <2>7, <3>1, TwofoldIs
  <2>8. CASE setting.skip /\ company = None
    <3>1. FirstFound(o, r) /\ FirstFound(p, s)
      BY <2>5, <2>6, <2>8 DEF ExternalInv, FirmInv
    <3>2. ~Unknown(Customer(data[o])) /\ ~Unknown(Customer(data[p]))
      BY <2>3, <2>8 DEF Unknown
    <3>3. contact[r].parent = contact[s].parent
      BY <2>8, <3>1, <3>2 DEF FirstFound
    <3> QED
      BY <2>1, <2>2, <2>8, <3>1, <3>2, <3>3, FirstOfTwo
  <2>9. CASE ~setting.skip /\ company = None
    BY <2>2, <2>5, <2>6, <2>9 DEF ExternalInv, PersonInv
  <2>10. CASE ~setting.skip /\ company # None
    <3>1. /\ contact[r].parent # Nobody /\ CompanyOf(contact[r].parent, company)
          /\ contact[s].parent # Nobody /\ CompanyOf(contact[s].parent, company)
          /\ Ext(p) = e
      BY <2>5, <2>10 DEF ExternalInv, PersonInv
    <3>2. PICK q \in Served(e), h \in Served(e) : FirstFound(q, r) /\ FirstFound(h, s)
      BY <2>5, <2>10, <3>1 DEF ExternalInv, PersonInv
    <3>3. \A f \in Served(e) : data[f].name = data[o].name /\ data[f].email = data[o].email
      BY <2>10 DEF AlsoNamed, Served
    <3>4. /\ Customer(data[q]).name = Customer(data[h]).name
          /\ Customer(data[q]).email = Customer(data[h]).email /\ ~Unknown(Customer(data[q]))
      BY <2>3, <2>5, <2>10, <3>2, <3>3 DEF Unknown
    <3>5. /\ contact[r].parent \in DOMAIN contact /\ contact[contact[r].parent].active
          /\ contact[s].parent \in DOMAIN contact /\ contact[contact[s].parent].active
      BY <2>1, <2>2, <3>1, ParentIs
    <3>6. contact[r].parent = contact[s].parent
      BY <2>1, <2>10, <3>1, <3>5, TwofoldIs
    <3>7. <<r, s>> \in apart \/ <<s, r>> \in apart
      BY <2>1, <2>2, <3>2, <3>4, <3>6, FirstOfTwo
    <3> QED
      BY <2>3, <2>10, <3>7
  <2> QED
    BY <2>3, <2>7, <2>8, <2>9, <2>10
<1> QED
  BY <1>1, ContactsInvariant, PTL

\* The addresses of an order are those it has asked for, under its customer or under the
\* company of its customer, whatever the search has found and whatever has been
\* created since its transaction began.
THEOREM AddressesAsAsked == PartnersSpec => AddressAlike
<1>1. ASSUME PInv, PartnersNext, NEW o \in Order, job[o] # "done", job'[o] = "done"
      PROVE  Commit(o)
  <2>1. TypeInv /\ job \in [Order -> {"waiting", "failed", "done"} \cup Active]
    BY <1>1 DEF PInv, TypeInv
  <2>2. \A p \in Order : ~(Begin(p) \/ Retry(p) \/ Fail(p) \/ NotifyMissing(p) \/ FailMissing(p) \/ Requeue(p))
    <3> SUFFICES ASSUME NEW p \in Order, NEW becomes \in {"doing", "waiting", "failed", "notified"},
                        job' = [job EXCEPT ![p] = becomes]
                 PROVE  FALSE
      BY DEF Begin, Retry, Fail, NotifyMissing, FailMissing, Requeue, End
    <3> QED
      BY <1>1, <2>1
  <2>3. \A i \in DOMAIN contact : ~Archive(i)
    BY <1>1 DEF Archive
  <2>4. \A i \in DOMAIN contact, e \in External : ~MapContact(e, i)
    <3> SUFFICES ASSUME NEW e \in External, job' = Requeued(e)
                 PROVE  FALSE
      BY DEF MapContact
    <3> QED
      BY <1>1, <2>1, RequeuedIs
  <2>5. PICK p \in Order : Commit(p)
    BY <1>1, <2>2, <2>3, <2>4 DEF PartnersNext
  <2>6. p = o
    <3>1. PICK out, a, b, m : Committed(p, out, a, b, m)
      BY <1>1, <2>5, CommitTables DEF PInv
    <3> QED
      BY <1>1, <3>1 DEF Committed
  <2> QED
    BY <2>5, <2>6
<1>2. ASSUME PInv, NEW o \in Order, Commit(o), ~Guest(o),
             NEW pair \in {<<result'[o].invoice, Billing(data[o])>>, <<result'[o].delivery, Shipping(data[o])>>}
      PROVE  LET r == contact'[pair[1]]
             IN  /\ Alike(r, pair[2])
                 /\ \/ pair[1] = result'[o].customer \/ r.parent = result'[o].customer
                    \/ r.is_company /\ r.name = pair[2].company
                    \/ r.parent # Nobody /\ contact'[r.parent].name = pair[2].company
  <2>1. TypeInv /\ SnapInv /\ data[o] \in Data
    BY <1>2 DEF PInv, TypeInv
  <2>2. PICK out, a, b, m : Committed(o, out, a, b, m)
    BY <1>2, <2>1, CommitTables
  <2>3. /\ out = Outcome(o) /\ Mergeable(o, out.contact) /\ Sizes(o, out.contact, a, b, m)
        /\ contact' = Merge(o, out.contact)
        /\ result'[o].customer = Moved(o, out.customer) /\ result'[o].invoice = Moved(o, out.invoice)
        /\ result'[o].delivery = Moved(o, out.delivery)
    BY <2>2 DEF Committed
  <2>4. /\ AddressFor(out.contact, out.invoice, out.customer, Billing(data[o]))
        /\ AddressFor(out.contact, out.delivery, out.customer, Shipping(data[o]))
    BY <1>2, <2>1, <2>3, CommitIs
  <2>5. AddressFor(contact', pair[1], result'[o].customer, pair[2])
    BY <2>3, <2>4, AddressMerged
  <2> QED
    BY <2>5 DEF AddressFor
<1>3. PInv /\ [PartnersNext]_partnersVars =>
        [\A o \in Order :
          job[o] # "done" /\ job'[o] = "done" /\ ~Guest(o) =>
            \A pair \in {<<result'[o].invoice, Billing(data[o])>>, <<result'[o].delivery, Shipping(data[o])>>} :
                LET r == contact'[pair[1]]
                IN  /\ Alike(r, pair[2])
                    /\ \/ pair[1] = result'[o].customer \/ r.parent = result'[o].customer
                       \/ r.is_company /\ r.name = pair[2].company
                       \/ r.parent # Nobody /\ contact'[r.parent].name = pair[2].company]_partnersVars
  BY <1>1, <1>2
<1> QED
  BY <1>3, ContactsInvariant, PTL DEF PartnersSpec, AddressAlike
=============================================================================
