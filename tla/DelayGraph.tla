------------------------------- MODULE DelayGraph -------------------------------
(***************************************************************************)
(* The graph of jobs that a program builds from delayables, chains and     *)
(* groups, and what delay() makes of it: jobs that wait for one another,   *)
(* or the execution of all of them at once, for tests.                     *)
(*                                                                         *)
(* A chain or a group is made of nodes that exist, a group of none too, as *)
(* split() makes one of an empty recordset; on_done connects any two;      *)
(* delay() is called once, on the node from which all are reached, but for *)
(* units that only the on_done of a group of none names.                   *)
(* JobGraph is how stored jobs are released; here a job is performed when  *)
(* all the jobs that it depends on are done.                               *)
(*                                                                         *)
(* Named apart from the definitions of JobGraph, with which JobGraphProofs *)
(* extends this module.                                                    *)
(*                                                                         *)
(* Abstracted: the uuid of the graph, the properties of the jobs but for   *)
(* their identity keys, split(), which makes a chain or a group.           *)
(***************************************************************************)
EXTENDS Integers, Graphs

CONSTANTS
    Delayable,    \* the units of the graph
    MaxCompounds, \* bound of the model: chains and groups
    MaxSize,      \* bound of the model: members of a chain or a group
    MaxCalls      \* bound of the model: calls of on_done

ASSUME BoundsAssumption == {MaxCompounds, MaxSize, MaxCalls} \subseteq Nat
ASSUME DelayableAssumption == IsFiniteSet(Delayable) /\ Delayable \cap Nat = {}

VARIABLES
    made,   \* the chains and groups, as they are made: their kind and their members
    later,  \* pairs of nodes: the second is to be executed when the first is done
    stage,  \* "building", and what delay() has done
    jobs,   \* the graph of the jobs
    queue,  \* of topological_sort
    done    \* the jobs that were performed, in their order

delayVars == <<made, later, stage, jobs, queue, done>>

-----------------------------------------------------------------------------
(* Nodes *)

Compounds == DOMAIN made
Nodes == Delayable \cup Compounds
Members(c) == ToSet(made[c].members)
Inside(n) == IF n \in Delayable THEN {} ELSE Members(n)
Chains == {c \in Compounds : made[c].kind = "chain"}
Steps(c) == 1..Len(made[c].members)

First(s) == s[1]
All(end) == UNION {end[m] : m \in DOMAIN end}

\* Mutant: the tail of a group lacks its first member.
EndsFirst ==
    LET ends[n \in Nodes] ==
            CASE n \in Delayable -> [head |-> {n}, tail |-> {n}]
              [] n \in Chains -> [head |-> ends[First(made[n].members)].tail,
                                  tail |-> ends[Last(made[n].members)].head]
              [] OTHER -> [head |-> All([m \in Members(n) |-> ends[m].head]),
                           tail |-> All([i \in Steps(n) \ {1} |-> ends[made[n].members[i]].tail])]
    IN  ends

\* _head and _tail: the delayables that a node begins with, and those that it ends with.
\* A chain asks its first node for the tail, and its last one for the head.
Ends ==
    LET ends[n \in Nodes] ==
            CASE n \in Delayable -> [head |-> {n}, tail |-> {n}]
              [] n \in Chains -> [head |-> ends[First(made[n].members)].tail,
                                  tail |-> ends[Last(made[n].members)].head]
              [] OTHER -> [head |-> All([m \in Members(n) |-> ends[m].head]),
                           tail |-> All([m \in Members(n) |-> ends[m].tail])]
    IN  ends

\* Where the edges of on_done start.
Starts(n) == IF n \in Delayable THEN {n} ELSE IF n \in Chains THEN {Last(made[n].members)} ELSE Members(n)
Later(n) == {p[2] : p \in {q \in later : q[1] = n}}

Serial(c) == {<<made[c].members[i], made[c].members[i + 1]>> : i \in Steps(c) \ {Len(made[c].members)}}

\* Mutant: a group is connected as a chain is.
EdgesSerial(n) == (Starts(n) \X Later(n)) \cup (IF n \in Compounds THEN Serial(n) ELSE {})

\* The graph that each node holds, of nodes: on_done adds to the one of __init__.
Edges(n) == (Starts(n) \X Later(n)) \cup (IF n \in Chains THEN Serial(n) ELSE {})

\* on_done adds what it is passed with the edges, and a group of none has no edge to add.
Vertices(n) ==
    (IF Starts(n) = {} THEN {} ELSE Later(n)) \cup (IF n \in Delayable THEN {n} ELSE Members(n))

\* What is reached from a node, over any number of steps of next.
Reached(next, start) ==
    LET visit[seen \in SUBSET DOMAIN next] ==
            LET more == seen \cup All([n \in seen |-> next[n]])
            IN  IF more = seen THEN seen ELSE visit[more]
    IN  visit[{start}]

\* _connect_graphs visits the graphs of the vertices of those that it has visited.
Visited(top) == Reached([n \in Nodes |-> Vertices(n)], top)

\* _merge_graph: the tails of each vertex are connected with the heads of its neighbours.
Connected(top) ==
    LET ends == Ends
        edges == UNION {Edges(n) : n \in Visited(top)}
    IN  [node |-> Visited(top) \cap Delayable,
         edge |-> UNION {ends[e[1]].tail \X ends[e[2]].head : e \in edges}]

-----------------------------------------------------------------------------
(* What the program asks for *)

\* What a node is made of, across all the levels: itself, and down to its units.
Within(n) == Reached([m \in Nodes |-> Inside(m)], n)
Units(n) == Within(n) \cap Delayable

\* "A chain means that jobs must be executed sequentially"; what is passed to on_done
\* "will be executed when the current" one "is done".
Asked ==
    LET units == [n \in Nodes |-> Units(n)]
        serial == UNION {{<<made[c].members[p[1]], made[c].members[p[2]]>> :
                              p \in {q \in Steps(c) \X Steps(c) : q[1] < q[2]}} : c \in Chains}
    IN  UNION {units[p[1]] \X units[p[2]] : p \in serial \cup later}

Acyclic(order) ==
    \A s \in SUBSET Delayable : s # {} => \E n \in s : \A m \in s : <<m, n>> \notin order

\* A chain that begins or ends with a chain, or with a group that holds one, is connected
\* at the wrong ends when it is in another node or after one.
Crossed ==
    \E c \in Chains :
        /\ \E m \in {First(made[c].members), Last(made[c].members)} : Within(m) \cap Chains # {}
        /\ \E n \in Nodes : c \in Vertices(n)

\* A member without units has no end to connect: what is before it in a chain is not before
\* what is after it, in the chain or, for the members at its ends, around it.
Hollow ==
    \E c \in Chains : \E i \in Steps(c) :
        /\ Units(c) # {} /\ Units(made[c].members[i]) = {}
        /\ \/ i \in 2..(Len(made[c].members) - 1)
           \/ i = Len(made[c].members) /\ Later(c) # {}
           \/ \E n \in Nodes : c \in Vertices(n)

-----------------------------------------------------------------------------
(* The program *)

\* chain(), of one node at least, and group()
New(kind, members) ==
    /\ stage = "building" /\ Len(made) < MaxCompounds
    /\ kind = "chain" => members # <<>>
    /\ made' = Append(made, [kind |-> kind, members |-> members])
    /\ UNCHANGED <<later, stage, jobs, queue, done>>

OnDone(n, m) ==
    /\ stage = "building" /\ Cardinality(later) < MaxCalls
    /\ n # m /\ <<n, m>> \notin later
    /\ later' = later \cup {<<n, m>>}
    /\ UNCHANGED <<made, stage, jobs, queue, done>>

\* delay() of the top-level node, which needs a job.  Nothing is stored when each job with an
\* identity key has found another one; QUEUE_JOB__NO_DELAY makes it execute the jobs.
Delay(top, outcome) ==
    /\ stage = "building"
    /\ \A n \in Nodes \ Visited(top) : n \in Delayable /\ Later(n) = {}
    /\ Acyclic(Asked)
    /\ LET graph == Connected(top) IN
        /\ graph.node # {} /\ jobs' = graph
        /\ queue' \in IF outcome = "direct" THEN SetToSeqs(Roots(graph)) ELSE {<<>>}
    /\ stage' = outcome
    /\ UNCHANGED <<made, later, done>>

-----------------------------------------------------------------------------
(* The jobs *)

Performed == ToSet(done)
Free(performed) == {j \in jobs.node : Predecessors(jobs, j) \subseteq performed}

\* A stored job is performed when it does not wait for another one.
PerformStored(j) ==
    /\ stage = "stored" /\ j \in Free(Performed) \ Performed
    /\ done' = Append(done, j)
    /\ UNCHANGED <<made, later, stage, jobs, queue>>

\* Mutant: a dependency that is yielded lets all the jobs behind it go.
ResolvedAll(j) == Successors(jobs, j)

\* The jobs that waited for j as the last one.
Resolved(j) == Successors(jobs, j) \cap Free(Performed \cup {j})

\* A step of topological_sort, and _execute_direct
Yield ==
    /\ stage = "direct" /\ queue # <<>>
    /\ done' = Append(done, Head(queue))
    /\ \E resolved \in SetToSeqs(Resolved(Head(queue))) : queue' = Tail(queue) \o resolved
    /\ UNCHANGED <<made, later, stage, jobs>>

-----------------------------------------------------------------------------

DelayInit ==
    /\ made = <<>> /\ later = {} /\ stage = "building"
    /\ jobs = EmptyGraph /\ queue = <<>> /\ done = <<>>

DelayNext ==
    \/ \E size \in 0..MaxSize : \E members \in [1..size -> Nodes] :
           IsInjective(members) /\ \E kind \in {"chain", "group"} : New(kind, members)
    \/ \E n, m \in Nodes : OnDone(n, m)
    \/ \E top \in Nodes, outcome \in {"stored", "left", "direct"} : Delay(top, outcome)
    \/ \E j \in Delayable : PerformStored(j)
    \/ Yield

DelaySpec == DelayInit /\ [][DelayNext]_delayVars

-----------------------------------------------------------------------------
(* Properties *)

\* Every variable keeps its type: the members of a chain or a group exist when it is
\* made, and the jobs are those of the delayables.
DelayTypeOK ==
    /\ \A c \in Compounds : Members(c) \subseteq Delayable \cup 1..(c - 1)
    /\ made \in Seq([kind : {"chain", "group"}, members : Seq(Nodes)])
    /\ later \subseteq Nodes \X Nodes
    /\ stage \in {"building", "stored", "left", "direct"}
    /\ IsDirectedGraph(jobs) /\ jobs.node \subseteq Delayable
    /\ ToSet(queue) \cup Performed \subseteq jobs.node

\* A job is executed after all those that chains and on_done put before it, whatever is
\* built of what and connected in which order; but where a chain is connected at the wrong
\* ends, or has a member without units.
InOrder == ~Crossed /\ ~Hollow => \A p \in Asked : p[2] \in Performed => p[1] \in Performed

\* No job waits for one that it was not asked to wait for: groups are executed
\* concurrently, and a graph never waits for itself.
NoneHeld ==
    stage = "stored" => \A j \in jobs.node :
        (\A p \in Asked : p[2] = j => p[1] \in Performed) => j \in Free(Performed)

\* The direct execution performs each job once and, when it has nothing left, all.
EachOnce ==
    /\ IsInjective(done)
    /\ stage = "direct" /\ queue = <<>> => Performed = jobs.node
=============================================================================
