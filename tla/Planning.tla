------------------------------- MODULE Planning -------------------------------
(***************************************************************************)
(* From the rows of a file to an execution plan, as run_session() does it: *)
(* the operations are created against the content of BAM, the planner      *)
(* wires the dependency graph one operation at a time, barriers are put    *)
(* between the phases, the graph is sorted (Kahn's algorithm), and the     *)
(* plan is cut out of it.  Any exception on the way ends the import before *)
(* a single request that changes BAM was made: stage "aborted".            *)
(*                                                                         *)
(* A caller that uses DependencyGraph.build_from_operations() instead of   *)
(* the planner goes the same way with the edges that method detects.       *)
(***************************************************************************)
EXTENDS DependencyGraph, ExecutionPlanner

CONSTANTS
    Files,          \* the files: sequences of rows with different row ids
    Bams,           \* the possible contents of BAM
    BatchSizes,     \* the values of max_batch_size, 0 for None
    Wirings         \* "planner", "graph": who draws the edges

\* CSVParser refuses a row id that another row has; every row type is in a phase
ASSUME FileAssumption ==
    \A f \in Files :
      /\ f \in Seq(ToSet(f))
      /\ \A i, j \in DOMAIN f : f[i].id = f[j].id => i = j
      /\ \A i \in DOMAIN f : \E s \in PhaseSteps : /\ f[i].type \in PhaseTypes(s)
                                                   /\ f[i].action \in PhaseActions(s)

\* The code of a location begins with the code of its parent, so parents have
\* shorter and shorter codes, but for a location that is its own parent
ASSUME LocationAssumption ==
    \A f \in Files : \A S \in SUBSET {i \in DOMAIN f : f[i].type = "location"} :
      S # {} => \E i \in S : \A j \in S :
                  f[i].parent # None /\ f[i].parent[1] = f[j].name => f[j].name = f[i].name

ASSUME BatchSizeAssumption == BatchSizes \subseteq Nat

VARIABLES
    file, bam, size, wiring,    \* what the import was given
    stage,      \* "create", "add", "wire", "phase", "roots", "sort", "cut",
                \* "planned", "aborted"
    at,         \* the next operation, phase, node or batch of the stage's loop
    ops,        \* the operations, in the order of the file
    graph,      \* the dependency graph
    todo,       \* the edges of the operation that is wired, not drawn yet
    barrier,    \* the phase step of the last barrier that was added, 0 at first
    queue,      \* Kahn's queue
    sorted,     \* the nodes sorted so far
    batches,    \* the batches of the graph, by depth
    cut,        \* how many nodes of batches[at] are in the plan
    plan        \* the batches of the plan

given == <<file, bam, size, wiring>>
drawn == <<ops, todo, barrier>>
kahn  == <<queue, sorted, batches>>
vars == <<given, stage, at, graph, drawn, kahn, cut, plan>>

Init ==
    /\ file \in Files /\ bam \in Bams /\ size \in BatchSizes /\ wiring \in Wirings
    /\ stage = "create" /\ at = 1
    /\ ops = <<>> /\ graph = EmptyGraph /\ todo = {} /\ barrier = 0
    /\ queue = <<>> /\ sorted = <<>> /\ batches = <<>> /\ cut = 0 /\ plan = <<>>

\* PendingResources.from_rows(), then one operation per row
CreateOperations ==
    /\ stage = "create"
    /\ LET c == [pending |-> FromRows(file), bam |-> bam]
       IN  ops' = [i \in DOMAIN file |-> CreateFromRow(c, file[i])]
    /\ stage' = "add"
    /\ UNCHANGED <<given, at, graph, todo, barrier, kahn, cut, plan>>

\* One node per operation
AddNode ==
    /\ stage = "add"
    /\ IF at <= Len(ops)
       THEN /\ graph' = AddOperation(graph, NodeId(ops[at]), ops[at])
            /\ at' = at + 1
            /\ UNCHANGED stage
       ELSE stage' = "wire" /\ at' = 1 /\ UNCHANGED graph
    /\ UNCHANGED <<given, drawn, kahn, cut, plan>>

Wiring == stage = "wire" /\ todo = {} /\ at <= Len(ops)

\* DependencyPlanner.build_graph(), one operation
WireOperation ==
    /\ Wiring /\ wiring = "planner"
    /\ IF AddressMapLost(ops, at) /\ Valid(ops[at])
       THEN stage' = "aborted" /\ UNCHANGED todo
       ELSE /\ todo' = IF Valid(ops[at])
                       THEN Calls(NodeId(ops[at]), TRUE, Edges(ops, ops[at])) ELSE {}
            /\ UNCHANGED stage
    /\ at' = at + 1
    /\ UNCHANGED <<given, ops, graph, barrier, kahn, cut, plan>>

\* DependencyGraph.build_from_operations(), one operation
DetectForOperation ==
    /\ Wiring /\ wiring = "graph"
    /\ todo' = DetectDependencies(graph, NodeId(ops[at]))
    /\ at' = at + 1
    /\ UNCHANGED <<given, stage, ops, graph, barrier, kahn, cut, plan>>

\* One call of add_dependency(): the callers that catch what it raises log it and
\* go on with the next edge
AddEdge ==
    /\ stage = "wire"
    /\ \E e \in todo :
         /\ graph' = AddDependency(graph, e.from, e.to)
         /\ stage' = IF Raises(graph, e.from, e.to) /\ ~e.caught THEN "aborted" ELSE stage
         /\ todo' = todo \ {e}
    /\ UNCHANGED <<given, at, ops, barrier, kahn, cut, plan>>

StartPhasing ==
    /\ stage = "wire" /\ todo = {} /\ at > Len(ops)
    /\ stage' = "phase" /\ at' = 1
    /\ UNCHANGED <<given, graph, drawn, kahn, cut, plan>>

PhasesLeft == {s \in PhaseSteps : s >= at /\ PhaseNodes(graph, s) # {}}

\* _apply_phasing(): the next phase that has nodes
AddBarrier ==
    /\ stage = "phase"
    /\ \E s \in PhasesLeft :
         /\ \A t \in PhasesLeft : s <= t
         /\ IF PhaseRaises(graph, s, barrier)
            THEN stage' = "aborted" /\ UNCHANGED <<at, graph, barrier>>
            ELSE /\ graph' = ApplyPhase(graph, s, barrier)
                 /\ barrier' = s
                 /\ at' = s + 1
                 /\ UNCHANGED stage
    /\ UNCHANGED <<given, ops, todo, kahn, cut, plan>>

StartSort ==
    /\ stage = "phase" /\ PhasesLeft = {}
    /\ stage' = "roots" /\ at' = 1
    /\ UNCHANGED <<given, graph, drawn, kahn, cut, plan>>

\* topological_sort(): the nodes that depend on nothing, in the order of the graph
QueueRoots ==
    /\ stage = "roots"
    /\ IF at <= Len(graph.nodes)
       THEN /\ queue' = IF graph.deps[graph.nodes[at]] = {}
                        THEN Append(queue, graph.nodes[at]) ELSE queue
            /\ at' = at + 1
            /\ UNCHANGED stage
       ELSE stage' = "sort" /\ UNCHANGED <<at, queue>>
    /\ UNCHANGED <<given, graph, drawn, sorted, batches, cut, plan>>

\* The dependents whose last dependency is the node that was sorted now
Freed(node) == {n \in NodesOf(graph) : /\ node \in graph.deps[n]
                                       /\ graph.deps[n] \subseteq ToSet(sorted) \cup {node}}

\* One turn of topological_sort(): the dependents of a node are a set
SortNode ==
    /\ stage = "sort" /\ queue # <<>>
    /\ sorted' = Append(sorted, Head(queue))
    /\ batches' = Placed(graph, batches, Head(queue))
    /\ \E order \in SetToSeqs(Freed(Head(queue))) : queue' = Tail(queue) \o order
    /\ UNCHANGED <<given, stage, at, graph, drawn, cut, plan>>

\* A graph with a cycle is not sorted to the end: CyclicDependencyError
FinishSort ==
    /\ stage = "sort" /\ queue = <<>>
    /\ stage' = IF Len(sorted) = Len(graph.nodes) THEN "cut" ELSE "aborted"
    /\ at' = 1
    /\ UNCHANGED <<given, graph, drawn, kahn, cut, plan>>

\* create_plan(): the next batch of the graph, or the next part of it
CutBatch ==
    /\ stage = "cut" /\ at <= Len(batches)
    /\ plan' = Append(plan, NextBatch(plan, at, batches[at], cut, size))
    /\ LET end == PartEnd(batches[at], cut, size)
       IN  IF end < Len(batches[at]) THEN cut' = end /\ UNCHANGED at
           ELSE cut' = 0 /\ at' = at + 1
    /\ UNCHANGED <<given, stage, graph, drawn, kahn>>

FinishPlan ==
    /\ stage = "cut" /\ at > Len(batches)
    /\ stage' = "planned"
    /\ UNCHANGED <<given, at, graph, drawn, kahn, cut, plan>>

Next == \/ CreateOperations \/ AddNode
        \/ WireOperation \/ DetectForOperation \/ AddEdge
        \/ StartPhasing \/ AddBarrier
        \/ StartSort \/ QueueRoots \/ SortNode \/ FinishSort
        \/ CutBatch \/ FinishPlan

Spec == Init /\ [][Next]_vars

-----------------------------------------------------------------------------
(***************************************************************************)
(* Properties.                                                             *)
(***************************************************************************)
Planned == stage = "planned"
Places(n) == {p \in UNION {{b} \X DOMAIN plan[b].nodes : b \in DOMAIN plan} :
                plan[p[1]].nodes[p[2]] = n}
BatchAt(n) == (CHOOSE p \in Places(n) : TRUE)[1]
Earlier(m, n) == BatchAt(m) < BatchAt(n)

\* Whatever order the sort meets its sets in and however batches are split,
\* every operation of the file and every barrier is in the plan exactly once,
\* in a later batch than everything it depends on
PlanFollowsTheGraph ==
    Planned => /\ \A i \in DOMAIN ops : NodeId(ops[i]) \in NodesOf(graph)
               /\ \A n \in NodesOf(graph) :
                    /\ Cardinality(Places(n)) = 1
                    /\ \A d \in graph.deps[n] : Earlier(d, n)

PhaseOf(r) == CHOOSE s \in PhaseSteps : r.type \in PhaseTypes(s) /\ r.action \in PhaseActions(s)

\* Barriers serialise the import: all deletions before every create and update,
\* deletions against the order of the phases, the rest along it, also across
\* phases that have no operation
PhasesInOrder ==
    Planned => \A i, j \in DOMAIN ops :
      PhaseOf(ops[i].row) < PhaseOf(ops[j].row) => Earlier(NodeId(ops[i]), NodeId(ops[j]))

\* A row that waits for the id of another row's resource, with that row
TypesOf(slot) ==
    CASE slot = "block"   -> {"ip4_block", "ip6_block"}
      [] slot = "network" -> {"ip4_network", "ip6_network"}
      [] slot = "zone"    -> {"dns_zone"}
      [] OTHER            -> {slot}
Awaits(i, j) ==
    /\ Valid(ops[i]) /\ Valid(ops[j])
    /\ \E d \in ops[i].payload.deferred : /\ ops[j].row.id = d.row
                                         /\ ops[j].row.type \in TypesOf(d.slot)

\* The id of a resource that the file creates is known when the row that was
\* built to use it is executed: its creation is in an earlier batch.  The
\* planner leaves four gaps: deletions come before everything that is created;
\* a location may be its own parent; blocks and networks wait for no block where
\* IPv6 is concerned; and a later row with the name of the parent (an update, a
\* deletion) takes the parent's place in the lookup map.
Ip6Pairs == ({"ip6_block", "ip6_network"} \X {"ip4_block", "ip6_block"})
            \cup {<<"ip4_network", "ip6_block">>}
LinkedParentsCreatedFirst ==
    Planned /\ wiring = "planner" =>
      \A i, j \in DOMAIN ops : Awaits(i, j) =>
        \/ Earlier(NodeId(ops[j]), NodeId(ops[i]))
        \/ ops[i].row.action = "delete"
        \/ i = j
        \/ <<ops[i].row.type, ops[j].row.type>> \in Ip6Pairs
        \/ \E k \in DOMAIN ops : /\ k > j
                                 /\ ops[k].row.type = ops[j].row.type
                                 /\ ops[k].row.name = ops[j].row.name

\* An import is given up while it is planned for two reasons only: a link to an
\* address after a host record, or a row that was made to wait for one of a later
\* phase - by the planner only a row that deletes a resource for the row that
\* creates it anew
AbortsForAReason ==
    stage = "aborted" =>
      \/ \E i \in DOMAIN ops : AddressMapLost(ops, i)
      \/ \E i, j \in DOMAIN ops :
           /\ NodeId(ops[j]) \in graph.deps[NodeId(ops[i])]
           /\ PhaseOf(ops[i].row) < PhaseOf(ops[j].row)
           /\ wiring = "planner" => ops[i].row.action = "delete"

\* "Reverse deletion: Children deleted before parents" (samples/README.md): a
\* network is deleted in an earlier batch than the block it is in
ChildrenDeletedFirst ==
    Planned => \A i, j \in DOMAIN ops :
      /\ ops[i].row.action = "delete" /\ ops[i].row.type = "ip4_network"
      /\ ops[j].row.action = "delete" /\ ops[j].row.type = "ip4_block"
      /\ ops[i].row.parent # None /\ PathCidr(ops[i].row.parent) = ops[j].row.name
      => Earlier(NodeId(ops[i]), NodeId(ops[j]))

=============================================================================
