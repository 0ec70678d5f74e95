---------------------------- MODULE PlanningProofs ----------------------------
(***************************************************************************)
(* Proofs about Planning, for every file whose rows have different ids and *)
(* types that are in a phase, every content of BAM, every maximal batch    *)
(* size and both ways of drawing the edges.                                *)
(* First the graph, the phases, the sort and the batches, whatever edges   *)
(* are drawn; then which edges are drawn, for files in which the code of a *)
(* location begins with the code of its parent.                            *)
(***************************************************************************)
EXTENDS Planning, FiniteSetTheorems, SequenceTheorems, WellFoundedInduction, TLAPS

Ids == {NodeId(ops[i]) : i \in DOMAIN ops}

\* A record of the fields of a graph, nodes that differ, edges between nodes.
GraphOK(g) ==
    /\ g = [nodes |-> g.nodes, deps |-> g.deps, ops |-> g.ops]
    /\ g.nodes \in Seq(NodesOf(g))
    /\ \A i, j \in DOMAIN g.nodes : g.nodes[i] = g.nodes[j] => i = j
    /\ g.deps \in [NodesOf(g) -> SUBSET NodesOf(g)]
    /\ g.ops = [n \in NodesOf(g) |-> g.ops[n]]

\* The rows of the file, one operation each.
OpsInv ==
    /\ file \in Files /\ size \in BatchSizes
    /\ IF stage = "create" THEN ops = <<>> /\ graph = EmptyGraph /\ at = 1
       ELSE /\ DOMAIN ops = DOMAIN file
            /\ Len(ops) = Len(file)
            /\ \A i \in DOMAIN ops : ops[i].row = file[i]

\* The first operations have their nodes; there are no nodes but theirs and
\* the barriers up to the last one.
Added(upto) ==
    \A i \in DOMAIN ops : i <= upto => /\ NodeId(ops[i]) \in NodesOf(graph)
                                       /\ graph.ops[NodeId(ops[i])] = ops[i]
NodesInv ==
    /\ GraphOK(graph)
    /\ barrier \in {0} \cup PhaseSteps
    /\ stage \in {"create", "add", "wire"} => barrier = 0
    /\ stage = "phase" => at = barrier + 1
    /\ barrier # 0 => Barrier(barrier) \in NodesOf(graph)
    /\ \A n \in NodesOf(graph) :
         \/ n \in Ids
         \/ \E s \in PhaseSteps : n = Barrier(s) /\ s <= barrier /\ graph.ops[n] = BarrierOp
    /\ stage = "add" => /\ at \in 1..(Len(ops) + 1) /\ Added(at - 1)
                        /\ NodesOf(graph) \subseteq {NodeId(ops[i]) : i \in 1..(at - 1)}
    /\ stage \notin {"create", "add"} => Added(Len(ops))

-----------------------------------------------------------------------------
(***************************************************************************)
(* The file and the phases                                                 *)
(***************************************************************************)
LEMMA PhaseStepsType == Phases = 9 /\ PhaseSteps = 1..18
BY DEF Phases, PhaseOrder, PhaseSteps

LEMMA FileType ==
  ASSUME NEW f \in Files
  PROVE  /\ DOMAIN f = 1..Len(f) /\ Len(f) \in Nat
         /\ \A i, j \in DOMAIN f : f[i].id = f[j].id => i = j
BY FileAssumption, LenProperties

\* The operations of different rows have different nodes, none of them a barrier.
LEMMA IdsDiffer ==
  ASSUME OpsInv, NEW i \in DOMAIN ops
  PROVE  /\ \A j \in DOMAIN ops : NodeId(ops[i]) = NodeId(ops[j]) => i = j
         /\ \A s : NodeId(ops[i]) # Barrier(s)
         /\ ops[i].row.type # "system_barrier"
<1>1. stage # "create"
  BY DEF OpsInv
<1>2. DOMAIN ops = DOMAIN file /\ \A j \in DOMAIN ops : ops[j].row = file[j]
  BY <1>1 DEF OpsInv
<1>3. \A j, k \in DOMAIN file : file[j].id = file[k].id => j = k
  BY FileType DEF OpsInv
<1>4. file[i].type # "system_barrier"
  <2>1. PICK s \in PhaseSteps : file[i].type \in PhaseTypes(s)
    BY <1>2, FileAssumption DEF OpsInv
  <2>2. \A t \in 1..9 : "system_barrier" \notin PhaseOrder[t]
    <3> SUFFICES ASSUME NEW t \in 1..9 PROVE "system_barrier" \notin PhaseOrder[t]
      OBVIOUS
    <3>1. t = 1 \/ t = 2 \/ t = 3 \/ t = 4 \/ t = 5 \/ t = 6 \/ t = 7 \/ t = 8 \/ t = 9
      OBVIOUS
    <3> QED
      BY <3>1 DEF PhaseOrder
  <2>3. s \in 1..18 /\ Phases = 9
    BY PhaseStepsType
  <2>4. \E t \in 1..9 : PhaseTypes(s) = PhaseOrder[t]
    <3>1. CASE s <= 9
      <4>1. 9 + 1 - s \in 1..9 /\ PhaseTypes(s) = PhaseOrder[9 + 1 - s]
        BY <2>3, <3>1 DEF PhaseTypes
      <4> QED
        BY <4>1
    <3>2. CASE ~(s <= 9)
      <4>1. s - 9 \in 1..9 /\ PhaseTypes(s) = PhaseOrder[s - 9]
        BY <2>3, <3>2 DEF PhaseTypes
      <4> QED
        BY <4>1
    <3> QED
      BY <3>1, <3>2
  <2> QED
    BY <2>1, <2>2, <2>4
<1> QED
  BY <1>2, <1>3, <1>4 DEF NodeId, Barrier

-----------------------------------------------------------------------------
(***************************************************************************)
(* Graphs                                                                  *)
(***************************************************************************)
LEMMA GraphType ==
  ASSUME NEW g, GraphOK(g)
  PROVE  /\ DOMAIN g.nodes = 1..Len(g.nodes) /\ Len(g.nodes) \in Nat
         /\ \A n \in NodesOf(g) : g.deps[n] \subseteq NodesOf(g)
BY LenProperties DEF GraphOK

LEMMA EmptyGraphOK == GraphOK(EmptyGraph) /\ NodesOf(EmptyGraph) = {}
<1>1. NodesOf(EmptyGraph) = {}
  BY EmptySeq DEF NodesOf, EmptyGraph
<1> QED
  BY <1>1, EmptySeq DEF GraphOK, EmptyGraph

\* A new node comes last, and depends on nothing.
LEMMA AddOperationOK ==
  ASSUME NEW g, GraphOK(g), NEW node, node \notin NodesOf(g), NEW op,
         NEW h, h = AddOperation(g, node, op)
  PROVE  /\ GraphOK(h)
         /\ NodesOf(h) = NodesOf(g) \cup {node}
         /\ h.deps[node] = {} /\ h.ops[node] = op
         /\ \A n \in NodesOf(g) : h.deps[n] = g.deps[n] /\ h.ops[n] = g.ops[n]
<1> DEFINE N == NodesOf(g) \cup {node}
<1>1. h = [nodes |-> Append(g.nodes, node),
           deps  |-> [n \in N |-> IF n = node THEN {} ELSE g.deps[n]],
           ops   |-> [n \in N |-> IF n = node THEN op ELSE g.ops[n]]]
  BY DEF AddOperation
<1>2. g.nodes \in Seq(N) /\ DOMAIN g.nodes = 1..Len(g.nodes) /\ Len(g.nodes) \in Nat
  BY SeqMonotonic, LenProperties DEF GraphOK
<1>3. /\ h.nodes \in Seq(N) /\ Len(h.nodes) = Len(g.nodes) + 1
      /\ DOMAIN h.nodes = 1..(Len(g.nodes) + 1)
      /\ \A i \in 1..Len(g.nodes) : h.nodes[i] = g.nodes[i]
      /\ h.nodes[Len(g.nodes) + 1] = node
  <2>1. h.nodes = Append(g.nodes, node) /\ node \in N
    BY <1>1
  <2> HIDE DEF N
  <2> QED
    BY <1>2, <2>1, AppendProperties, LenProperties
<1>4. NodesOf(h) = N
  <2>1. NodesOf(h) = {h.nodes[i] : i \in 1..(Len(g.nodes) + 1)}
    BY <1>3 DEF NodesOf
  <2>2. NodesOf(g) = {g.nodes[i] : i \in 1..Len(g.nodes)}
    BY <1>2 DEF NodesOf
  <2>3. 1..(Len(g.nodes) + 1) = 1..Len(g.nodes) \cup {Len(g.nodes) + 1}
    BY <1>2
  <2> QED
    BY <1>3, <2>1, <2>2, <2>3
<1>5. \A i, j \in DOMAIN h.nodes : h.nodes[i] = h.nodes[j] => i = j
  <2>1. \A i \in 1..Len(g.nodes) : h.nodes[i] # node
    BY <1>2, <1>3 DEF NodesOf
  <2>2. \A i, j \in 1..Len(g.nodes) : h.nodes[i] = h.nodes[j] => i = j
    BY <1>2, <1>3 DEF GraphOK
  <2>3. \A i \in DOMAIN h.nodes : i \in 1..Len(g.nodes) \/ i = Len(g.nodes) + 1
    BY <1>2, <1>3
  <2> QED
    BY <1>3, <2>1, <2>2, <2>3
<1>6. /\ h.deps = [n \in N |-> IF n = node THEN {} ELSE g.deps[n]]
      /\ h.ops = [n \in N |-> IF n = node THEN op ELSE g.ops[n]]
      /\ h = [nodes |-> h.nodes, deps |-> h.deps, ops |-> h.ops]
  BY <1>1
<1>7. \A n \in NodesOf(g) : g.deps[n] \in SUBSET NodesOf(g)
  BY DEF GraphOK
<1>8. h.deps \in [N -> SUBSET N]
  BY <1>6, <1>7
<1>9. GraphOK(h)
  BY <1>3, <1>4, <1>5, <1>6, <1>8 DEF GraphOK
<1> QED
  BY <1>4, <1>6, <1>9

\* A new edge between two nodes.
LEMMA WithEdgeOK ==
  ASSUME NEW g, GraphOK(g), NEW a \in NodesOf(g), NEW b \in NodesOf(g)
  PROVE  /\ GraphOK(WithEdge(g, a, b))
         /\ WithEdge(g, a, b).nodes = g.nodes /\ WithEdge(g, a, b).ops = g.ops
         /\ NodesOf(WithEdge(g, a, b)) = NodesOf(g)
<1> DEFINE h == WithEdge(g, a, b)
<1>1. h = [g EXCEPT !.deps[a] = g.deps[a] \cup {b}]
  BY DEF WithEdge
<1>2. h = [nodes |-> g.nodes, deps |-> [g.deps EXCEPT ![a] = g.deps[a] \cup {b}], ops |-> g.ops]
  BY <1>1 DEF GraphOK
<1> HIDE DEF h
<1>3. h.nodes = g.nodes /\ h.ops = g.ops /\ NodesOf(h) = NodesOf(g)
  BY <1>2 DEF NodesOf
<1>4. h.deps \in [NodesOf(g) -> SUBSET NodesOf(g)]
  <2>1. h.deps = [g.deps EXCEPT ![a] = g.deps[a] \cup {b}]
    BY <1>2
  <2>2. g.deps \in [NodesOf(g) -> SUBSET NodesOf(g)]
    BY DEF GraphOK
  <2> QED
    BY <2>1, <2>2
<1>5. h = [nodes |-> h.nodes, deps |-> h.deps, ops |-> h.ops]
  BY <1>2
<1>6. GraphOK(h)
  BY <1>3, <1>4, <1>5 DEF GraphOK
<1> QED
  BY <1>3, <1>6 DEF h

LEMMA WithEdgeDeps ==
  ASSUME NEW g, GraphOK(g), NEW a \in NodesOf(g), NEW b, NEW n \in NodesOf(g)
  PROVE  WithEdge(g, a, b).deps[n] = IF n = a THEN g.deps[n] \cup {b} ELSE g.deps[n]
<1>1. WithEdge(g, a, b).deps = [g.deps EXCEPT ![a] = g.deps[a] \cup {b}]
  BY DEF WithEdge, GraphOK
<1>2. g.deps \in [NodesOf(g) -> SUBSET NodesOf(g)]
  BY DEF GraphOK
<1> QED
  BY <1>1, <1>2

\* A call of add_dependency() adds its edge, or nothing.
LEMMA AddDependencyAdds ==
  ASSUME NEW g, NEW a, NEW b, NEW h, h = AddDependency(g, a, b)
  PROVE  \/ h = g
         \/ /\ a \in NodesOf(g) /\ b \in NodesOf(g) /\ a # b /\ ~HasCycleFrom(h, a)
            /\ h = WithEdge(g, a, b)
BY DEF AddDependency, Raises

LEMMA AddDependencyOK ==
  ASSUME NEW g, GraphOK(g), NEW a, NEW b, NEW h, h = AddDependency(g, a, b)
  PROVE  GraphOK(h) /\ h.nodes = g.nodes /\ NodesOf(h) = NodesOf(g) /\ h.ops = g.ops
<1>1. CASE h = g
  BY <1>1
<1>2. CASE a \in NodesOf(g) /\ b \in NodesOf(g) /\ h = WithEdge(g, a, b)
  BY <1>2, WithEdgeOK
<1> QED
  BY <1>1, <1>2, AddDependencyAdds

\* A turn of the phases: its nodes wait for the barrier before, the new barrier
\* waits for them, nothing else changes.
LEMMA ApplyPhaseOK ==
  ASSUME NEW g, GraphOK(g), NEW s, Barrier(s) \notin NodesOf(g),
         NEW previous, previous = 0 \/ Barrier(previous) \in NodesOf(g),
         NEW h, h = ApplyPhase(g, s, previous)
  PROVE  /\ GraphOK(h)
         /\ NodesOf(h) = NodesOf(g) \cup {Barrier(s)}
         /\ h.ops[Barrier(s)] = BarrierOp /\ h.deps[Barrier(s)] = PhaseNodes(g, s)
         /\ \A n \in NodesOf(g) : h.ops[n] = g.ops[n]
         /\ \A n \in NodesOf(g) : n \notin PhaseNodes(g, s) \/ previous = 0
              => h.deps[n] = g.deps[n]
         /\ \A n \in PhaseNodes(g, s) : previous # 0
              => h.deps[n] = g.deps[n] \cup {Barrier(previous)}
<1> DEFINE nodes == PhaseNodes(g, s)
           k     == WaitForBarrier(g, nodes, previous)
           held  == AddOperation(k, Barrier(s), BarrierOp)
<1>1. nodes \subseteq NodesOf(g)
  BY DEF PhaseNodes
<1>2. /\ GraphOK(k) /\ NodesOf(k) = NodesOf(g) /\ k.ops = g.ops
      /\ \A n \in NodesOf(g) : k.deps[n] = IF previous # 0 /\ n \in nodes
                                           THEN g.deps[n] \cup {Barrier(previous)}
                                           ELSE g.deps[n]
  <2> HIDE DEF nodes
  <2>1. CASE previous = 0
    BY <2>1 DEF WaitForBarrier
  <2>2. CASE previous # 0
    <3> DEFINE d == [n \in NodesOf(g) |-> IF n \in nodes THEN g.deps[n] \cup {Barrier(previous)}
                                          ELSE g.deps[n]]
    <3>1. k = [nodes |-> g.nodes, deps |-> d, ops |-> g.ops]
      <4>1. k = [g EXCEPT !.deps = d]
        BY <2>2 DEF WaitForBarrier
      <4> QED
        BY <4>1 DEF GraphOK
    <3>2. \A n \in NodesOf(g) : g.deps[n] \in SUBSET NodesOf(g)
      BY DEF GraphOK
    <3>3. d \in [NodesOf(g) -> SUBSET NodesOf(g)]
      BY <2>2, <3>2
    <3> HIDE DEF d
    <3>4. NodesOf(k) = NodesOf(g)
      BY <3>1 DEF NodesOf
    <3>5. GraphOK(k)
      BY <3>1, <3>3, <3>4 DEF GraphOK
    <3> QED
      BY <2>2, <3>1, <3>4, <3>5 DEF d
  <2> QED
    BY <2>1, <2>2
<1> HIDE DEF k
<1>3. /\ GraphOK(held) /\ NodesOf(held) = NodesOf(g) \cup {Barrier(s)}
      /\ held.ops[Barrier(s)] = BarrierOp
      /\ \A n \in NodesOf(g) : held.ops[n] = g.ops[n] /\ held.deps[n] = k.deps[n]
  BY <1>2, AddOperationOK
<1> HIDE DEF held
<1>4. h = [held EXCEPT !.deps[Barrier(s)] = nodes]
  BY DEF ApplyPhase, held, k
<1>5. /\ h = [nodes |-> held.nodes, deps |-> [held.deps EXCEPT ![Barrier(s)] = nodes],
              ops |-> held.ops]
      /\ h.deps = [held.deps EXCEPT ![Barrier(s)] = nodes]
      /\ h.ops = held.ops /\ h.nodes = held.nodes
  BY <1>3, <1>4 DEF GraphOK
<1>6. NodesOf(h) = NodesOf(held)
  BY <1>5 DEF NodesOf
<1>7. h.deps \in [NodesOf(held) -> SUBSET NodesOf(held)]
  <2>1. held.deps \in [NodesOf(held) -> SUBSET NodesOf(held)]
    BY <1>3 DEF GraphOK
  <2>2. nodes \in SUBSET NodesOf(held)
    BY <1>1, <1>3
  <2> HIDE DEF nodes
  <2> QED
    BY <1>5, <2>1, <2>2
<1>8. GraphOK(h)
  BY <1>3, <1>5, <1>6, <1>7 DEF GraphOK
<1>9. held.deps \in [NodesOf(held) -> SUBSET NodesOf(held)]
  BY <1>3 DEF GraphOK
<1>10. h.deps[Barrier(s)] = nodes /\ \A n \in NodesOf(g) : h.deps[n] = held.deps[n]
  <2> HIDE DEF nodes
  <2>1. \A n \in NodesOf(g) : n # Barrier(s)
    OBVIOUS
  <2> QED
    BY <1>3, <1>5, <1>9, <2>1
<1> QED
  BY <1>1, <1>2, <1>3, <1>5, <1>6, <1>8, <1>10

-----------------------------------------------------------------------------
(***************************************************************************)
(* The operations and the nodes                                            *)
(***************************************************************************)
Frame == UNCHANGED <<ops, graph, barrier>>

\* The actions that leave the operations, the graph and the barriers alone, and
\* where they go from.
LEMMA FrameSteps ==
  ASSUME Next
  PROVE  \/ CreateOperations \/ AddNode \/ AddEdge \/ AddBarrier
         \/ /\ Frame /\ UNCHANGED given
            /\ stage \notin {"create", "add", "planned", "aborted"}
            /\ stage' \notin {"create", "add"}
            /\ stage' = "wire" => stage = "wire"
            /\ stage' = "phase" => stage = "wire" /\ at' = 1
BY DEF Next, Frame, drawn, WireOperation, Wiring, DetectForOperation, StartPhasing,
       StartSort, QueueRoots, SortNode, FinishSort, CutBatch, FinishPlan

LEMMA OpsInvInit == Init => OpsInv
BY DEF Init, OpsInv

LEMMA OpsInvStep ==
  ASSUME OpsInv, [Next]_vars
  PROVE  OpsInv'
<1>1. CASE CreateOperations
  <2>1. PICK c : ops' = [i \in DOMAIN file |-> CreateFromRow(c, file[i])]
    BY <1>1 DEF CreateOperations
  <2>2. file' = file /\ size' = size /\ stage' = "add" /\ file \in Files
    BY <1>1 DEF CreateOperations, given, OpsInv
  <2>3. DOMAIN file = 1..Len(file) /\ Len(file) \in Nat
    BY <2>2, FileType
  <2>4. DOMAIN ops' = DOMAIN file /\ Len(ops') = Len(file)
    BY <2>1, <2>3
  <2>5. \A i \in DOMAIN ops' : ops'[i].row = file[i]
    BY <2>1 DEF CreateFromRow
  <2> QED
    BY <2>2, <2>4, <2>5 DEF OpsInv
<1>2. CASE AddNode \/ AddEdge \/ AddBarrier
  BY <1>2 DEF OpsInv, AddNode, AddEdge, AddBarrier, given, drawn
<1>3. CASE Frame /\ UNCHANGED given /\ stage # "create" /\ stage' # "create"
  BY <1>3 DEF OpsInv, Frame, given
<1>4. CASE UNCHANGED vars
  BY <1>4 DEF OpsInv, vars, given, drawn
<1> QED
  BY <1>1, <1>2, <1>3, <1>4, FrameSteps

LEMMA OpsType ==
  ASSUME OpsInv
  PROVE  /\ DOMAIN ops = 1..Len(ops) /\ Len(ops) \in Nat
<1>1. CASE stage = "create"
  BY <1>1, EmptySeq DEF OpsInv
<1>2. CASE stage # "create"
  BY <1>2, FileType DEF OpsInv
<1> QED
  BY <1>1, <1>2

LEMMA NodesInvInit == Init => NodesInv
<1> SUFFICES ASSUME Init PROVE NodesInv
  OBVIOUS
<1>1. graph = EmptyGraph /\ stage = "create" /\ barrier = 0
  BY DEF Init
<1> QED
  BY <1>1, EmptyGraphOK DEF NodesInv

\* The nodes of a phase are those of its operations.
Members(s) == {NodeId(ops[i]) : i \in {j \in DOMAIN ops : /\ ops[j].row.type \in PhaseTypes(s)
                                                         /\ ops[j].row.action \in PhaseActions(s)}}

LEMMA PhaseNodesAreMembers ==
  ASSUME OpsInv, NodesInv, stage \notin {"create", "add"}, NEW s \in PhaseSteps
  PROVE  PhaseNodes(graph, s) = Members(s)
<1>1. \A i \in DOMAIN ops : /\ NodeId(ops[i]) \in NodesOf(graph)
                           /\ graph.ops[NodeId(ops[i])] = ops[i]
  BY OpsType DEF NodesInv, Added
<1>2. \A n \in NodesOf(graph) : n \in Ids \/ graph.ops[n] = BarrierOp
  BY DEF NodesInv
<1>3. BarrierOp.row.action \notin PhaseActions(s)
  BY DEF BarrierOp, PhaseActions
<1> QED
  BY <1>1, <1>2, <1>3 DEF PhaseNodes, Members, Ids

\* The barrier of a later phase is not a node yet.
LEMMA NewBarrier ==
  ASSUME OpsInv, NodesInv, NEW s \in PhaseSteps, s > barrier
  PROVE  Barrier(s) \notin NodesOf(graph)
<1>1. \A t \in PhaseSteps : Barrier(t) = Barrier(s) => t = s
  BY DEF Barrier
<1>2. Barrier(s) \notin Ids
  BY IdsDiffer DEF Ids
<1>3. barrier \in Nat /\ s \in Nat
  BY PhaseStepsType DEF NodesInv
<1> QED
  BY <1>1, <1>2, <1>3 DEF NodesInv

LEMMA AddNodeStep ==
  ASSUME OpsInv, OpsInv', NodesInv, AddNode
  PROVE  NodesInv'
<1>1. /\ stage = "add" /\ at \in 1..(Len(ops) + 1) /\ Added(at - 1) /\ barrier = 0
      /\ NodesOf(graph) \subseteq {NodeId(ops[i]) : i \in 1..(at - 1)}
      /\ GraphOK(graph)
  BY DEF AddNode, NodesInv
<1>2. ops' = ops /\ barrier' = barrier
  BY DEF AddNode, drawn
<1>3. DOMAIN ops = 1..Len(ops) /\ Len(ops) \in Nat
  BY OpsType
<1>4. CASE at <= Len(ops)
  <2> DEFINE node == NodeId(ops[at])
  <2>1. at \in DOMAIN ops /\ graph' = AddOperation(graph, node, ops[at])
        /\ at' = at + 1 /\ stage' = stage
    BY <1>1, <1>3, <1>4 DEF AddNode
  <2>2. node \notin NodesOf(graph)
    <3>1. \A i \in DOMAIN ops : NodeId(ops[i]) = node => i = at
      BY <2>1, IdsDiffer
    <3>2. \A i \in 1..(at - 1) : i \in DOMAIN ops /\ i # at
      BY <1>1, <1>3
    <3> HIDE DEF node
    <3> QED
      BY <1>1, <3>1, <3>2
  <2>3. /\ GraphOK(graph') /\ NodesOf(graph') = NodesOf(graph) \cup {node}
        /\ graph'.ops[node] = ops[at]
        /\ \A n \in NodesOf(graph) : graph'.ops[n] = graph.ops[n]
    <3> HIDE DEF node
    <3> QED
      BY <1>1, <2>1, <2>2, AddOperationOK
  <2>4. Added(at - 1)'
    <3> SUFFICES ASSUME NEW i \in DOMAIN ops, i <= at
                 PROVE  NodeId(ops[i]) \in NodesOf(graph') /\ graph'.ops[NodeId(ops[i])] = ops[i]
      <4>1. at' - 1 = at
        BY <1>1, <2>1
      <4> HIDE DEF node
      <4> QED
        BY <1>2, <4>1 DEF Added
    <3>1. CASE i = at
      BY <2>3, <3>1
    <3>2. CASE i # at
      <4>1. i <= at - 1
        BY <1>1, <1>3, <3>2
      <4>2. NodeId(ops[i]) \in NodesOf(graph) /\ graph.ops[NodeId(ops[i])] = ops[i]
        BY <1>1, <4>1 DEF Added
      <4> HIDE DEF node
      <4> QED
        BY <2>3, <4>2
    <3> QED
      BY <3>1, <3>2
  <2>5. NodesOf(graph') \subseteq {NodeId(ops[i]) : i \in 1..at}
    <3>1. node \in {NodeId(ops[i]) : i \in 1..at}
      BY <1>1
    <3>2. 1..(at - 1) \subseteq 1..at
      BY <1>1
    <3> HIDE DEF node
    <3> QED
      BY <1>1, <2>3, <3>1, <3>2
  <2>6. \A n \in NodesOf(graph') : n \in Ids'
    <3>1. \A i \in 1..at : i \in DOMAIN ops
      BY <1>1, <1>3, <1>4
    <3> QED
      BY <1>2, <2>5, <3>1 DEF Ids
  <2>7. at' \in 1..(Len(ops') + 1) /\ at' - 1 = at
    BY <1>1, <1>2, <1>3, <1>4, <2>1
  <2> QED
    BY <1>1, <1>2, <2>1, <2>3, <2>4, <2>5, <2>6, <2>7 DEF NodesInv
<1>5. CASE ~(at <= Len(ops))
  <2>1. stage' = "wire" /\ graph' = graph
    BY <1>5 DEF AddNode
  <2>2. Added(Len(ops)) /\ at - 1 = Len(ops)
    BY <1>1, <1>3, <1>5 DEF Added
  <2> QED
    BY <1>1, <1>2, <2>1, <2>2 DEF NodesInv, Added, Ids
<1> QED
  BY <1>4, <1>5

LEMMA AddBarrierStep ==
  ASSUME OpsInv, NodesInv, AddBarrier
  PROVE  NodesInv'
<1>1. stage = "phase" /\ ops' = ops /\ GraphOK(graph) /\ at = barrier + 1
  BY DEF AddBarrier, NodesInv
<1>2. PICK s \in PhasesLeft :
        IF PhaseRaises(graph, s, barrier)
        THEN stage' = "aborted" /\ UNCHANGED <<at, graph, barrier>>
        ELSE /\ graph' = ApplyPhase(graph, s, barrier)
             /\ barrier' = s
             /\ at' = s + 1
             /\ UNCHANGED stage
  BY DEF AddBarrier
<1>3. s \in PhaseSteps /\ s > barrier /\ s \in Nat /\ barrier \in Nat /\ s # 0
  BY <1>1, PhaseStepsType DEF PhasesLeft, NodesInv
<1>4. CASE PhaseRaises(graph, s, barrier)
  BY <1>1, <1>2, <1>4 DEF NodesInv, Added, Ids
<1>5. CASE ~PhaseRaises(graph, s, barrier)
  <2>1. graph' = ApplyPhase(graph, s, barrier) /\ barrier' = s /\ at' = s + 1 /\ stage' = stage
    BY <1>2, <1>5
  <2>2. Barrier(s) \notin NodesOf(graph) /\ (barrier = 0 \/ Barrier(barrier) \in NodesOf(graph))
    BY <1>3, NewBarrier DEF NodesInv
  <2>3. /\ GraphOK(graph') /\ NodesOf(graph') = NodesOf(graph) \cup {Barrier(s)}
        /\ graph'.ops[Barrier(s)] = BarrierOp
        /\ \A n \in NodesOf(graph) : graph'.ops[n] = graph.ops[n]
    BY <1>1, <2>1, <2>2, ApplyPhaseOK
  <2>4. \A n \in NodesOf(graph') :
          \/ n \in Ids
          \/ \E t \in PhaseSteps : n = Barrier(t) /\ t <= s /\ graph'.ops[n] = BarrierOp
    <3>1. ASSUME NEW n \in NodesOf(graph), n \notin Ids
          PROVE  \E t \in PhaseSteps : n = Barrier(t) /\ t <= s /\ graph'.ops[n] = BarrierOp
      <4>1. PICK t \in PhaseSteps : n = Barrier(t) /\ t <= barrier /\ graph.ops[n] = BarrierOp
        BY <3>1 DEF NodesInv
      <4>2. t <= s
        BY <1>3, <4>1, PhaseStepsType
      <4> QED
        BY <2>3, <4>1, <4>2
    <3> QED
      BY <1>3, <2>3, <3>1
  <2>5. Added(Len(ops))'
    BY <1>1, <2>3 DEF NodesInv, Added
  <2> QED
    BY <1>1, <1>3, <2>1, <2>3, <2>4, <2>5 DEF NodesInv, Ids
<1> QED
  BY <1>4, <1>5

LEMMA NodesInvStep ==
  ASSUME OpsInv, OpsInv', NodesInv, [Next]_vars
  PROVE  NodesInv'
<1>1. CASE CreateOperations
  <2>1. stage = "create" /\ stage' = "add" /\ at' = at /\ graph' = graph /\ barrier' = barrier
    BY <1>1 DEF CreateOperations
  <2>2. graph' = EmptyGraph /\ at' = 1 /\ barrier' = 0
    BY <2>1 DEF OpsInv, NodesInv
  <2>3. DOMAIN ops' = 1..Len(ops') /\ Len(ops') \in Nat
    <3>1. DOMAIN ops' = DOMAIN file' /\ Len(ops') = Len(file') /\ file' \in Files
      BY <2>1 DEF OpsInv
    <3> QED
      BY <3>1, FileType
  <2>4. Added(at - 1)'
    BY <2>2, <2>3 DEF Added
  <2> QED
    BY <2>1, <2>2, <2>3, <2>4, EmptyGraphOK DEF NodesInv
<1>2. CASE AddNode
  BY <1>2, AddNodeStep
<1>3. CASE AddEdge
  <2>1. PICK a, b : graph' = AddDependency(graph, a, b)
    BY <1>3 DEF AddEdge
  <2>2. stage = "wire" /\ stage' \in {"wire", "aborted"} /\ ops' = ops /\ barrier' = barrier
    BY <1>3 DEF AddEdge
  <2>3. GraphOK(graph') /\ NodesOf(graph') = NodesOf(graph) /\ graph'.ops = graph.ops
    <3>1. GraphOK(graph)
      BY DEF NodesInv
    <3> QED
      BY <2>1, <3>1, AddDependencyOK
  <2> QED
    BY <2>2, <2>3 DEF NodesInv, Added, Ids
<1>4. CASE AddBarrier
  BY <1>4, AddBarrierStep
<1>5. CASE /\ Frame /\ stage \notin {"create", "add", "planned", "aborted"}
           /\ stage' \notin {"create", "add"} /\ (stage' = "wire" => stage = "wire")
           /\ (stage' = "phase" => stage = "wire" /\ at' = 1)
  BY <1>5 DEF NodesInv, Frame, Added, Ids
<1>6. CASE UNCHANGED vars
  BY <1>6 DEF NodesInv, vars, drawn, Added, Ids
<1> QED
  BY <1>1, <1>2, <1>3, <1>4, <1>5, <1>6, FrameSteps

-----------------------------------------------------------------------------
(***************************************************************************)
(* The graph has no cycle                                                  *)
(***************************************************************************)
\* Nodes each of which depends on one of them: from any of them a way along the
\* dependencies goes on for ever.
Endless(g, S) == \A n \in S : g.deps[n] \cap S # {}
Acyclic(g) == \A S \in SUBSET NodesOf(g) : Endless(g, S) => S = {}

\* An endless set none of whose nodes got a new dependency was endless before.
LEMMA EndlessBefore ==
  ASSUME NEW g, NEW h, NEW S \in SUBSET NodesOf(g), \A n \in S : h.deps[n] = g.deps[n],
         Acyclic(g), Endless(h, S)
  PROVE  S = {}
BY DEF Acyclic, Endless

\* add_dependency() looks for a cycle from the dependent only: that is enough.
LEMMA AddDependencyAcyclic ==
  ASSUME NEW g, GraphOK(g), Acyclic(g), NEW a, NEW b, NEW h, h = AddDependency(g, a, b)
  PROVE  Acyclic(h)
<1>1. CASE h = g
  BY <1>1
<1>2. CASE /\ a \in NodesOf(g) /\ b \in NodesOf(g) /\ ~HasCycleFrom(h, a)
           /\ h = WithEdge(g, a, b)
  <2>1. /\ NodesOf(h) = NodesOf(g)
        /\ \A n \in NodesOf(g) : n # a => h.deps[n] = g.deps[n]
    <3>1. NodesOf(h) = NodesOf(g)
      BY AddDependencyOK
    <3>2. ASSUME NEW n \in NodesOf(g), n # a PROVE h.deps[n] = g.deps[n]
      <4>1. WithEdge(g, a, b).deps = [g.deps EXCEPT ![a] = g.deps[a] \cup {b}]
        BY DEF WithEdge, GraphOK
      <4>2. g.deps \in [NodesOf(g) -> SUBSET NodesOf(g)]
        BY DEF GraphOK
      <4> QED
        BY <1>2, <3>2, <4>1, <4>2
    <3> QED
      BY <3>1, <3>2
  <2> SUFFICES ASSUME NEW S \in SUBSET NodesOf(g), Endless(h, S) PROVE S = {}
    BY <2>1 DEF Acyclic
  <2>2. a \notin S
    BY <1>2, <2>1 DEF HasCycleFrom, Endless
  <2>3. \A n \in S : h.deps[n] = g.deps[n]
    BY <2>1, <2>2
  <2> QED
    BY <2>3, EndlessBefore
<1> QED
  BY <1>1, <1>2, AddDependencyAdds

LEMMA AddOperationAcyclic ==
  ASSUME NEW g, GraphOK(g), Acyclic(g), NEW node, NEW op, NEW h, h = AddOperation(g, node, op)
  PROVE  Acyclic(h)
<1>1. CASE node \in NodesOf(g)
  BY <1>1 DEF AddOperation
<1>2. CASE node \notin NodesOf(g)
  <2>1. /\ NodesOf(h) = NodesOf(g) \cup {node} /\ h.deps[node] = {}
        /\ \A n \in NodesOf(g) : h.deps[n] = g.deps[n]
    BY <1>2, AddOperationOK
  <2> SUFFICES ASSUME NEW S \in SUBSET NodesOf(h), Endless(h, S) PROVE S = {}
    BY DEF Acyclic
  <2>2. node \notin S
    BY <2>1 DEF Endless
  <2>3. S \in SUBSET NodesOf(g) /\ \A n \in S : h.deps[n] = g.deps[n]
    BY <2>1, <2>2
  <2> QED
    BY <2>3, EndlessBefore
<1> QED
  BY <1>1, <1>2

\* A turn of the phases looks for cycles from the nodes it adds edges to.
LEMMA ApplyPhaseAcyclic ==
  ASSUME NEW g, GraphOK(g), Acyclic(g), NEW s, Barrier(s) \notin NodesOf(g),
         NEW previous, previous = 0 \/ Barrier(previous) \in NodesOf(g),
         ~PhaseRaises(g, s, previous)
  PROVE  Acyclic(ApplyPhase(g, s, previous))
<1> DEFINE h == ApplyPhase(g, s, previous)
<1> HIDE DEF h
<1>1. h = ApplyPhase(g, s, previous)
  BY DEF h
<1>2. /\ NodesOf(h) = NodesOf(g) \cup {Barrier(s)}
      /\ \A n \in NodesOf(g) : n \notin PhaseNodes(g, s) => h.deps[n] = g.deps[n]
  BY <1>1, ApplyPhaseOK
<1>3. ASSUME NEW S \in SUBSET NodesOf(h), Endless(h, S) PROVE S = {}
  <2>1. \A n \in S : n # Barrier(s) /\ n \notin PhaseNodes(g, s)
    BY <1>1, <1>3 DEF PhaseRaises, HasCycleFrom, Endless
  <2>2. S \in SUBSET NodesOf(g) /\ \A n \in S : h.deps[n] = g.deps[n]
    BY <1>2, <2>1
  <2> QED
    BY <1>3, <2>2, EndlessBefore
<1> QED
  BY <1>3 DEF Acyclic, h

AcyclicInv == Acyclic(graph)

LEMMA AcyclicInit == Init => AcyclicInv
BY EmptyGraphOK DEF Init, AcyclicInv, Acyclic

LEMMA AcyclicStep ==
  ASSUME OpsInv, NodesInv, AcyclicInv, [Next]_vars
  PROVE  AcyclicInv'
<1>0. GraphOK(graph) /\ Acyclic(graph)
  BY DEF NodesInv, AcyclicInv
<1>1. CASE CreateOperations
  BY <1>0, <1>1 DEF CreateOperations, AcyclicInv
<1>2. CASE AddNode
  <2>1. graph' = graph \/ \E node, op : graph' = AddOperation(graph, node, op)
    BY <1>2 DEF AddNode
  <2> QED
    BY <1>0, <2>1, AddOperationAcyclic DEF AcyclicInv
<1>3. CASE AddEdge
  <2>1. \E a, b : graph' = AddDependency(graph, a, b)
    BY <1>3 DEF AddEdge
  <2> QED
    BY <1>0, <2>1, AddDependencyAcyclic DEF AcyclicInv
<1>4. CASE AddBarrier
  <2>1. PICK s \in PhasesLeft : \/ graph' = graph
                                \/ /\ ~PhaseRaises(graph, s, barrier)
                                   /\ graph' = ApplyPhase(graph, s, barrier)
    BY <1>4 DEF AddBarrier
  <2>2. s \in PhaseSteps /\ s > barrier
    BY <1>4, PhaseStepsType DEF PhasesLeft, NodesInv, AddBarrier
  <2>3. Barrier(s) \notin NodesOf(graph) /\ (barrier = 0 \/ Barrier(barrier) \in NodesOf(graph))
    BY <2>2, NewBarrier DEF NodesInv
  <2> QED
    BY <1>0, <2>1, <2>3, ApplyPhaseAcyclic DEF AcyclicInv
<1>5. CASE Frame \/ UNCHANGED vars
  BY <1>0, <1>5 DEF Frame, AcyclicInv, vars
<1> QED
  BY <1>1, <1>2, <1>3, <1>4, <1>5, FrameSteps

-----------------------------------------------------------------------------
(***************************************************************************)
(* Barriers between the phases                                             *)
(***************************************************************************)
\* A barrier depends on the operations of its phase; each operation of a later
\* phase depends on a barrier in between; no phase that has operations is left
\* out.
Held == \A u \in PhaseSteps : Barrier(u) \in NodesOf(graph) => graph.deps[Barrier(u)] = Members(u)
Linked ==
    \A s, t \in PhaseSteps : s < t /\ t <= barrier /\ Members(s) # {} =>
      \A m \in Members(t) :
        \E u \in PhaseSteps : /\ s <= u /\ u < t /\ Members(u) # {}
                              /\ Barrier(u) \in graph.deps[m]
PhaseInv ==
    /\ Held /\ Linked
    /\ \A s \in PhaseSteps : s <= barrier /\ Members(s) # {} => Barrier(s) \in NodesOf(graph)
    /\ barrier # 0 => Members(barrier) # {}
    /\ stage \in {"roots", "sort", "cut", "planned"} =>
         \A s \in PhaseSteps : s > barrier => Members(s) = {}

\* Before the first barrier there is nothing to show.
NoPhase == stage \in {"create", "add", "wire", "aborted"} /\ barrier = 0

LEMMA NoBarrier == OpsInv /\ NodesInv /\ NoPhase => PhaseInv
<1> SUFFICES ASSUME OpsInv, NodesInv, NoPhase PROVE PhaseInv
  OBVIOUS
<1> USE DEF NoPhase
<1>1. \A u \in PhaseSteps : Barrier(u) \notin NodesOf(graph)
  BY NewBarrier, PhaseStepsType
<1>2. \A s \in PhaseSteps : ~(s <= barrier)
  BY PhaseStepsType
<1> QED
  BY <1>1, <1>2 DEF PhaseInv, Held, Linked

LEMMA PhaseInvBarrier ==
  ASSUME OpsInv, NodesInv, PhaseInv, AddBarrier
  PROVE  PhaseInv'
<1>1. /\ stage = "phase" /\ ops' = ops /\ GraphOK(graph) /\ at = barrier + 1
      /\ stage' \in {"phase", "aborted"}
  BY DEF AddBarrier, NodesInv
<1>2. PICK s \in PhasesLeft :
        /\ \A t \in PhasesLeft : s <= t
        /\ IF PhaseRaises(graph, s, barrier)
           THEN stage' = "aborted" /\ UNCHANGED <<at, graph, barrier>>
           ELSE /\ graph' = ApplyPhase(graph, s, barrier)
                /\ barrier' = s
                /\ at' = s + 1
                /\ UNCHANGED stage
  BY DEF AddBarrier
<1>3. s \in PhaseSteps /\ s > barrier /\ s \in Nat /\ barrier \in Nat /\ s # 0
  BY <1>1, PhaseStepsType DEF PhasesLeft, NodesInv
<1>4. PhaseNodes(graph, s) = Members(s) /\ Members(s) # {}
  BY <1>1, <1>2, <1>3, PhaseNodesAreMembers DEF PhasesLeft
<1>5. \A t : Members(t)' = Members(t)
  BY <1>1 DEF Members
<1>6. CASE PhaseRaises(graph, s, barrier)
  BY <1>1, <1>2, <1>5, <1>6 DEF PhaseInv, Held, Linked
<1>7. CASE ~PhaseRaises(graph, s, barrier)
  <2>1. graph' = ApplyPhase(graph, s, barrier) /\ barrier' = s /\ stage' = "phase"
    BY <1>1, <1>2, <1>7
  <2>2. Barrier(s) \notin NodesOf(graph) /\ (barrier = 0 \/ Barrier(barrier) \in NodesOf(graph))
    BY <1>3, NewBarrier DEF NodesInv
  <2>3. /\ NodesOf(graph') = NodesOf(graph) \cup {Barrier(s)}
        /\ graph'.deps[Barrier(s)] = Members(s)
        /\ \A n \in NodesOf(graph) : n \notin Members(s) \/ barrier = 0
             => graph'.deps[n] = graph.deps[n]
        /\ \A n \in Members(s) : barrier # 0
             => graph'.deps[n] = graph.deps[n] \cup {Barrier(barrier)}
    BY <1>1, <1>4, <2>1, <2>2, ApplyPhaseOK
  <2>4. Members(s) \subseteq NodesOf(graph) /\ \A t : Members(t) \subseteq Ids
    BY <1>4 DEF PhaseNodes, Members, Ids
  <2>5. ASSUME NEW t \in PhaseSteps, t <= s, Members(t) # {} PROVE t = s \/ t <= barrier
    <3>1. t \in PhasesLeft \/ t < at
      BY <1>1, <2>5, PhaseStepsType, PhaseNodesAreMembers, <1>3 DEF PhasesLeft
    <3> QED
      BY <1>1, <1>2, <1>3, <2>5, <3>1, PhaseStepsType
  <2>6. Held'
    <3> SUFFICES ASSUME NEW u \in PhaseSteps, Barrier(u) \in NodesOf(graph')
                 PROVE  graph'.deps[Barrier(u)] = Members(u)
      BY <1>5 DEF Held
    <3>1. CASE Barrier(u) = Barrier(s)
      <4>1. u = s
        BY <3>1 DEF Barrier
      <4> QED
        BY <2>3, <4>1
    <3>2. CASE Barrier(u) # Barrier(s)
      <4>1. Barrier(u) \in NodesOf(graph) /\ graph.deps[Barrier(u)] = Members(u)
        BY <2>3, <3>2 DEF PhaseInv, Held
      <4>2. Barrier(u) \notin Members(s)
        BY <2>4, IdsDiffer DEF Ids
      <4> QED
        BY <2>3, <4>1, <4>2
    <3> QED
      BY <3>1, <3>2
  <2>7. Linked'
    <3> SUFFICES ASSUME NEW r \in PhaseSteps, NEW t \in PhaseSteps, r < t, t <= s,
                        Members(r) # {}, NEW m \in Members(t)
                 PROVE  \E u \in PhaseSteps : /\ r <= u /\ u < t /\ Members(u) # {}
                                              /\ Barrier(u) \in graph'.deps[m]
      BY <1>5, <2>1 DEF Linked
    <3>1. m \in NodesOf(graph)
      <4>1. \A k \in DOMAIN ops : NodeId(ops[k]) \in NodesOf(graph)
        BY <1>1, OpsType DEF NodesInv, Added
      <4> QED
        BY <2>4, <4>1 DEF Ids
    <3>2. CASE t = s
      <4>1. r <= barrier /\ barrier \in PhaseSteps /\ barrier # 0
        BY <1>3, <2>5, <3>2, PhaseStepsType DEF NodesInv
      <4>2. Barrier(barrier) \in graph'.deps[m] /\ Members(barrier) # {}
        BY <2>3, <3>1, <3>2, <4>1 DEF PhaseInv
      <4> QED
        BY <1>3, <3>2, <4>1, <4>2
    <3>3. CASE t # s
      <4>1. t <= barrier
        BY <2>5, <3>3
      <4>2. \E u \in PhaseSteps : /\ r <= u /\ u < t /\ Members(u) # {}
                                  /\ Barrier(u) \in graph.deps[m]
        BY <4>1 DEF PhaseInv, Linked
      <4> QED
        BY <2>3, <3>1, <4>2
    <3> QED
      BY <3>2, <3>3
  <2>8. \A t \in PhaseSteps : t <= s /\ Members(t) # {} => Barrier(t) \in NodesOf(graph')
    BY <2>3, <2>5 DEF PhaseInv
  <2> QED
    BY <1>4, <1>5, <2>1, <2>6, <2>7, <2>8 DEF PhaseInv
<1> QED
  BY <1>6, <1>7

LEMMA PhaseInvStep ==
  ASSUME OpsInv, OpsInv', NodesInv, NodesInv', PhaseInv, [Next]_vars
  PROVE  PhaseInv'
<1>1. CASE CreateOperations \/ AddNode \/ AddEdge
  <2>1. NoPhase'
    BY <1>1 DEF CreateOperations, AddNode, AddEdge, NodesInv, drawn, NoPhase
  <2> QED
    BY <2>1, NoBarrier, PTL
<1>2. CASE AddBarrier
  BY <1>2, PhaseInvBarrier
<1>3. CASE Frame /\ (stage' \notin {"roots", "sort", "cut", "planned"}
                       \/ stage \in {"roots", "sort", "cut", "planned"})
  BY <1>3 DEF PhaseInv, Held, Linked, Members, Frame
<1>4. CASE StartSort
  <2>1. /\ stage = "phase" /\ PhasesLeft = {} /\ UNCHANGED <<ops, graph, barrier>>
        /\ at = barrier + 1
    BY <1>4 DEF StartSort, drawn, NodesInv
  <2>2. \A s \in PhaseSteps : s > barrier => Members(s) = {}
    <3> SUFFICES ASSUME NEW s \in PhaseSteps, s > barrier PROVE Members(s) = {}
      OBVIOUS
    <3>1. barrier \in {0} \cup PhaseSteps
      BY DEF NodesInv
    <3>2. barrier \in Nat /\ s \in Nat
      BY <3>1, PhaseStepsType
    <3>3. s >= at
      BY <2>1, <3>2
    <3>4. s \notin PhasesLeft
      BY <2>1
    <3>5. PhaseNodes(graph, s) = {}
      BY <3>3, <3>4 DEF PhasesLeft
    <3>6. stage \notin {"create", "add"}
      BY <2>1
    <3>7. PhaseNodes(graph, s) = Members(s)
      BY <3>6, PhaseNodesAreMembers
    <3> QED
      BY <3>5, <3>7
  <2> QED
    BY <2>1, <2>2 DEF PhaseInv, Held, Linked, Members
<1>5. CASE UNCHANGED vars
  BY <1>5 DEF PhaseInv, Held, Linked, Members, vars, drawn
<1>6. Next => \/ CreateOperations \/ AddNode \/ AddEdge \/ AddBarrier \/ StartSort
              \/ Frame /\ (stage' \notin {"roots", "sort", "cut", "planned"}
                             \/ stage \in {"roots", "sort", "cut", "planned"})
  BY DEF Next, Frame, drawn, WireOperation, Wiring, DetectForOperation, StartPhasing,
         StartSort, QueueRoots, SortNode, FinishSort, CutBatch, FinishPlan
<1> QED
  BY <1>1, <1>2, <1>3, <1>4, <1>5, <1>6

-----------------------------------------------------------------------------
(***************************************************************************)
(* Sequences without repetitions                                           *)
(***************************************************************************)
Distinct(s) == \A i, j \in DOMAIN s : s[i] = s[j] => i = j

LEMMA EmptyDistinct == Distinct(<<>>) /\ ToSet(<<>>) = {}
BY EmptySeq DEF Distinct, ToSet

LEMMA HeadTail ==
  ASSUME NEW S, NEW s \in Seq(S), s # <<>>
  PROVE  /\ Head(s) \in S /\ Tail(s) \in Seq(S)
         /\ ToSet(s) = {Head(s)} \cup ToSet(Tail(s))
         /\ Distinct(s) => Distinct(Tail(s)) /\ Head(s) \notin ToSet(Tail(s))
<1>1. /\ Len(s) \in Nat /\ Len(s) >= 1 /\ DOMAIN s = 1..Len(s) /\ Head(s) = s[1]
      /\ Tail(s) \in Seq(S) /\ Len(Tail(s)) = Len(s) - 1
      /\ DOMAIN Tail(s) = 1..(Len(s) - 1)
      /\ \A i \in 1..(Len(s) - 1) : Tail(s)[i] = s[i + 1]
  BY EmptySeq, LenProperties, HeadTailProperties
<1>2. ToSet(s) = {Head(s)} \cup ToSet(Tail(s))
  <2>1. \A i \in DOMAIN s : i = 1 \/ (i - 1 \in DOMAIN Tail(s) /\ s[i] = Tail(s)[i - 1])
    BY <1>1
  <2>2. \A i \in DOMAIN Tail(s) : i + 1 \in DOMAIN s
    BY <1>1
  <2>3. Head(s) \in ToSet(s)
    <3>1. 1 \in DOMAIN s
      BY <1>1
    <3> QED
      BY <1>1, <3>1 DEF ToSet
  <2>4. \A e \in ToSet(Tail(s)) : e \in ToSet(s)
    <3> DEFINE t == Tail(s)
    <3>1. \A i \in DOMAIN t : t[i] = s[i + 1] /\ i + 1 \in DOMAIN s
      BY <1>1, <2>2
    <3> HIDE DEF t
    <3>2. ASSUME NEW e \in ToSet(t) PROVE e \in ToSet(s)
      <4>1. PICK i \in DOMAIN t : e = t[i]
        BY DEF ToSet
      <4>2. PICK k \in DOMAIN s : k = i + 1
        BY <3>1
      <4> QED
        BY <3>1, <4>1, <4>2 DEF ToSet
    <3> QED
      BY <3>2 DEF t
  <2>5. ASSUME NEW e \in ToSet(s) PROVE e = Head(s) \/ e \in ToSet(Tail(s))
    <3>1. PICK i \in DOMAIN s : e = s[i]
      BY DEF ToSet
    <3>2. CASE i = 1
      BY <1>1, <3>1, <3>2
    <3>3. CASE i # 1
      <4>1. PICK k \in DOMAIN Tail(s) : e = Tail(s)[k]
        BY <2>1, <3>1, <3>3
      <4> QED
        BY <4>1 DEF ToSet
    <3> QED
      BY <3>2, <3>3
  <2> QED
    BY <2>3, <2>4, <2>5
<1>3. ASSUME Distinct(s) PROVE Distinct(Tail(s)) /\ Head(s) \notin ToSet(Tail(s))
  BY <1>1, <1>3 DEF Distinct, ToSet
<1>4. Head(s) \in S
  BY <1>1
<1> QED
  BY <1>1, <1>2, <1>3, <1>4

LEMMA ConcatSet ==
  ASSUME NEW S, NEW s \in Seq(S), NEW t \in Seq(S)
  PROVE  /\ s \o t \in Seq(S)
         /\ ToSet(s \o t) = ToSet(s) \cup ToSet(t)
         /\ Distinct(s) /\ Distinct(t) /\ ToSet(s) \cap ToSet(t) = {} => Distinct(s \o t)
<1> DEFINE u == s \o t
<1>1. /\ Len(s) \in Nat /\ Len(t) \in Nat /\ DOMAIN s = 1..Len(s) /\ DOMAIN t = 1..Len(t)
      /\ u \in Seq(S) /\ DOMAIN u = 1..(Len(s) + Len(t))
      /\ \A i \in 1..(Len(s) + Len(t)) : u[i] = IF i <= Len(s) THEN s[i] ELSE t[i - Len(s)]
  BY LenProperties, ConcatProperties
<1> HIDE DEF u
<1>2. \A i \in DOMAIN u : \/ (i \in DOMAIN s /\ u[i] = s[i])
                         \/ (i - Len(s) \in DOMAIN t /\ u[i] = t[i - Len(s)])
  BY <1>1
<1>3. /\ \A i \in DOMAIN s : i \in DOMAIN u /\ u[i] = s[i]
      /\ \A i \in DOMAIN t : i + Len(s) \in DOMAIN u /\ u[i + Len(s)] = t[i]
  BY <1>1
<1>4. ToSet(u) = ToSet(s) \cup ToSet(t)
  BY <1>2, <1>3 DEF ToSet
<1>5. ASSUME Distinct(s), Distinct(t), ToSet(s) \cap ToSet(t) = {} PROVE Distinct(u)
  <2> SUFFICES ASSUME NEW i \in DOMAIN u, NEW j \in DOMAIN u, u[i] = u[j] PROVE i = j
    BY DEF Distinct
  <2>1. /\ i \in Nat /\ j \in Nat
    BY <1>1
  <2>2. CASE i \in DOMAIN s /\ j \in DOMAIN s
    BY <1>3, <1>5, <2>2 DEF Distinct
  <2>3. CASE i \notin DOMAIN s /\ j \notin DOMAIN s
    <3>1. i - Len(s) = j - Len(s)
      BY <1>2, <1>5, <2>3 DEF Distinct
    <3> QED
      BY <1>1, <2>1, <3>1
  <2>4. \A k \in DOMAIN u : k \in DOMAIN s => u[k] \in ToSet(s)
    BY <1>3 DEF ToSet
  <2>5. \A k \in DOMAIN u : k \notin DOMAIN s => u[k] \in ToSet(t)
    BY <1>2 DEF ToSet
  <2>6. i \in DOMAIN s <=> j \in DOMAIN s
    BY <1>5, <2>4, <2>5
  <2> QED
    BY <2>2, <2>3, <2>6
<1> QED
  BY <1>1, <1>4, <1>5 DEF u

LEMMA AppendSet ==
  ASSUME NEW S, NEW s \in Seq(S), NEW e \in S
  PROVE  /\ Append(s, e) \in Seq(S)
         /\ ToSet(Append(s, e)) = ToSet(s) \cup {e}
         /\ Distinct(s) /\ e \notin ToSet(s) => Distinct(Append(s, e))
<1> DEFINE u == Append(s, e)
<1>1. /\ Len(s) \in Nat /\ DOMAIN s = 1..Len(s)
      /\ u \in Seq(S) /\ DOMAIN u = 1..(Len(s) + 1)
      /\ \A i \in 1..Len(s) : u[i] = s[i]
      /\ u[Len(s) + 1] = e
  BY LenProperties, AppendProperties
<1> HIDE DEF u
<1>2. \A i \in DOMAIN u : i \in DOMAIN s \/ i = Len(s) + 1
  BY <1>1
<1>3. Len(s) + 1 \in DOMAIN u /\ \A i \in DOMAIN s : i \in DOMAIN u
  BY <1>1
<1>4. ToSet(u) = ToSet(s) \cup {e}
  BY <1>1, <1>2, <1>3 DEF ToSet
<1>5. ASSUME Distinct(s), e \notin ToSet(s) PROVE Distinct(u)
  BY <1>1, <1>2, <1>5 DEF Distinct, ToSet
<1> QED
  BY <1>1, <1>4, <1>5 DEF u

\* A sequence without repetitions is as long as its elements are many.
LEMMA DistinctCount ==
  ASSUME NEW S, NEW s \in Seq(S), Distinct(s)
  PROVE  IsFiniteSet(ToSet(s)) /\ Cardinality(ToSet(s)) = Len(s)
<1> DEFINE E == ToSet(s)
<1>1. /\ DOMAIN s = 1..Len(s) /\ Len(s) \in Nat
      /\ s \in [1..Len(s) -> E] /\ \A e \in E : \E i \in 1..Len(s) : s[i] = e
  BY LenProperties DEF ToSet
<1>2. s \in Bijection(1..Len(s), E)
  BY <1>1 DEF Distinct, Bijection, Injection, IsInjective, Surjection
<1>3. ExistsBijection(1..Len(s), E)
  BY <1>2 DEF ExistsBijection
<1> HIDE DEF E
<1>4. Cardinality(E) = Len(s)
  BY <1>1, <1>3, FS_CountingElements
<1>5. IsFiniteSet(E)
  BY <1>1, <1>3, FS_NatBijection
<1> QED
  BY <1>4, <1>5 DEF E

\* Every order of a finite set lists each of its elements once.
LEMMA OrderOfSet ==
  ASSUME NEW S, IsFiniteSet(S), NEW s \in SetToSeqs(S)
  PROVE  s \in Seq(S) /\ Distinct(s) /\ ToSet(s) = S
<1> DEFINE c == Cardinality(S)
<1>1. c \in Nat /\ IsFiniteSet(1..c) /\ Cardinality(1..c) = c
  <2>1. c \in Nat
    BY FS_CardinalityType
  <2> HIDE DEF c
  <2> QED
    BY <2>1, FS_Interval
<1>2. s \in [1..c -> S] /\ \A i, j \in 1..c : i # j => s[i] # s[j]
  BY DEF SetToSeqs
<1>3. Cardinality(1..c) = Cardinality(S)
  BY <1>1
<1> HIDE DEF c
<1>4. s \in Injection(1..c, S)
  BY <1>2 DEF Injection, IsInjective
<1>5. s \in Surjection(1..c, S)
  BY <1>3, <1>4, FS_Injection
<1>6. s \in Seq(S) /\ DOMAIN s = 1..c
  BY <1>1, <1>2, IsASeq
<1> QED
  BY <1>2, <1>5, <1>6 DEF Distinct, ToSet, Surjection

-----------------------------------------------------------------------------
(***************************************************************************)
(* Kahn's algorithm                                                        *)
(***************************************************************************)
\* The sorted nodes and the queue are different nodes, all of whose dependencies
\* are sorted; a node all of whose dependencies are sorted is one of them.
Queued ==
    /\ queue \in Seq(NodesOf(graph)) /\ sorted \in Seq(NodesOf(graph))
    /\ Distinct(queue) /\ Distinct(sorted)
    /\ ToSet(queue) \cap ToSet(sorted) = {}
    /\ \A n \in ToSet(queue) \cup ToSet(sorted) : graph.deps[n] \subseteq ToSet(sorted)
RootsInv ==
    /\ sorted = <<>> /\ at \in 1..(Len(graph.nodes) + 1)
    /\ \A i \in DOMAIN graph.nodes : i < at /\ graph.deps[graph.nodes[i]] = {}
                                       => graph.nodes[i] \in ToSet(queue)
    /\ \A n \in ToSet(queue) : \E i \in DOMAIN graph.nodes : i < at /\ graph.nodes[i] = n
SortInv ==
    /\ Queued
    /\ stage \in {"create", "add", "wire", "phase"} => queue = <<>> /\ sorted = <<>>
    /\ stage = "roots" => RootsInv
    /\ stage = "sort" => \A n \in NodesOf(graph) : graph.deps[n] \subseteq ToSet(sorted)
                                                     => n \in ToSet(queue) \cup ToSet(sorted)
    /\ stage \in {"cut", "planned"} => ToSet(sorted) = NodesOf(graph)

LEMMA NodesFinite ==
  ASSUME NEW g, GraphOK(g)
  PROVE  /\ g.nodes \in Seq(NodesOf(g)) /\ Distinct(g.nodes) /\ ToSet(g.nodes) = NodesOf(g)
         /\ IsFiniteSet(NodesOf(g)) /\ Cardinality(NodesOf(g)) = Len(g.nodes)
<1>1. g.nodes \in Seq(NodesOf(g)) /\ Distinct(g.nodes) /\ ToSet(g.nodes) = NodesOf(g)
  BY DEF GraphOK, Distinct, ToSet, NodesOf
<1> QED
  BY <1>1, DistinctCount

\* Nothing is queued yet.
NoneQueued == queue = <<>> /\ sorted = <<>>

LEMMA NothingQueued == NoneQueued => Queued
BY EmptyDistinct, EmptySeq DEF NoneQueued, Queued

LEMMA SortInvInit == Init => SortInv
BY NothingQueued DEF NoneQueued, Init, SortInv

LEMMA QueueRootsStep ==
  ASSUME NodesInv, SortInv, QueueRoots
  PROVE  SortInv'
<1>1. /\ stage = "roots" /\ Queued /\ RootsInv /\ GraphOK(graph)
      /\ graph' = graph /\ sorted' = sorted /\ sorted = <<>>
  BY DEF QueueRoots, SortInv, NodesInv, RootsInv
<1>2. DOMAIN graph.nodes = 1..Len(graph.nodes) /\ Len(graph.nodes) \in Nat
  BY <1>1, GraphType
<1>3. CASE at > Len(graph.nodes)
  <2>1. stage' = "sort" /\ at' = at /\ queue' = queue
    BY <1>1, <1>2, <1>3 DEF QueueRoots, RootsInv
  <2>2. ToSet(sorted) = {}
    BY <1>1, EmptyDistinct
  <2>3. \A n \in NodesOf(graph) : graph.deps[n] = {} => n \in ToSet(queue)
    BY <1>1, <1>2, <1>3 DEF RootsInv, NodesOf
  <2> QED
    BY <1>1, <2>1, <2>2, <2>3 DEF SortInv, Queued
<1>4. CASE ~(at > Len(graph.nodes))
  <2> DEFINE n == graph.nodes[at]
  <2>1. /\ at \in DOMAIN graph.nodes /\ n \in NodesOf(graph) /\ stage' = "roots" /\ at' = at + 1
        /\ queue' = IF graph.deps[n] = {} THEN Append(queue, n) ELSE queue
    BY <1>1, <1>2, <1>4 DEF QueueRoots, RootsInv, NodesOf
  <2>2. n \notin ToSet(queue)
    BY <1>1, <1>2, <2>1 DEF RootsInv, GraphOK
  <2>3. \A i \in DOMAIN graph.nodes : i < at' <=> i < at \/ i = at
    BY <1>2, <2>1
  <2>4. at' \in 1..(Len(graph.nodes) + 1)
    BY <1>2, <2>1
  <2>5. CASE graph.deps[n] = {}
    <3> HIDE DEF n
    <3>1. /\ queue' \in Seq(NodesOf(graph)) /\ Distinct(queue') /\ ToSet(queue') = ToSet(queue) \cup {n}
      BY <1>1, <2>1, <2>2, <2>5, AppendSet DEF Queued
    <3>2. Queued'
      BY <1>1, <2>1, <2>5, <3>1, EmptyDistinct DEF Queued
    <3>3. RootsInv'
      BY <1>1, <2>1, <2>3, <2>4, <3>1 DEF RootsInv, n
    <3> QED
      BY <2>1, <3>2, <3>3 DEF SortInv
  <2>6. CASE graph.deps[n] # {}
    <3>1. queue' = queue
      BY <2>1, <2>6
    <3>2. RootsInv'
      BY <1>1, <2>1, <2>3, <2>4, <2>6, <3>1 DEF RootsInv
    <3> QED
      BY <1>1, <2>1, <3>1, <3>2 DEF SortInv, Queued
  <2> QED
    BY <2>5, <2>6
<1> QED
  BY <1>3, <1>4

\* A turn of the sort.
LEMMA SortNodeStep ==
  ASSUME NodesInv, SortInv, SortNode
  PROVE  /\ SortInv'
         /\ Head(queue) \in NodesOf(graph) \ ToSet(sorted)
         /\ graph.deps[Head(queue)] \subseteq ToSet(sorted)
         /\ ToSet(sorted') = ToSet(sorted) \cup {Head(queue)}
<1> DEFINE node == Head(queue)
           F    == Freed(node)
<1>1. /\ stage = "sort" /\ stage' = "sort" /\ Queued /\ GraphOK(graph) /\ graph' = graph
      /\ queue # <<>> /\ sorted' = Append(sorted, node)
  BY DEF SortNode, SortInv, NodesInv, drawn
<1>2. PICK order \in SetToSeqs(F) : queue' = Tail(queue) \o order
  BY DEF SortNode
<1>3. /\ node \in NodesOf(graph) /\ Tail(queue) \in Seq(NodesOf(graph))
      /\ ToSet(queue) = {node} \cup ToSet(Tail(queue))
      /\ Distinct(Tail(queue)) /\ node \notin ToSet(Tail(queue))
  BY <1>1, HeadTail DEF Queued
<1> HIDE DEF node
<1>4. F \subseteq NodesOf(graph) /\ IsFiniteSet(F)
  <2>1. F \subseteq NodesOf(graph)
    BY DEF Freed
  <2> HIDE DEF F
  <2> QED
    BY <1>1, <2>1, NodesFinite, FS_Subset
<1>5. order \in Seq(F) /\ Distinct(order) /\ ToSet(order) = F
  <2> HIDE DEF F
  <2> QED
    BY <1>4, OrderOfSet
<1>6. node \notin ToSet(sorted) /\ graph.deps[node] \subseteq ToSet(sorted)
  BY <1>1, <1>3 DEF Queued
<1>7. F \cap (ToSet(queue) \cup ToSet(sorted)) = {}
  BY <1>1, <1>6 DEF Freed, Queued
<1>8. /\ sorted' \in Seq(NodesOf(graph)) /\ Distinct(sorted')
      /\ ToSet(sorted') = ToSet(sorted) \cup {node}
  BY <1>1, <1>3, <1>6, AppendSet DEF Queued
<1>9. /\ queue' \in Seq(NodesOf(graph)) /\ Distinct(queue')
      /\ ToSet(queue') = ToSet(Tail(queue)) \cup F
  <2>1. order \in Seq(NodesOf(graph)) /\ ToSet(Tail(queue)) \cap ToSet(order) = {}
    <3>1. ToSet(Tail(queue)) \cap F = {}
      BY <1>3, <1>7
    <3> HIDE DEF F
    <3>2. order \in Seq(NodesOf(graph))
      BY <1>4, <1>5, SeqMonotonic
    <3> QED
      BY <1>5, <3>1, <3>2
  <2> DEFINE rest == Tail(queue)
  <2>2. rest \in Seq(NodesOf(graph)) /\ Distinct(rest) /\ queue' = rest \o order
    BY <1>2, <1>3
  <2>3. Distinct(order) /\ ToSet(order) = F /\ ToSet(rest) \cap ToSet(order) = {}
    BY <1>5, <2>1
  <2> HIDE DEF F, rest
  <2>4. /\ queue' \in Seq(NodesOf(graph)) /\ Distinct(queue')
        /\ ToSet(queue') = ToSet(rest) \cup F
    BY <2>1, <2>2, <2>3, ConcatSet
  <2> QED
    BY <2>4 DEF rest
<1>10. Queued'
  <2>1. ToSet(queue') \cap ToSet(sorted') = {}
    BY <1>1, <1>3, <1>7, <1>8, <1>9 DEF Queued
  <2>2. \A n \in F : graph.deps[n] \subseteq ToSet(sorted')
    BY <1>8 DEF Freed
  <2>3. \A n \in ToSet(queue') \cup ToSet(sorted') : graph.deps[n] \subseteq ToSet(sorted')
    BY <1>1, <1>3, <1>8, <1>9, <2>2 DEF Queued
  <2> QED
    BY <1>1, <1>8, <1>9, <2>1, <2>3 DEF Queued
<1>11. ASSUME NEW n \in NodesOf(graph), graph.deps[n] \subseteq ToSet(sorted')
       PROVE  n \in ToSet(queue') \cup ToSet(sorted')
  <2>1. CASE node \in graph.deps[n]
    BY <1>8, <1>9, <1>11, <2>1 DEF Freed
  <2>2. CASE node \notin graph.deps[n]
    <3>1. n \in ToSet(queue) \cup ToSet(sorted)
      BY <1>1, <1>8, <1>11, <2>2 DEF SortInv
    <3> QED
      BY <1>3, <1>8, <1>9, <3>1
  <2> QED
    BY <2>1, <2>2
<1>12. SortInv'
  BY <1>1, <1>10, <1>11 DEF SortInv
<1> QED
  BY <1>3, <1>6, <1>8, <1>12 DEF node

\* The nodes left when the queue is empty would go round in a cycle.
LEMMA AllSorted ==
  ASSUME NodesInv, AcyclicInv, SortInv, stage = "sort", queue = <<>>
  PROVE  ToSet(sorted) = NodesOf(graph) /\ Len(sorted) = Len(graph.nodes)
<1> DEFINE S == NodesOf(graph) \ ToSet(sorted)
<1>1. Queued /\ GraphOK(graph) /\ Acyclic(graph)
  BY DEF SortInv, NodesInv, AcyclicInv
<1>2. ToSet(queue) = {}
  BY EmptyDistinct
<1>3. ToSet(sorted) \subseteq NodesOf(graph)
  BY <1>1, LenProperties DEF Queued, ToSet
<1>4. Endless(graph, S)
  BY <1>1, <1>2, GraphType DEF SortInv, Endless
<1>5. S = {}
  BY <1>1, <1>4 DEF Acyclic
<1>6. ToSet(sorted) = NodesOf(graph)
  BY <1>3, <1>5
<1> QED
  BY <1>1, <1>6, NodesFinite, DistinctCount DEF Queued

LEMMA SortInvStep ==
  ASSUME NodesInv, AcyclicInv, SortInv, [Next]_vars
  PROVE  SortInv'
<1>1. CASE CreateOperations \/ AddNode \/ AddEdge \/ AddBarrier
  <2>1. NoneQueued'
    BY <1>1 DEF NoneQueued, SortInv, CreateOperations, AddNode, AddEdge, AddBarrier, kahn
  <2>2. Queued'
    BY <2>1, NothingQueued, PTL
  <2> QED
    BY <1>1, <2>1, <2>2
       DEF NoneQueued, SortInv, CreateOperations, AddNode, AddEdge, AddBarrier
<1>3. CASE WireOperation \/ DetectForOperation \/ StartPhasing \/ CutBatch \/ FinishPlan
  BY <1>3 DEF WireOperation, Wiring, DetectForOperation, StartPhasing, CutBatch, FinishPlan,
              SortInv, Queued, kahn, drawn
<1>4. CASE StartSort
  <2>1. /\ queue = <<>> /\ sorted = <<>> /\ UNCHANGED <<graph, queue, sorted>>
        /\ stage' = "roots" /\ at' = 1 /\ GraphOK(graph)
    BY <1>4 DEF StartSort, SortInv, NodesInv, kahn
  <2>2. RootsInv'
    <3>1. 1 \in 1..(Len(graph.nodes) + 1)
      BY <2>1, GraphType
    <3>2. \A i \in DOMAIN graph.nodes : ~(i < 1)
      BY <2>1, GraphType
    <3> QED
      BY <2>1, <3>1, <3>2, EmptyDistinct DEF RootsInv
  <2> QED
    BY <2>1, <2>2 DEF SortInv, Queued
<1>5. CASE QueueRoots
  BY <1>5, QueueRootsStep
<1>6. CASE SortNode
  BY <1>6, SortNodeStep
<1>7. CASE FinishSort
  <2>1. stage' = "cut" /\ UNCHANGED <<graph, queue, sorted>>
    BY <1>7, AllSorted DEF FinishSort, kahn
  <2> QED
    BY <1>7, <2>1, AllSorted DEF SortInv, Queued, FinishSort
<1>8. CASE UNCHANGED vars
  BY <1>8 DEF SortInv, Queued, RootsInv, vars, kahn
<1> QED
  BY <1>1, <1>3, <1>4, <1>5, <1>6, <1>7, <1>8 DEF Next

-----------------------------------------------------------------------------
(***************************************************************************)
(* Batches                                                                 *)
(***************************************************************************)
\* The sorted nodes are in the batches, each of them once, behind everything
\* they depend on.
Once == \A b, c \in DOMAIN batches : \A i \in DOMAIN batches[b], j \in DOMAIN batches[c] :
          batches[b][i] = batches[c][j] => b = c /\ i = j
Batched ==
    /\ batches \in Seq(Seq(NodesOf(graph)))
    /\ Once
    /\ \A b \in DOMAIN batches : ToSet(batches[b]) \subseteq ToSet(sorted)
    /\ \A n \in ToSet(sorted) : \E b \in DOMAIN batches : n \in ToSet(batches[b])
    /\ \A b \in DOMAIN batches : \A n \in ToSet(batches[b]) : \A d \in graph.deps[n] :
         \E c \in DOMAIN batches : c < b /\ d \in ToSet(batches[c])
BatchInv ==
    /\ Batched
    /\ stage \in {"create", "add", "wire", "phase", "roots"} => batches = <<>>

LEMMA MaxIsThere ==
  ASSUME NEW n \in Nat, NEW S \in SUBSET (0..n), 0 \in S
  PROVE  Max(S) \in S /\ \A y \in S : y <= Max(S)
<1> DEFINE T == {n - y : y \in S}
<1>1. T \subseteq Nat /\ T # {}
  OBVIOUS
<1> HIDE DEF T
<1>2. PICK z \in T : \A y \in T : ~(<<y, z>> \in OpToRel(<, Nat))
  BY <1>1, WFMin, NatLessThanWellFounded
<1>3. z \in Nat /\ \A y \in T : y \in Nat /\ ~(y < z)
  BY <1>1, <1>2 DEF OpToRel
<1>4. PICK x \in S : z = n - x
  BY DEF T
<1>5. \A y \in S : x >= y
  <2> SUFFICES ASSUME NEW y \in S PROVE x >= y
    OBVIOUS
  <2>1. n - y \in T
    BY DEF T
  <2> QED
    BY <1>3, <1>4, <2>1
<1>6. Max(S) \in S /\ \A y \in S : Max(S) >= y
  BY <1>4, <1>5 DEF Max
<1> QED
  BY <1>6

\* A node goes to a batch behind those of its dependencies, at most one further
\* than there are.
LEMMA BatchForOK ==
  ASSUME NEW g, NEW N, NEW s \in Seq(Seq(N)), NEW node, NEW b, b = BatchFor(g, s, node)
  PROVE  /\ b \in 1..(Len(s) + 1)
         /\ \A c \in DOMAIN s : ToSet(s[c]) \cap g.deps[node] # {} => c < b
<1> DEFINE I == InBatches(s, g.deps[node])
           M == {0} \cup I
<1>1. DOMAIN s = 1..Len(s) /\ Len(s) \in Nat
  BY LenProperties
<1>2. I \subseteq 1..Len(s) /\ \A c \in DOMAIN s : ToSet(s[c]) \cap g.deps[node] # {} => c \in I
  BY <1>1 DEF InBatches
<1>3. b = 1 + Max(M)
  BY DEF BatchFor
<1> HIDE DEF I
<1>4. M \in SUBSET (0..Len(s)) /\ 0 \in M
  BY <1>1, <1>2
<1>5. I \subseteq M
  OBVIOUS
<1> HIDE DEF M
<1>6. Max(M) \in M /\ \A y \in M : y <= Max(M)
  BY <1>1, <1>4, MaxIsThere
<1>7. Max(M) \in 0..Len(s)
  BY <1>4, <1>6
<1> QED
  BY <1>1, <1>2, <1>3, <1>5, <1>6, <1>7

\* The node comes last in batch b; nothing else changes.
IsPlaced(h, N, s, node, b) ==
    /\ h \in Seq(Seq(N)) /\ b \in DOMAIN h
    /\ DOMAIN h = DOMAIN s \cup {b}
    /\ \A c \in DOMAIN s : /\ ToSet(s[c]) \subseteq ToSet(h[c])
                           /\ ToSet(h[c]) \subseteq ToSet(s[c]) \cup {node}
                           /\ c # b => h[c] = s[c]
    /\ b \notin DOMAIN s => h[b] = <<node>>
    /\ b \in DOMAIN s => h[b] = Append(s[b], node)
    /\ node \in ToSet(h[b])

LEMMA PlacedOK ==
  ASSUME NEW g, NEW N, NEW s \in Seq(Seq(N)), NEW node \in N,
         NEW h, h = Placed(g, s, node), NEW b, b = BatchFor(g, s, node)
  PROVE  IsPlaced(h, N, s, node, b)
<1>1. DOMAIN s = 1..Len(s) /\ Len(s) \in Nat
  BY LenProperties
<1>2. b \in 1..(Len(s) + 1)
  BY BatchForOK
<1>3. CASE b \in DOMAIN s
  <2>1. h = [s EXCEPT ![b] = Append(s[b], node)]
    BY <1>3 DEF Placed
  <2>2. s[b] \in Seq(N)
    BY <1>1, <1>3, ElementOfSeq
  <2>3. /\ Append(s[b], node) \in Seq(N)
        /\ ToSet(Append(s[b], node)) = ToSet(s[b]) \cup {node}
    BY <2>2, AppendSet
  <2>4. h \in Seq(Seq(N)) /\ DOMAIN h = DOMAIN s
    BY <1>1, <1>3, <2>1, <2>3, ExceptSeq
  <2>5. h[b] = Append(s[b], node) /\ \A c \in DOMAIN s : c # b => h[c] = s[c]
    BY <1>3, <2>1
  <2> QED
    BY <1>3, <2>3, <2>4, <2>5 DEF IsPlaced
<1>4. CASE b \notin DOMAIN s
  <2>1. h = Append(s, <<node>>) /\ b = Len(s) + 1
    BY <1>1, <1>2, <1>4 DEF Placed
  <2>2. <<node>> \in Seq(N) /\ node \in ToSet(<<node>>)
    BY DEF ToSet
  <2>3. /\ h \in Seq(Seq(N)) /\ DOMAIN h = 1..(Len(s) + 1)
        /\ h[b] = <<node>> /\ \A c \in DOMAIN s : h[c] = s[c]
    BY <1>1, <2>1, <2>2, AppendProperties, LenProperties
  <2>4. DOMAIN h = DOMAIN s \cup {b}
    BY <1>1, <2>1, <2>3
  <2> QED
    BY <1>4, <2>2, <2>3, <2>4 DEF IsPlaced
<1> QED
  BY <1>3, <1>4

LEMMA BatchInvSortNode ==
  ASSUME NodesInv, SortInv, BatchInv, SortNode
  PROVE  BatchInv'
<1> DEFINE node == Head(queue)
           b    == BatchFor(graph, batches, node)
<1>1. /\ node \in NodesOf(graph) \ ToSet(sorted) /\ graph.deps[node] \subseteq ToSet(sorted)
      /\ ToSet(sorted') = ToSet(sorted) \cup {node}
  BY SortNodeStep
<1>2. graph' = graph /\ batches' = Placed(graph, batches, node) /\ stage' = "sort"
  BY DEF SortNode
<1>3. batches \in Seq(Seq(NodesOf(graph)))
  BY DEF BatchInv, Batched
<1> HIDE DEF node
<1>4. /\ b \in 1..(Len(batches) + 1)
      /\ \A c \in DOMAIN batches : ToSet(batches[c]) \cap graph.deps[node] # {} => c < b
  BY <1>3, BatchForOK
<1> HIDE DEF b
<1>5. /\ batches' \in Seq(Seq(NodesOf(graph))) /\ b \in DOMAIN batches'
      /\ DOMAIN batches' = DOMAIN batches \cup {b}
      /\ \A c \in DOMAIN batches : /\ ToSet(batches[c]) \subseteq ToSet(batches'[c])
                                   /\ ToSet(batches'[c]) \subseteq ToSet(batches[c]) \cup {node}
                                   /\ c # b => batches'[c] = batches[c]
      /\ b \notin DOMAIN batches => batches'[b] = <<node>>
      /\ b \in DOMAIN batches => batches'[b] = Append(batches[b], node)
      /\ node \in ToSet(batches'[b])
  <2>1. b = BatchFor(graph, batches, node)
    BY DEF b
  <2>2. node \in NodesOf(graph)
    BY <1>1
  <2>3. IsPlaced(batches', NodesOf(graph), batches, node, b)
    BY <1>2, <1>3, <2>1, <2>2, PlacedOK
  <2> QED
    BY <2>3 DEF IsPlaced
<1>6. \A c \in DOMAIN batches : node \notin ToSet(batches[c])
  BY <1>1 DEF BatchInv, Batched
\* A place is an old one, or the last of batch b, where the node is.
<1>7. ASSUME NEW c \in DOMAIN batches', NEW i \in DOMAIN batches'[c]
      PROVE  \/ c \in DOMAIN batches /\ i \in DOMAIN batches[c] /\ batches'[c][i] = batches[c][i]
             \/ c = b /\ batches'[c][i] = node /\ i = Len(batches'[b])
  <2>1. CASE c # b
    BY <1>5, <2>1
  <2>2. CASE c = b /\ b \notin DOMAIN batches
    <3>1. DOMAIN <<node>> = {1} /\ Len(<<node>>) = 1 /\ <<node>>[1] = node
      OBVIOUS
    <3>2. batches'[c] = <<node>> /\ i = 1
      BY <1>5, <2>2, <3>1
    <3> QED
      BY <2>2, <3>1, <3>2
  <2>3. CASE c = b /\ b \in DOMAIN batches
    <3> DEFINE s == batches[b]
    <3>1. s \in Seq(NodesOf(graph)) /\ batches'[b] = Append(s, node)
      BY <1>3, <1>5, <2>3, ElementOfSeq, LenProperties
    <3> HIDE DEF s
    <3>2. /\ Len(s) \in Nat /\ DOMAIN s = 1..Len(s)
          /\ DOMAIN Append(s, node) = 1..(Len(s) + 1) /\ Len(Append(s, node)) = Len(s) + 1
          /\ \A k \in 1..Len(s) : Append(s, node)[k] = s[k]
          /\ Append(s, node)[Len(s) + 1] = node
      BY <1>1, <3>1, AppendProperties, LenProperties
    <3>3. i \in DOMAIN s \/ i = Len(s) + 1
      BY <2>3, <3>1, <3>2
    <3>4. CASE i \in DOMAIN s
      BY <2>3, <3>1, <3>2, <3>4 DEF s
    <3>5. CASE i = Len(s) + 1
      BY <2>3, <3>1, <3>2, <3>5
    <3> QED
      BY <3>3, <3>4, <3>5
  <2> QED
    BY <2>1, <2>2, <2>3
<1>8. Once'
  <2> SUFFICES ASSUME NEW c \in DOMAIN batches', NEW d \in DOMAIN batches',
                      NEW i \in DOMAIN batches'[c], NEW j \in DOMAIN batches'[d],
                      batches'[c][i] = batches'[d][j]
               PROVE  c = d /\ i = j
    BY DEF Once
  <2>1. \A e \in DOMAIN batches : \A k \in DOMAIN batches[e] : batches[e][k] # node
    BY <1>6 DEF ToSet
  <2>2. \A e, f \in DOMAIN batches : \A k \in DOMAIN batches[e], l \in DOMAIN batches[f] :
          batches[e][k] = batches[f][l] => e = f /\ k = l
    BY DEF BatchInv, Batched, Once
  <2> QED
    BY <1>7, <2>1, <2>2
<1>9. \A c \in DOMAIN batches' : ToSet(batches'[c]) \subseteq ToSet(sorted')
  <2>1. ToSet(batches'[b]) \subseteq ToSet(sorted')
    <3>1. CASE b \in DOMAIN batches
      BY <1>1, <1>5, <3>1 DEF BatchInv, Batched
    <3>2. CASE b \notin DOMAIN batches
      <4>1. ToSet(<<node>>) = {node}
        BY DEF ToSet
      <4> QED
        BY <1>1, <1>5, <3>2, <4>1
    <3> QED
      BY <3>1, <3>2
  <2> QED
    BY <1>1, <1>5, <2>1 DEF BatchInv, Batched
<1>10. \A n \in ToSet(sorted') : \E c \in DOMAIN batches' : n \in ToSet(batches'[c])
  BY <1>1, <1>5 DEF BatchInv, Batched
<1>11. ASSUME NEW c \in DOMAIN batches', NEW n \in ToSet(batches'[c]), NEW d \in graph.deps[n]
       PROVE  \E e \in DOMAIN batches' : e < c /\ d \in ToSet(batches'[e])
  <2>1. CASE n = node
    <3>1. c = b
      <4>1. CASE c # b
        BY <1>5, <1>6, <2>1, <4>1
      <4> QED
        BY <4>1
    <3>2. PICK e \in DOMAIN batches : d \in ToSet(batches[e])
      BY <1>1, <2>1 DEF BatchInv, Batched
    <3>3. e < b
      BY <1>4, <2>1, <3>2
    <3> QED
      BY <1>5, <3>1, <3>2, <3>3
  <2>2. CASE n # node
    <3>1. c \in DOMAIN batches /\ n \in ToSet(batches[c])
      <4>1. CASE c = b /\ b \notin DOMAIN batches
        <5>1. ToSet(<<node>>) = {node}
          BY DEF ToSet
        <5> QED
          BY <1>5, <2>2, <4>1, <5>1
      <4>2. CASE c \in DOMAIN batches
        BY <1>5, <2>2, <4>2
      <4> QED
        BY <1>5, <4>1, <4>2
    <3>2. PICK e \in DOMAIN batches : e < c /\ d \in ToSet(batches[e])
      BY <3>1 DEF BatchInv, Batched
    <3> QED
      BY <1>5, <3>2
  <2> QED
    BY <2>1, <2>2
<1> QED
  BY <1>2, <1>5, <1>8, <1>9, <1>10, <1>11 DEF BatchInv, Batched

NoneBatched == NoneQueued /\ batches = <<>>

LEMMA NothingBatched == NoneBatched => Batched
BY EmptyDistinct, EmptySeq DEF NoneBatched, NoneQueued, Batched, Once

LEMMA BatchInvInit == Init => BatchInv
BY NothingBatched DEF Init, BatchInv, NoneBatched, NoneQueued

LEMMA BatchInvStep ==
  ASSUME NodesInv, AcyclicInv, SortInv, SortInv', BatchInv, [Next]_vars
  PROVE  BatchInv'
<1>1. CASE CreateOperations \/ AddNode \/ AddEdge \/ AddBarrier
  <2>1. NoneBatched'
    BY <1>1 DEF NoneBatched, NoneQueued, SortInv, BatchInv, CreateOperations, AddNode, AddEdge,
                AddBarrier, kahn
  <2>2. Batched'
    BY <2>1, NothingBatched, PTL
  <2> QED
    BY <1>1, <2>1, <2>2 DEF NoneBatched, BatchInv
<1>2. CASE WireOperation \/ DetectForOperation \/ StartPhasing \/ CutBatch \/ FinishPlan
  <2>1. CASE WireOperation \/ DetectForOperation \/ StartPhasing
    <3>1. UNCHANGED <<batches, sorted>> /\ batches = <<>>
      BY <2>1 DEF WireOperation, Wiring, DetectForOperation, StartPhasing, BatchInv, kahn
    <3>2. Batched
      BY DEF BatchInv
    <3>3. UNCHANGED graph
      BY <2>1 DEF WireOperation, Wiring, DetectForOperation, StartPhasing, drawn
    <3>4. Batched'
      BY <3>1, <3>2, <3>3 DEF Batched, Once
    <3> QED
      BY <3>1, <3>4 DEF BatchInv
  <2>2. CASE CutBatch \/ FinishPlan
    <3>1. UNCHANGED <<batches, sorted, graph>>
      BY <2>2 DEF CutBatch, FinishPlan, kahn
    <3>2. Batched'
      BY <3>1 DEF BatchInv, Batched, Once
    <3>3. stage = "cut" /\ stage' \in {"cut", "planned"}
      BY <2>2 DEF CutBatch, FinishPlan
    <3> QED
      BY <3>2, <3>3 DEF BatchInv
  <2> QED
    BY <1>2, <2>1, <2>2
<1>3. CASE StartSort \/ FinishSort
  BY <1>3 DEF StartSort, FinishSort, BatchInv, Batched, Once, kahn
<1>4. CASE QueueRoots
  BY <1>4 DEF QueueRoots, BatchInv, Batched, Once
<1>5. CASE SortNode
  BY <1>5, BatchInvSortNode
<1>6. CASE UNCHANGED vars
  BY <1>6 DEF BatchInv, Batched, Once, vars, kahn
<1> QED
  BY <1>1, <1>2, <1>3, <1>4, <1>5, <1>6 DEF Next

-----------------------------------------------------------------------------
(***************************************************************************)
(* The cut of the batches into the plan                                    *)
(***************************************************************************)
\* The first i nodes of batch b are cut.
IsCut(b, i) == b < at \/ (b = at /\ i <= cut)
\* Place k of batch p of the plan has the node of place i of batch b of the graph.
Holds(p, k, b, i) ==
    /\ p \in DOMAIN plan /\ k \in DOMAIN plan[p].nodes
    /\ b \in DOMAIN batches /\ i \in DOMAIN batches[b]
    /\ plan[p].nodes[k] = batches[b][i]

\* The nodes that are cut are in the plan, and no others, each of them once, in
\* the order of their batches.
CutSoFar ==
    /\ at \in 1..(Len(batches) + 1) /\ cut \in Nat
    /\ cut = 0 \/ (at <= Len(batches) /\ cut < Len(batches[at]))
    /\ plan \in Seq([id : Nat, nodes : Seq(NodesOf(graph))])
    /\ \A p \in DOMAIN plan : \A k \in DOMAIN plan[p].nodes :
         \E b, i : Holds(p, k, b, i) /\ IsCut(b, i)
    /\ \A b \in DOMAIN batches : \A i \in DOMAIN batches[b] :
         IsCut(b, i) => \E p, k : Holds(p, k, b, i)
    /\ \A p, k, q, l, b, i : Holds(p, k, b, i) /\ Holds(q, l, b, i) => p = q /\ k = l
    /\ \A p, k, q, l, b, i, c, j : Holds(p, k, b, i) /\ Holds(q, l, c, j) /\ b < c => p < q
CutInv ==
    /\ stage \notin {"cut", "planned"} => plan = <<>> /\ cut = 0
    /\ stage \in {"cut", "planned"} => CutSoFar
    /\ stage = "planned" => at > Len(batches)

LEMMA CutInvInit == Init => CutInv
BY DEF Init, CutInv

\* The next part of a batch: the nodes after those that are cut.
IsPart(part, N, nodes, from, end) ==
    /\ end \in from..Len(nodes)
    /\ part \in [id : Nat, nodes : Seq(N)]
    /\ DOMAIN part.nodes = 1..(end - from)
    /\ \A k \in 1..(end - from) : part.nodes[k] = nodes[from + k]

LEMMA NextBatchOK ==
  ASSUME NEW N, NEW nodes \in Seq(N), NEW from \in Nat, from <= Len(nodes), NEW max \in Nat,
         NEW p, Len(p) \in Nat, NEW b \in Nat, b >= 1
  PROVE  IsPart(NextBatch(p, b, nodes, from, max), N, nodes, from, PartEnd(nodes, from, max))
<1> DEFINE end == PartEnd(nodes, from, max)
           t   == SubSeq(nodes, from + 1, end)
<1>1. Len(nodes) \in Nat /\ end \in from..Len(nodes)
  BY LenProperties DEF PartEnd, TooLarge
<1>2. /\ NextBatch(p, b, nodes, from, max) = [id |-> BatchId(p, b, nodes, max), nodes |-> t]
      /\ BatchId(p, b, nodes, max) \in Nat
  BY DEF NextBatch, BatchId
<1> HIDE DEF end
<1>3. /\ t \in Seq(N) /\ DOMAIN t = 1..(end - from)
      /\ \A k \in 1..(end - from) : t[k] = nodes[from + k]
  BY <1>1
<1> HIDE DEF t
<1> QED
  BY <1>1, <1>2, <1>3 DEF IsPart, end

LEMMA CutInvCutBatch ==
  ASSUME OpsInv, BatchInv, CutInv, CutBatch
  PROVE  CutInv'
<1> DEFINE nodes == batches[at]
           end   == PartEnd(nodes, cut, size)
           new   == NextBatch(plan, at, nodes, cut, size)
           last  == Len(plan) + 1
<1>1. /\ stage = "cut" /\ stage' = "cut" /\ batches' = batches /\ at <= Len(batches)
      /\ plan' = Append(plan, new)
      /\ IF end < Len(nodes) THEN cut' = end /\ at' = at ELSE cut' = 0 /\ at' = at + 1
  BY DEF CutBatch, kahn
<1>2. /\ CutSoFar
      /\ at \in 1..(Len(batches) + 1) /\ cut \in Nat
      /\ plan \in Seq([id : Nat, nodes : Seq(NodesOf(graph))])
      /\ DOMAIN plan = 1..Len(plan) /\ Len(plan) \in Nat
      /\ cut = 0 \/ (at <= Len(batches) /\ cut < Len(batches[at]))
  BY <1>1, LenProperties DEF CutInv, CutSoFar
<1>3. /\ batches \in Seq(Seq(NodesOf(graph)))
      /\ DOMAIN batches = 1..Len(batches) /\ Len(batches) \in Nat
      /\ Once
  BY LenProperties DEF BatchInv, Batched
<1>4. /\ at \in DOMAIN batches /\ nodes \in Seq(NodesOf(graph))
      /\ DOMAIN nodes = 1..Len(nodes) /\ Len(nodes) \in Nat /\ cut <= Len(nodes)
      /\ size \in Nat
  <2>1. at \in DOMAIN batches
    BY <1>1, <1>2, <1>3
  <2>2. nodes \in Seq(NodesOf(graph))
    BY <1>3, <2>1, ElementOfSeq
  <2>3. size \in Nat
    BY BatchSizeAssumption DEF OpsInv
  <2> QED
    BY <1>2, <2>1, <2>2, <2>3, LenProperties
<1> HIDE DEF nodes
<1>5. IsPart(new, NodesOf(graph), nodes, cut, end)
  <2>1. Len(plan) \in Nat /\ at \in Nat /\ at >= 1
    BY <1>2, <1>3
  <2> QED
    BY <1>2, <1>4, <2>1, NextBatchOK
<1>6. /\ end \in cut..Len(nodes)
      /\ new \in [id : Nat, nodes : Seq(NodesOf(graph))]
      /\ DOMAIN new.nodes = 1..(end - cut)
      /\ \A k \in 1..(end - cut) : new.nodes[k] = nodes[cut + k]
  BY <1>5 DEF IsPart
<1> HIDE DEF end, new
<1>7. /\ Len(plan') = last /\ DOMAIN plan' = 1..last /\ last \in Nat
      /\ plan' \in Seq([id : Nat, nodes : Seq(NodesOf(graph))])
      /\ \A p \in DOMAIN plan : plan'[p] = plan[p]
      /\ plan'[last] = new
  BY <1>1, <1>2, <1>6, AppendProperties, LenProperties
<1>8. \A b \in DOMAIN batches : \A i \in DOMAIN batches[b] :
        IsCut(b, i)' <=> IsCut(b, i) \/ (b = at /\ cut < i /\ i <= end)
  <2> SUFFICES ASSUME NEW b \in DOMAIN batches, NEW i \in DOMAIN batches[b]
               PROVE  IsCut(b, i)' <=> IsCut(b, i) \/ (b = at /\ cut < i /\ i <= end)
    OBVIOUS
  <2>1. b \in Nat /\ at \in Nat /\ i \in Nat /\ i >= 1 /\ (b = at => i <= Len(nodes))
    <3>1. DOMAIN batches[b] = 1..Len(batches[b]) /\ Len(batches[b]) \in Nat
      BY <1>3, ElementOfSeq, LenProperties
    <3> QED
      BY <1>2, <1>3, <1>4, <3>1 DEF nodes
  <2>2. CASE end < Len(nodes)
    BY <1>1, <1>2, <1>6, <2>1, <2>2 DEF IsCut
  <2>3. CASE ~(end < Len(nodes))
    <3>1. cut' = 0 /\ at' = at + 1 /\ end = Len(nodes)
      BY <1>1, <1>2, <1>4, <1>6, <2>3
    <3> QED
      BY <1>2, <2>1, <3>1 DEF IsCut
  <2> QED
    BY <2>2, <2>3
\* What the plan holds now: what it held, and the nodes that are cut.
<1>9. ASSUME NEW p, NEW k, NEW b, NEW i, Holds(p, k, b, i)'
      PROVE  /\ b \in DOMAIN batches /\ i \in DOMAIN batches[b]
             /\ \/ Holds(p, k, b, i) /\ IsCut(b, i) /\ p \in 1..Len(plan)
                \/ p = last /\ k \in 1..(end - cut) /\ b = at /\ i = cut + k
  <2>1. /\ p \in 1..last /\ k \in DOMAIN plan'[p].nodes
        /\ b \in DOMAIN batches /\ i \in DOMAIN batches[b]
        /\ plan'[p].nodes[k] = batches[b][i]
    BY <1>1, <1>7, <1>9 DEF Holds
  <2>2. CASE p = last
    <3>1. k \in 1..(end - cut) /\ batches[b][i] = batches[at][cut + k]
      BY <1>6, <1>7, <2>1, <2>2 DEF nodes
    <3>2. cut + k \in DOMAIN batches[at]
      BY <1>2, <1>4, <1>6, <3>1 DEF nodes
    <3> QED
      BY <1>3, <1>4, <2>1, <2>2, <3>1, <3>2 DEF Once
  <2>3. CASE p # last
    <3>1. p \in 1..Len(plan) /\ p \in DOMAIN plan
      BY <1>2, <2>1, <2>3
    <3>2. Holds(p, k, b, i)
      BY <1>7, <2>1, <3>1 DEF Holds
    <3>3. PICK c, j : Holds(p, k, c, j) /\ IsCut(c, j)
      BY <1>2, <3>2 DEF CutSoFar, Holds
    <3>4. b = c /\ i = j
      <4>1. /\ c \in DOMAIN batches /\ j \in DOMAIN batches[c]
            /\ batches[c][j] = batches[b][i]
        BY <3>2, <3>3 DEF Holds
      <4> QED
        BY <1>3, <2>1, <4>1 DEF Once
    <3> QED
      BY <2>1, <3>1, <3>2, <3>3, <3>4
  <2> QED
    BY <2>2, <2>3
<1>10. ASSUME NEW k \in 1..(end - cut), NEW p, p = last, NEW b, b = at, NEW i, i = cut + k
       PROVE  Holds(p, k, b, i)'
  <2>1. i \in DOMAIN batches[b]
    BY <1>2, <1>4, <1>6, <1>10 DEF nodes
  <2>2. p \in DOMAIN plan' /\ plan'[p] = new
    <3>1. last \in 1..last
      BY <1>2
    <3> QED
      BY <1>7, <1>10, <3>1
  <2>3. k \in DOMAIN new.nodes /\ new.nodes[k] = nodes[cut + k]
    BY <1>6, <1>10
  <2>4. nodes[cut + k] = batches[b][i]
    BY <1>10 DEF nodes
  <2>5. plan'[p].nodes[k] = batches[b][i] /\ k \in DOMAIN plan'[p].nodes
    BY <2>2, <2>3, <2>4
  <2>6. b \in DOMAIN batches
    BY <1>4, <1>10
  <2> QED
    BY <1>1, <2>1, <2>2, <2>5, <2>6 DEF Holds
<1>11. ASSUME NEW p, NEW k, NEW b, NEW i, Holds(p, k, b, i)
       PROVE  Holds(p, k, b, i)' /\ p \in 1..Len(plan)
  BY <1>1, <1>2, <1>7, <1>11 DEF Holds
<1>12. /\ at' \in 1..(Len(batches) + 1) /\ cut' \in Nat
       /\ cut' = 0 \/ (at' <= Len(batches) /\ cut' < Len(batches[at']))
  BY <1>1, <1>2, <1>3, <1>4, <1>6 DEF nodes
<1>13. ASSUME NEW p \in DOMAIN plan', NEW k \in DOMAIN plan'[p].nodes
       PROVE  \E b, i : Holds(p, k, b, i)' /\ IsCut(b, i)'
  <2>1. CASE p = last
    <3>1. k \in 1..(end - cut)
      BY <1>6, <1>7, <2>1
    <3>2. PICK b, i : b = at /\ i = cut + k
      OBVIOUS
    <3>3. Holds(p, k, b, i)'
      BY <1>10, <2>1, <3>1, <3>2
    <3>4. b \in DOMAIN batches /\ i \in DOMAIN batches[b] /\ cut < i /\ i <= end
      BY <1>2, <1>4, <1>6, <3>1, <3>2 DEF nodes
    <3> QED
      BY <1>8, <3>2, <3>3, <3>4
  <2>2. CASE p # last
    <3>1. p \in DOMAIN plan /\ k \in DOMAIN plan[p].nodes
      <4>1. p \in 1..last
        BY <1>7
      <4>2. p \in DOMAIN plan
        BY <1>2, <2>2, <4>1
      <4>3. plan'[p] = plan[p]
        BY <1>7, <4>2
      <4> QED
        BY <4>2, <4>3
    <3>2. PICK b, i : Holds(p, k, b, i) /\ IsCut(b, i)
      BY <1>2, <3>1 DEF CutSoFar
    <3>3. Holds(p, k, b, i)'
      BY <1>11, <3>2
    <3>4. IsCut(b, i)'
      BY <1>8, <3>2 DEF Holds
    <3> QED
      BY <3>3, <3>4
  <2> QED
    BY <2>1, <2>2
<1>14. ASSUME NEW b \in DOMAIN batches, NEW i \in DOMAIN batches[b], IsCut(b, i)'
       PROVE  \E p, k : Holds(p, k, b, i)'
  <2>1. CASE IsCut(b, i)
    <3>1. PICK p, k : Holds(p, k, b, i)
      BY <1>2, <2>1 DEF CutSoFar
    <3> QED
      BY <1>11, <3>1
  <2>2. CASE ~IsCut(b, i)
    <3>1. b = at /\ cut < i /\ i <= end /\ i \in DOMAIN nodes
      BY <1>8, <1>14, <2>2 DEF nodes
    <3>2. i - cut \in 1..(end - cut) /\ i = cut + (i - cut)
      BY <1>2, <1>4, <1>6, <3>1
    <3>3. PICK k \in 1..(end - cut), p \in {last} : k = i - cut
      BY <3>2
    <3>4. Holds(p, k, b, i)'
      BY <1>10, <3>1, <3>2, <3>3
    <3> QED
      BY <3>4
  <2> QED
    BY <2>1, <2>2
<1>15. ASSUME NEW p, NEW k, NEW q, NEW l, NEW b, NEW i, Holds(p, k, b, i)', Holds(q, l, b, i)'
       PROVE  p = q /\ k = l
  <2>1. CASE Holds(p, k, b, i) /\ Holds(q, l, b, i)
    BY <1>2, <2>1 DEF CutSoFar
  <2>2. CASE ~(Holds(p, k, b, i) /\ Holds(q, l, b, i))
    <3>1. b = at /\ ~IsCut(b, i)
      <4>1. PICK r \in 1..(end - cut) : b = at /\ i = cut + r
        BY <1>9, <1>15, <2>2
      <4> QED
        BY <1>2, <1>6, <4>1 DEF IsCut
    <3>2. p = last /\ i = cut + k /\ q = last /\ i = cut + l /\ k \in Nat /\ l \in Nat
      BY <1>9, <1>15, <3>1
    <3> QED
      BY <1>2, <3>2
  <2> QED
    BY <2>1, <2>2
<1>16. ASSUME NEW p, NEW k, NEW q, NEW l, NEW b, NEW i, NEW c, NEW j,
              Holds(p, k, b, i)', Holds(q, l, c, j)', b < c
       PROVE  p < q
  <2>1. b \in Nat /\ c \in Nat /\ at \in Nat
    BY <1>2, <1>3, <1>9, <1>16
  <2>2. CASE Holds(p, k, b, i) /\ Holds(q, l, c, j)
    BY <1>2, <1>16, <2>2 DEF CutSoFar
  <2>3. CASE p \in 1..Len(plan) /\ q = last
    BY <1>2, <2>3
  <2>4. CASE p = last /\ b = at
    <3>1. ~IsCut(c, j) /\ c # at
      BY <1>16, <2>1, <2>4 DEF IsCut
    <3> QED
      BY <1>9, <1>16, <3>1
  <2> QED
    BY <1>9, <1>16, <2>2, <2>3, <2>4
<1> QED
  BY <1>1, <1>7, <1>12, <1>13, <1>14, <1>15, <1>16 DEF CutInv, CutSoFar, CutBatch

LEMMA CutInvStep ==
  ASSUME OpsInv, BatchInv, CutInv, [Next]_vars
  PROVE  CutInv'
<1>1. CASE CutBatch
  BY <1>1, CutInvCutBatch
<1>2. CASE FinishSort
  <2>1. /\ plan' = <<>> /\ cut' = 0 /\ at' = 1 /\ batches' = batches /\ stage' \in {"cut", "aborted"}
    BY <1>2 DEF FinishSort, CutInv, kahn
  <2>2. CutSoFar'
    <3>1. Len(batches) \in Nat /\ \A b \in DOMAIN batches : b \in Nat /\ b >= 1
      BY LenProperties DEF BatchInv, Batched
    <3>2. 1 \in 1..(Len(batches) + 1)
      BY <3>1
    <3>3. /\ plan' \in Seq([id : Nat, nodes : Seq(NodesOf(graph'))])
          /\ DOMAIN plan' = {}
      BY <2>1, EmptySeq
    <3>4. ASSUME NEW b \in DOMAIN batches, NEW i \in DOMAIN batches[b], IsCut(b, i)'
          PROVE  FALSE
      <4>1. i \in Nat /\ i >= 1
        <5>1. batches[b] \in Seq(NodesOf(graph))
          BY ElementOfSeq, LenProperties DEF BatchInv, Batched
        <5> QED
          BY <5>1, LenProperties
      <4> QED
        BY <2>1, <3>1, <3>4, <4>1 DEF IsCut
    <3> QED
      BY <2>1, <3>2, <3>3, <3>4 DEF CutSoFar, Holds
  <2> QED
    BY <2>1, <2>2 DEF CutInv
<1>3. CASE FinishPlan
  BY <1>3 DEF FinishPlan, CutInv, CutSoFar, Holds, IsCut, kahn
<1>4. CASE UNCHANGED vars
  BY <1>4 DEF vars, CutInv, CutSoFar, Holds, IsCut, kahn
<1>5. CASE /\ UNCHANGED <<cut, plan>>
           /\ stage \notin {"cut", "planned"} /\ stage' \notin {"cut", "planned"}
  BY <1>5 DEF CutInv
<1>6. Next => \/ CutBatch \/ FinishSort \/ FinishPlan
              \/ /\ UNCHANGED <<cut, plan>>
                 /\ stage \notin {"cut", "planned"} /\ stage' \notin {"cut", "planned"}
  BY DEF Next, CreateOperations, AddNode, WireOperation, Wiring, DetectForOperation, AddEdge,
         StartPhasing, AddBarrier, StartSort, QueueRoots, SortNode
<1> QED
  BY <1>1, <1>2, <1>3, <1>4, <1>5, <1>6

-----------------------------------------------------------------------------
(***************************************************************************)
(* The inductive invariant                                                 *)
(***************************************************************************)
PlanningInv == OpsInv /\ NodesInv /\ AcyclicInv /\ PhaseInv /\ SortInv /\ BatchInv /\ CutInv

LEMMA InductiveInvariant == Spec => []PlanningInv
<1>1. Init => PlanningInv
  <2> SUFFICES ASSUME Init PROVE PlanningInv
    OBVIOUS
  <2>1. OpsInv /\ NodesInv /\ AcyclicInv /\ SortInv /\ BatchInv /\ CutInv
    BY OpsInvInit, NodesInvInit, AcyclicInit, SortInvInit, BatchInvInit, CutInvInit
  <2>2. NoPhase
    BY DEF Init, NoPhase
  <2> QED
    BY <2>1, <2>2, NoBarrier DEF PlanningInv
<1>2. PlanningInv /\ [Next]_vars => PlanningInv'
  <2> SUFFICES ASSUME PlanningInv, [Next]_vars PROVE PlanningInv'
    OBVIOUS
  <2> USE DEF PlanningInv
  <2>1. OpsInv'
    BY OpsInvStep
  <2>2. NodesInv'
    BY <2>1, NodesInvStep
  <2>3. AcyclicInv'
    BY AcyclicStep
  <2>4. PhaseInv'
    BY <2>1, <2>2, PhaseInvStep
  <2>5. SortInv'
    BY SortInvStep
  <2>6. BatchInv'
    BY <2>5, BatchInvStep
  <2>7. CutInv'
    BY CutInvStep
  <2> QED
    BY <2>1, <2>2, <2>3, <2>4, <2>5, <2>6, <2>7
<1> QED
  BY <1>1, <1>2, PTL DEF Spec

-----------------------------------------------------------------------------
(***************************************************************************)
(* The places of the nodes in a finished plan                              *)
(***************************************************************************)
LEMMA EveryNodeHasOnePlace ==
  ASSUME PlanningInv, Planned, NEW n \in NodesOf(graph)
  PROVE  \E b, i, p, k : Holds(p, k, b, i) /\ batches[b][i] = n /\ Places(n) = {<<p, k>>}
<1>1. CutSoFar /\ Once /\ Batched /\ at > Len(batches) /\ ToSet(sorted) = NodesOf(graph)
  BY DEF PlanningInv, Planned, CutInv, BatchInv, Batched, SortInv
<1>2. PICK b \in DOMAIN batches : n \in ToSet(batches[b])
  BY <1>1 DEF Batched
<1>3. PICK i \in DOMAIN batches[b] : batches[b][i] = n
  BY <1>2 DEF ToSet
<1>4. IsCut(b, i)
  <2>1. DOMAIN batches = 1..Len(batches) /\ Len(batches) \in Nat /\ at \in Nat
    BY <1>1, LenProperties DEF Batched, CutSoFar
  <2> QED
    BY <1>1, <1>2, <2>1 DEF IsCut
<1>5. PICK p, k : Holds(p, k, b, i)
  BY <1>1, <1>3, <1>4 DEF CutSoFar
<1>6. <<p, k>> \in Places(n)
  BY <1>3, <1>5 DEF Places, Holds
<1>7. ASSUME NEW x \in Places(n) PROVE x = <<p, k>>
  <2>1. PICK q \in DOMAIN plan : x \in {q} \X DOMAIN plan[q].nodes
    BY DEF Places
  <2>2. PICK l \in DOMAIN plan[q].nodes : x = <<q, l>> /\ plan[q].nodes[l] = n
    BY <2>1 DEF Places
  <2>3. Holds(q, l, b, i)
    BY <1>3, <1>5, <2>2 DEF Holds
  <2> QED
    BY <1>1, <1>5, <2>2, <2>3 DEF CutSoFar
<1>8. Places(n) = {<<p, k>>}
  BY <1>6, <1>7
<1> QED
  BY <1>3, <1>5, <1>8

LEMMA OnlyPlace ==
  ASSUME NEW n, NEW p, NEW k, Places(n) = {<<p, k>>}
  PROVE  BatchAt(n) = p
<1> DEFINE c == CHOOSE x \in Places(n) : TRUE
<1>1. <<p, k>> \in Places(n) /\ \A x \in Places(n) : x = <<p, k>>
  OBVIOUS
<1>2. c \in Places(n)
  BY <1>1
<1>3. BatchAt(n) = c[1]
  BY DEF BatchAt
<1> HIDE DEF c
<1> QED
  BY <1>1, <1>2, <1>3

LEMMA DependenciesEarlier ==
  ASSUME PlanningInv, Planned, NEW n \in NodesOf(graph), NEW d \in graph.deps[n]
  PROVE  Earlier(d, n)
<1>1. CutSoFar /\ Once /\ Batched /\ GraphOK(graph)
  BY DEF PlanningInv, Planned, CutInv, BatchInv, Batched, NodesInv
<1>2. d \in NodesOf(graph)
  BY <1>1, GraphType
<1>3. PICK b, i, p, k : Holds(p, k, b, i) /\ batches[b][i] = n /\ Places(n) = {<<p, k>>}
  BY EveryNodeHasOnePlace
<1>4. PICK c, j, q, l : Holds(q, l, c, j) /\ batches[c][j] = d /\ Places(d) = {<<q, l>>}
  BY <1>2, EveryNodeHasOnePlace
<1>5. c < b
  <2>1. b \in DOMAIN batches /\ n \in ToSet(batches[b])
    BY <1>3 DEF Holds, ToSet
  <2>2. PICK e \in DOMAIN batches : e < b /\ d \in ToSet(batches[e])
    BY <1>1, <2>1 DEF Batched
  <2>3. PICK m \in DOMAIN batches[e] : batches[e][m] = d
    BY <2>2 DEF ToSet
  <2>4. c \in DOMAIN batches /\ j \in DOMAIN batches[c]
    BY <1>4 DEF Holds
  <2> QED
    BY <1>1, <1>4, <2>2, <2>3, <2>4 DEF Once
<1>6. q < p
  BY <1>1, <1>3, <1>4, <1>5 DEF CutSoFar
<1>7. BatchAt(n) = p /\ BatchAt(d) = q
  BY <1>3, <1>4, OnlyPlace
<1> QED
  BY <1>6, <1>7 DEF Earlier

LEMMA EarlierBatches ==
  ASSUME PlanningInv, Planned, NEW n \in NodesOf(graph)
  PROVE  BatchAt(n) \in Nat
<1>1. PICK b, i, p, k : Holds(p, k, b, i) /\ batches[b][i] = n /\ Places(n) = {<<p, k>>}
  BY EveryNodeHasOnePlace
<1>2. BatchAt(n) = p
  BY <1>1, OnlyPlace
<1>3. plan \in Seq([id : Nat, nodes : Seq(NodesOf(graph))])
  BY DEF PlanningInv, Planned, CutInv, CutSoFar
<1> QED
  BY <1>1, <1>2, <1>3, LenProperties DEF Holds

\* Whatever order the sort meets its sets in and however batches are split,
\* every operation of the file and every barrier is in the plan exactly once,
\* in a later batch than everything it depends on (get_execution_batches(),
\* create_plan()).
THEOREM ThePlanFollowsTheGraph == Spec => []PlanFollowsTheGraph
<1>1. PlanningInv => PlanFollowsTheGraph
  <2> SUFFICES ASSUME PlanningInv, Planned
               PROVE  /\ \A i \in DOMAIN ops : NodeId(ops[i]) \in NodesOf(graph)
                      /\ \A n \in NodesOf(graph) :
                           /\ Cardinality(Places(n)) = 1
                           /\ \A d \in graph.deps[n] : Earlier(d, n)
    BY DEF PlanFollowsTheGraph
  <2>1. \A i \in DOMAIN ops : NodeId(ops[i]) \in NodesOf(graph)
    BY OpsType DEF PlanningInv, Planned, NodesInv, Added
  <2>2. ASSUME NEW n \in NodesOf(graph) PROVE Cardinality(Places(n)) = 1
    BY EveryNodeHasOnePlace, FS_Singleton
  <2> QED
    BY <2>1, <2>2, DependenciesEarlier
<1> QED
  BY <1>1, InductiveInvariant, PTL

-----------------------------------------------------------------------------
(***************************************************************************)
(* The order of the phases                                                 *)
(***************************************************************************)
LEMMA PhaseOfOperation ==
  ASSUME OpsInv, NEW i \in DOMAIN ops
  PROVE  PhaseOf(ops[i].row) \in PhaseSteps /\ NodeId(ops[i]) \in Members(PhaseOf(ops[i].row))
<1> DEFINE r == ops[i].row
<1>1. stage # "create" /\ i \in DOMAIN file /\ r = file[i] /\ file \in Files
  <2>1. CASE stage = "create"
    BY <2>1, EmptySeq DEF OpsInv
  <2> QED
    BY <2>1 DEF OpsInv
<1>2. \E s \in PhaseSteps : r.type \in PhaseTypes(s) /\ r.action \in PhaseActions(s)
  BY <1>1, FileAssumption
<1>3. /\ PhaseOf(r) \in PhaseSteps
      /\ r.type \in PhaseTypes(PhaseOf(r)) /\ r.action \in PhaseActions(PhaseOf(r))
  BY <1>2 DEF PhaseOf
<1> QED
  BY <1>3 DEF Members

LEMMA EarlierTransitive ==
  ASSUME PlanningInv, Planned, NEW a \in NodesOf(graph), NEW b \in NodesOf(graph),
         NEW c \in NodesOf(graph), Earlier(a, b), Earlier(b, c)
  PROVE  Earlier(a, c)
BY EarlierBatches DEF Earlier

\* By induction over the later phase: its operations wait for a barrier that waits
\* for the operations of a phase in between, or of the earlier phase itself.
LEMMA PhaseAfterPhase ==
  ASSUME PlanningInv, Planned, NEW s \in PhaseSteps, NEW n \in Members(s)
  PROVE  \A t \in PhaseSteps : s < t => \A m \in Members(t) : Earlier(n, m)
<1> DEFINE T == {t \in PhaseSteps : s < t /\ \E m \in Members(t) : ~Earlier(n, m)}
<1>1. T \subseteq Nat
  BY PhaseStepsType
<1>2. SUFFICES ASSUME T # {} PROVE FALSE
  OBVIOUS
<1> HIDE DEF T
<1>3. PICK t \in T : \A u \in T : ~(<<u, t>> \in OpToRel(<, Nat))
  BY <1>1, <1>2, WFMin, NatLessThanWellFounded
<1>4. \A u \in T : ~(u < t)
  BY <1>1, <1>3 DEF OpToRel
<1>5. t \in PhaseSteps /\ s < t
  BY DEF T
<1>6. PICK m \in Members(t) : ~Earlier(n, m)
  BY DEF T
<1>7. /\ OpsInv /\ NodesInv /\ GraphOK(graph) /\ Held /\ Linked
      /\ \A v \in PhaseSteps : v > barrier => Members(v) = {}
      /\ \A i \in DOMAIN ops : NodeId(ops[i]) \in NodesOf(graph)
  BY OpsType DEF PlanningInv, Planned, PhaseInv, NodesInv, Added
<1>8. \A v : Members(v) \subseteq NodesOf(graph)
  BY <1>7 DEF Members
<1>9. t <= barrier
  <2>1. barrier \in Nat /\ t \in Nat
    <3>1. barrier \in {0} \cup PhaseSteps
      BY <1>7 DEF NodesInv
    <3> QED
      BY <1>5, <3>1, PhaseStepsType
  <2>2. ~(t > barrier)
    BY <1>5, <1>6, <1>7
  <2> QED
    BY <2>1, <2>2
<1>10. PICK u \in PhaseSteps : /\ s <= u /\ u < t /\ Members(u) # {}
                               /\ Barrier(u) \in graph.deps[m]
  BY <1>5, <1>6, <1>7, <1>9 DEF Linked
<1>11. m \in NodesOf(graph) /\ Barrier(u) \in NodesOf(graph) /\ n \in NodesOf(graph)
  BY <1>6, <1>7, <1>8, <1>10, GraphType
<1>12. graph.deps[Barrier(u)] = Members(u)
  BY <1>7, <1>11 DEF Held
<1>13. Earlier(Barrier(u), m)
  BY <1>10, <1>11, DependenciesEarlier
<1>14. Earlier(n, Barrier(u))
  <2>1. CASE u = s
    BY <1>11, <1>12, <2>1, DependenciesEarlier
  <2>2. CASE u # s
    <3>1. u \notin T /\ s < u
      BY <1>4, <1>10, <2>2, PhaseStepsType
    <3>2. PICK k \in Members(u) : Earlier(n, k)
      BY <1>10, <3>1 DEF T
    <3>3. Earlier(k, Barrier(u)) /\ k \in NodesOf(graph)
      BY <1>8, <1>11, <1>12, <3>2, DependenciesEarlier
    <3> QED
      BY <1>11, <3>2, <3>3, EarlierTransitive
  <2> QED
    BY <2>1, <2>2
<1> QED
  BY <1>6, <1>11, <1>13, <1>14, EarlierTransitive

\* Barriers serialise the import: whatever the graph is and however the plan is cut,
\* all deletions are in earlier batches than every create and update, and the
\* phases keep their order, also across phases without operations (_apply_phasing()).
THEOREM ThePhasesAreInOrder == Spec => []PhasesInOrder
<1>1. PlanningInv => PhasesInOrder
  <2> SUFFICES ASSUME PlanningInv, Planned, NEW i \in DOMAIN ops, NEW j \in DOMAIN ops,
                      PhaseOf(ops[i].row) < PhaseOf(ops[j].row)
               PROVE  Earlier(NodeId(ops[i]), NodeId(ops[j]))
    BY DEF PhasesInOrder
  <2> QED
    BY PhaseOfOperation, PhaseAfterPhase DEF PlanningInv
<1> QED
  BY <1>1, InductiveInvariant, PTL

\* The search for a cycle from the nodes that get new edges is enough: no graph that
\* is built has one, and the sort that follows never raises CyclicDependencyError.
THEOREM TheSortNeverFails == Spec => [][FinishSort => stage' = "cut"]_vars
<1>1. PlanningInv /\ [Next]_vars => [FinishSort => stage' = "cut"]_vars
  <2> SUFFICES ASSUME PlanningInv, FinishSort PROVE stage' = "cut"
    OBVIOUS
  <2> QED
    BY AllSorted DEF PlanningInv, FinishSort
<1> QED
  BY <1>1, InductiveInvariant, PTL DEF Spec

-----------------------------------------------------------------------------
(***************************************************************************)
(* Where a row is in the order of the phases                               *)
(***************************************************************************)
Levels == 1..9
Level(type) == CHOOSE k \in Levels : type \in PhaseOrder[k]

LEMMA LevelsDiffer ==
  ASSUME NEW j \in Levels, NEW k \in Levels, NEW t, t \in PhaseOrder[j], t \in PhaseOrder[k]
  PROVE  j = k
<1>1. /\ k = 1 \/ k = 2 \/ k = 3 \/ k = 4 \/ k = 5 \/ k = 6 \/ k = 7 \/ k = 8 \/ k = 9
      /\ j = 1 \/ j = 2 \/ j = 3 \/ j = 4 \/ j = 5 \/ j = 6 \/ j = 7 \/ j = 8 \/ j = 9
  BY DEF Levels
<1> QED
  BY <1>1 DEF PhaseOrder

LEMMA LevelIs ==
  ASSUME NEW k \in Levels, NEW t \in PhaseOrder[k]
  PROVE  Level(t) = k
BY LevelsDiffer DEF Level

\* The phase of a deletion counts down, that of the rest up.
LEMMA PhaseLevels ==
  ASSUME NEW s \in PhaseSteps
  PROVE  \/ \E k \in Levels : /\ s = 10 - k /\ PhaseTypes(s) = PhaseOrder[k]
                              /\ PhaseActions(s) = {"delete"}
         \/ \E k \in Levels : /\ s = 9 + k /\ PhaseTypes(s) = PhaseOrder[k]
                              /\ PhaseActions(s) = {"create", "update"}
<1>1. Phases = 9 /\ s \in 1..18
  BY PhaseStepsType
<1>2. CASE s <= 9
  <2>1. /\ 10 - s \in Levels /\ s = 10 - (10 - s) /\ PhaseTypes(s) = PhaseOrder[10 - s]
        /\ PhaseActions(s) = {"delete"}
    BY <1>1, <1>2 DEF PhaseTypes, PhaseActions, Levels
  <2> QED
    BY <2>1
<1>3. CASE ~(s <= 9)
  <2>1. /\ s - 9 \in Levels /\ s = 9 + (s - 9) /\ PhaseTypes(s) = PhaseOrder[s - 9]
        /\ PhaseActions(s) = {"create", "update"}
    BY <1>1, <1>3 DEF PhaseTypes, PhaseActions, Levels
  <2> QED
    BY <2>1
<1> QED
  BY <1>2, <1>3

LEMMA PhaseIs ==
  ASSUME NEW r, NEW s \in PhaseSteps, r.type \in PhaseTypes(s), r.action \in PhaseActions(s)
  PROVE  /\ PhaseOf(r) = s
         /\ Level(r.type) \in Levels
         /\ \/ r.action = "delete" /\ s = 10 - Level(r.type)
            \/ r.action \in {"create", "update"} /\ s = 9 + Level(r.type)
<1>1. ASSUME NEW t \in PhaseSteps, r.type \in PhaseTypes(t), r.action \in PhaseActions(t)
      PROVE  /\ Level(r.type) \in Levels
             /\ \/ r.action = "delete" /\ t = 10 - Level(r.type)
                \/ r.action \in {"create", "update"} /\ t = 9 + Level(r.type)
  BY <1>1, PhaseLevels, LevelIs
<1>2. PhaseOf(r) \in PhaseSteps /\ r.type \in PhaseTypes(PhaseOf(r))
      /\ r.action \in PhaseActions(PhaseOf(r))
  BY DEF PhaseOf
<1>3. /\ Level(r.type) \in Levels
      /\ \/ r.action = "delete" /\ PhaseOf(r) = 10 - Level(r.type)
         \/ r.action \in {"create", "update"} /\ PhaseOf(r) = 9 + Level(r.type)
  BY <1>1, <1>2
<1>4. /\ \/ r.action = "delete" /\ s = 10 - Level(r.type)
         \/ r.action \in {"create", "update"} /\ s = 9 + Level(r.type)
  BY <1>1
<1> QED
  BY <1>3, <1>4

PhaseFits(r) ==
  /\ Level(r.type) \in Levels
  /\ \/ r.action = "delete" /\ PhaseOf(r) = 10 - Level(r.type)
     \/ r.action \in {"create", "update"} /\ PhaseOf(r) = 9 + Level(r.type)

LEMMA OperationFits ==
  ASSUME OpsInv, NEW i \in DOMAIN ops
  PROVE  PhaseFits(ops[i].row)
<1> DEFINE r == ops[i].row
<1>1. stage # "create" /\ i \in DOMAIN file /\ r = file[i] /\ file \in Files
  <2>1. CASE stage = "create"
    BY <2>1, EmptySeq DEF OpsInv
  <2> QED
    BY <2>1 DEF OpsInv
<1>2. PICK s \in PhaseSteps : r.type \in PhaseTypes(s) /\ r.action \in PhaseActions(s)
  BY <1>1, FileAssumption
<1> HIDE DEF r
<1>3. PhaseFits(r)
  BY <1>2, PhaseIs DEF PhaseFits
<1> QED
  BY <1>3 DEF r

\* Waiting along the levels is waiting along the phases, but for a deletion.
LEMMA LevelsAndPhases ==
  ASSUME NEW a, PhaseFits(a), NEW b, PhaseFits(b), a.action # "delete",
         Level(b.type) <= Level(a.type)
  PROVE  /\ PhaseOf(b) <= PhaseOf(a)
         /\ Level(b.type) < Level(a.type) => PhaseOf(b) < PhaseOf(a)
         /\ b.action # "delete" /\ Level(b.type) = Level(a.type) => PhaseOf(b) = PhaseOf(a)
BY DEF PhaseFits, Levels

-----------------------------------------------------------------------------
(***************************************************************************)
(* What a row is made to wait for                                          *)
(***************************************************************************)
\* A builder defers at most one id per slot, that of a pending resource; the key of
\* a zone may be the name of another one.
Pends(c, d, key) ==
    /\ IsPend(c, d.slot, key) /\ d.row = PendingRow(c.pending, d.slot, key)
    /\ d.slot # "zone" => d.key = key
Made(c, outcome, slots) ==
    /\ \A d \in outcome.deferred : d.slot \in slots /\ \E key : Pends(c, d, key)
    /\ \A d, e \in outcome.deferred : d.slot = e.slot => d = e

LEMMA NothingMade ==
  ASSUME NEW c, NEW slots, NEW outcome, outcome.deferred = {}
  PROVE  Made(c, outcome, slots)
BY DEF Made

LEMMA SimpleMade ==
  ASSUME NEW c, NEW slots
  PROVE  /\ Made(c, Nothing, slots) /\ Made(c, Raise, slots)
         /\ \A slot : Made(c, Got(slot), slots)
BY NothingMade DEF Nothing, Raise, Got

LEMMA DeferMade ==
  ASSUME NEW c, NEW slot, NEW key, IsPend(c, slot, key)
  PROVE  Made(c, Defer(c, slot, key), {slot})
<1>1. Defer(c, slot, key).deferred
        = {[slot |-> slot, key |-> key, row |-> PendingRow(c.pending, slot, key)]}
  BY DEF Defer, Nothing
<1> QED
  BY <1>1 DEF Made, Pends

LEMMA BothMade ==
  ASSUME NEW c, NEW a, NEW b, NEW A, NEW B, Made(c, a, A), Made(c, b, B),
         A \cap B = {}, NEW C, A \subseteq C, B \subseteq C
  PROVE  Made(c, Both(a, b), C)
<1>1. CASE a.error
  BY <1>1 DEF Both, Made
<1>2. CASE ~a.error
  <2>1. Both(a, b).deferred = a.deferred \cup b.deferred
    BY <1>2 DEF Both
  <2>2. \A d \in a.deferred \cup b.deferred : d.slot \in C /\ \E key : Pends(c, d, key)
    BY DEF Made
  <2>3. \A d, e \in a.deferred \cup b.deferred : d.slot = e.slot => d = e
    BY DEF Made
  <2> QED
    BY <2>1, <2>2, <2>3 DEF Made
<1> QED
  BY <1>1, <1>2

LEMMA MoreMade ==
  ASSUME NEW c, NEW a, NEW A, NEW B, Made(c, a, A), A \subseteq B
  PROVE  Made(c, a, B)
BY DEF Made

\* The slots of each type of row.
Slots(type) ==
    CASE type = "ip4_block" -> {"location"}
      [] type \in {"ip6_block", "ip4_network", "ip6_network"} -> {"block", "location"}
      [] type \in {"ip4_address", "ip6_address"} -> {"network", "location"}
      [] type \in {"ipv4_dhcp_range", "ipv6_dhcp_range", "dhcpv4_client_deployment_option",
                   "dhcpv4_service_deployment_option"} -> {"network"}
      [] type = "dns_zone" -> {"location"}
      [] type \in DnsTypes \ {"dns_zone"} -> {"zone", "location"}
      [] type \in RoleTypes -> {"network", "block", "zone"}
      [] type = "location" -> {"location"}
      [] type = "device_subtype" -> {"device_type"}
      [] type = "device" -> {"device_type", "device_subtype"}
      [] type = "device_address" -> {"device"}
      [] OTHER -> {}

LEMMA LocationCodeMade ==
  ASSUME NEW c, NEW r
  PROVE  Made(c, LocationCode(c, r), {"location"})
BY SimpleMade, DeferMade DEF LocationCode, Lookup

\* Every payload ends with the location.
LEMMA WithLocation ==
  ASSUME NEW c, NEW r, NEW a, NEW A, Made(c, a, A), "location" \notin A
  PROVE  Made(c, Both(a, LocationCode(c, r)), A \cup {"location"})
<1>1. A \cap {"location"} = {} /\ A \subseteq A \cup {"location"}
      /\ {"location"} \subseteq A \cup {"location"}
  OBVIOUS
<1> QED
  BY <1>1, BothMade, LocationCodeMade

LEMMA Ip4BlockMade ==
  ASSUME NEW c, NEW r
  PROVE  Made(c, Ip4BlockPayload(c, r), {"location"})
<1> DEFINE a == IF r.parent = None THEN Nothing
                ELSE Require("block", ResolvesBlock(c, r.parent, "ip4_block"))
<1>1. Made(c, a, {})
  BY SimpleMade DEF Require
<1>2. Ip4BlockPayload(c, r) = Both(a, LocationCode(c, r))
  BY DEF Ip4BlockPayload
<1> HIDE DEF a
<1>3. {} \cup {"location"} = {"location"}
  OBVIOUS
<1> QED
  BY <1>1, <1>2, <1>3, WithLocation

LEMMA Ip6BlockMade ==
  ASSUME NEW c, NEW r
  PROVE  Made(c, Ip6BlockPayload(c, r), {"block", "location"})
<1> DEFINE a == CASE r.parent = None -> Nothing
                  [] r.parent # None /\ Len(r.parent) = 1 /\ IsPend(c, "block", r.parent[1])
                       -> Defer(c, "block", r.parent[1])
                  [] OTHER -> Lookup("block", ResolvesBlock(c, r.parent, "ip4_block"))
<1>1. Made(c, a, {"block"})
  BY SimpleMade, DeferMade DEF Lookup
<1>2. Ip6BlockPayload(c, r) = Both(a, LocationCode(c, r))
  BY DEF Ip6BlockPayload
<1> HIDE DEF a
<1>3. {"block"} \cup {"location"} = {"block", "location"}
  OBVIOUS
<1> QED
  BY <1>1, <1>2, <1>3, WithLocation


LEMMA Ip6NetworkMade ==
  ASSUME NEW c, NEW r
  PROVE  Made(c, Ip6NetworkPayload(c, r), {"block", "location"})
<1> DEFINE path == IF r.config # None /\ r.parent # None /\ r.parent[1] # r.config
                   THEN <<r.config>> \o r.parent ELSE r.parent
           a == CASE r.parent = None -> Nothing
                  [] r.parent # None /\ Len(r.parent) = 1 /\ IsPend(c, "block", r.parent[1])
                       -> Defer(c, "block", r.parent[1])
                  [] OTHER -> Lookup("block", ResolvesBlock(c, path, "ip6_block"))
<1>1. Made(c, a, {"block"})
  <2> HIDE DEF path
  <2> QED
    BY SimpleMade, DeferMade DEF Lookup
<1>2. Ip6NetworkPayload(c, r) = Both(a, LocationCode(c, r))
  BY DEF Ip6NetworkPayload
<1> HIDE DEF a, path
<1>3. {"block"} \cup {"location"} = {"block", "location"}
  OBVIOUS
<1> QED
  BY <1>1, <1>2, <1>3, WithLocation

\* What the maps of pending resources are like.
PendingOK(pending) ==
    \A kind \in Kinds : /\ DOMAIN pending[kind] \subseteq Nat
                        /\ \A i \in DOMAIN pending[kind] : PendingKind(pending[kind][i].type) = kind

LEMMA FirstIsThere ==
  ASSUME NEW A \in SUBSET Nat, A # {}
  PROVE  (CHOOSE i \in A : \A j \in A : i <= j) \in A
<1>1. PICK i \in A : \A j \in A : ~(<<j, i>> \in OpToRel(<, Nat))
  BY WFMin, NatLessThanWellFounded
<1>2. i \in Nat /\ \A j \in A : j \in Nat /\ ~(j < i)
  BY <1>1 DEF OpToRel
<1>3. \A j \in A : i <= j
  BY <1>2
<1> QED
  BY <1>3

\* A block or network found by what it covers is pending under its name.
LEMMA CoveringPends ==
  ASSUME NEW c, PendingOK(c.pending), NEW name
  PROVE  /\ FindContainingPendingBlock(c.pending, name) # None =>
              IsPend(c, "block", FindContainingPendingBlock(c.pending, name))
         /\ FindContainingPendingNetwork(c.pending, name) # None =>
              IsPend(c, "network", FindContainingPendingNetwork(c.pending, name))
<1>1. ASSUME NEW kind \in {"block", "network"}, Covering(c.pending, kind, name) # {}
      PROVE  LET i == CHOOSE i \in Covering(c.pending, kind, name) :
                        \A j \in Covering(c.pending, kind, name) : i <= j
             IN  IsPend(c, kind, c.pending[kind][i].name)
  <2> DEFINE A == Covering(c.pending, kind, name)
             i == CHOOSE i \in A : \A j \in A : i <= j
  <2>1. A \in SUBSET DOMAIN c.pending[kind] /\ kind \in Kinds
    BY DEF Covering, Kinds
  <2>2. A \in SUBSET Nat /\ A # {}
    BY <1>1, <2>1 DEF PendingOK
  <2> HIDE DEF A
  <2>3. i \in A
    BY <2>2, FirstIsThere
  <2> HIDE DEF i
  <2>4. i \in DOMAIN c.pending[kind] /\ PendingKind(c.pending[kind][i].type) = kind
    BY <2>1, <2>3 DEF PendingOK
  <2>5. PendingKind("device") = "device" /\ kind # "device"
    BY DEF PendingKind
  <2>6. PendingKey(c.pending[kind][i]) = c.pending[kind][i].name
    BY <2>4, <2>5 DEF PendingKey
  <2> QED
    BY <2>4, <2>6 DEF IsPend, IsPending, i, A
<1> QED
  BY <1>1 DEF FindContainingPendingBlock, FindContainingPendingNetwork

LEMMA Ip4NetworkMade ==
  ASSUME NEW c, PendingOK(c.pending), NEW r
  PROVE  Made(c, Ip4NetworkPayload(c, r), {"block", "location"})
<1> DEFINE a == CASE r.parent # None                     -> NetworkParentPath(c, r)
                  [] r.parent = None /\ r.config # None -> AutoDiscoverNetworkParent(c, r)
                  [] OTHER                               -> Nothing
<1>1. Made(c, NetworkParentPath(c, r), {"block"})
  BY SimpleMade, DeferMade DEF NetworkParentPath, Require
<1>2. Made(c, AutoDiscoverNetworkParent(c, r), {"block"})
  BY SimpleMade, DeferMade, CoveringPends DEF AutoDiscoverNetworkParent, Require
<1>3. Made(c, a, {"block"})
  BY <1>1, <1>2, SimpleMade
<1>4. Ip4NetworkPayload(c, r) = Both(a, LocationCode(c, r))
  BY DEF Ip4NetworkPayload
<1> HIDE DEF a
<1>5. {"block"} \cup {"location"} = {"block", "location"}
  OBVIOUS
<1> QED
  BY <1>3, <1>4, <1>5, WithLocation

LEMMA AutoDiscoverMade ==
  ASSUME NEW c, PendingOK(c.pending), NEW address
  PROVE  Made(c, AutoDiscoverAddressNetwork(c, address), {"network"})
BY SimpleMade, DeferMade, CoveringPends DEF AutoDiscoverAddressNetwork, Lookup

LEMMA AddressMade ==
  ASSUME NEW c, PendingOK(c.pending), NEW r
  PROVE  /\ Made(c, Ip4AddressPayload(c, r), {"network", "location"})
         /\ Made(c, Ip6AddressPayload(c, r), {"network", "location"})
<1> DEFINE byPath == IF r.parent = None THEN Nothing
                     ELSE Lookup("network",
                                 ResolvesNetwork(c, r.parent, "ip4_block", "ip4_network"))
           a4 == IF r.config = None \/ byPath.ids # {} THEN byPath
                 ELSE AutoDiscoverAddressNetwork(c, r.name)
           a6 == IF r.config = None THEN Nothing ELSE AutoDiscoverAddressNetwork(c, r.name)
<1>1. Made(c, byPath, {"network"})
  BY SimpleMade DEF Lookup
<1>2. Ip4AddressPayload(c, r) = Both(a4, LocationCode(c, r))
  BY DEF Ip4AddressPayload
<1> HIDE DEF byPath
<1>3. Made(c, a4, {"network"}) /\ Made(c, a6, {"network"})
  BY <1>1, SimpleMade, AutoDiscoverMade
<1>4. Ip6AddressPayload(c, r) = Both(a6, LocationCode(c, r))
  BY DEF Ip6AddressPayload
<1> HIDE DEF a4, a6
<1>5. {"network"} \cup {"location"} = {"network", "location"}
  OBVIOUS
<1> QED
  BY <1>2, <1>3, <1>4, <1>5, WithLocation

LEMMA RangeMade ==
  ASSUME NEW c, PendingOK(c.pending), NEW r
  PROVE  Made(c, DhcpRangePayload(c, r), {"network"})
BY SimpleMade, DeferMade, AutoDiscoverMade DEF DhcpRangePayload, Lookup

LEMMA NestedZoneMade ==
  ASSUME NEW c, NEW zone
  PROVE  Made(c, NestedZone(c, zone), {"zone"})
<1> DEFINE hit(i) == \/ IsPend(c, "zone", ParentZone(zone, i))
                     \/ /\ Found(c, "dns_zone", ParentZone(zone, i))
                        /\ Found(c, "dns_zone", ParentZone(zone, i - 1))
           hits == {i \in Parents(zone) : hit(i)}
           parent == ParentZone(zone, CHOOSE j \in hits : \A k \in hits : j <= k)
           held == [Nothing EXCEPT !.deferred =
                      {[slot |-> "zone", key |-> zone,
                        row |-> PendingRow(c.pending, "zone", parent)]}]
<1>1. NestedZone(c, zone) = IF hits = {} THEN Nothing
                            ELSE IF IsPend(c, "zone", parent) THEN held
                            ELSE Got("zone")
  BY DEF NestedZone
<1> HIDE DEF hits, parent
<1>2. held.deferred = {[slot |-> "zone", key |-> zone,
                        row |-> PendingRow(c.pending, "zone", parent)]}
  BY DEF Nothing
<1> HIDE DEF held
<1>3. IsPend(c, "zone", parent) => Made(c, held, {"zone"})
  BY <1>2 DEF Made, Pends
<1> QED
  BY <1>1, <1>3, SimpleMade

LEMMA ZoneFromFqdnMade ==
  ASSUME NEW c, NEW name
  PROVE  Made(c, ZoneFromFqdn(c, name), {"zone"})
<1> DEFINE hit(i) == \/ IsPend(c, "zone", ParentZone(name, i))
                     \/ Found(c, "dns_zone", ParentZone(name, i))
           hits == {i \in {1} \cup Parents(name) : hit(i)}
           zone == ParentZone(name, CHOOSE j \in hits : \A k \in hits : j <= k)
<1>1. ZoneFromFqdn(c, name) = IF Len(name) < 2 \/ hits = {} THEN Nothing
                              ELSE IF IsPend(c, "zone", zone) THEN Defer(c, "zone", zone)
                              ELSE Got("zone")
  BY DEF ZoneFromFqdn
<1> HIDE DEF hits, zone
<1> QED
  BY <1>1, SimpleMade, DeferMade

LEMMA RecordZoneMade ==
  ASSUME NEW c, NEW r
  PROVE  Made(c, RecordZone(c, r), {"zone"})
BY SimpleMade, DeferMade, NestedZoneMade, ZoneFromFqdnMade DEF RecordZone

LEMMA DnsMade ==
  ASSUME NEW c, NEW r
  PROVE  /\ Made(c, DnsPayload(c, r), {"zone", "location"})
         /\ r.type = "dns_zone" => Made(c, DnsPayload(c, r), {"location"})
<1> DEFINE a == CASE r.view = None \/ r.config = None -> Nothing
                  [] r.view # None /\ r.config # None /\ ~Found(c, "view", r.view) -> Raise
                  [] OTHER -> IF r.type = "dns_zone" THEN Nothing ELSE RecordZone(c, r)
<1>1. Made(c, a, {"zone"}) /\ (r.type = "dns_zone" => Made(c, a, {}))
  BY SimpleMade, RecordZoneMade
<1>2. DnsPayload(c, r) = Both(a, LocationCode(c, r))
  BY DEF DnsPayload
<1> HIDE DEF a
<1>3. {"zone"} \cup {"location"} = {"zone", "location"} /\ {} \cup {"location"} = {"location"}
  OBVIOUS
<1> QED
  BY <1>1, <1>2, <1>3, WithLocation

LEMMA RoleParentsMade ==
  ASSUME NEW c, NEW r
  PROVE  /\ Made(c, RoleNetwork(c, r), {"network"})
         /\ Made(c, RoleBlock(c, r), {"block"})
         /\ Made(c, RoleZone(c, r), {"zone"})
BY SimpleMade, DeferMade DEF RoleNetwork, RoleBlock, RoleZone, Lookup

LEMMA RoleMade ==
  ASSUME NEW c, NEW r
  PROVE  Made(c, DeploymentRolePayload(c, r), {"network", "block", "zone"})
<1> DEFINE n == IF r.path = None THEN Nothing ELSE RoleNetwork(c, r)
           b == IF r.parent = None THEN Nothing ELSE RoleBlock(c, r)
           z == IF r.zone = None THEN Nothing ELSE RoleZone(c, r)
<1>1. Made(c, n, {"network"}) /\ Made(c, b, {"block"}) /\ Made(c, z, {"zone"})
  BY SimpleMade, RoleParentsMade
<1>2. DeploymentRolePayload(c, r) = IF r.config = None THEN Nothing ELSE Both(n, Both(b, z))
  BY DEF DeploymentRolePayload
<1> HIDE DEF n, b, z
<1>3. Made(c, Both(b, z), {"block", "zone"})
  BY <1>1, BothMade
<1>4. Made(c, Both(n, Both(b, z)), {"network", "block", "zone"})
  BY <1>1, <1>3, BothMade
<1> QED
  BY <1>2, <1>4, SimpleMade

LEMMA OptionMade ==
  ASSUME NEW c, NEW r
  PROVE  Made(c, DeploymentOptionPayload(c, r), {"network"})
BY SimpleMade, RoleParentsMade DEF DeploymentOptionPayload

LEMMA LocationMade ==
  ASSUME NEW c, NEW r
  PROVE  Made(c, LocationPayload(c, r), {"location"})
BY SimpleMade, DeferMade DEF LocationPayload, Require

LEMMA DeviceTypeMade ==
  ASSUME NEW c, NEW r
  PROVE  /\ Made(c, DeviceTypeOf(c, r), {"device_type"})
         /\ Made(c, DeviceSubtypePayload(c, r), {"device_type"})
BY SimpleMade, DeferMade DEF DeviceTypeOf, DeviceSubtypePayload, Lookup

LEMMA DeviceMade ==
  ASSUME NEW c, NEW r
  PROVE  Made(c, DevicePayload(c, r), {"device_type", "device_subtype"})
<1> DEFINE type == DeviceTypeOf(c, r)
           sub == CASE r.subtype = None -> Nothing
                    [] r.subtype # None /\ IsPend(c, "device_subtype", r.subtype)
                         -> Defer(c, "device_subtype", r.subtype)
                    [] OTHER -> Lookup("device_subtype",
                                       type.ids # {} /\ Found(c, "device_subtype", r.subtype))
<1>1. Made(c, type, {"device_type"}) /\ DevicePayload(c, r) = Both(type, sub)
  BY DeviceTypeMade DEF DevicePayload
<1> HIDE DEF type
<1>2. Made(c, sub, {"device_subtype"})
  BY SimpleMade, DeferMade DEF Lookup
<1> HIDE DEF sub
<1> QED
  BY <1>1, <1>2, BothMade

LEMMA DeviceAddressMade ==
  ASSUME NEW c, NEW r
  PROVE  Made(c, DeviceAddressPayload(c, r), {"device"})
BY SimpleMade, DeferMade DEF DeviceAddressPayload, Lookup

LEMMA TagsMade ==
  ASSUME NEW c, NEW r
  PROVE  /\ Made(c, TagPayload(c, r), {})
         /\ Made(c, ResourceTagPayload(c, r), {})
         /\ Made(c, UserDefinedLinkPayload(c, r), {})
<1>1. Made(c, TagPayload(c, r), {}) /\ Made(c, ResourceForTagging(c, r), {})
  BY SimpleMade DEF TagPayload, ResourceForTagging, Require
<1>2. \A type, path, slot : Made(c, UdlResource(c, r, type, path, slot), {})
  BY SimpleMade DEF UdlResource, Require
<1>3. Made(c, ResourceTagPayload(c, r), {})
  <2> DEFINE a == IF r.stype = None \/ r.spath = None \/ r.config = None THEN Nothing
                  ELSE ResourceForTagging(c, r)
             b == IF r.tag = None THEN Nothing ELSE Require("tag", Found(c, "tag", r.tag))
  <2>1. Made(c, a, {}) /\ Made(c, b, {}) /\ ResourceTagPayload(c, r) = Both(a, b)
    BY <1>1, SimpleMade DEF ResourceTagPayload, Require
  <2> HIDE DEF a, b
  <2> QED
    BY <2>1, BothMade
<1>4. Made(c, UserDefinedLinkPayload(c, r), {})
  <2> DEFINE a == IF r.udl = None THEN Nothing
                  ELSE Require("udl_definition", Found(c, "udl_definition", r.udl))
             b == IF r.stype = None \/ r.spath = None \/ r.config = None THEN Nothing
                  ELSE UdlResource(c, r, r.stype, r.spath, "source")
             d == IF r.dest = None \/ r.dpath = None \/ r.config = None THEN Nothing
                  ELSE UdlResource(c, r, r.dest, r.dpath, "destination")
  <2>1. Made(c, a, {}) /\ Made(c, b, {}) /\ Made(c, d, {})
    BY <1>2, SimpleMade DEF Require
  <2>2. UserDefinedLinkPayload(c, r) = Both(a, Both(b, d))
    BY DEF UserDefinedLinkPayload
  <2> HIDE DEF a, b, d
  <2>3. Made(c, Both(b, d), {})
    BY <2>1, BothMade
  <2> QED
    BY <2>1, <2>2, <2>3, BothMade
<1> QED
  BY <1>1, <1>3, <1>4

\* Whatever its type, a row waits in the slots of its type only.
LEMMA BuildMade ==
  ASSUME NEW c, PendingOK(c.pending), NEW r
  PROVE  Made(c, CreateFromRow(c, r).payload, Slots(r.type))
<1> USE DEF Slots, Build, DnsTypes, RoleTypes
<1>1. Made(c, Build(c, r), Slots(r.type))
  <2>1. CASE r.type \in {"ip4_block", "ip6_block", "ip4_network", "ip6_network"}
    BY <2>1, Ip4BlockMade, Ip6BlockMade, Ip4NetworkMade, Ip6NetworkMade
  <2>2. CASE r.type \in {"ip4_address", "ip6_address", "ipv4_dhcp_range", "ipv6_dhcp_range"}
    BY <2>2, AddressMade, RangeMade
  <2>3. CASE r.type \in DnsTypes
    <3>1. CASE r.type = "dns_zone"
      BY <3>1, DnsMade
    <3>2. CASE r.type # "dns_zone"
      BY <2>3, <3>2, DnsMade
    <3> QED
      BY <3>1, <3>2
  <2>4. CASE r.type \in RoleTypes
    BY <2>4, RoleMade
  <2>5. CASE r.type \in {"dhcpv4_client_deployment_option",
                         "dhcpv4_service_deployment_option", "location"}
    BY <2>5, OptionMade, LocationMade
  <2>6. CASE r.type \in {"device_subtype", "device", "device_address"}
    BY <2>6, DeviceTypeMade, DeviceMade, DeviceAddressMade
  <2>7. CASE r.type \in {"tag", "resource_tag", "user_defined_link"}
    BY <2>7, TagsMade
  <2>8. CASE r.type \notin {"ip4_block", "ip6_block", "ip4_network", "ip6_network",
                            "ip4_address", "ip6_address", "ipv4_dhcp_range", "ipv6_dhcp_range",
                            "dhcpv4_client_deployment_option",
                            "dhcpv4_service_deployment_option", "location", "device_subtype",
                            "device", "device_address", "tag", "resource_tag",
                            "user_defined_link"} \cup DnsTypes \cup RoleTypes
    BY <2>8, SimpleMade
  <2> QED
    BY <2>1, <2>2, <2>3, <2>4, <2>5, <2>6, <2>7, <2>8
<1> QED
  BY <1>1, SimpleMade DEF CreateFromRow

-----------------------------------------------------------------------------
(***************************************************************************)
(* The row whose id is awaited                                             *)
(***************************************************************************)
LEMMA LastIsThere ==
  ASSUME NEW n \in Nat, NEW A \in SUBSET (1..n), A # {}
  PROVE  LET last == CHOOSE i \in A : \A j \in A : j <= i
         IN  last \in A /\ \A j \in A : j <= last
<1>1. A \cup {0} \in SUBSET (0..n) /\ 0 \in A \cup {0}
  OBVIOUS
<1>2. Max(A \cup {0}) \in A \cup {0} /\ \A j \in A \cup {0} : j <= Max(A \cup {0})
  BY <1>1, MaxIsThere
<1>3. PICK a \in A : a \in 1..n
  OBVIOUS
<1>4. Max(A \cup {0}) # 0
  BY <1>2, <1>3
<1>5. Max(A \cup {0}) \in A /\ \A j \in A : j <= Max(A \cup {0})
  BY <1>2, <1>4
<1> QED
  BY <1>5

LEMMA FromRowsOK == \A rows : DOMAIN rows \subseteq Nat => PendingOK(FromRows(rows))
BY DEF PendingOK, FromRows, KeptIn

LEMMA PendingIsCreated ==
  ASSUME NEW f \in Files, NEW k \in Kinds, NEW key, IsPending(FromRows(f), k, key)
  PROVE  \E p \in DOMAIN f : /\ f[p].id = PendingRow(FromRows(f), k, key)
                             /\ KeptIn(k, f[p]) /\ PendingKey(f[p]) = key
<1> DEFINE rows == FromRows(f)[k]
           A == {i \in DOMAIN rows : PendingKey(rows[i]) = key}
           last == CHOOSE i \in A : \A j \in A : j <= i
<1>1. rows = [i \in {j \in DOMAIN f : KeptIn(k, f[j])} |-> f[i]]
  BY DEF FromRows
<1> HIDE DEF rows
<1>2. A \in SUBSET (1..Len(f)) /\ A # {} /\ Len(f) \in Nat
  BY <1>1, FileType DEF IsPending, rows
<1> HIDE DEF A
<1>3. last \in A
  BY <1>2, LastIsThere
<1>4. last \in DOMAIN rows /\ PendingKey(rows[last]) = key
  BY <1>3 DEF A
<1>5. PendingRow(FromRows(f), k, key) = rows[last].id
  BY DEF PendingRow, rows, A
<1> HIDE DEF last
<1>6. last \in DOMAIN f /\ KeptIn(k, f[last]) /\ rows[last] = f[last]
  BY <1>1, <1>4
<1> QED
  BY <1>4, <1>5, <1>6

\* The operations are built from the rows, against the rows that are pending and BAM.
Context == [pending |-> FromRows(file), bam |-> bam]
BuiltInv == stage # "create" => \A i \in DOMAIN ops : ops[i] = CreateFromRow(Context, file[i])

LEMMA BuiltInvInit == Init => BuiltInv
BY DEF Init, BuiltInv

LEMMA BuiltInvStep ==
  ASSUME OpsInv, BuiltInv, [Next]_vars
  PROVE  BuiltInv'
<1>1. CASE CreateOperations
  <2>1. /\ stage' = "add" /\ file' = file /\ bam' = bam
        /\ ops' = [i \in DOMAIN file |-> CreateFromRow(Context, file[i])]
    BY <1>1 DEF CreateOperations, Context, given
  <2>2. Context' = Context
    BY <2>1 DEF Context
  <2> QED
    BY <2>1, <2>2 DEF BuiltInv
<1>2. CASE UNCHANGED <<file, bam, ops>> /\ stage # "create"
  <2>1. Context' = Context
    BY <1>2 DEF Context
  <2> QED
    BY <1>2, <2>1 DEF BuiltInv
<1>3. CASE UNCHANGED vars
  BY <1>3 DEF BuiltInv, Context, vars, given, drawn
<1>4. Next => CreateOperations \/ (UNCHANGED <<file, bam, ops>> /\ stage # "create")
  BY DEF Next, AddNode, WireOperation, Wiring, DetectForOperation, AddEdge, StartPhasing,
         AddBarrier, StartSort, QueueRoots, SortNode, FinishSort, CutBatch, FinishPlan,
         given, drawn
<1> QED
  BY <1>1, <1>2, <1>3, <1>4

Waited(d, j) ==
    /\ ops[j].row.id = d.row
    /\ ops[j].row.action = "create" /\ PendingKind(ops[j].row.type) = d.slot
    /\ ops[j].row.name # None
    /\ d.slot \notin {"zone", "device"} => d.key = ops[j].row.name

LEMMA SlotsAreKinds == \A type : Slots(type) \subseteq Kinds
BY DEF Slots, Kinds

LEMMA AwaitedIsCreated ==
  ASSUME OpsInv, BuiltInv, NEW i \in DOMAIN ops
  PROVE  /\ \A d \in ops[i].payload.deferred : /\ d.slot \in Slots(ops[i].row.type)
                                               /\ \E j \in DOMAIN ops : Waited(d, j)
         /\ \A d, e \in ops[i].payload.deferred : d.slot = e.slot => d = e
<1>1. stage # "create"
  BY EmptySeq DEF OpsInv
<1>2. /\ DOMAIN ops = DOMAIN file /\ file \in Files
      /\ ops[i] = CreateFromRow(Context, file[i])
      /\ \A j \in DOMAIN ops : ops[j].row = file[j]
  BY <1>1 DEF OpsInv, BuiltInv
<1>3. Context.pending = FromRows(file) /\ PendingOK(Context.pending)
  <2>1. DOMAIN file \subseteq Nat
    BY <1>2, FileType
  <2> QED
    BY <2>1, FromRowsOK DEF Context
<1>4. Made(Context, ops[i].payload, Slots(ops[i].row.type))
  BY <1>2, <1>3, BuildMade
<1>5. ASSUME NEW d \in ops[i].payload.deferred PROVE \E j \in DOMAIN ops : Waited(d, j)
  <2>1. PICK key : Pends(Context, d, key)
    BY <1>4 DEF Made
  <2>2. d.slot \in Kinds
    BY <1>4, SlotsAreKinds DEF Made
  <2>3. IsPending(FromRows(file), d.slot, key) /\ d.row = PendingRow(FromRows(file), d.slot, key)
    BY <1>3, <2>1 DEF Pends, IsPend
  <2>4. PICK p \in DOMAIN file : /\ file[p].id = d.row
                                 /\ KeptIn(d.slot, file[p]) /\ PendingKey(file[p]) = key
    BY <1>2, <2>2, <2>3, PendingIsCreated
  <2>5. d.slot # "device" => PendingKey(file[p]) = file[p].name
    <3>1. PendingKind("device") = "device"
      BY DEF PendingKind
    <3> QED
      BY <2>4, <3>1 DEF KeptIn, PendingKey
  <2>6. Waited(d, p)
    BY <1>2, <2>1, <2>4, <2>5 DEF Waited, KeptIn, Pends
  <2> QED
    BY <1>2, <2>6
<1> QED
  BY <1>4, <1>5 DEF Made

-----------------------------------------------------------------------------
(***************************************************************************)
(* The edges of the planner                                                *)
(***************************************************************************)
\* The last valid operation of the types under a name, if there is one.
IsEntry(types, k, j) ==
    /\ j \in MapRows(ops, types) /\ ops[j].row.name = k
    /\ \A l \in MapRows(ops, types) : ops[l].row.name = k => l <= j

LEMMA NamedEntry ==
  ASSUME OpsInv, NEW types, NEW k
  PROVE  /\ \A n \in Entry(ops, types, ByName, k) :
              \E j \in DOMAIN ops : n = NodeId(ops[j]) /\ IsEntry(types, k, j)
         /\ \A j : IsEntry(types, k, j) => NodeId(ops[j]) \in Entry(ops, types, ByName, k)
<1> DEFINE A == {i \in MapRows(ops, types) : ops[i].row.name = k}
           last == CHOOSE i \in A : \A j \in A : j <= i
<1>1. Entry(ops, types, ByName, k) = IF A = {} THEN {} ELSE {NodeId(ops[last])}
  BY DEF Entry, ByName
<1>2. A \in SUBSET (1..Len(ops)) /\ Len(ops) \in Nat
  BY OpsType DEF MapRows
<1>3. A # {} => last \in A /\ \A j \in A : j <= last
  <2> HIDE DEF A
  <2> QED
    BY <1>2, LastIsThere
<1> HIDE DEF last
<1>4. A # {} => last \in DOMAIN ops /\ IsEntry(types, k, last)
  BY <1>3 DEF IsEntry, MapRows
<1>5. ASSUME NEW j, IsEntry(types, k, j) PROVE j \in A /\ j = last
  <2>1. j \in A
    BY <1>5 DEF IsEntry
  <2>2. last \in A /\ j <= last /\ last <= j
    BY <1>3, <1>5, <2>1 DEF IsEntry
  <2>3. j \in Nat /\ last \in Nat
    BY <1>2, <2>1, <2>2
  <2> QED
    BY <2>1, <2>2, <2>3
<1> HIDE DEF A
<1> QED
  BY <1>1, <1>4, <1>5

\* The node of an operation of one of the types.
Leads(types, n) == \E j \in DOMAIN ops : n = NodeId(ops[j]) /\ ops[j].row.type \in types

LEMMA EntryLeads ==
  ASSUME OpsInv, NEW types, NEW k
  PROVE  \A n \in Entry(ops, types, ByName, k) : Leads(types, n)
BY NamedEntry DEF Leads, IsEntry, MapRows

LEMMA MapsLead ==
  ASSUME OpsInv, NEW k
  PROVE  /\ \A n \in Blocks(ops, k) : Leads({"ip4_block"}, n)
         /\ \A n \in Networks(ops, k) : Leads({"ip4_network"}, n)
         /\ \A n \in Zones(ops, k) : Leads({"dns_zone"}, n)
         /\ \A n \in Hosts(ops, k) : Leads({"host_record"}, n)
         /\ \A n \in Locations(ops, k) : Leads({"location"}, n)
         /\ \A n \in Addresses(ops, k) : Leads({"ip4_address", "ip6_address"}, n)
         /\ \A n \in DeviceTypes(ops, k) : Leads({"device_type"}, n)
         /\ \A n \in DeviceSubtypes(ops, k) : Leads({"device_subtype"}, n)
BY EntryLeads DEF Blocks, Networks, Zones, Hosts, Locations, Addresses, DeviceTypes,
                  DeviceSubtypes

LEMMA DevicesLead ==
  ASSUME OpsInv, NEW config, NEW k
  PROVE  \A n \in Devices(ops, config, k) : Leads({"device"}, n)
<1> DEFINE A == {i \in MapRows(ops, {"device"}) : ops[i].row.config \o ops[i].row.name = config \o k}
           full == IF config = None THEN {}
                   ELSE IF A = {} THEN {}
                   ELSE {NodeId(ops[CHOOSE i \in A : \A j \in A : j <= i])}
<1>1. Devices(ops, config, k) = IF full # {} THEN full ELSE Entry(ops, {"device"}, ByName, k)
  BY DEF Devices, Entry
<1>2. A \in SUBSET (1..Len(ops)) /\ Len(ops) \in Nat
  BY OpsType DEF MapRows
<1>3. \A n \in full : Leads({"device"}, n)
  <2>1. A # {} => (CHOOSE i \in A : \A j \in A : j <= i) \in A
    <3> HIDE DEF A
    <3> QED
      BY <1>2, LastIsThere
  <2>2. \A i \in A : i \in DOMAIN ops /\ ops[i].row.type \in {"device"}
    BY DEF MapRows
  <2> HIDE DEF A
  <2> QED
    BY <2>1, <2>2 DEF Leads
<1> HIDE DEF full
<1> QED
  BY <1>1, <1>3, EntryLeads

LEMMA LevelFacts ==
  /\ Level("device_type") = 1 /\ Level("device_subtype") = 2
  /\ \A t \in {"location", "ip4_block", "ip4_network", "ip6_block", "ip6_network"} : Level(t) = 3
  /\ Level("dns_zone") = 4 /\ Level("external_host_record") = 5
  /\ \A t \in {"host_record", "ip4_address", "ip6_address"} : Level(t) = 6
  /\ \A t \in {"alias_record", "mx_record", "srv_record", "txt_record", "generic_record"} :
       Level(t) = 7
  /\ Level("device") = 8
  /\ \A t \in RoleTypes \cup {"ipv4_dhcp_range", "ipv6_dhcp_range", "device_address",
                              "dhcpv4_client_deployment_option",
                              "dhcpv4_service_deployment_option", "user_defined_link"} :
       Level(t) = 9
<1>1. \A k \in Levels : \A t \in PhaseOrder[k] : Level(t) = k
  BY LevelIs
<1>2. Levels = 1..9
  BY DEF Levels
<1>3. \A t \in PhaseOrder[1] : Level(t) = 1
  BY <1>1, <1>2
<1>4. \A t \in PhaseOrder[2] : Level(t) = 2
  BY <1>1, <1>2
<1>5. \A t \in PhaseOrder[3] : Level(t) = 3
  BY <1>1, <1>2
<1>6. \A t \in PhaseOrder[4] : Level(t) = 4
  BY <1>1, <1>2
<1>7. \A t \in PhaseOrder[5] : Level(t) = 5
  BY <1>1, <1>2
<1>8. \A t \in PhaseOrder[6] : Level(t) = 6
  BY <1>1, <1>2
<1>9. \A t \in PhaseOrder[7] : Level(t) = 7
  BY <1>1, <1>2
<1>10. \A t \in PhaseOrder[8] : Level(t) = 8
  BY <1>1, <1>2
<1>11. \A t \in PhaseOrder[9] : Level(t) = 9
  BY <1>1, <1>2
<1> QED
  BY <1>3, <1>4, <1>5, <1>6, <1>7, <1>8, <1>9, <1>10, <1>11 DEF PhaseOrder, RoleTypes

\* An operation of the level of the type or a lower one.
LeadsDown(n, type) == \E j \in DOMAIN ops : /\ n = NodeId(ops[j])
                                            /\ Level(ops[j].row.type) <= Level(type)

LEMMA DownTo ==
  ASSUME NEW types, NEW type, \A t \in types : Level(t) <= Level(type), NEW n, Leads(types, n)
  PROVE  LeadsDown(n, type)
BY DEF Leads, LeadsDown

LEMMA ParentEdgesDown ==
  ASSUME OpsInv, NEW op
  PROVE  \A n \in ParentEdges(ops, op) : LeadsDown(n, op.row.type)
<1> DEFINE type == op.row.type
<1>1. CASE type = "ip4_network"
  <2>1. ParentEdges(ops, op) = WaitsFor(LAMBDA k : Blocks(ops, k), DeferredKey(op, "block"))
    BY <1>1 DEF ParentEdges, RecordTypes, RoleTypes, WaitsFor
  <2>2. \A n \in ParentEdges(ops, op) : Leads({"ip4_block"}, n)
    BY <2>1, MapsLead DEF WaitsFor
  <2>3. \A t \in {"ip4_block"} : Level(t) <= Level(type)
    BY <1>1, LevelFacts
  <2> QED
    BY <2>2, <2>3, DownTo
<1>2. CASE type \in {"ip4_address", "ipv4_dhcp_range"}
  <2>1. ParentEdges(ops, op) = WaitsFor(LAMBDA k : Networks(ops, k), DeferredKey(op, "network"))
    BY <1>2 DEF ParentEdges, RecordTypes, RoleTypes, WaitsFor
  <2>2. \A n \in ParentEdges(ops, op) : Leads({"ip4_network"}, n)
    BY <2>1, MapsLead DEF WaitsFor
  <2>3. \A t \in {"ip4_network"} : Level(t) <= Level(type)
    BY <1>2, LevelFacts
  <2> QED
    BY <2>2, <2>3, DownTo
<1>3. CASE type \in RecordTypes
  <2> DEFINE zone == DeferredKey(op, "zone")
             wanted == IF zone # None THEN zone ELSE op.row.zone
             waits == WaitsFor(LAMBDA k : Zones(ops, k), wanted)
             hosts == IF type = "host_record" THEN HostNetworks(ops, op) ELSE {}
  <2>1. ParentEdges(ops, op) = waits \cup hosts
    BY <1>3 DEF ParentEdges, RecordTypes, RoleTypes, WaitsFor
  <2>2. \A n \in waits : Leads({"dns_zone"}, n)
    <3> HIDE DEF wanted
    <3> QED
      BY MapsLead DEF WaitsFor
  <2>3. \A n \in hosts : Leads({"ip4_network"}, n)
    <3>1. \A n \in HostNetworks(ops, op) : \E k : n \in Networks(ops, k)
      BY DEF HostNetworks
    <3> QED
      BY <3>1, MapsLead
  <2>4. /\ \A t \in {"dns_zone"} : Level(t) <= Level(type)
        /\ \A t \in {"ip4_network"} : Level(t) <= Level(type)
    BY <1>3, LevelFacts DEF RecordTypes
  <2> HIDE DEF waits, hosts
  <2> QED
    BY <2>1, <2>2, <2>3, <2>4, DownTo
<1>4. CASE type \in RoleTypes
  <2> DEFINE network == WaitsFor(LAMBDA k : Networks(ops, k), DeferredKey(op, "network"))
             block   == WaitsFor(LAMBDA k : Blocks(ops, k), DeferredKey(op, "block"))
             zone    == WaitsFor(LAMBDA k : Zones(ops, k), DeferredKey(op, "zone"))
             path    == IF /\ op.row.path # None /\ Len(op.row.path) = 1
                           /\ DeferredKey(op, "network") = None
                        THEN Networks(ops, op.row.path[1]) ELSE {}
  <2>1. ParentEdges(ops, op) = network \cup block \cup zone \cup path
    BY <1>4 DEF ParentEdges, RecordTypes, RoleTypes, WaitsFor
  <2>2. /\ \A n \in network : Leads({"ip4_network"}, n)
        /\ \A n \in block : Leads({"ip4_block"}, n)
        /\ \A n \in zone : Leads({"dns_zone"}, n)
        /\ \A n \in path : Leads({"ip4_network"}, n)
    BY MapsLead DEF WaitsFor
  <2>3. /\ \A t \in {"dns_zone"} : Level(t) <= Level(type)
        /\ \A t \in {"ip4_network"} : Level(t) <= Level(type)
        /\ \A t \in {"ip4_block"} : Level(t) <= Level(type)
    BY <1>4, LevelFacts
  <2> HIDE DEF network, block, zone, path
  <2> QED
    BY <2>1, <2>2, <2>3, DownTo
<1>5. CASE type \notin {"ip4_network", "ip4_address", "ipv4_dhcp_range"} \cup RecordTypes \cup RoleTypes
  BY <1>5 DEF ParentEdges
<1> QED
  BY <1>1, <1>2, <1>3, <1>4, <1>5

LEMMA OtherEdgesDown ==
  ASSUME OpsInv, NEW op
  PROVE  /\ \A n \in TargetEdges(ops, op) : LeadsDown(n, op.row.type)
         /\ op.row.type = "user_defined_link" =>
              \A n \in LinkEdges(ops, op) : LeadsDown(n, op.row.type)
         /\ \A n \in DeviceEdges(ops, op) : LeadsDown(n, op.row.type)
<1>1. \A n \in TargetEdges(ops, op) : LeadsDown(n, op.row.type)
  <2> SUFFICES ASSUME op.row.type \in {"alias_record", "mx_record", "srv_record"},
                      NEW n \in Hosts(ops, op.row.target)
               PROVE  LeadsDown(n, op.row.type)
    BY DEF TargetEdges
  <2>1. \A t \in {"host_record"} : Level(t) <= Level(op.row.type)
    BY LevelFacts
  <2> QED
    BY <2>1, MapsLead, DownTo
<1>2. ASSUME op.row.type = "user_defined_link", NEW n \in LinkEdges(ops, op)
      PROVE  LeadsDown(n, op.row.type)
  <2> DEFINE ends == {"ip4_address", "ip6_address", "ip4_network", "ip4_block", "device",
                      "dns_zone"}
  <2>1. Leads(ends, n)
    <3>1. \A type, path : \A m \in LinkEnd(ops, op, type, path) : Leads(ends, m)
      BY MapsLead, DevicesLead DEF LinkEnd, Leads
    <3>2. \A m \in WaitsFor(LAMBDA k : Zones(ops, k), op.row.dpath[1]) : Leads(ends, m)
      BY MapsLead DEF WaitsFor, Leads
    <3> HIDE DEF ends
    <3> QED
      BY <1>2, <3>1, <3>2 DEF LinkEdges
  <2>2. \A t \in ends : Level(t) <= Level(op.row.type)
    BY <1>2, LevelFacts
  <2> QED
    BY <2>1, <2>2, DownTo
<1>3. \A n \in DeviceEdges(ops, op) : LeadsDown(n, op.row.type)
  <2>1. CASE op.row.type = "device_subtype"
    <3>1. DeviceEdges(ops, op) = WaitsFor(LAMBDA k : DeviceTypes(ops, k), op.row.dtype)
      BY <2>1 DEF DeviceEdges
    <3>2. \A n \in DeviceEdges(ops, op) : Leads({"device_type"}, n)
      BY <3>1, MapsLead DEF WaitsFor
    <3>3. \A t \in {"device_type"} : Level(t) <= Level(op.row.type)
      BY <2>1, LevelFacts
    <3> QED
      BY <3>2, <3>3, DownTo
  <2>2. CASE op.row.type = "device"
    <3>1. DeviceEdges(ops, op) = WaitsFor(LAMBDA k : DeviceTypes(ops, k), op.row.dtype)
                           \cup WaitsFor(LAMBDA k : DeviceSubtypes(ops, k), op.row.subtype)
      BY <2>2 DEF DeviceEdges
    <3>2. \A n \in DeviceEdges(ops, op) : Leads({"device_type", "device_subtype"}, n)
      BY <3>1, MapsLead DEF WaitsFor, Leads
    <3>3. \A t \in {"device_type", "device_subtype"} : Level(t) <= Level(op.row.type)
      BY <2>2, LevelFacts
    <3> QED
      BY <3>2, <3>3, DownTo
  <2>3. CASE op.row.type \notin {"device_subtype", "device"}
    BY <2>3 DEF DeviceEdges
  <2> QED
    BY <2>1, <2>2, <2>3
<1> QED
  BY <1>1, <1>2, <1>3

LEMMA LocationEdgesDown ==
  ASSUME OpsInv, BuiltInv, NEW i \in DOMAIN ops
  PROVE  \A n \in LocationEdges(ops, ops[i]) : LeadsDown(n, ops[i].row.type)
<1> DEFINE type == ops[i].row.type
<1> SUFFICES ASSUME NEW n \in LocationEdges(ops, ops[i]) PROVE LeadsDown(n, type)
  OBVIOUS
<1>1. Leads({"location"}, n) /\ DeferredKey(ops[i], "location") # None
  BY MapsLead DEF LocationEdges, WaitsFor
<1>2. PICK d \in ops[i].payload.deferred : d.slot = "location"
  BY <1>1 DEF DeferredKey
<1>3. "location" \in Slots(type)
  BY <1>2, AwaitedIsCreated
<1>4. type \in {"location", "ip4_block", "ip4_network", "ip6_block", "ip6_network",
                "ip4_address", "ip6_address"} \cup DnsTypes
  BY <1>3 DEF Slots, DnsTypes, RoleTypes
<1>5. \A t \in {"location"} : Level(t) <= Level(type)
  BY <1>4, LevelFacts DEF DnsTypes
<1> QED
  BY <1>1, <1>5, DownTo

\* The planner never makes a row wait for one of a later level.
LEMMA EdgesDown ==
  ASSUME OpsInv, BuiltInv, NEW i \in DOMAIN ops
  PROVE  \A n \in Edges(ops, ops[i]) : LeadsDown(n, ops[i].row.type)
BY ParentEdgesDown, OtherEdgesDown, LocationEdgesDown DEF Edges

\* An edge that leads out of every endless set is not rejected.
LEMMA EdgeIsAdded ==
  ASSUME NEW g, GraphOK(g), Acyclic(g), NEW n \in NodesOf(g), NEW m \in NodesOf(g),
         \A S \in SUBSET NodesOf(g) : Endless(WithEdge(g, n, m), S) /\ n \in S => m \notin S
  PROVE  ~Raises(g, n, m)
<1> SUFFICES ASSUME Raises(g, n, m) PROVE FALSE
  OBVIOUS
<1> DEFINE h == WithEdge(g, n, m)
<1>1. /\ NodesOf(h) = NodesOf(g) /\ h.deps[n] = g.deps[n] \cup {m}
      /\ \A x \in NodesOf(g) : x # n => h.deps[x] = g.deps[x]
  <2>1. NodesOf(h) = NodesOf(g)
    BY WithEdgeOK
  <2>2. /\ h.deps = [g.deps EXCEPT ![n] = g.deps[n] \cup {m}]
        /\ g.deps \in [NodesOf(g) -> SUBSET NodesOf(g)]
    BY DEF WithEdge, GraphOK
  <2> HIDE DEF h
  <2>3. h.deps[n] = g.deps[n] \cup {m}
    BY <2>2
  <2>4. \A x \in NodesOf(g) : x # n => h.deps[x] = g.deps[x]
    BY <2>2
  <2> QED
    BY <2>1, <2>3, <2>4
<1>2. HasCycleFrom(h, n)
  BY DEF Raises
<1> HIDE DEF h
<1>3. PICK S \in SUBSET NodesOf(g) : n \in S /\ Endless(h, S)
  <2>1. PICK S \in SUBSET NodesOf(h) : n \in S /\ \A x \in S : h.deps[x] \cap S # {}
    BY <1>2 DEF HasCycleFrom
  <2>2. S \in SUBSET NodesOf(g)
    BY <1>1
  <2>3. Endless(h, S)
    BY <2>1 DEF Endless
  <2> QED
    BY <2>1, <2>2, <2>3
<1>4. m \notin S
  BY <1>3 DEF h
<1>5. Endless(g, S)
  <2>1. ASSUME NEW x \in S PROVE g.deps[x] \cap S # {}
    <3>1. h.deps[x] \cap S # {}
      BY <1>3 DEF Endless
    <3>2. CASE x = n
      BY <1>1, <1>4, <3>1, <3>2
    <3>3. CASE x # n
      BY <1>1, <3>1, <3>3
    <3> QED
      BY <3>2, <3>3
  <2> QED
    BY <2>1 DEF Endless
<1> QED
  BY <1>3, <1>5 DEF Acyclic

-----------------------------------------------------------------------------
(***************************************************************************)
(* The edges between locations, blocks and networks                        *)
(***************************************************************************)
LEMMA LocationEdge ==
  ASSUME OpsInv, BuiltInv, NEW i \in DOMAIN ops, ops[i].row.type = "location",
         NEW n \in Edges(ops, ops[i])
  PROVE  /\ ops[i].row.parent # None
         /\ \E j \in DOMAIN ops : /\ n = NodeId(ops[j])
                                  /\ IsEntry({"location"}, ops[i].row.parent[1], j)
<1> DEFINE r == ops[i].row
           op == ops[i]
<1>1. n \in LocationEdges(ops, op)
  BY DEF Edges, ParentEdges, TargetEdges, DeviceEdges, RecordTypes, RoleTypes
<1>2. /\ DeferredKey(op, "location") # None
      /\ n \in Entry(ops, {"location"}, ByName, DeferredKey(op, "location"))
  BY <1>1 DEF LocationEdges, WaitsFor, Locations
<1>3. op.payload = LocationPayload(Context, r) \/ op.payload = Raise
  <2>1. stage # "create"
    BY EmptySeq DEF OpsInv
  <2>2. op = CreateFromRow(Context, file[i]) /\ r = file[i]
    BY <2>1 DEF OpsInv, BuiltInv
  <2>3. Build(Context, r) = LocationPayload(Context, r)
    BY DEF Build, DnsTypes
  <2>4. op.payload = IF r.config # None /\ ~Found(Context, "configuration", r.config)
                     THEN Raise ELSE Build(Context, r)
    BY <2>2 DEF CreateFromRow
  <2> QED
    BY <2>3, <2>4
<1>4. PICK d \in op.payload.deferred : d.slot = "location"
  BY <1>2 DEF DeferredKey
<1>5. /\ r.parent # None
      /\ op.payload.deferred = Defer(Context, "location", r.parent[1]).deferred
  BY <1>3, <1>4 DEF LocationPayload, Raise, Nothing, Require, Got
<1>6. op.payload.deferred = {d} /\ d.key = r.parent[1]
  BY <1>4, <1>5 DEF Defer, Nothing
<1>7. DeferredKey(op, "location") = r.parent[1]
  <2>1. {e.key : e \in {f \in op.payload.deferred : f.slot = "location"}} = {r.parent[1]}
    BY <1>4, <1>6
  <2> QED
    BY <2>1 DEF DeferredKey
<1> QED
  BY <1>2, <1>5, <1>7, NamedEntry

\* The types that share a phase with a type they wait for.
Level3 == {"location", "ip4_block", "ip4_network", "ip6_block", "ip6_network"}

LEMMA Level3Edges ==
  ASSUME OpsInv, NEW op, op.row.type \in Level3, NEW n \in Edges(ops, op)
  PROVE  Leads({"location"}, n) \/ (op.row.type = "ip4_network" /\ Leads({"ip4_block"}, n))
<1>1. n \in LocationEdges(ops, op) => Leads({"location"}, n)
  BY MapsLead DEF LocationEdges, WaitsFor
<1>2. n \in ParentEdges(ops, op) => op.row.type = "ip4_network" /\ Leads({"ip4_block"}, n)
  <2>1. CASE op.row.type = "ip4_network"
    BY <2>1, MapsLead DEF ParentEdges, RecordTypes, RoleTypes, WaitsFor
  <2>2. CASE op.row.type # "ip4_network"
    BY <2>2 DEF ParentEdges, RecordTypes, RoleTypes, Level3
  <2> QED
    BY <2>1, <2>2
<1>3. n \in LocationEdges(ops, op) \/ n \in ParentEdges(ops, op)
  BY DEF Edges, TargetEdges, DeviceEdges, Level3
<1> QED
  BY <1>1, <1>2, <1>3

\* A graph whose operations wait along edges of the planner only.
AlongEdges(g) ==
    \A i \in DOMAIN ops : \A n \in g.deps[NodeId(ops[i])] :
      n \in Edges(ops, ops[i]) /\ n # NodeId(ops[i])

\* Locations are above each other: none of them is in an endless set.
LEMMA LocationsEnd ==
  ASSUME OpsInv, BuiltInv, NEW g, AlongEdges(g), NEW S, Endless(g, S)
  PROVE  \A n \in S : ~Leads({"location"}, n)
<1> DEFINE T == {i \in DOMAIN ops : /\ ops[i].row.type = "location" /\ NodeId(ops[i]) \in S
                                    /\ IsEntry({"location"}, ops[i].row.name, i)}
<1>1. ASSUME NEW i \in DOMAIN ops, ops[i].row.type = "location", NodeId(ops[i]) \in S
      PROVE  /\ ops[i].row.parent # None
             /\ \E j \in T : ops[j].row.name = ops[i].row.parent[1] /\ j # i
  <2>1. PICK n \in S : n \in g.deps[NodeId(ops[i])]
    BY <1>1 DEF Endless
  <2>2. n \in Edges(ops, ops[i]) /\ n # NodeId(ops[i])
    BY <2>1 DEF AlongEdges
  <2>3. ops[i].row.parent # None
    BY <1>1, <2>2, LocationEdge
  <2>4. PICK j \in DOMAIN ops : /\ n = NodeId(ops[j])
                                /\ IsEntry({"location"}, ops[i].row.parent[1], j)
    BY <1>1, <2>2, LocationEdge
  <2>5. j \in T /\ j # i /\ ops[j].row.name = ops[i].row.parent[1]
    BY <2>1, <2>2, <2>4 DEF IsEntry, MapRows
  <2> QED
    BY <2>3, <2>5
<1>2. T = {}
  <2> SUFFICES ASSUME T # {} PROVE FALSE
    OBVIOUS
  <2>1. stage # "create"
    BY EmptySeq DEF OpsInv
  <2>2. /\ file \in Files /\ DOMAIN ops = DOMAIN file
        /\ \A i \in DOMAIN ops : ops[i].row = file[i]
    BY <2>1 DEF OpsInv
  <2>3. T \in SUBSET {i \in DOMAIN file : file[i].type = "location"}
    BY <2>2
  <2> HIDE DEF T
  <2>4. PICK i \in T : \A j \in T :
          file[i].parent # None /\ file[i].parent[1] = file[j].name => file[j].name = file[i].name
    BY <2>2, <2>3, LocationAssumption
  <2>5. /\ i \in DOMAIN ops /\ ops[i].row.type = "location" /\ NodeId(ops[i]) \in S
        /\ IsEntry({"location"}, ops[i].row.name, i)
    BY DEF T
  <2>6. PICK j \in T : ops[j].row.name = ops[i].row.parent[1] /\ j # i
    BY <1>1, <2>5
  <2>7. ops[j].row.name = ops[i].row.name
    BY <1>1, <2>2, <2>4, <2>5, <2>6, <2>3
  <2>8. IsEntry({"location"}, ops[j].row.name, j)
    BY DEF T
  <2>9. i <= j /\ j <= i /\ i \in Nat /\ j \in Nat
    BY <2>5, <2>7, <2>8, OpsType DEF IsEntry, MapRows
  <2> QED
    BY <2>6, <2>9
<1> HIDE DEF T
<1> QED
  BY <1>1, <1>2 DEF Leads

\* The rows of this level get every edge the planner asks for.
LEMMA Level3Added ==
  ASSUME OpsInv, BuiltInv, NEW g, GraphOK(g), Acyclic(g), AlongEdges(g),
         Ids \subseteq NodesOf(g),
         NEW i \in DOMAIN ops, ops[i].row.type \in Level3,
         NEW m \in Edges(ops, ops[i]), m # NodeId(ops[i])
  PROVE  ~Raises(g, NodeId(ops[i]), m)
<1> DEFINE n == NodeId(ops[i])
           h == WithEdge(g, n, m)
<1>1. Leads({"location"}, m) \/ (ops[i].row.type = "ip4_network" /\ Leads({"ip4_block"}, m))
  BY Level3Edges
<1>2. n \in NodesOf(g) /\ m \in NodesOf(g)
  BY <1>1 DEF Leads, Ids
<1>3. AlongEdges(h)
  <2>1. \A x \in NodesOf(g) : h.deps[x] = IF x = n THEN g.deps[x] \cup {m} ELSE g.deps[x]
    BY <1>2, WithEdgeDeps
  <2>2. \A j \in DOMAIN ops : NodeId(ops[j]) \in NodesOf(g) /\ (NodeId(ops[j]) = n => j = i)
    BY IdsDiffer DEF Ids
  <2> HIDE DEF h
  <2> QED
    BY <2>1, <2>2 DEF AlongEdges
<1>4. ASSUME NEW S \in SUBSET NodesOf(g), Endless(h, S), n \in S PROVE m \notin S
  <2>1. \A x \in S : ~Leads({"location"}, x)
    BY <1>3, <1>4, LocationsEnd
  <2>2. CASE Leads({"location"}, m)
    BY <2>1, <2>2
  <2>3. CASE Leads({"ip4_block"}, m)
    <3> SUFFICES ASSUME m \in S PROVE FALSE
      OBVIOUS
    <3>1. PICK j \in DOMAIN ops : m = NodeId(ops[j]) /\ ops[j].row.type = "ip4_block"
      BY <2>3 DEF Leads
    <3>2. PICK x \in S : x \in h.deps[m]
      BY <1>4 DEF Endless
    <3>3. x \in Edges(ops, ops[j])
      BY <1>3, <3>1, <3>2 DEF AlongEdges
    <3>4. Leads({"location"}, x)
      BY <3>1, <3>3, Level3Edges DEF Level3
    <3> QED
      BY <2>1, <3>4
  <2> QED
    BY <1>1, <2>2, <2>3
<1> QED
  BY <1>2, <1>4, EdgeIsAdded

-----------------------------------------------------------------------------
(***************************************************************************)
(* The edges build_from_operations() detects                               *)
(***************************************************************************)
\* A node of the graph that creates a resource of one of the types.
Creates(g, types, n) ==
    /\ n \in NodesOf(g)
    /\ g.ops[n].row.type \in types /\ g.ops[n].row.action = "create"

LEMMA FirstsCreate ==
  ASSUME NEW g, NEW r
  PROVE  /\ \A type : \A n \in ByPath(g, r, type) : Creates(g, {type}, n)
         /\ \A n \in ByDnsZone(g, r) : Creates(g, {"dns_zone"}, n)
         /\ \A type, name : \A n \in NamedCreate(g, type, name) : Creates(g, {type}, n)
         /\ \A n \in ByDeviceName(g, r) : Creates(g, {"device"}, n)
         /\ \A n \in ByRecordReference(g, r) :
              /\ r.type \in {"alias_record", "mx_record", "srv_record"}
              /\ Creates(g, {"host_record", "external_host_record"}, n)
<1>1. \A type : \A n \in ByPath(g, r, type) : Creates(g, {type}, n)
  BY DEF ByPath, FirstOf, Creates, NodesOf
<1>2. \A n \in ByDnsZone(g, r) : Creates(g, {"dns_zone"}, n)
  BY DEF ByDnsZone, FirstOf, Creates, NodesOf
<1>3. \A type, name : \A n \in NamedCreate(g, type, name) : Creates(g, {type}, n)
  BY DEF NamedCreate, FirstOf, Creates, NodesOf
<1>4. \A n \in ByDeviceName(g, r) : Creates(g, {"device"}, n)
  BY DEF ByDeviceName, FirstOf, Creates, NodesOf
<1>5. \A n \in ByRecordReference(g, r) :
        /\ r.type \in {"alias_record", "mx_record", "srv_record"}
        /\ Creates(g, {"host_record", "external_host_record"}, n)
  BY DEF ByRecordReference, FirstOf, Creates, NodesOf
<1> QED
  BY <1>1, <1>2, <1>3, <1>4, <1>5

\* A row waits for one that creates something on a lower level, or a network for
\* its block.
Lower(g, type, n) == \E t : Creates(g, {t}, n) /\ \/ Level(t) < Level(type)
                                                  \/ type = "ip4_network" /\ t = "ip4_block"

LEMMA PathsLower ==
  ASSUME NEW g, NEW r
  PROVE  \A n \in PathDependencies(g, r) \cup ByRecordReference(g, r) : Lower(g, r.type, n)
<1>0. ASSUME NEW n, NEW t, Creates(g, {t}, n), Level(t) < Level(r.type)
      PROVE  Lower(g, r.type, n)
  BY <1>0 DEF Lower
<1>1. \A n \in ByRecordReference(g, r) : Lower(g, r.type, n)
  <2> SUFFICES ASSUME NEW n \in ByRecordReference(g, r) PROVE Lower(g, r.type, n)
    OBVIOUS
  <2>1. /\ r.type \in {"alias_record", "mx_record", "srv_record"}
        /\ Creates(g, {"host_record", "external_host_record"}, n)
    BY FirstsCreate
  <2>2. Creates(g, {"host_record"}, n) \/ Creates(g, {"external_host_record"}, n)
    BY <2>1 DEF Creates
  <2>3. Level("host_record") < Level(r.type) /\ Level("external_host_record") < Level(r.type)
    BY <2>1, LevelFacts
  <2> QED
    BY <1>0, <2>2, <2>3
<1>2. \A n \in PathDependencies(g, r) : Lower(g, r.type, n)
  <2> SUFFICES ASSUME NEW n \in PathDependencies(g, r) PROVE Lower(g, r.type, n)
    OBVIOUS
  <2>1. \/ r.type = "ip4_network" /\ Creates(g, {"ip4_block"}, n)
        \/ r.type = "ip4_address" /\ Creates(g, {"ip4_network"}, n)
        \/ r.type \in RecordTypes /\ Creates(g, {"dns_zone"}, n)
        \/ r.type = "device_subtype" /\ Creates(g, {"device_type"}, n)
        \/ r.type = "device" /\ Creates(g, {"device_type"}, n)
        \/ r.type = "device" /\ Creates(g, {"device_subtype"}, n)
        \/ r.type = "device_address" /\ Creates(g, {"device"}, n)
    BY FirstsCreate DEF PathDependencies, RecordTypes
  <2>2. CASE r.type = "ip4_network" /\ Creates(g, {"ip4_block"}, n)
    BY <2>2 DEF Lower
  <2>3. CASE r.type = "ip4_address" /\ Creates(g, {"ip4_network"}, n)
    BY <1>0, <2>3, LevelFacts
  <2>4. CASE r.type \in RecordTypes /\ Creates(g, {"dns_zone"}, n)
    <3>1. Level("dns_zone") < Level(r.type)
      BY <2>4, LevelFacts DEF RecordTypes
    <3> QED
      BY <1>0, <2>4, <3>1
  <2>5. CASE r.type = "device_subtype" /\ Creates(g, {"device_type"}, n)
    BY <1>0, <2>5, LevelFacts
  <2>6. CASE r.type = "device" /\ Creates(g, {"device_type"}, n)
    BY <1>0, <2>6, LevelFacts
  <2>7. CASE r.type = "device" /\ Creates(g, {"device_subtype"}, n)
    BY <1>0, <2>7, LevelFacts
  <2>8. CASE r.type = "device_address" /\ Creates(g, {"device"}, n)
    <3>1. Level("device") < Level(r.type)
      BY <2>8, LevelFacts
    <3> QED
      BY <1>0, <2>8, <3>1
  <2> QED
    BY <2>1, <2>2, <2>3, <2>4, <2>5, <2>6, <2>7, <2>8
<1> QED
  BY <1>1, <1>2

\* The graph while its edges are drawn.
Wired == /\ OpsInv /\ NodesInv /\ stage = "wire"

LEMMA WiredNodes ==
  ASSUME Wired
  PROVE  /\ NodesOf(graph) = Ids
         /\ \A i \in DOMAIN ops : graph.ops[NodeId(ops[i])] = ops[i]
BY OpsType DEF Wired, NodesInv, Added, Ids, PhaseSteps

\* An edge that is not caught when it closes a cycle.
Detected(i, j) ==
    /\ ops[i].row.action # "delete" /\ ops[j].row.action = "create"
    /\ \/ Level(ops[j].row.type) < Level(ops[i].row.type)
       \/ ops[i].row.type = "ip4_network" /\ ops[j].row.type = "ip4_block"

CreatedBlock(i) == ops[i].row.type = "ip4_block" /\ ops[i].row.action = "create"

LEMMA DetectedEdges ==
  ASSUME Wired, NEW i \in DOMAIN ops
  PROVE  \A e \in DetectDependencies(graph, NodeId(ops[i])) :
           /\ e.from = NodeId(ops[i]) /\ ~CreatedBlock(i)
           /\ ~e.caught => \E j \in DOMAIN ops : e.to = NodeId(ops[j]) /\ Detected(i, j)
<1> DEFINE node == NodeId(ops[i])
           r == ops[i].row
           paths == PathDependencies(graph, r) \cup ByRecordReference(graph, r)
<1>1. DetectDependencies(graph, node)
        = IF r.action = "delete" THEN Calls(node, TRUE, DeleteDependencies(graph, node))
          ELSE Calls(node, TRUE, ParentDependencies(graph, node)) \cup Calls(node, FALSE, paths)
  BY WiredNodes DEF DetectDependencies
<1>2. /\ \A nodes : \A e \in Calls(node, TRUE, nodes) : e.from = node /\ e.caught
      /\ \A nodes : \A e \in Calls(node, FALSE, nodes) : e.from = node /\ e.to \in nodes
  BY DEF Calls
<1>3. CreatedBlock(i) => DetectDependencies(graph, node) = {}
  <2> SUFFICES ASSUME CreatedBlock(i) PROVE DetectDependencies(graph, node) = {}
    OBVIOUS
  <2>1. ParentDependencies(graph, node) = {}
    BY WiredNodes DEF ParentDependencies, CreatedBlock
  <2>2. paths = {}
    BY DEF PathDependencies, ByRecordReference, RecordTypes, CreatedBlock
  <2> QED
    BY <1>1, <2>1, <2>2 DEF Calls, CreatedBlock
<1>4. ASSUME NEW n \in paths, r.action # "delete"
      PROVE  \E j \in DOMAIN ops : n = NodeId(ops[j]) /\ Detected(i, j)
  <2>1. Lower(graph, r.type, n)
    BY PathsLower
  <2>2. PICK j \in DOMAIN ops : n = NodeId(ops[j])
    BY <2>1, WiredNodes DEF Lower, Creates, Ids
  <2>3. Detected(i, j)
    BY <1>4, <2>1, <2>2, WiredNodes DEF Lower, Creates, Detected
  <2> QED
    BY <2>2, <2>3
<1> HIDE DEF paths, node
<1> SUFFICES ASSUME NEW e \in DetectDependencies(graph, node)
             PROVE  /\ e.from = node /\ ~CreatedBlock(i)
                    /\ ~e.caught => \E j \in DOMAIN ops : e.to = NodeId(ops[j]) /\ Detected(i, j)
  BY DEF node
<1>5. CASE r.action = "delete"
  BY <1>1, <1>2, <1>3, <1>5
<1>6. CASE r.action # "delete" /\ e \in Calls(node, TRUE, ParentDependencies(graph, node))
  BY <1>2, <1>3, <1>6
<1>7. CASE r.action # "delete" /\ e \in Calls(node, FALSE, paths)
  BY <1>2, <1>3, <1>4, <1>7
<1> QED
  BY <1>1, <1>5, <1>6, <1>7

-----------------------------------------------------------------------------
(***************************************************************************)
(* The edges that are drawn                                                *)
(***************************************************************************)
\* No edges at first.  An operation depends on operations the planner made it wait
\* for, and on barriers of earlier phases; a block on nothing, while the graph
\* detects its edges.
NoEdgesInv ==
    stage \in {"create", "add"} => \A n \in NodesOf(graph) : graph.deps[n] = {}
EdgesInv ==
    stage \notin {"create", "add"} => \A i \in DOMAIN ops :
      /\ wiring = "planner" => \A n \in graph.deps[NodeId(ops[i])] :
           n \in Ids => n \in Edges(ops, ops[i]) /\ n # NodeId(ops[i])
      /\ wiring # "planner" /\ stage = "wire" /\ CreatedBlock(i) =>
           graph.deps[NodeId(ops[i])] = {}
      /\ \A u \in PhaseSteps : Barrier(u) \in graph.deps[NodeId(ops[i])] =>
           u < PhaseOf(ops[i].row)
\* The edges left to draw are of the operation before.
FromOperation(e, i) ==
    /\ i \in DOMAIN ops /\ e.from = NodeId(ops[i])
    /\ wiring = "planner" => e.caught /\ e.to \in Edges(ops, ops[i])
    /\ wiring # "planner" =>
         /\ ~CreatedBlock(i)
         /\ ~e.caught => \E j \in DOMAIN ops : e.to = NodeId(ops[j]) /\ Detected(i, j)
TodoInv ==
    /\ stage \notin {"wire", "aborted"} => todo = {}
    /\ stage = "wire" => /\ at \in Nat \ {0}
                         /\ \A e \in todo : FromOperation(e, at - 1)
\* What the planner asked for is drawn, between locations, blocks and networks.
Wanted(i, n) ==
    \/ n = NodeId(ops[i]) \/ n \in graph.deps[NodeId(ops[i])]
    \/ stage = "wire" /\ [from |-> NodeId(ops[i]), to |-> n, caught |-> TRUE] \in todo
DrawnInv ==
    wiring = "planner" /\ stage \notin {"create", "add", "aborted"} =>
      \A i \in DOMAIN ops :
        Valid(ops[i]) /\ ops[i].row.type \in Level3 /\ (stage = "wire" => i < at) =>
          \A n \in Edges(ops, ops[i]) : Wanted(i, n)
WireInv == NoEdgesInv /\ EdgesInv /\ TodoInv /\ DrawnInv /\ AbortsForAReason

\* An edge from a row to one of a later phase.
Upward == \E i, j \in DOMAIN ops : /\ NodeId(ops[j]) \in graph.deps[NodeId(ops[i])]
                                    /\ PhaseOf(ops[i].row) < PhaseOf(ops[j].row)

LEMMA PhaseNumber ==
  ASSUME OpsInv, NEW i \in DOMAIN ops
  PROVE  PhaseOf(ops[i].row) \in 1..18
BY PhaseOfOperation, PhaseStepsType

LEMMA MembersPhase ==
  ASSUME OpsInv, NEW u \in PhaseSteps
  PROVE  \A n \in Members(u) : \E i \in DOMAIN ops : n = NodeId(ops[i]) /\ PhaseOf(ops[i].row) = u
<1> SUFFICES ASSUME NEW i \in DOMAIN ops, ops[i].row.type \in PhaseTypes(u),
                    ops[i].row.action \in PhaseActions(u)
             PROVE  PhaseOf(ops[i].row) = u
  BY DEF Members
<1> QED
  BY PhaseIs

LEMMA OtherDeps ==
  ASSUME NEW g, GraphOK(g), NEW a \in NodesOf(g), NEW b
  PROVE  \A x \in NodesOf(g) : x # a => WithEdge(g, a, b).deps[x] = g.deps[x]
<1>1. WithEdge(g, a, b).deps = [g.deps EXCEPT ![a] = g.deps[a] \cup {b}]
  BY DEF WithEdge, GraphOK
<1>2. g.deps \in [NodesOf(g) -> SUBSET NodesOf(g)]
  BY DEF GraphOK
<1> QED
  BY <1>1, <1>2

\* Without such edges no detected edge closes a cycle.
LEMMA DetectedIsAdded ==
  ASSUME Wired, EdgesInv, AcyclicInv, wiring # "planner", ~Upward,
         NEW i \in DOMAIN ops, NEW j \in DOMAIN ops, Detected(i, j)
  PROVE  ~Raises(graph, NodeId(ops[i]), NodeId(ops[j]))
<1> DEFINE n == NodeId(ops[i])
           m == NodeId(ops[j])
           h == WithEdge(graph, n, m)
           ph(k) == PhaseOf(ops[k].row)
<1>1. /\ OpsInv /\ GraphOK(graph) /\ Acyclic(graph) /\ stage = "wire" /\ NodesOf(graph) = Ids
      /\ n \in NodesOf(graph) /\ m \in NodesOf(graph)
  BY WiredNodes DEF Wired, NodesInv, AcyclicInv, Ids
<1>2. i # j
  BY OperationFits, <1>1 DEF Detected, PhaseFits, Levels
<1>3. n # m
  BY <1>1, <1>2, IdsDiffer
<1>4. \A x \in NodesOf(graph) : x # n => h.deps[x] = graph.deps[x]
  <2> HIDE DEF n, m, ph
  <2> QED
    BY <1>1, OtherDeps
<1>5. ASSUME NEW S \in SUBSET NodesOf(graph), Endless(h, S), n \in S, m \in S PROVE FALSE
  <2> HIDE DEF h
  <2>1. CASE CreatedBlock(j)
    <3>1. graph.deps[m] = {}
      BY <1>1, <2>1 DEF EdgesInv
    <3> QED
      BY <1>1, <1>3, <1>4, <1>5, <3>1 DEF Endless
  <2>2. CASE ~CreatedBlock(j)
    <3>1. ops[i].row.action # "delete" /\ Level(ops[j].row.type) < Level(ops[i].row.type)
      BY <2>2 DEF Detected, CreatedBlock
    <3>2. ph(j) < ph(i)
      <4>1. PhaseFits(ops[i].row) /\ PhaseFits(ops[j].row)
        BY <1>1, OperationFits
      <4>2. Level(ops[j].row.type) <= Level(ops[i].row.type)
        BY <3>1, <4>1 DEF PhaseFits, Levels
      <4> QED
        BY <3>1, <4>1, <4>2, LevelsAndPhases
    <3> DEFINE T == {x \in S : \E k \in DOMAIN ops : x = NodeId(ops[k]) /\ ph(k) <= ph(j)}
    <3>3. ASSUME NEW x \in T PROVE graph.deps[x] \cap T # {}
      <4>1. PICK k \in DOMAIN ops : x = NodeId(ops[k]) /\ ph(k) <= ph(j)
        OBVIOUS
      <4>2. ph(k) \in 1..18 /\ ph(i) \in 1..18 /\ ph(j) \in 1..18
        BY <1>1, PhaseNumber
      <4>3. k # i
        BY <3>2, <4>1, <4>2
      <4>4. x # n /\ x \in NodesOf(graph)
        BY <1>1, <4>1, <4>3, IdsDiffer
      <4>5. PICK y \in S : y \in graph.deps[x]
        BY <1>4, <1>5, <4>4 DEF Endless
      <4>6. PICK l \in DOMAIN ops : y = NodeId(ops[l])
        BY <1>1, <4>5 DEF Ids
      <4>7. ~(ph(k) < ph(l)) /\ ph(l) \in 1..18
        BY <1>1, <4>1, <4>5, <4>6, PhaseNumber DEF Upward
      <4>8. ph(l) <= ph(j)
        BY <4>1, <4>2, <4>7
      <4> QED
        BY <4>5, <4>6, <4>8
    <3>4. m \in T
      BY <1>1, <1>5, PhaseNumber
    <3>5. T \in SUBSET NodesOf(graph)
      OBVIOUS
    <3> HIDE DEF T
    <3> QED
      BY <1>1, <3>3, <3>4, <3>5 DEF Acyclic, Endless
  <2> QED
    BY <2>1, <2>2
<1> QED
  BY <1>1, <1>5, EdgeIsAdded

\* Nor does a barrier: of the operations in an endless set, those of the earliest
\* phase would wait for each other already.
LEMMA BarrierIsAdded ==
  ASSUME OpsInv, NodesInv, AcyclicInv, PhaseInv, EdgesInv, stage = "phase", ~Upward,
         NEW s \in PhaseSteps, s > barrier
  PROVE  ~PhaseRaises(graph, s, barrier)
<1> DEFINE h == ApplyPhase(graph, s, barrier)
           ph(k) == PhaseOf(ops[k].row)
<1>1. GraphOK(graph) /\ Acyclic(graph) /\ PhaseNodes(graph, s) = Members(s)
  BY PhaseNodesAreMembers DEF NodesInv, AcyclicInv
<1>2. Barrier(s) \notin NodesOf(graph) /\ (barrier = 0 \/ Barrier(barrier) \in NodesOf(graph))
  BY NewBarrier DEF NodesInv
<1>3. /\ NodesOf(h) = NodesOf(graph) \cup {Barrier(s)} /\ h.deps[Barrier(s)] = Members(s)
      /\ \A n \in NodesOf(graph) : n \notin Members(s) \/ barrier = 0
           => h.deps[n] = graph.deps[n]
      /\ \A n \in Members(s) : barrier # 0
           => h.deps[n] = graph.deps[n] \cup {Barrier(barrier)}
  BY <1>1, <1>2, ApplyPhaseOK
<1> HIDE DEF h
<1> SUFFICES ASSUME NEW S \in SUBSET NodesOf(h), S # {}, Endless(h, S) PROVE FALSE
  BY DEF PhaseRaises, HasCycleFrom, Endless, h
<1>4. \A i \in DOMAIN ops : NodeId(ops[i]) \in NodesOf(graph)
  BY OpsType DEF NodesInv, Added
<1>5. \A n \in S : n \in Ids \/ \E u \in PhaseSteps : n = Barrier(u)
  BY <1>3 DEF NodesInv
<1>6. ASSUME NEW u \in PhaseSteps, Barrier(u) \in S
      PROVE  \E i \in DOMAIN ops : NodeId(ops[i]) \in S /\ ph(i) = u
  <2>1. h.deps[Barrier(u)] = Members(u)
    <3>1. CASE u = s
      BY <1>3, <3>1
    <3>2. CASE u # s
      <4>1. Barrier(u) # Barrier(s)
        BY <3>2 DEF Barrier
      <4>2. Barrier(u) \in NodesOf(graph)
        BY <1>3, <1>6, <4>1
      <4>3. Barrier(u) \notin Members(s)
        BY IdsDiffer DEF Members
      <4> QED
        BY <1>3, <4>2, <4>3 DEF PhaseInv, Held
    <3> QED
      BY <3>1, <3>2
  <2> QED
    BY <1>6, <2>1, MembersPhase DEF Endless
<1> DEFINE P == {ph(i) : i \in {k \in DOMAIN ops : NodeId(ops[k]) \in S}}
<1>7. P \subseteq 1..18 /\ P # {}
  <2>1. P \subseteq 1..18
    BY PhaseNumber
  <2>2. \E i \in DOMAIN ops : NodeId(ops[i]) \in S
    BY <1>5, <1>6 DEF Ids
  <2> QED
    BY <2>1, <2>2
<1>8. PICK t \in P : \A u \in P : t <= u
  <2> HIDE DEF P
  <2>1. P \in SUBSET Nat
    BY <1>7
  <2>2. PICK t \in P : \A u \in P : ~(<<u, t>> \in OpToRel(<, Nat))
    BY <1>7, <2>1, WFMin, NatLessThanWellFounded
  <2>3. t \in Nat /\ \A u \in P : u \in Nat /\ ~(u < t)
    BY <2>1, <2>2 DEF OpToRel
  <2>4. \A u \in P : t <= u
    BY <2>3
  <2> QED
    BY <2>4
<1> DEFINE T == {n \in S : \E i \in DOMAIN ops : n = NodeId(ops[i]) /\ ph(i) = t}
<1>9. ASSUME NEW x \in T PROVE graph.deps[x] \cap T # {}
  <2>1. PICK i \in DOMAIN ops : x = NodeId(ops[i]) /\ ph(i) = t
    OBVIOUS
  <2>2. PICK y \in S : y \in h.deps[x]
    BY DEF Endless
  <2>3. x \in NodesOf(graph)
    BY <1>4, <2>1
  <2>4. y \in graph.deps[x] \/ (barrier # 0 /\ x \in Members(s) /\ y = Barrier(barrier))
    BY <1>3, <2>2, <2>3
  <2>5. ASSUME NEW u \in PhaseSteps, y = Barrier(u) PROVE FALSE
    <3>1. u < t
      <4>1. CASE y \in graph.deps[x]
        BY <2>1, <2>5, <4>1 DEF EdgesInv
      <4>2. CASE barrier # 0 /\ x \in Members(s) /\ y = Barrier(barrier)
        <5>1. u = barrier
          BY <2>5, <4>2 DEF Barrier
        <5>2. PICK k \in DOMAIN ops : x = NodeId(ops[k]) /\ ph(k) = s
          BY <4>2, MembersPhase
        <5>3. k = i
          BY <2>1, <5>2, IdsDiffer
        <5> QED
          BY <2>1, <5>1, <5>2, <5>3, PhaseStepsType
      <4> QED
        BY <2>4, <4>1, <4>2
    <3>2. u \in P
      BY <1>6, <2>2, <2>5
    <3>3. u \in 1..18 /\ t \in 1..18
      BY <1>7, <3>2
    <3> HIDE DEF P
    <3> QED
      BY <1>8, <3>1, <3>2, <3>3
  <2>6. PICK k \in DOMAIN ops : y = NodeId(ops[k])
    BY <1>5, <2>2, <2>5 DEF Ids
  <2>7. y \in graph.deps[x]
    <3>1. barrier # 0 => barrier \in PhaseSteps
      BY DEF NodesInv
    <3> QED
      BY <2>4, <2>5, <3>1
  <2>8. ~(t < ph(k)) /\ ph(k) \in P
    BY <2>1, <2>2, <2>6, <2>7 DEF Upward
  <2>9. ph(k) = t
    <3>1. ph(k) \in 1..18 /\ t \in 1..18 /\ t <= ph(k)
      BY <1>7, <1>8, <2>8
    <3> QED
      BY <2>8, <3>1
  <2> QED
    BY <2>2, <2>6, <2>7, <2>9
<1>10. T # {} /\ T \in SUBSET NodesOf(graph)
  BY <1>4
<1> HIDE DEF T
<1> QED
  BY <1>1, <1>9, <1>10 DEF Acyclic, Endless

-----------------------------------------------------------------------------
(***************************************************************************)
(* The steps that draw edges                                               *)
(***************************************************************************)
LEMMA WireInit == Init => WireInv
<1> SUFFICES ASSUME Init PROVE WireInv
  OBVIOUS
<1>1. stage = "create" /\ todo = {} /\ NodesOf(graph) = {}
  BY EmptyGraphOK DEF Init
<1> QED
  BY <1>1 DEF WireInv, NoEdgesInv, EdgesInv, TodoInv, DrawnInv, AbortsForAReason

LEMMA WireCreateOperations ==
  ASSUME WireInv, CreateOperations
  PROVE  WireInv'
<1>1. stage = "create" /\ stage' = "add" /\ graph' = graph /\ todo' = {}
  BY DEF CreateOperations, WireInv, TodoInv
<1> QED
  BY <1>1 DEF WireInv, NoEdgesInv, EdgesInv, TodoInv, DrawnInv, AbortsForAReason

LEMMA WireAddNode ==
  ASSUME OpsInv, OpsInv', NodesInv, NodesInv', WireInv, AddNode
  PROVE  WireInv'
<1>1. stage = "add" /\ todo = {} /\ todo' = {} /\ ops' = ops
  BY DEF AddNode, WireInv, TodoInv, drawn
<1>2. GraphOK(graph) /\ \A n \in NodesOf(graph) : graph.deps[n] = {}
  BY <1>1 DEF NodesInv, WireInv, NoEdgesInv
<1>3. CASE at <= Len(ops)
  <2>1. stage' = "add" /\ graph' = AddOperation(graph, NodeId(ops[at]), ops[at])
    BY <1>1, <1>3 DEF AddNode
  <2>2. \A n \in NodesOf(graph') : graph'.deps[n] = {}
    <3>1. CASE NodeId(ops[at]) \in NodesOf(graph)
      BY <1>2, <2>1, <3>1 DEF AddOperation
    <3>2. CASE NodeId(ops[at]) \notin NodesOf(graph)
      BY <1>2, <2>1, <3>2, AddOperationOK
    <3> QED
      BY <3>1, <3>2
  <2> QED
    BY <1>1, <2>1, <2>2
    DEF WireInv, NoEdgesInv, EdgesInv, TodoInv, DrawnInv, AbortsForAReason
<1>4. CASE ~(at <= Len(ops))
  <2>1. stage' = "wire" /\ at' = 1 /\ graph' = graph
    BY <1>1, <1>4 DEF AddNode
  <2>2. DOMAIN ops = 1..Len(ops) /\ Len(ops) \in Nat
    BY OpsType
  <2>3. \A i \in DOMAIN ops : NodeId(ops[i]) \in NodesOf(graph)
    <3>1. Added(Len(ops))'
      BY <2>1 DEF NodesInv
    <3>2. \A i \in DOMAIN ops : i <= Len(ops) => NodeId(ops[i]) \in NodesOf(graph)
      BY <1>1, <2>1, <3>1 DEF Added
    <3> QED
      BY <2>2, <3>2
  <2>4. \A i \in DOMAIN ops : graph.deps[NodeId(ops[i])] = {}
    BY <1>2, <2>3
  <2>5. \A i \in DOMAIN ops : ~(i < 1)
    BY <2>2
  <2> QED
    BY <1>1, <2>1, <2>4, <2>5
    DEF WireInv, NoEdgesInv, EdgesInv, TodoInv, DrawnInv, AbortsForAReason
<1> QED
  BY <1>3, <1>4

LEMMA WireWireOperation ==
  ASSUME OpsInv, WireInv, WireOperation
  PROVE  WireInv'
<1>1. /\ stage = "wire" /\ todo = {} /\ at <= Len(ops) /\ wiring = "planner" /\ at' = at + 1
      /\ UNCHANGED <<given, ops, graph, barrier>> /\ wiring' = wiring
  BY DEF WireOperation, Wiring, given
<1>2. /\ DOMAIN ops = 1..Len(ops) /\ Len(ops) \in Nat /\ at \in Nat \ {0}
      /\ at \in DOMAIN ops
  <2>1. at \in Nat \ {0}
    BY <1>1 DEF WireInv, TodoInv
  <2> QED
    BY <1>1, <2>1, OpsType
<1>3. CASE AddressMapLost(ops, at) /\ Valid(ops[at])
  <2>1. stage' = "aborted"
    BY <1>3 DEF WireOperation
  <2>2. EdgesInv'
    BY <1>1, <2>1 DEF WireInv, EdgesInv, CreatedBlock, Ids
  <2>3. AbortsForAReason'
    BY <1>1, <1>2, <1>3 DEF AbortsForAReason
  <2> QED
    BY <2>1, <2>2, <2>3 DEF WireInv, NoEdgesInv, TodoInv, DrawnInv
<1>4. CASE ~(AddressMapLost(ops, at) /\ Valid(ops[at]))
  <2>1. /\ stage' = "wire"
        /\ todo' = IF Valid(ops[at]) THEN Calls(NodeId(ops[at]), TRUE, Edges(ops, ops[at]))
                   ELSE {}
    BY <1>1, <1>4 DEF WireOperation
  <2>2. EdgesInv'
    BY <1>1, <2>1 DEF WireInv, EdgesInv, CreatedBlock, Ids
  <2>3. TodoInv'
    <3>1. at' \in Nat \ {0} /\ at' - 1 = at
      BY <1>1, <1>2
    <3>2. \A e \in todo' : e.from = NodeId(ops[at]) /\ e.caught /\ e.to \in Edges(ops, ops[at])
      BY <2>1 DEF Calls
    <3> QED
      BY <1>1, <1>2, <2>1, <3>1, <3>2 DEF TodoInv, FromOperation
  <2>4. DrawnInv'
    <3> SUFFICES ASSUME NEW i \in DOMAIN ops, Valid(ops[i]), ops[i].row.type \in Level3,
                        i < at + 1, NEW n \in Edges(ops, ops[i])
                 PROVE  \/ n = NodeId(ops[i]) \/ n \in graph.deps[NodeId(ops[i])]
                        \/ [from |-> NodeId(ops[i]), to |-> n, caught |-> TRUE] \in todo'
      BY <1>1, <2>1 DEF DrawnInv, Wanted
    <3>1. CASE i = at
      BY <2>1, <3>1 DEF Calls
    <3>2. CASE i # at
      <4>1. i < at
        BY <1>2, <3>2
      <4> QED
        BY <1>1, <4>1 DEF WireInv, DrawnInv, Wanted
    <3> QED
      BY <3>1, <3>2
  <2> QED
    BY <2>1, <2>2, <2>3, <2>4 DEF WireInv, NoEdgesInv, AbortsForAReason
<1> QED
  BY <1>3, <1>4

LEMMA WireDetectForOperation ==
  ASSUME OpsInv, NodesInv, WireInv, DetectForOperation
  PROVE  WireInv'
<1>1. /\ stage = "wire" /\ at <= Len(ops) /\ wiring = "graph" /\ at' = at + 1
      /\ todo' = DetectDependencies(graph, NodeId(ops[at]))
      /\ UNCHANGED <<given, stage, ops, graph, barrier>> /\ wiring' = wiring
  BY DEF DetectForOperation, Wiring, given
<1>2. at \in Nat \ {0} /\ at \in DOMAIN ops
  <2>1. at \in Nat \ {0}
    BY <1>1 DEF WireInv, TodoInv
  <2> QED
    BY <1>1, <2>1, OpsType
<1>3. EdgesInv'
  BY <1>1 DEF WireInv, EdgesInv, CreatedBlock, Ids
<1>4. TodoInv'
  <2>1. at' \in Nat \ {0} /\ at' - 1 = at
    BY <1>1, <1>2
  <2>2. \A e \in todo' :
           /\ e.from = NodeId(ops[at]) /\ ~CreatedBlock(at)
           /\ ~e.caught => \E j \in DOMAIN ops : e.to = NodeId(ops[j]) /\ Detected(at, j)
    BY <1>1, <1>2, DetectedEdges DEF Wired
  <2> QED
    BY <1>1, <1>2, <2>1, <2>2 DEF TodoInv, FromOperation, CreatedBlock, Detected
<1> QED
  BY <1>1, <1>3, <1>4 DEF WireInv, NoEdgesInv, DrawnInv, AbortsForAReason

LEMMA WireStartPhasing ==
  ASSUME OpsInv, WireInv, StartPhasing
  PROVE  WireInv'
<1>1. /\ stage = "wire" /\ todo = {} /\ todo' = {} /\ at > Len(ops) /\ stage' = "phase"
      /\ UNCHANGED <<ops, graph>> /\ wiring' = wiring
  BY DEF StartPhasing, given, drawn
<1>2. \A i \in DOMAIN ops : i < at
  <2>1. at \in Nat \ {0}
    BY <1>1 DEF WireInv, TodoInv
  <2> QED
    BY <1>1, <2>1, OpsType
<1>3. EdgesInv'
  BY <1>1 DEF WireInv, EdgesInv, CreatedBlock, Ids
<1>4. DrawnInv'
  BY <1>1, <1>2 DEF WireInv, DrawnInv, Wanted
<1> QED
  BY <1>1, <1>3, <1>4 DEF WireInv, NoEdgesInv, TodoInv, AbortsForAReason

LEMMA WireAddEdge ==
  ASSUME OpsInv, NodesInv, AcyclicInv, BuiltInv, WireInv, AddEdge
  PROVE  WireInv'
<1>1. /\ stage = "wire" /\ UNCHANGED <<at, ops, barrier>> /\ wiring' = wiring
      /\ NoEdgesInv /\ EdgesInv /\ TodoInv /\ DrawnInv
  BY DEF AddEdge, given, WireInv
<1>2. PICK e \in todo :
        /\ graph' = AddDependency(graph, e.from, e.to)
        /\ stage' = IF Raises(graph, e.from, e.to) /\ ~e.caught THEN "aborted" ELSE stage
        /\ todo' = todo \ {e}
  BY DEF AddEdge
<1>3. Wired /\ GraphOK(graph) /\ NodesOf(graph) = Ids
  BY <1>1, WiredNodes DEF Wired, NodesInv
<1> DEFINE o == at - 1
           n == NodeId(ops[o])
<1>4. FromOperation(e, o) /\ o \in DOMAIN ops /\ e.from = n
  BY <1>1 DEF TodoInv, FromOperation
<1>5. \/ graph' = graph
      \/ /\ n \in NodesOf(graph) /\ e.to \in NodesOf(graph) /\ n # e.to
         /\ graph' = WithEdge(graph, n, e.to)
  BY <1>2, <1>4, AddDependencyAdds
<1>6. /\ graph'.deps[n] = graph.deps[n]
         \/ (e.to \in Ids /\ e.to # n /\ graph'.deps[n] = graph.deps[n] \cup {e.to})
      /\ \A i \in DOMAIN ops : i # o => graph'.deps[NodeId(ops[i])] = graph.deps[NodeId(ops[i])]
  <2>1. CASE graph' = graph
    BY <2>1
  <2>2. CASE /\ n \in NodesOf(graph) /\ e.to \in NodesOf(graph) /\ n # e.to
             /\ graph' = WithEdge(graph, n, e.to)
    <3>1. \A x \in NodesOf(graph) :
            graph'.deps[x] = IF x = n THEN graph.deps[x] \cup {e.to} ELSE graph.deps[x]
      <4> HIDE DEF n, o
      <4> QED
        BY <1>3, <2>2, WithEdgeDeps
    <3>2. \A i \in DOMAIN ops : NodeId(ops[i]) \in NodesOf(graph) /\ (NodeId(ops[i]) = n => i = o)
      BY <1>3, <1>4, IdsDiffer DEF Ids
    <3> HIDE DEF n, o
    <3> QED
      BY <1>3, <2>2, <3>1, <3>2
  <2> QED
    BY <1>5, <2>1, <2>2
<1>7. EdgesInv'
  <2> SUFFICES ASSUME NEW i \in DOMAIN ops
               PROVE  /\ wiring = "planner" => \A m \in graph'.deps[NodeId(ops[i])] :
                           m \in Ids => m \in Edges(ops, ops[i]) /\ m # NodeId(ops[i])
                      /\ wiring # "planner" /\ CreatedBlock(i) =>
                           graph'.deps[NodeId(ops[i])] = {}
                      /\ \A u \in PhaseSteps : Barrier(u) \in graph'.deps[NodeId(ops[i])] =>
                           u < PhaseOf(ops[i].row)
    BY <1>1 DEF EdgesInv, Ids, CreatedBlock
  <2>1. CASE graph'.deps[NodeId(ops[i])] = graph.deps[NodeId(ops[i])]
    BY <1>1, <2>1 DEF EdgesInv
  <2>2. CASE /\ i = o /\ e.to \in Ids /\ e.to # n
             /\ graph'.deps[n] = graph.deps[n] \cup {e.to}
    <3>1. \A u \in PhaseSteps : e.to # Barrier(u)
      BY <2>2, IdsDiffer DEF Ids
    <3>2. wiring = "planner" => e.to \in Edges(ops, ops[o])
      BY <1>4 DEF FromOperation
    <3>3. wiring # "planner" => ~CreatedBlock(o)
      BY <1>4 DEF FromOperation
    <3> HIDE DEF o
    <3> QED
      BY <1>1, <2>2, <3>1, <3>2, <3>3 DEF EdgesInv
  <2> QED
    BY <1>6, <2>1, <2>2
<1>8. TodoInv'
  BY <1>1, <1>2 DEF TodoInv, FromOperation, CreatedBlock, Detected
<1>9. DrawnInv'
  <2> SUFFICES ASSUME wiring = "planner", NEW i \in DOMAIN ops, Valid(ops[i]),
                      ops[i].row.type \in Level3, i < at, NEW m \in Edges(ops, ops[i]),
                      stage' = "wire"
               PROVE  \/ m = NodeId(ops[i]) \/ m \in graph'.deps[NodeId(ops[i])]
                      \/ [from |-> NodeId(ops[i]), to |-> m, caught |-> TRUE] \in todo'
    BY <1>1, <1>2 DEF DrawnInv, Wanted
  <2>1. Wanted(i, m)
    BY <1>1 DEF DrawnInv
  <2>2. CASE m = NodeId(ops[i])
    BY <2>2
  <2>3. CASE m \in graph.deps[NodeId(ops[i])]
    BY <1>6, <2>3
  <2>4. CASE [from |-> NodeId(ops[i]), to |-> m, caught |-> TRUE] \in todo \ {e}
    BY <1>2, <2>4
  <2>5. CASE [from |-> NodeId(ops[i]), to |-> m, caught |-> TRUE] = e /\ m # NodeId(ops[i])
    <3>1. e.from = NodeId(ops[i]) /\ e.to = m
      BY <2>5
    <3>2. AlongEdges(graph)
      BY <1>1, <1>3, GraphType DEF AlongEdges, EdgesInv, Ids
    <3>3. ~Raises(graph, NodeId(ops[i]), m)
      BY <1>3, <2>5, <3>2, Level3Added DEF Wired, AcyclicInv
    <3>4. graph' = WithEdge(graph, NodeId(ops[i]), m)
      BY <1>2, <2>5, <3>1, <3>3 DEF AddDependency
    <3>5. NodeId(ops[i]) \in NodesOf(graph)
      BY <1>3 DEF Ids
    <3>6. \A x \in NodesOf(graph) : graph'.deps[x] =
            IF x = NodeId(ops[i]) THEN graph.deps[x] \cup {m} ELSE graph.deps[x]
      BY <1>3, <3>4, <3>5, WithEdgeDeps
    <3> QED
      BY <3>5, <3>6
  <2> QED
    BY <2>1, <2>2, <2>3, <2>4, <2>5 DEF Wanted
<1>10. AbortsForAReason'
  <2> SUFFICES ASSUME stage' = "aborted" PROVE AbortsForAReason'
    BY DEF AbortsForAReason
  <2>1. Raises(graph, e.from, e.to) /\ ~e.caught
    BY <1>1, <1>2
  <2>2. graph' = graph
    BY <1>2, <2>1 DEF AddDependency
  <2>3. wiring # "planner"
    BY <1>4, <2>1 DEF FromOperation
  <2>4. PICK j \in DOMAIN ops : e.to = NodeId(ops[j]) /\ Detected(o, j)
    BY <1>4, <2>1, <2>3 DEF FromOperation
  <2>5. Upward
    <3> HIDE DEF o
    <3> QED
      BY <1>1, <1>3, <1>4, <2>1, <2>3, <2>4, DetectedIsAdded
  <2> QED
    BY <1>1, <2>2, <2>3, <2>5 DEF AbortsForAReason, Upward
<1>11. NoEdgesInv'
  BY <1>1, <1>2 DEF NoEdgesInv
<1> QED
  BY <1>7, <1>8, <1>9, <1>10, <1>11 DEF WireInv

\* With the planner, only a deletion waits for a row of a later phase.
LEMMA UpwardDeletes ==
  ASSUME OpsInv, BuiltInv, EdgesInv, stage \notin {"create", "add"}, wiring = "planner",
         NEW i \in DOMAIN ops, NEW j \in DOMAIN ops,
         NodeId(ops[j]) \in graph.deps[NodeId(ops[i])],
         PhaseOf(ops[i].row) < PhaseOf(ops[j].row)
  PROVE  ops[i].row.action = "delete"
<1>1. NodeId(ops[j]) \in Edges(ops, ops[i])
  BY DEF EdgesInv, Ids
<1>2. LeadsDown(NodeId(ops[j]), ops[i].row.type)
  BY <1>1, EdgesDown
<1>3. Level(ops[j].row.type) <= Level(ops[i].row.type)
  BY <1>2, IdsDiffer DEF LeadsDown
<1>4. PhaseFits(ops[i].row) /\ PhaseFits(ops[j].row)
  BY OperationFits
<1>5. ASSUME ops[i].row.action # "delete" PROVE FALSE
  <2>1. PhaseOf(ops[j].row) <= PhaseOf(ops[i].row)
    BY <1>3, <1>4, <1>5, LevelsAndPhases
  <2>2. PhaseOf(ops[i].row) \in 1..18 /\ PhaseOf(ops[j].row) \in 1..18
    BY PhaseNumber
  <2> QED
    BY <2>1, <2>2
<1> QED
  BY <1>5

LEMMA WireAddBarrier ==
  ASSUME OpsInv, NodesInv, AcyclicInv, PhaseInv, BuiltInv, WireInv, AddBarrier
  PROVE  WireInv'
<1>1. /\ stage = "phase" /\ UNCHANGED <<ops, todo>> /\ wiring' = wiring
      /\ NoEdgesInv /\ EdgesInv /\ TodoInv /\ DrawnInv
  BY DEF AddBarrier, given, WireInv
<1>2. PICK s \in PhasesLeft :
        IF PhaseRaises(graph, s, barrier)
        THEN stage' = "aborted" /\ graph' = graph
        ELSE graph' = ApplyPhase(graph, s, barrier) /\ stage' = stage
  BY DEF AddBarrier
<1>3. s \in PhaseSteps /\ s > barrier
  <2>1. s \in PhaseSteps /\ s >= at /\ at = barrier + 1 /\ barrier \in {0} \cup PhaseSteps
    BY <1>1 DEF PhasesLeft, NodesInv
  <2> QED
    BY <2>1, PhaseStepsType
<1>4. CASE PhaseRaises(graph, s, barrier)
  <2>1. stage' = "aborted" /\ graph' = graph
    BY <1>2, <1>4
  <2>2. EdgesInv'
    BY <1>1, <2>1 DEF EdgesInv, CreatedBlock, Ids
  <2>3. Upward
    BY <1>1, <1>3, <1>4, BarrierIsAdded
  <2>4. PICK i \in DOMAIN ops, j \in DOMAIN ops :
          /\ NodeId(ops[j]) \in graph.deps[NodeId(ops[i])]
          /\ PhaseOf(ops[i].row) < PhaseOf(ops[j].row)
    BY <2>3 DEF Upward
  <2>5. wiring = "planner" => ops[i].row.action = "delete"
    BY <1>1, <2>4, UpwardDeletes
  <2>6. AbortsForAReason'
    BY <1>1, <2>1, <2>4, <2>5 DEF AbortsForAReason
  <2> QED
    BY <2>1, <2>2, <2>6 DEF WireInv, NoEdgesInv, TodoInv, DrawnInv
<1>5. CASE ~PhaseRaises(graph, s, barrier)
  <2>1. stage' = "phase" /\ graph' = ApplyPhase(graph, s, barrier)
    BY <1>1, <1>2, <1>5
  <2>2. GraphOK(graph) /\ PhaseNodes(graph, s) = Members(s)
    BY <1>1, <1>3, PhaseNodesAreMembers DEF NodesInv
  <2>3. Barrier(s) \notin NodesOf(graph) /\ (barrier = 0 \/ Barrier(barrier) \in NodesOf(graph))
    BY <1>3, NewBarrier DEF NodesInv
  <2>4. /\ \A n \in NodesOf(graph) : n \notin Members(s) \/ barrier = 0
             => graph'.deps[n] = graph.deps[n]
        /\ \A n \in Members(s) : barrier # 0
             => graph'.deps[n] = graph.deps[n] \cup {Barrier(barrier)}
    BY <2>1, <2>2, <2>3, ApplyPhaseOK
  <2>5. \A i \in DOMAIN ops : NodeId(ops[i]) \in NodesOf(graph)
    BY <1>1, OpsType DEF NodesInv, Added
  <2>6. ASSUME NEW i \in DOMAIN ops
        PROVE  \/ graph'.deps[NodeId(ops[i])] = graph.deps[NodeId(ops[i])]
               \/ /\ graph'.deps[NodeId(ops[i])] =
                       graph.deps[NodeId(ops[i])] \cup {Barrier(barrier)}
                  /\ barrier < PhaseOf(ops[i].row)
    <3>1. CASE NodeId(ops[i]) \notin Members(s) \/ barrier = 0
      BY <2>4, <2>5, <3>1
    <3>2. CASE NodeId(ops[i]) \in Members(s) /\ barrier # 0
      <4>1. PhaseOf(ops[i].row) = s
        BY <1>3, <3>2, MembersPhase, IdsDiffer
      <4>2. barrier < s
        BY <1>3, PhaseStepsType DEF NodesInv
      <4> QED
        BY <2>4, <3>2, <4>1, <4>2
    <3> QED
      BY <3>1, <3>2
  <2>7. EdgesInv'
    <3> SUFFICES ASSUME NEW i \in DOMAIN ops
                 PROVE  /\ wiring = "planner" => \A m \in graph'.deps[NodeId(ops[i])] :
                             m \in Ids => m \in Edges(ops, ops[i]) /\ m # NodeId(ops[i])
                        /\ \A u \in PhaseSteps : Barrier(u) \in graph'.deps[NodeId(ops[i])] =>
                             u < PhaseOf(ops[i].row)
      BY <1>1, <2>1 DEF EdgesInv, Ids
    <3>1. CASE graph'.deps[NodeId(ops[i])] = graph.deps[NodeId(ops[i])]
      BY <1>1, <3>1 DEF EdgesInv
    <3>2. CASE /\ graph'.deps[NodeId(ops[i])] =
                    graph.deps[NodeId(ops[i])] \cup {Barrier(barrier)}
               /\ barrier < PhaseOf(ops[i].row)
      <4>1. Barrier(barrier) \notin Ids
        BY IdsDiffer DEF Ids
      <4>2. \A u : Barrier(u) = Barrier(barrier) => u = barrier
        BY DEF Barrier
      <4> QED
        BY <1>1, <3>2, <4>1, <4>2 DEF EdgesInv
    <3> QED
      BY <2>6, <3>1, <3>2
  <2>8. DrawnInv'
    <3> SUFFICES ASSUME wiring = "planner", NEW i \in DOMAIN ops, Valid(ops[i]),
                        ops[i].row.type \in Level3, NEW m \in Edges(ops, ops[i])
                 PROVE  m = NodeId(ops[i]) \/ m \in graph'.deps[NodeId(ops[i])]
      BY <1>1, <2>1 DEF DrawnInv, Wanted
    <3>1. m = NodeId(ops[i]) \/ m \in graph.deps[NodeId(ops[i])]
      BY <1>1 DEF DrawnInv, Wanted
    <3> QED
      BY <2>6, <3>1
  <2> QED
    BY <1>1, <2>1, <2>7, <2>8 DEF WireInv, NoEdgesInv, TodoInv, AbortsForAReason
<1> QED
  BY <1>4, <1>5

\* The steps after the edges are drawn leave the graph alone.
LEMMA WireLater ==
  ASSUME WireInv, UNCHANGED <<wiring, graph, ops, todo>>,
         stage \in {"phase", "roots", "sort", "cut"},
         stage' \in {"roots", "sort", "cut", "planned"}
  PROVE  WireInv'
<1>1. EdgesInv'
  BY DEF WireInv, EdgesInv, CreatedBlock, Ids
<1>2. DrawnInv'
  BY DEF WireInv, DrawnInv, Wanted
<1> QED
  BY <1>1, <1>2 DEF WireInv, NoEdgesInv, TodoInv, AbortsForAReason

LEMMA WireStep ==
  ASSUME PlanningInv, PlanningInv', BuiltInv, WireInv, [Next]_vars
  PROVE  WireInv'
<1> USE DEF PlanningInv
<1>1. CASE CreateOperations
  BY <1>1, WireCreateOperations
<1>2. CASE AddNode
  BY <1>2, WireAddNode
<1>3. CASE WireOperation
  BY <1>3, WireWireOperation
<1>4. CASE DetectForOperation
  BY <1>4, WireDetectForOperation
<1>5. CASE AddEdge
  BY <1>5, WireAddEdge
<1>6. CASE StartPhasing
  BY <1>6, WireStartPhasing
<1>7. CASE AddBarrier
  BY <1>7, WireAddBarrier
<1>8. CASE StartSort \/ QueueRoots \/ SortNode \/ CutBatch \/ FinishPlan
  <2>1. /\ UNCHANGED <<wiring, graph, ops, todo>>
        /\ stage \in {"phase", "roots", "sort", "cut"}
        /\ stage' \in {"roots", "sort", "cut", "planned"}
    BY <1>8 DEF StartSort, QueueRoots, SortNode, CutBatch, FinishPlan, given, drawn
  <2> QED
    BY <2>1, WireLater
<1>9. CASE FinishSort
  <2>1. /\ UNCHANGED <<wiring, graph, ops, todo>> /\ stage = "sort" /\ queue = <<>>
        /\ stage' = IF Len(sorted) = Len(graph.nodes) THEN "cut" ELSE "aborted"
    BY <1>9 DEF FinishSort, given, drawn
  <2>2. stage' = "cut"
    BY <2>1, AllSorted
  <2> QED
    BY <2>1, <2>2, WireLater
<1>10. CASE UNCHANGED vars
  <2>1. UNCHANGED <<wiring, graph, ops, todo, stage, at>>
    BY <1>10 DEF vars, given, drawn
  <2>2. EdgesInv'
    BY <2>1 DEF WireInv, EdgesInv, CreatedBlock, Ids
  <2>3. DrawnInv' /\ TodoInv'
    BY <2>1 DEF WireInv, DrawnInv, Wanted, TodoInv, FromOperation, CreatedBlock, Detected
  <2> QED
    BY <2>1, <2>2, <2>3 DEF WireInv, NoEdgesInv, AbortsForAReason
<1> QED
  BY <1>1, <1>2, <1>3, <1>4, <1>5, <1>6, <1>7, <1>8, <1>9, <1>10 DEF Next

LEMMA EdgesInvariant == Spec => [](PlanningInv /\ BuiltInv /\ WireInv)
<1>1. Init => BuiltInv /\ WireInv
  BY BuiltInvInit, WireInit
<1>2. PlanningInv /\ PlanningInv' /\ BuiltInv /\ WireInv /\ [Next]_vars => BuiltInv' /\ WireInv'
  BY BuiltInvStep, WireStep DEF PlanningInv
<1> QED
  BY <1>1, <1>2, InductiveInvariant, PTL DEF Spec

\* An import is given up while it is planned only because of a link to an address
\* after a host record, or of a row that was made to wait for one of a later phase
\* - by the planner only a deletion for the row that creates the resource anew.
\* (DependencyPlanner.build_graph(), DependencyGraph.build_from_operations(),
\* add_dependency() and _apply_phasing() raise in no other case.)
THEOREM AbortsHaveReasons == Spec => []AbortsForAReason
<1>1. WireInv => AbortsForAReason
  BY DEF WireInv
<1> QED
  BY <1>1, EdgesInvariant, PTL

-----------------------------------------------------------------------------
(***************************************************************************)
(* A row and the row whose id it awaits                                    *)
(***************************************************************************)
\* The awaited row is of an earlier level, or one of locations, blocks and networks.
LEMMA AwaitedLevel ==
  ASSUME NEW type, NEW slot \in Slots(type), NEW awaited \in TypesOf(slot)
  PROVE  \/ Level(awaited) < Level(type)
         \/ type \in Level3 /\ slot = "location" /\ awaited = "location"
         \/ type = "ip4_network" /\ slot = "block" /\ awaited = "ip4_block"
         \/ <<type, awaited>> \in Ip6Pairs
<1>1. CASE slot = "location"
  <2>1. awaited = "location"
    BY <1>1 DEF TypesOf
  <2>2. type \in Level3 \cup {"ip4_address", "ip6_address"} \cup DnsTypes
    BY <1>1 DEF Slots, Level3, DnsTypes, RoleTypes
  <2> QED
    BY <1>1, <2>1, <2>2, LevelFacts DEF DnsTypes, Level3
<1>2. CASE slot = "block"
  <2>1. awaited \in {"ip4_block", "ip6_block"}
    BY <1>2 DEF TypesOf
  <2>2. type \in {"ip6_block", "ip4_network", "ip6_network"} \cup RoleTypes
    BY <1>2 DEF Slots, DnsTypes, RoleTypes
  <2> QED
    BY <1>2, <2>1, <2>2, LevelFacts DEF RoleTypes, Ip6Pairs
<1>3. CASE slot = "network"
  <2>1. awaited \in {"ip4_network", "ip6_network"}
    BY <1>3 DEF TypesOf
  <2>2. type \in {"ip4_address", "ip6_address", "ipv4_dhcp_range", "ipv6_dhcp_range",
                  "dhcpv4_client_deployment_option",
                  "dhcpv4_service_deployment_option"} \cup RoleTypes
    BY <1>3 DEF Slots, DnsTypes, RoleTypes
  <2> QED
    BY <2>1, <2>2, LevelFacts DEF RoleTypes
<1>4. CASE slot = "zone"
  <2>1. awaited = "dns_zone"
    BY <1>4 DEF TypesOf
  <2>2. type \in (DnsTypes \ {"dns_zone"}) \cup RoleTypes
    BY <1>4 DEF Slots, DnsTypes, RoleTypes
  <2> QED
    BY <2>1, <2>2, LevelFacts DEF DnsTypes, RoleTypes
<1>5. CASE slot \in {"device_type", "device_subtype", "device"}
  <2>1. awaited = slot
    BY <1>5 DEF TypesOf
  <2>2. \/ type = "device_subtype" /\ slot = "device_type"
        \/ type = "device" /\ slot \in {"device_type", "device_subtype"}
        \/ type = "device_address" /\ slot = "device"
    BY <1>5 DEF Slots, DnsTypes, RoleTypes
  <2> QED
    BY <2>1, <2>2, LevelFacts
<1>6. slot \in Kinds
  BY SlotsAreKinds
<1> QED
  BY <1>1, <1>2, <1>3, <1>4, <1>5, <1>6 DEF Kinds

\* A row has one deferred key per slot.
LEMMA DeferredKeyIs ==
  ASSUME NEW op, NEW d \in op.payload.deferred,
         \A e \in op.payload.deferred : e.slot = d.slot => e = d
  PROVE  DeferredKey(op, d.slot) = d.key
<1> DEFINE keys == {e.key : e \in {x \in op.payload.deferred : x.slot = d.slot}}
<1>1. keys = {d.key}
  OBVIOUS
<1>2. DeferredKey(op, d.slot) = IF keys = {} THEN None ELSE CHOOSE k \in keys : TRUE
  BY DEF DeferredKey
<1> HIDE DEF keys
<1> QED
  BY <1>1, <1>2

\* Locations and blocks that are awaited are drawn, when no later row has their name.
LEMMA AwaitedIsWanted ==
  ASSUME OpsInv, NEW i \in DOMAIN ops, NEW j \in DOMAIN ops,
         NEW d \in ops[i].payload.deferred,
         \A e \in ops[i].payload.deferred : e.slot = d.slot => e = d,
         d.key = ops[j].row.name, ops[j].row.name # None, Valid(ops[j]),
         \/ d.slot = "location" /\ ops[j].row.type = "location"
         \/ d.slot = "block" /\ ops[i].row.type = "ip4_network" /\ ops[j].row.type = "ip4_block",
         \A k \in DOMAIN ops : k > j /\ ops[k].row.type = ops[j].row.type =>
           ops[k].row.name # ops[j].row.name
  PROVE  NodeId(ops[j]) \in Edges(ops, ops[i])
<1> DEFINE key == DeferredKey(ops[i], d.slot)
           type == ops[j].row.type
<1>1. key = ops[j].row.name /\ key # None
  BY DeferredKeyIs
<1>2. IsEntry({type}, key, j)
  <2>1. \A k \in DOMAIN ops : k \in Nat /\ j \in Nat
    BY OpsType
  <2>2. j \in MapRows(ops, {type})
    BY DEF MapRows
  <2>3. \A l \in MapRows(ops, {type}) : l \in DOMAIN ops /\ ops[l].row.type = type
    BY DEF MapRows
  <2>4. ASSUME NEW l \in MapRows(ops, {type}), ops[l].row.name = key PROVE l <= j
    <3>1. l \in DOMAIN ops
      BY <2>3, <2>4
    <3>2. ~(l > j)
      BY <1>1, <2>3, <2>4, <3>1
    <3>3. l \in Nat /\ j \in Nat
      BY <2>1, <3>1
    <3> QED
      BY <3>2, <3>3
  <2> HIDE DEF key, type
  <2> QED
    BY <1>1, <2>2, <2>4 DEF IsEntry, key
<1>3. NodeId(ops[j]) \in Entry(ops, {type}, ByName, key)
  <2> HIDE DEF key, type
  <2> QED
    BY <1>2, NamedEntry
<1>4. CASE d.slot = "location" /\ type = "location"
  <2>1. NodeId(ops[j]) \in Locations(ops, key)
    BY <1>3, <1>4 DEF Locations
  <2>2. LocationEdges(ops, ops[i]) = Locations(ops, key)
    BY <1>1, <1>4 DEF LocationEdges, WaitsFor
  <2> QED
    BY <2>1, <2>2 DEF Edges
<1>5. CASE d.slot = "block" /\ ops[i].row.type = "ip4_network" /\ type = "ip4_block"
  <2>1. NodeId(ops[j]) \in Blocks(ops, key)
    BY <1>3, <1>5 DEF Blocks
  <2>2. ParentEdges(ops, ops[i]) = Blocks(ops, key)
    BY <1>1, <1>5 DEF ParentEdges, WaitsFor, RecordTypes, RoleTypes
  <2> QED
    BY <2>1, <2>2 DEF Edges
<1> QED
  BY <1>4, <1>5

LEMMA AwaitedEarlier ==
  ASSUME PlanningInv, BuiltInv, DrawnInv, Planned, wiring = "planner",
         NEW i \in DOMAIN ops, NEW j \in DOMAIN ops, Awaits(i, j),
         ops[i].row.action # "delete", i # j,
         <<ops[i].row.type, ops[j].row.type>> \notin Ip6Pairs,
         \A k \in DOMAIN ops : k > j /\ ops[k].row.type = ops[j].row.type =>
           ops[k].row.name # ops[j].row.name
  PROVE  Earlier(NodeId(ops[j]), NodeId(ops[i]))
<1>1. OpsInv /\ NodesInv /\ stage = "planned"
  BY DEF PlanningInv, Planned
<1>2. PICK d \in ops[i].payload.deferred :
        /\ Valid(ops[i]) /\ Valid(ops[j]) /\ ops[j].row.id = d.row
        /\ ops[j].row.type \in TypesOf(d.slot)
  BY DEF Awaits
<1>3. /\ d.slot \in Slots(ops[i].row.type)
      /\ \A e \in ops[i].payload.deferred : e.slot = d.slot => e = d
  BY <1>1, AwaitedIsCreated
<1>4. PICK l \in DOMAIN ops : Waited(d, l)
  BY <1>1, AwaitedIsCreated
<1>5. l = j
  <2>1. /\ file \in Files /\ DOMAIN ops = DOMAIN file
        /\ \A k \in DOMAIN ops : ops[k].row = file[k]
    BY <1>1 DEF OpsInv
  <2> QED
    BY <1>2, <1>4, <2>1, FileType DEF Waited
<1>6. /\ ops[j].row.name # None
      /\ d.slot \notin {"zone", "device"} => d.key = ops[j].row.name
  BY <1>4, <1>5 DEF Waited
<1>7. CASE Level(ops[j].row.type) < Level(ops[i].row.type)
  <2>1. PhaseFits(ops[i].row) /\ PhaseFits(ops[j].row)
    BY <1>1, OperationFits
  <2>2. Level(ops[j].row.type) <= Level(ops[i].row.type)
    BY <1>7, <2>1 DEF PhaseFits, Levels
  <2>3. PhaseOf(ops[j].row) < PhaseOf(ops[i].row)
    BY <1>7, <2>1, <2>2, LevelsAndPhases
  <2> QED
    BY <1>1, <2>3, PhaseOfOperation, PhaseAfterPhase
<1>8. CASE \/ /\ ops[i].row.type \in Level3 /\ d.slot = "location"
              /\ ops[j].row.type = "location"
           \/ /\ ops[i].row.type = "ip4_network" /\ d.slot = "block"
              /\ ops[j].row.type = "ip4_block"
  <2>1. NodeId(ops[j]) \in Edges(ops, ops[i])
    BY <1>1, <1>2, <1>3, <1>6, <1>8, AwaitedIsWanted
  <2>2. ops[i].row.type \in Level3
    BY <1>8 DEF Level3
  <2>3. Wanted(i, NodeId(ops[j]))
    BY <1>1, <1>2, <2>1, <2>2 DEF DrawnInv
  <2>4. NodeId(ops[j]) # NodeId(ops[i])
    BY <1>1, IdsDiffer
  <2>5. NodeId(ops[j]) \in graph.deps[NodeId(ops[i])]
    BY <1>1, <2>3, <2>4 DEF Wanted
  <2>6. NodeId(ops[i]) \in NodesOf(graph)
    BY <1>1, OpsType DEF NodesInv, Added
  <2> QED
    BY <2>5, <2>6, DependenciesEarlier
<1> QED
  BY <1>2, <1>3, <1>7, <1>8, AwaitedLevel

\* The id of a resource that the file creates is known when the row that was built
\* to use it is executed: the planner puts its creation in an earlier batch, but for
\* the gaps the property names (deletions, a location that is its own parent, blocks
\* and networks where IPv6 is concerned, and a later row with the name of the parent).
THEOREM ParentsAreCreatedFirst == Spec => []LinkedParentsCreatedFirst
<1>1. PlanningInv /\ BuiltInv /\ WireInv => LinkedParentsCreatedFirst
  <2> SUFFICES ASSUME PlanningInv, BuiltInv, WireInv, Planned, wiring = "planner",
                      NEW i \in DOMAIN ops, NEW j \in DOMAIN ops, Awaits(i, j),
                      ops[i].row.action # "delete", i # j,
                      <<ops[i].row.type, ops[j].row.type>> \notin Ip6Pairs,
                      \A k \in DOMAIN ops : k > j /\ ops[k].row.type = ops[j].row.type =>
                        ops[k].row.name # ops[j].row.name
               PROVE  Earlier(NodeId(ops[j]), NodeId(ops[i]))
    BY DEF LinkedParentsCreatedFirst
  <2> QED
    BY AwaitedEarlier DEF WireInv
<1> QED
  BY <1>1, EdgesInvariant, PTL

=============================================================================
