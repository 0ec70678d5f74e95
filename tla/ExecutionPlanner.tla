--------------------------- MODULE ExecutionPlanner ---------------------------
(***************************************************************************)
(* ExecutionPlanner: the execution batches that are made of the batches of *)
(* the dependency graph, cut to a maximal size when one is given (0 for    *)
(* none), with the number each of them gets.                               *)
(***************************************************************************)
EXTENDS Naturals, Sequences

TooLarge(nodes, size) == size > 0 /\ Len(nodes) > size

\* _split_batch(): where the part ends that begins after the first "from" nodes
PartEnd(nodes, from, size) ==
    IF TooLarge(nodes, size) /\ from + size < Len(nodes) THEN from + size ELSE Len(nodes)

\* create_plan(): a part of a batch that is too large is numbered by the batches
\* made so far, a whole batch by its place among the batches of the graph
BatchId(plan, b, nodes, size) == IF TooLarge(nodes, size) THEN Len(plan) ELSE b - 1

NextBatch(plan, b, nodes, from, size) ==
    [id    |-> BatchId(plan, b, nodes, size),
     nodes |-> SubSeq(nodes, from + 1, PartEnd(nodes, from, size))]

=============================================================================
