-------------------------------- MODULE Plan --------------------------------
(***************************************************************************)
(* An execution plan with its dependency graph, as the executor receives   *)
(* them from ExecutionPlanner.create_plan() and DependencyGraph: the       *)
(* operations, who depends on whom, and the batch each operation is in.    *)
(***************************************************************************)
EXTENDS Naturals, FiniteSets

CONSTANTS
  Op,          \* the operations of the plan, phase barriers included
  Kind,        \* [Op -> {"create", "update", "delete", "noop"}]
  Deps,        \* [Op -> SUBSET Op], the edges of the dependency graph
  BatchOf,     \* [Op -> Nat], ExecutionBatch.batch_id of the operation
  DeferredOn   \* [Op -> SUBSET Op], the pending creates it has `_deferred_*` keys for

ASSUME PlanAssumption ==
  /\ IsFiniteSet(Op)
  /\ Kind \in [Op -> {"create", "update", "delete", "noop"}]
  /\ Deps \in [Op -> SUBSET Op]
  /\ BatchOf \in [Op -> Nat]
  /\ DeferredOn \in [Op -> SUBSET Op]
  /\ \A o \in Op : \A p \in DeferredOn[o] : Kind[p] = "create"

\* Batches are depths in the graph: an operation comes after its dependencies.
ASSUME BatchOrderAssumption == \A o \in Op : \A d \in Deps[o] : BatchOf[d] < BatchOf[o]

BatchOps(b) == {o \in Op : BatchOf[o] = b}

\* What o depends on, directly or through other operations.
Ancestors ==
  [o \in Op |-> {a \in Op : \A S \in SUBSET Op :
     ((Deps[o] \subseteq S) /\ (\A x \in S : Deps[x] \subseteq S)) => a \in S}]

(***************************************************************************)
(* _cascade_failure(): the search goes from o to its dependents and theirs *)
(* through open operations only (those that are not failed or skipped); in *)
(* an acyclic graph one set satisfies this, and it descends from o.        *)
(***************************************************************************)
Cascade(o, open) ==
  LET below == {x \in open : o \in Ancestors[x]} IN
  CHOOSE S \in SUBSET below :
    \A x \in below : x \in S <=> \E d \in Deps[x] : d = o \/ d \in S
=============================================================================
