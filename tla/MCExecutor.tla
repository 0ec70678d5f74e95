----------------------------- MODULE MCExecutor -----------------------------
(***************************************************************************)
(* A small plan for the executor, as the planner would lay it out: the     *)
(* batch of an operation is its depth in the dependency graph, and a       *)
(* system_barrier NOOP closes a phase (DependencyGraph._apply_phasing).    *)
(***************************************************************************)
EXTENDS Executor, TLC

(***************************************************************************)
(* A file with a delete phase, resources and records: a zone is deleted    *)
(* and created again with a record in it, an IPv6 block is created with a  *)
(* network in it, the network gets a deployment role, a record is renamed, *)
(* and the row of another one could not be turned into a request.          *)
(* DependencyPlanner gives an ip6_network no edge to its ip6_block, so     *)
(* both are in one batch although the id is deferred.  Phases that add     *)
(* only barriers (zones after blocks, roles after records) are merged.     *)
(***************************************************************************)
FirstPhase == {"block6", "net6", "zone"}
Barriers   == {"delBarrier", "barrier"}

FileDeps ==
  ("delZone" :> {}) @@ ("delBarrier" :> {"delZone"})
  @@ [o \in FirstPhase |-> {"delBarrier"}]
  @@ ("barrier" :> FirstPhase)
  @@ ("record" :> {"barrier", "zone"}) @@ ("role" :> {"barrier", "net6"})
  @@ ("badRecord" :> {"barrier"}) @@ ("rename" :> {"barrier"})

FileOps == DOMAIN FileDeps

FileKind ==
  [o \in FileOps |-> CASE o = "delZone" -> "delete"
                       [] o = "rename"  -> "update"
                       [] o \in Barriers -> "noop"
                       [] OTHER -> "create"]

FileBatch ==
  [o \in FileOps |-> CASE o = "delZone"    -> 0
                       [] o = "delBarrier" -> 1
                       [] o \in FirstPhase -> 2
                       [] o = "barrier"    -> 3
                       [] OTHER            -> 4]

FileThings == (FileOps \ ({"delZone"} \cup Barriers)) \cup {"nothing"}
FileTarget ==
  [o \in FileOps |-> CASE o = "delZone" -> "zone"
                       [] o \in Barriers -> "nothing"
                       [] OTHER -> o]
FileDeferred ==
  [o \in FileOps |-> CASE o = "net6"   -> {"block6"}
                       [] o = "record" -> {"zone"}
                       [] o = "role"   -> {"net6"}
                       [] OTHER        -> {}]
=============================================================================
