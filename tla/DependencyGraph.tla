---------------------------- MODULE DependencyGraph ----------------------------
(***************************************************************************)
(* DependencyGraph: nodes in the order they were added, for each node the  *)
(* set of nodes it depends on ("dependents" is the inverse relation) and   *)
(* its operation.  An operator that changes a graph returns the new graph. *)
(***************************************************************************)
EXTENDS DependencyPlanner, SequencesExt

EmptyGraph == [nodes |-> <<>>, deps |-> [n \in {} |-> {}], ops |-> [n \in {} |-> Nothing]]

NodesOf(g) == {g.nodes[i] : i \in DOMAIN g.nodes}

\* add_operation(): a second operation with the same type and row id is ignored
AddOperation(g, node, op) ==
    IF node \in NodesOf(g) THEN g
    ELSE [nodes |-> Append(g.nodes, node),
          deps  |-> [n \in NodesOf(g) \cup {node} |-> IF n = node THEN {} ELSE g.deps[n]],
          ops   |-> [n \in NodesOf(g) \cup {node} |-> IF n = node THEN op ELSE g.ops[n]]]

\* Slip: a node that is reached on two ways counts as a cycle
HasCycleFromRevisits(g, node) ==
    \E m, k \in g.deps[node] : m # k /\ g.deps[m] \cap g.deps[k] # {}

\* _has_cycle_from(): the search along the dependencies of a node comes back to
\* a node it came through exactly if it can go on for ever, among some nodes
\* each of which depends on one of them
HasCycleFrom(g, node) ==
    \E S \in SUBSET NodesOf(g) : node \in S /\ \A n \in S : g.deps[n] \cap S # {}

\* add_dependency(): an edge to or from a node that is not there raises, and so
\* does one that closes a cycle, which is taken out again
WithEdge(g, dependent, dependency) == [g EXCEPT !.deps[dependent] = @ \cup {dependency}]

Raises(g, dependent, dependency) ==
    \/ ~({dependent, dependency} \subseteq NodesOf(g))
    \/ dependent # dependency /\ HasCycleFrom(WithEdge(g, dependent, dependency), dependent)

AddDependency(g, dependent, dependency) ==
    IF Raises(g, dependent, dependency) \/ dependent = dependency THEN g
    ELSE WithEdge(g, dependent, dependency)

-----------------------------------------------------------------------------
(***************************************************************************)
(* Phases.                                                                 *)
(***************************************************************************)
PhaseOrder == <<
    {"device_type", "tag_group", "udf_definition", "udl_definition", "mac_pool"},
    {"device_subtype", "tag"},
    {"location", "ip4_block", "ip4_network", "ip6_block", "ip6_network"},
    {"dns_zone", "acl"},
    {"external_host_record"},
    {"host_record", "ip4_address", "ip6_address", "ip4_group", "mac_address"},
    {"alias_record", "mx_record", "srv_record", "txt_record", "generic_record"},
    {"device"},
    {"ipv4_dhcp_range", "ipv6_dhcp_range", "dhcpv4_client_class", "dhcp_deployment_role",
     "dns_deployment_role", "dhcpv4_client_deployment_option",
     "dhcpv4_service_deployment_option", "device_address", "resource_tag",
     "user_defined_link", "access_right"} >>

Phases == Len(PhaseOrder)
\* The steps of _apply_phasing(): deletions in reverse order, then the rest
PhaseSteps == 1..(2 * Phases)
PhaseTypes(s) == IF s <= Phases THEN PhaseOrder[Phases + 1 - s] ELSE PhaseOrder[s - Phases]
PhaseActions(s) == IF s <= Phases THEN {"delete"} ELSE {"create", "update"}
Barrier(s) == <<"system_barrier", s>>
BarrierOp == [row |-> [type |-> "system_barrier", action |-> "noop"], payload |-> Nothing]

PhaseNodes(g, s) == {n \in NodesOf(g) : /\ g.ops[n].row.type \in PhaseTypes(s)
                                          /\ g.ops[n].row.action \in PhaseActions(s)}

\* Slip: a barrier does not hold back the nodes behind it
WaitForBarrierUnheld(g, nodes, previous) == g

\* The nodes of a phase wait for the barrier of the phase before, if there is one
WaitForBarrier(g, nodes, previous) ==
    IF previous = 0 THEN g
    ELSE [g EXCEPT !.deps = [n \in NodesOf(g) |-> IF n \in nodes THEN @[n] \cup {Barrier(previous)}
                                                 ELSE @[n]]]

\* One turn of the loop: the nodes wait for the barrier before, the new
\* barrier waits for the nodes
ApplyPhase(g, s, previous) ==
    LET nodes == PhaseNodes(g, s)
        held  == AddOperation(WaitForBarrier(g, nodes, previous), Barrier(s), BarrierOp)
    IN  [held EXCEPT !.deps[Barrier(s)] = nodes]

\* The turn raises at the first of its edges that closes a cycle
PhaseRaises(g, s, previous) ==
    LET phased == ApplyPhase(g, s, previous)
    IN  \E n \in {Barrier(s)} \cup PhaseNodes(g, s) : HasCycleFrom(phased, n)

-----------------------------------------------------------------------------
(***************************************************************************)
(* Depths and batches.  The batches are filled in the order of the sort,   *)
(* in which a node comes after everything it depends on: the depth of a    *)
(* node (the length of the longest way to it) is known from the batches    *)
(* its dependencies were put in.                                           *)
(***************************************************************************)
InBatches(batches, nodes) == {b \in DOMAIN batches : ToSet(batches[b]) \cap nodes # {}}

\* Slip: the shortest way to a node instead of the longest
BatchForByShortest(g, batches, node) ==
    IF g.deps[node] = {} THEN 1 ELSE 1 + Min(InBatches(batches, g.deps[node]))

\* _calculate_depths(): one more than the deepest dependency (batch 1 has depth 0)
BatchFor(g, batches, node) == 1 + Max({0} \cup InBatches(batches, g.deps[node]))

\* get_execution_batches(): a node is the next one of its depth
Placed(g, batches, node) ==
    LET b == BatchFor(g, batches, node)
    IN  IF b \in DOMAIN batches THEN [batches EXCEPT ![b] = Append(@, node)]
        ELSE Append(batches, <<node>>)

(***************************************************************************)
(* build_from_operations(): the edges the graph finds by itself, used by   *)
(* callers that do not go through the planner.                             *)
(***************************************************************************)
\* The first node of the graph that creates a resource with these properties
FirstOf(g, types, test(_)) ==
    LET hits == {i \in DOMAIN g.nodes : /\ g.ops[g.nodes[i]].row.type \in types
                                        /\ g.ops[g.nodes[i]].row.action = "create"
                                        /\ test(g.ops[g.nodes[i]].row)}
    IN  {g.nodes[i] : i \in {k \in hits : \A m \in hits : k <= m}}

\* A CIDR that is a segment of the path, in the same configuration
ByPath(g, r, type) ==
    IF r.parent = None \/ r.config = None THEN {}
    ELSE FirstOf(g, {type}, LAMBDA o : /\ o.config = r.config
                                       /\ \E i \in DOMAIN r.parent : r.parent[i] = o.name)

ByDnsZone(g, r) ==
    IF r.zone = None \/ r.config = None \/ r.view = None THEN {}
    ELSE FirstOf(g, {"dns_zone"}, LAMBDA o : /\ o.config = r.config /\ o.view = r.view
                                             /\ o.name = r.zone)

NamedCreate(g, type, name) ==
    IF name = None THEN {} ELSE FirstOf(g, {type}, LAMBDA o : o.name = name)

ByDeviceName(g, r) ==
    IF r.device = None \/ r.config = None THEN {}
    ELSE FirstOf(g, {"device"}, LAMBDA o : o.name = r.device /\ o.config = r.config)

ByRecordReference(g, r) ==
    IF r.type \notin {"alias_record", "mx_record", "srv_record"} \/ r.target = None
    THEN {}
    ELSE LET host == FirstOf(g, {"host_record"}, LAMBDA o : o.name = r.target)
         IN  IF host # {} THEN host
             ELSE FirstOf(g, {"external_host_record"}, LAMBDA o : o.name = r.target)

PathDependencies(g, r) ==
    CASE r.type = "ip4_network" -> ByPath(g, r, "ip4_block")
      [] r.type = "ip4_address" -> ByPath(g, r, "ip4_network")
      [] r.type \in RecordTypes -> ByDnsZone(g, r)
      [] r.type = "device_subtype" -> NamedCreate(g, "device_type", r.dtype)
      [] r.type = "device" -> NamedCreate(g, "device_type", r.dtype)
                              \cup NamedCreate(g, "device_subtype", r.subtype)
      [] r.type = "device_address" -> ByDeviceName(g, r)
      [] OTHER -> {}

\* Both rows of every type above have a configuration, which is what is compared:
\* equal names are not "child of", and one name is never a segment prefix of another
IsChildOf(child, parent) ==
    LET path(r) == IF r.config # None THEN <<r.config>> ELSE r.parent
    IN  /\ path(child) # None /\ path(parent) # None
        /\ Len(path(child)) > Len(path(parent))
        /\ SubSeq(path(child), 1, Len(path(parent))) = path(parent)

DeleteDependencies(g, node) ==
    {n \in NodesOf(g) : /\ n # node
                        /\ g.ops[n].row.action = "delete"
                        /\ IsChildOf(g.ops[n].row, g.ops[node].row)}

\* The parent of an address and of a host record is looked for by the name of
\* its configuration or view: the first node that has that name for its own
ParentDependencies(g, node) ==
    LET r == g.ops[node].row
        parent == CASE r.type = "ip4_network" -> r.parent
                    [] r.type = "ip4_address" /\ r.config # None -> <<r.config>>
                    [] r.type = "host_record" /\ r.view # None -> <<r.view>>
                    [] OTHER -> None
        own(o) == IF o.config # None THEN <<o.config>> ELSE o.parent
        hits == {i \in DOMAIN g.nodes : own(g.ops[g.nodes[i]].row) = parent}
    IN  IF parent = None THEN {}
        ELSE {g.nodes[i] : i \in {k \in hits : \A m \in hits : k <= m}}

\* The calls of add_dependency() for one node.  Cycles are caught around parents
\* and deletions, not around paths and records.
Calls(node, caught, nodes) == {[from |-> node, to |-> n, caught |-> caught] : n \in nodes}
DetectDependencies(g, node) ==
    LET r == g.ops[node].row
    IN  IF r.action = "delete" THEN Calls(node, TRUE, DeleteDependencies(g, node))
        ELSE Calls(node, TRUE, ParentDependencies(g, node))
             \cup Calls(node, FALSE, PathDependencies(g, r) \cup ByRecordReference(g, r))

=============================================================================
