--------------------------- MODULE DependencyPlanner ---------------------------
(***************************************************************************)
(* The edges DependencyPlanner.build_graph() draws: for each operation of  *)
(* the file, in order, the operations it is made to wait for.  They are a  *)
(* set: edges that leave the same node do not decide whether another of    *)
(* them closes a cycle.  Operations that were errors when they were built  *)
(* neither wait nor are waited for.                                        *)
(***************************************************************************)
EXTENDS OperationFactory

NodeId(op) == <<op.row.type, op.row.id>>
Valid(op) == ~op.payload.error

(***************************************************************************)
(* The lookup maps: a name leads to the LAST valid operation of the listed *)
(* types with that name, whatever its action.                              *)
(***************************************************************************)
MapRows(ops, types) == {i \in DOMAIN ops : /\ Valid(ops[i])
                                           /\ ops[i].row.type \in types
                                           /\ ops[i].row.name # None}
Entry(ops, types, key(_), k) ==
    LET at == {i \in MapRows(ops, types) : key(ops[i].row) = k}
    IN  IF at = {} THEN {} ELSE {NodeId(ops[CHOOSE i \in at : \A j \in at : j <= i])}

ByName(r) == r.name
Blocks(ops, k)     == Entry(ops, {"ip4_block"}, ByName, k)
Networks(ops, k)   == Entry(ops, {"ip4_network"}, ByName, k)
Zones(ops, k)      == Entry(ops, {"dns_zone"}, ByName, k)
Hosts(ops, k)      == Entry(ops, {"host_record"}, ByName, k)
Locations(ops, k)  == Entry(ops, {"location"}, ByName, k)
Addresses(ops, k)  == Entry(ops, {"ip4_address", "ip6_address"}, ByName, k)
DeviceTypes(ops, k)    == Entry(ops, {"device_type"}, ByName, k)
DeviceSubtypes(ops, k) == Entry(ops, {"device_subtype"}, ByName, k)
\* By configuration and name first, then by name alone
Devices(ops, config, k) ==
    LET full == IF config = None THEN {}
                ELSE Entry(ops, {"device"}, LAMBDA r : r.config \o r.name, config \o k)
    IN  IF full # {} THEN full ELSE Entry(ops, {"device"}, ByName, k)

\* The deferred key of a slot, None when the factory left none
DeferredKey(op, slot) ==
    LET keys == {d.key : d \in {e \in op.payload.deferred : e.slot = slot}}
    IN  IF keys = {} THEN None ELSE CHOOSE k \in keys : TRUE

WaitsFor(map(_), k) == IF k = None THEN {} ELSE map(k)

(***************************************************************************)
(* The edges of one operation.  The parent column of a network plays no    *)
(* part: the planner reads a column parent_path, which no row class or     *)
(* document has, and files with such an extra column are left out.  Only a *)
(* block that another row creates is waited for.                           *)
(***************************************************************************)
RecordTypes == {"host_record", "alias_record", "mx_record", "txt_record",
                "srv_record", "external_host_record"}
RoleTypes == {"dhcp_deployment_role", "dns_deployment_role"}

\* A host record waits for the first network (of the file) around each address
HostNetworks(ops, op) ==
    LET networks == MapRows(ops, {"ip4_network"})
        around(a) == {i \in networks : <<ops[i].row.name, a>> \in Covers}
        edge(a) == IF around(a) = {} THEN {}
                   ELSE Networks(ops, ops[CHOOSE i \in around(a) :
                                            \A j \in around(a) : i <= j].row.name)
    IN  IF op.row.addresses = None THEN {}
        ELSE UNION {edge(op.row.addresses[i]) : i \in DOMAIN op.row.addresses}

ParentEdges(ops, op) ==
    LET network == WaitsFor(LAMBDA k : Networks(ops, k), DeferredKey(op, "network"))
        block   == WaitsFor(LAMBDA k : Blocks(ops, k), DeferredKey(op, "block"))
        zone    == DeferredKey(op, "zone")
        zones(k) == Zones(ops, k)
    IN  CASE op.row.type = "ip4_network" -> block
          [] op.row.type \in {"ip4_address", "ipv4_dhcp_range"} -> network
          [] op.row.type \in RecordTypes ->
               WaitsFor(zones, IF zone # None THEN zone ELSE op.row.zone)
               \cup (IF op.row.type = "host_record" THEN HostNetworks(ops, op) ELSE {})
          [] op.row.type \in RoleTypes ->
               network \cup block \cup WaitsFor(zones, zone)
               \cup (IF /\ op.row.path # None /\ Len(op.row.path) = 1
                         /\ DeferredKey(op, "network") = None
                      THEN Networks(ops, op.row.path[1]) ELSE {})
          [] OTHER -> {}

\* Alias, mail exchanger and service records wait for the host they point to
TargetEdges(ops, op) ==
    IF op.row.type \in {"alias_record", "mx_record", "srv_record"} /\ op.row.target # None
    THEN Hosts(ops, op.row.target) ELSE {}

\* Slip: locations wait for their parents, nothing else does
LocationEdgesOfLocations(ops, op) ==
    IF op.row.type # "location" THEN {}
    ELSE WaitsFor(LAMBDA k : Locations(ops, k), DeferredKey(op, "location"))

LocationEdges(ops, op) ==
    WaitsFor(LAMBDA k : Locations(ops, k), DeferredKey(op, "location"))

LinkEnd(ops, op, type, path) ==
    CASE type = None \/ path = None -> {}
      [] type \in {"ip4_address", "ip6_address"} -> Addresses(ops, path[1])
      [] type \in {"ip4_network", "ip6_network"} -> Networks(ops, path[1])
      [] type \in {"ip4_block", "ip6_block"}     -> Blocks(ops, path[1])
      [] type = "device" -> Devices(ops, op.row.config, path[1])
      [] OTHER -> {}

LinkEdges(ops, op) ==
    LinkEnd(ops, op, op.row.stype, op.row.spath)
    \cup (IF op.row.dest = "dns_zone" THEN WaitsFor(LAMBDA k : Zones(ops, k), op.row.dpath[1])
          ELSE LinkEnd(ops, op, op.row.dest, op.row.dpath))

DeviceEdges(ops, op) ==
    CASE op.row.type = "device_subtype" ->
           WaitsFor(LAMBDA k : DeviceTypes(ops, k), op.row.dtype)
      [] op.row.type = "device" ->
           WaitsFor(LAMBDA k : DeviceTypes(ops, k), op.row.dtype)
           \cup WaitsFor(LAMBDA k : DeviceSubtypes(ops, k), op.row.subtype)
      [] OTHER -> {}

Edges(ops, op) ==
    ParentEdges(ops, op) \cup TargetEdges(ops, op) \cup LocationEdges(ops, op)
    \cup (IF op.row.type = "user_defined_link" THEN LinkEdges(ops, op) ELSE DeviceEdges(ops, op))

(***************************************************************************)
(* The host-record branch assigns its address list to the variable that    *)
(* holds the map of addresses; from then on a link from or to an address   *)
(* has no map to look in, and build_graph() raises AttributeError.         *)
(***************************************************************************)
LinksAddress(op) ==
    LET address == {"ip4_address", "ip6_address"}
    IN  /\ op.row.type = "user_defined_link"
        /\ \/ op.row.stype \in address /\ op.row.spath # None
           \/ op.row.dest \in address /\ op.row.dpath # None

AddressMapLost(ops, i) ==
    /\ LinksAddress(ops[i])
    /\ \E j \in 1..(i - 1) : Valid(ops[j]) /\ ops[j].row.type = "host_record"

=============================================================================
