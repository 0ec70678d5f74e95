--------------------------- MODULE OperationFactory ---------------------------
(***************************************************************************)
(* What OperationFactory makes of a row: for every reference of the row to *)
(* another resource, either an id found in BAM, or a deferred key (the     *)
(* resource is created by another row of the file and its id is looked up  *)
(* when the row is executed), or nothing, or an error for the whole row.   *)
(*                                                                         *)
(* Names (CIDRs, addresses, zone names, location codes, ...) are sequences *)
(* of strings: one string for a name without structure, the labels for a   *)
(* domain name.  A path is a sequence of names (configuration, block,      *)
(* network): splitting it at its slashes gives two parts for a CIDR and    *)
(* one for anything else.                                                  *)
(***************************************************************************)
EXTENDS Naturals, Sequences, FiniteSets

CONSTANTS
    None,       \* a column that is empty or that the row type does not have
    Cidrs,      \* the names that are blocks and networks
    Covers    \* pairs <<cidr, name>>: the block or network covers the name

Kinds == {"block", "network", "zone", "location",
          "device_type", "device_subtype", "device"}

\* The map of PendingResources a created row goes to, None when to no one
PendingKind(type) ==
    CASE type \in {"ip4_block", "ip6_block"}     -> "block"
      [] type \in {"ip4_network", "ip6_network"} -> "network"
      [] type = "dns_zone"                       -> "zone"
      [] type \in {"location", "device_type", "device_subtype", "device"} -> type
      [] OTHER                                   -> None

\* Devices are kept per configuration, everything else by its name alone
PendingKey(r) == IF r.type = "device" THEN r.config \o r.name ELSE r.name

\* The rows whose resources a map holds, at their places in the file
KeptIn(kind, r) ==
    /\ r.action = "create" /\ PendingKind(r.type) = kind
    /\ r.name # None
    /\ r.type = "device" => r.config # None
FromRows(rows) ==
    [k \in Kinds |-> [i \in {j \in DOMAIN rows : KeptIn(k, rows[j])} |-> rows[i]]]

(***************************************************************************)
(* DeferredResolver: what is pending.  A map keeps a key at the place of   *)
(* its first row and the id of its last.                                   *)
(***************************************************************************)
IsPending(pending, kind, key) ==
    \E i \in DOMAIN pending[kind] : PendingKey(pending[kind][i]) = key

PendingRow(pending, kind, key) ==
    LET rows == pending[kind]
        at   == {i \in DOMAIN rows : PendingKey(rows[i]) = key}
    IN  rows[CHOOSE i \in at : \A j \in at : j <= i].id

Covering(pending, kind, name) ==
    {i \in DOMAIN pending[kind] : <<pending[kind][i].name, name>> \in Covers}

FindContainingPendingBlock(pending, cidr) ==
    LET at == Covering(pending, "block", cidr)
    IN  IF at = {} THEN None
        ELSE pending["block"][CHOOSE i \in at : \A j \in at : i <= j].name

FindContainingPendingNetwork(pending, address) ==
    LET at == Covering(pending, "network", address)
    IN  IF at = {} THEN None
        ELSE pending["network"][CHOOSE i \in at : \A j \in at : i <= j].name

(***************************************************************************)
(* The outcome of a builder: the payload keys it sets, or that it raised.  *)
(* Both(a, b) is b after a; nothing follows an error.                      *)
(***************************************************************************)
Nothing == [error |-> FALSE, deferred |-> {}, ids |-> {}]
Raise   == [Nothing EXCEPT !.error = TRUE]
Got(slot) == [Nothing EXCEPT !.ids = {slot}]
Found(c, type, name) == <<type, name>> \in c.bam
Lookup(slot, found)  == IF found THEN Got(slot) ELSE Nothing
Require(slot, found) == IF found THEN Got(slot) ELSE Raise
Defer(c, slot, key) ==
    [Nothing EXCEPT !.deferred = {[slot |-> slot, key |-> key,
                                   row |-> PendingRow(c.pending, slot, key)]}]
Both(a, b) ==
    IF a.error THEN a
    ELSE [error |-> b.error, deferred |-> a.deferred \cup b.deferred,
          ids |-> a.ids \cup b.ids]

IsPend(c, kind, key) == IsPending(c.pending, kind, key)
IsCidr(name) == name \in Cidrs

(***************************************************************************)
(* Resolver._query_bam as the factory meets it: a block is found by        *)
(* configuration and CIDR, a network by configuration, block and CIDR;     *)
(* every other shape of path is "not found".                               *)
(***************************************************************************)
ResolvesBlock(c, path, type) ==
    /\ Len(path) = 2 /\ ~IsCidr(path[1]) /\ IsCidr(path[2])
    /\ Found(c, "configuration", path[1])
    /\ Found(c, type, path[2])

ResolvesNetwork(c, path, block, type) ==
    /\ Len(path) = 3 /\ ~IsCidr(path[1]) /\ IsCidr(path[2]) /\ IsCidr(path[3])
    /\ Found(c, "configuration", path[1])
    /\ Found(c, block, path[2])
    /\ Found(c, type, path[3])
    /\ <<path[2], path[3]>> \in Covers

LocationCode(c, r) ==
    IF r.location = None THEN Nothing
    ELSE IF IsPend(c, "location", r.location) THEN Defer(c, "location", r.location)
    ELSE Lookup("location", Found(c, "location", r.location))

-----------------------------------------------------------------------------
(***************************************************************************)
(* Blocks, networks, addresses and ranges.                                 *)
(***************************************************************************)
Ip4BlockPayload(c, r) ==
    Both(IF r.parent = None THEN Nothing
         ELSE Require("block", ResolvesBlock(c, r.parent, "ip4_block")),
         LocationCode(c, r))

\* The last CIDR of a parent path with at least three parts
NetworkParentPath(c, r) ==
    LET last == r.parent[Len(r.parent)]
    IN  IF Len(r.parent) >= 2 /\ IsCidr(last) /\ IsPend(c, "block", last)
        THEN Defer(c, "block", last)
        ELSE Require("block", ResolvesBlock(c, r.parent, "ip4_block"))

AutoDiscoverNetworkParent(c, r) ==
    LET block == FindContainingPendingBlock(c.pending, r.name)
    IN  IF block # None THEN Defer(c, "block", block)
        ELSE Require("block", \E b \in Cidrs : /\ Found(c, "ip4_block", b)
                                               /\ <<b, r.name>> \in Covers)

Ip4NetworkPayload(c, r) ==
    Both(CASE r.parent # None                     -> NetworkParentPath(c, r)
           [] r.parent = None /\ r.config # None -> AutoDiscoverNetworkParent(c, r)
           [] OTHER                               -> Nothing,
         LocationCode(c, r))

\* The IPv6 builders compare the whole parent column with the pending CIDRs,
\* and go on without an id when the parent is not found
Ip6BlockPayload(c, r) ==
    Both(CASE r.parent = None -> Nothing
           [] r.parent # None /\ Len(r.parent) = 1 /\ IsPend(c, "block", r.parent[1])
                -> Defer(c, "block", r.parent[1])
           [] OTHER -> Lookup("block", ResolvesBlock(c, r.parent, "ip4_block")),
         LocationCode(c, r))

Ip6NetworkPayload(c, r) ==
    LET path == IF r.config # None /\ r.parent # None /\ r.parent[1] # r.config
                THEN <<r.config>> \o r.parent ELSE r.parent
    IN  Both(CASE r.parent = None -> Nothing
               [] r.parent # None /\ Len(r.parent) = 1 /\ IsPend(c, "block", r.parent[1])
                    -> Defer(c, "block", r.parent[1])
               [] OTHER -> Lookup("block", ResolvesBlock(c, path, "ip6_block")),
             LocationCode(c, r))

AutoDiscoverAddressNetwork(c, address) ==
    LET network == FindContainingPendingNetwork(c.pending, address)
    IN  IF network # None THEN Defer(c, "network", network)
        ELSE Lookup("network", \E n \in Cidrs : /\ \/ Found(c, "ip4_network", n)
                                                   \/ Found(c, "ip6_network", n)
                                                /\ <<n, address>> \in Covers)

Ip4AddressPayload(c, r) ==
    LET byPath == IF r.parent = None THEN Nothing
                  ELSE Lookup("network",
                              ResolvesNetwork(c, r.parent, "ip4_block", "ip4_network"))
    IN  Both(IF r.config = None \/ byPath.ids # {} THEN byPath
             ELSE AutoDiscoverAddressNetwork(c, r.name),
             LocationCode(c, r))

Ip6AddressPayload(c, r) ==
    Both(IF r.config = None THEN Nothing ELSE AutoDiscoverAddressNetwork(c, r.name),
         LocationCode(c, r))

\* The network named by the last CIDR of a path, or by the path as it is
PathCidr(path) == path[Len(path)]

DhcpRangePayload(c, r) ==
    CASE r.path # None /\ IsPend(c, "network", PathCidr(r.path))
            -> Defer(c, "network", PathCidr(r.path))
      [] r.path # None /\ ~IsPend(c, "network", PathCidr(r.path))
            -> Lookup("network",
                      IF r.type = "ipv6_dhcp_range"
                      THEN ResolvesNetwork(c, r.path, "ip6_block", "ip6_network")
                      ELSE ResolvesNetwork(c, r.path, "ip4_block", "ip4_network"))
      [] r.path = None /\ r.config # None
            -> AutoDiscoverAddressNetwork(c, r.name)    \* its first address
      [] OTHER -> Nothing

-----------------------------------------------------------------------------
(***************************************************************************)
(* DNS: zones and the records in them.                                     *)
(***************************************************************************)
ParentZone(name, i) == SubSeq(name, i, Len(name))
Parents(name) == 2..Len(name)

\* The nearest enclosing zone decides: pending, or found with the child in it
NestedZone(c, zone) ==
    LET hit(i) == \/ IsPend(c, "zone", ParentZone(zone, i))
                  \/ /\ Found(c, "dns_zone", ParentZone(zone, i))
                     /\ Found(c, "dns_zone", ParentZone(zone, i - 1))
        hits == {i \in Parents(zone) : hit(i)}
    IN  IF hits = {} THEN Nothing
        ELSE LET i == CHOOSE j \in hits : \A k \in hits : j <= k
             IN  IF IsPend(c, "zone", ParentZone(zone, i))
                 THEN [Nothing EXCEPT !.deferred =
                         {[slot |-> "zone", key |-> zone,
                           row |-> PendingRow(c.pending, "zone", ParentZone(zone, i))]}]
                 ELSE Got("zone")

ZoneFromFqdn(c, name) ==
    LET hit(i) == \/ IsPend(c, "zone", ParentZone(name, i))
                  \/ Found(c, "dns_zone", ParentZone(name, i))
        hits == {i \in {1} \cup Parents(name) : hit(i)}
    IN  IF Len(name) < 2 \/ hits = {} THEN Nothing
        ELSE LET zone == ParentZone(name, CHOOSE j \in hits : \A k \in hits : j <= k)
             IN  IF IsPend(c, "zone", zone) THEN Defer(c, "zone", zone) ELSE Got("zone")

RecordZone(c, r) ==
    CASE r.zone = None -> ZoneFromFqdn(c, r.name)
      [] r.zone # None /\ r.type = "external_host_record"
           /\ Found(c, "external_zone", <<"external">>) -> Got("zone")
      [] r.zone # None /\ IsPend(c, "zone", r.zone)
           /\ ~(r.type = "external_host_record"
                  /\ Found(c, "external_zone", <<"external">>)) -> Defer(c, "zone", r.zone)
      [] OTHER -> IF Found(c, "dns_zone", r.zone) THEN Got("zone")
                  ELSE NestedZone(c, r.zone)

DnsPayload(c, r) ==
    Both(CASE r.view = None \/ r.config = None -> Nothing
           [] r.view # None /\ r.config # None /\ ~Found(c, "view", r.view) -> Raise
           [] OTHER -> IF r.type = "dns_zone" THEN Nothing ELSE RecordZone(c, r),
         LocationCode(c, r))

-----------------------------------------------------------------------------
(***************************************************************************)
(* Deployment roles and options.                                           *)
(***************************************************************************)
RoleNetwork(c, r) ==
    IF IsPend(c, "network", PathCidr(r.path))
    THEN Defer(c, "network", PathCidr(r.path))
    ELSE Lookup("network", Found(c, "ip4_network", PathCidr(r.path)))

RoleBlock(c, r) ==
    IF Len(r.parent) = 1 /\ IsPend(c, "block", r.parent[1])
    THEN Defer(c, "block", r.parent[1])
    ELSE Lookup("block", ResolvesBlock(c, r.parent, "ip4_block"))

\* A zone path needs its view
RoleZone(c, r) ==
    CASE r.view = None -> Nothing
      [] r.view # None /\ IsPend(c, "zone", r.zone) -> Defer(c, "zone", r.zone)
      [] OTHER -> Lookup("zone", Found(c, "view", r.view) /\ Found(c, "dns_zone", r.zone))

DeploymentRolePayload(c, r) ==
    IF r.config = None THEN Nothing
    ELSE Both(IF r.path = None THEN Nothing ELSE RoleNetwork(c, r),
              Both(IF r.parent = None THEN Nothing ELSE RoleBlock(c, r),
                   IF r.zone = None THEN Nothing ELSE RoleZone(c, r)))

DeploymentOptionPayload(c, r) ==
    IF r.config = None \/ r.path = None THEN Nothing ELSE RoleNetwork(c, r)

-----------------------------------------------------------------------------
(***************************************************************************)
(* Locations and devices.                                                  *)
(***************************************************************************)
LocationPayload(c, r) ==
    IF r.parent = None THEN Nothing
    ELSE IF IsPend(c, "location", r.parent[1]) THEN Defer(c, "location", r.parent[1])
    ELSE Require("parent_location", Found(c, "location", r.parent[1]))

DeviceTypeOf(c, r) ==
    CASE r.dtype = None -> Nothing
      [] r.dtype # None /\ IsPend(c, "device_type", r.dtype) -> Defer(c, "device_type", r.dtype)
      [] OTHER -> Lookup("device_type", Found(c, "device_type", r.dtype))

DeviceSubtypePayload(c, r) == DeviceTypeOf(c, r)

\* An existing subtype is looked up below an existing type only
DevicePayload(c, r) ==
    LET type == DeviceTypeOf(c, r)
    IN  Both(type,
             CASE r.subtype = None -> Nothing
               [] r.subtype # None /\ IsPend(c, "device_subtype", r.subtype)
                    -> Defer(c, "device_subtype", r.subtype)
               [] OTHER -> Lookup("device_subtype",
                                  type.ids # {} /\ Found(c, "device_subtype", r.subtype)))

DeviceAddressPayload(c, r) ==
    CASE r.device = None \/ r.config = None -> Nothing
      [] r.device # None /\ r.config # None /\ IsPend(c, "device", r.config \o r.device)
           -> Defer(c, "device", r.config \o r.device)
      [] OTHER -> Lookup("device", Found(c, "device", r.config \o r.device))

-----------------------------------------------------------------------------
(***************************************************************************)
(* Tags and links look in BAM only: what another row of the file creates   *)
(* is not there yet, and the row is an error.                              *)
(***************************************************************************)
TagPayload(c, r) ==
    IF r.group = None THEN Nothing ELSE Require("tag_group", Found(c, "tag_group", r.group))

\* A zone path names its view, or the configuration has exactly one
ZoneByPath(c, path) ==
    IF Len(path) = 2
    THEN Found(c, "view", path[1]) /\ Found(c, "dns_zone", path[2])
    ELSE /\ Cardinality({p \in c.bam : p[1] = "view"}) = 1
         /\ Found(c, "dns_zone", path[1])

ResourceForTagging(c, r) ==
    CASE r.stype \in {"ip4_network", "ip6_network"}
            -> Require("resource", Found(c, "ip4_network", PathCidr(r.spath)))
      [] r.stype \in {"ip4_block", "ip6_block"}
            -> Require("resource", Found(c, "ip4_block", PathCidr(r.spath)))
      [] r.stype = "dns_zone" -> Require("resource", ZoneByPath(c, r.spath))
      [] r.stype \in {"ip4_address", "ip6_address"}
            -> Require("resource", Found(c, "ip4_address", PathCidr(r.spath)))
      [] OTHER -> Nothing

ResourceTagPayload(c, r) ==
    Both(IF r.stype = None \/ r.spath = None \/ r.config = None THEN Nothing
         ELSE ResourceForTagging(c, r),
         IF r.tag = None THEN Nothing ELSE Require("tag", Found(c, "tag", r.tag)))

UdlResource(c, r, type, path, slot) ==
    CASE type \in {"ip4_address", "ip6_address"}
            -> Require(slot, Found(c, "ip4_address", PathCidr(path)))
      [] type \in {"ip4_network", "ip6_network"}
            -> Require(slot, Found(c, "ip4_network", PathCidr(path)))
      [] type \in {"ip4_block", "ip6_block"}
            -> Require(slot, Found(c, "ip4_block", PathCidr(path)))
      [] type = "device"   -> Require(slot, Found(c, "device", r.config \o PathCidr(path)))
      [] type = "dns_zone" -> Require(slot, ZoneByPath(c, path))
      [] type \in {"mac_address", "mac_pool", "server"}
            -> Require(slot, Found(c, type, PathCidr(path)))
      [] OTHER -> Nothing

UserDefinedLinkPayload(c, r) ==
    Both(IF r.udl = None THEN Nothing
         ELSE Require("udl_definition", Found(c, "udl_definition", r.udl)),
    Both(IF r.stype = None \/ r.spath = None \/ r.config = None THEN Nothing
         ELSE UdlResource(c, r, r.stype, r.spath, "source"),
         IF r.dest = None \/ r.dpath = None \/ r.config = None THEN Nothing
         ELSE UdlResource(c, r, r.dest, r.dpath, "destination")))

-----------------------------------------------------------------------------
DnsTypes == {"dns_zone", "host_record", "alias_record", "mx_record", "txt_record",
             "srv_record", "external_host_record", "generic_record"}

Build(c, r) ==
    CASE r.type = "ip4_block"   -> Ip4BlockPayload(c, r)
      [] r.type = "ip6_block"   -> Ip6BlockPayload(c, r)
      [] r.type = "ip4_network" -> Ip4NetworkPayload(c, r)
      [] r.type = "ip6_network" -> Ip6NetworkPayload(c, r)
      [] r.type = "ip4_address" -> Ip4AddressPayload(c, r)
      [] r.type = "ip6_address" -> Ip6AddressPayload(c, r)
      [] r.type \in {"ipv4_dhcp_range", "ipv6_dhcp_range"} -> DhcpRangePayload(c, r)
      [] r.type \in DnsTypes -> DnsPayload(c, r)
      [] r.type \in {"dhcp_deployment_role", "dns_deployment_role"}
                             -> DeploymentRolePayload(c, r)
      [] r.type \in {"dhcpv4_client_deployment_option", "dhcpv4_service_deployment_option"}
                             -> DeploymentOptionPayload(c, r)
      [] r.type = "location"          -> LocationPayload(c, r)
      [] r.type = "device_subtype"    -> DeviceSubtypePayload(c, r)
      [] r.type = "device"            -> DevicePayload(c, r)
      [] r.type = "device_address"    -> DeviceAddressPayload(c, r)
      [] r.type = "tag"               -> TagPayload(c, r)
      [] r.type = "resource_tag"      -> ResourceTagPayload(c, r)
      [] r.type = "user_defined_link" -> UserDefinedLinkPayload(c, r)
      [] OTHER -> Nothing     \* device_type, acl, tag_group, ...: no references

\* create_from_row(), and the placeholder of run_session() when it raises
CreateFromRow(c, r) ==
    [row |-> r,
     payload |-> IF r.config # None /\ ~Found(c, "configuration", r.config)
                 THEN Raise ELSE Build(c, r)]

=============================================================================
