--------------------------------- MODULE Rows ---------------------------------
(***************************************************************************)
(* What CSVParser makes of the lines of a file: a row for every line that  *)
(* the class of its object_type accepts.                                   *)
(*                                                                         *)
(* A line is [id, type, action, bam_id, cells].  The cells map the columns *)
(* under a header to values; Blank is a cell with nothing but spaces, Bad  *)
(* stands for any value that the validators of the row classes refuse (no  *)
(* CIDR, an unknown role type, a TTL out of range, ...).                   *)
(***************************************************************************)
EXTENDS Naturals, Sequences
LOCAL INSTANCE SequencesExt

CONSTANTS Blank, Bad, None

\* A row class: the columns it requires, and those that it validates
Class(required, checked) == [required |-> required, checked |-> checked]

-----------------------------------------------------------------------------
IP4NetworkRow == Class({"config", "cidr", "name"}, {"cidr"})
IP4BlockRow   == Class({"config", "cidr", "name"}, {"cidr"})
IP4GroupRow   == Class({"config", "parent", "name", "range"}, {"parent", "name", "range"})
\* Slip: an address row is known by its bam_id alone
IP4AddressRowBare == Class({}, {"address", "mac", "state"})

IP4AddressRow == Class({"config", "address"}, {"address", "mac", "state"})
IP6BlockRow   == Class({"config", "cidr", "name"}, {"cidr"})
IP6NetworkRow == Class({"config", "cidr", "name"}, {"cidr"})
IP6AddressRow == Class({"config", "address"}, {"address", "mac", "state"})

DNSRow == {"config", "view_path", "name"}

HostRecordRow  == Class(DNSRow \cup {"addresses"}, {"addresses", "ttl"})
AliasRecordRow == Class(DNSRow \cup {"linked_record_name"}, {"ttl"})
MXRecordRow    == Class(DNSRow \cup {"exchange", "preference"}, {"preference", "ttl"})
TXTRecordRow   == Class(DNSRow \cup {"text"}, {"ttl"})
SRVRecordRow   == Class(DNSRow \cup {"target", "port", "priority", "weight"},
                        {"port", "priority", "weight", "ttl"})
ExternalHostRecordRow == Class(DNSRow, {"name", "ttl"})
GenericRecordRow == Class(DNSRow \cup {"record_type", "rdata"},
                          {"record_type", "rdata", "ttl"})
DNSZoneRow     == Class({"config", "view_path", "zone_name"}, {})

IPv4DHCPRangeRow == Class({}, {"range", "low_water_mark", "high_water_mark"})
IPv6DHCPRangeRow == Class({}, {"range", "low_water_mark", "high_water_mark"})
DHCPDeploymentRoleRow == Class({}, {"role_type", "interfaces", "server_group_id"})
DNSDeploymentRoleRow  == Class({}, {"role_type", "interfaces", "ns_record_ttl"})
DHCPv4ClientDeploymentOptionRow  == Class({}, {"code", "server_scope"})
DHCPv4ServiceDeploymentOptionRow == Class({}, {"code", "server_scope"})

LocationRow      == Class({"parent_code", "code", "name"},
                          {"parent_code", "code", "latitude", "longitude"})
UDFDefinitionRow == Class({"name", "field_type"}, {"name", "field_type"})
UDLDefinitionRow == Class({"name", "source_types", "destination_types"}, {"name"})
UserDefinedLinkRow ==
    Class({"config", "udl_name", "source_type", "source_path", "destination_type",
           "destination_path"}, {})

MACPoolRow     == Class({"config", "name"}, {"name", "pool_type"})
MACAddressRow  == Class({"config", "mac_address"}, {"mac_address"})
TagGroupRow    == Class({"name"}, {"name"})
TagRow         == Class({"name", "tag_group"}, {"name"})
ResourceTagRow == Class({"config", "resource_type", "resource_path", "tag_name"}, {})
DeviceTypeRow    == Class({"name"}, {"name"})
DeviceSubtypeRow == Class({"device_type", "name"}, {"name"})
DeviceRow        == Class({"config", "name"}, {"name", "mac_address", "addresses"})
DeviceAddressRow == Class({"config", "device_name", "address"}, {"address"})
AccessRightRow   == Class({"user_type", "user_name", "default_access_level"},
                          {"user_type", "default_access_level", "workflow_level"})
ACLRow           == Class({"name", "config"}, {})

\* The discriminated union CSVRow: a class for every object_type
CSVRow == [
    ip4_block |-> IP4BlockRow, ip4_network |-> IP4NetworkRow, ip4_group |-> IP4GroupRow,
    ip4_address |-> IP4AddressRow, ip6_block |-> IP6BlockRow,
    ip6_network |-> IP6NetworkRow, ip6_address |-> IP6AddressRow,
    host_record |-> HostRecordRow, alias_record |-> AliasRecordRow,
    mx_record |-> MXRecordRow, txt_record |-> TXTRecordRow, srv_record |-> SRVRecordRow,
    external_host_record |-> ExternalHostRecordRow, generic_record |-> GenericRecordRow,
    dns_zone |-> DNSZoneRow, ipv4_dhcp_range |-> IPv4DHCPRangeRow,
    ipv6_dhcp_range |-> IPv6DHCPRangeRow, dhcp_deployment_role |-> DHCPDeploymentRoleRow,
    dns_deployment_role |-> DNSDeploymentRoleRow,
    dhcpv4_client_deployment_option |-> DHCPv4ClientDeploymentOptionRow,
    dhcpv4_service_deployment_option |-> DHCPv4ServiceDeploymentOptionRow,
    location |-> LocationRow, udf_definition |-> UDFDefinitionRow,
    udl_definition |-> UDLDefinitionRow, user_defined_link |-> UserDefinedLinkRow,
    mac_pool |-> MACPoolRow, mac_address |-> MACAddressRow, tag_group |-> TagGroupRow,
    tag |-> TagRow, resource_tag |-> ResourceTagRow, device_type |-> DeviceTypeRow,
    device_subtype |-> DeviceSubtypeRow, device |-> DeviceRow,
    device_address |-> DeviceAddressRow, access_right |-> AccessRightRow, acl |-> ACLRow]

-----------------------------------------------------------------------------
\* A blank name is the apex of the zone, for the records that allow one
Apex == {"host_record", "alias_record", "mx_record", "txt_record", "srv_record",
         "generic_record"}

\* The value of a column in the cleaned row: an empty cell is no value
Cell(line, column) ==
    IF column \notin DOMAIN line.cells THEN None
    ELSE IF line.cells[column] = Blank THEN None
    ELSE line.cells[column]

Given(line, column) ==
    \/ Cell(line, column) # None
    \/ column = "name" /\ line.type \in Apex /\ "name" \in DOMAIN line.cells

StartsWith(code, parent) ==
    Len(parent) <= Len(code) /\ SubSeq(code, 1, Len(parent)) = parent

\* The validators of a whole row
Whole(line) ==
    /\ line.type = "dns_deployment_role" =>
         LET paths == {"zone_path", "network_path", "block_path"}
         IN  \E c \in paths : \A d \in paths : Cell(line, d) # None <=> d = c
    /\ line.type = "location" =>
         StartsWith(Cell(line, "code"), Cell(line, "parent_code"))

Accepted(line) ==
    /\ line.type \in DOMAIN CSVRow
    /\ line.action \in {"create", "update", "delete"}
    /\ line.bam_id # Bad
    /\ \A c \in CSVRow[line.type].required : Given(line, c)
    /\ \A c \in CSVRow[line.type].checked : Cell(line, c) # Bad
    /\ Whole(line)

\* A row_id belongs to the first accepted line that has it
Duplicate(lines, i) ==
    \E j \in 1 .. i - 1 : lines[j].id = lines[i].id /\ Accepted(lines[j])

(***************************************************************************)
(* parse(): the first line that is not accepted makes a strict parser give *)
(* up the whole file; otherwise the line is left out.                      *)
(***************************************************************************)
Refused(lines) ==
    {i \in DOMAIN lines : ~Accepted(lines[i]) \/ Duplicate(lines, i)}

Kept(lines) ==
    LET at == SetToSortSeq(DOMAIN lines \ Refused(lines), <)
    IN  [k \in DOMAIN at |-> lines[at[k]]]

\* Slip: a strict parser that leaves out the bad lines
ParseLeniently(lines, strict) == [refused |-> FALSE, rows |-> Kept(lines)]

Parse(lines, strict) ==
    [refused |-> strict /\ Refused(lines) # {},
     rows |-> CASE Refused(lines) = {} -> lines
                [] Refused(lines) # {} /\ strict -> <<>>
                [] OTHER -> Kept(lines)]
=============================================================================
