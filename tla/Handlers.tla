------------------------------- MODULE Handlers -------------------------------
(***************************************************************************)
(* The handlers: the request that each object type makes of BAM to create, *)
(* update or delete a resource, and what it needs for it.                  *)
(*                                                                         *)
(* A request has the method and the collection that it is sent to, the     *)
(* payload keys without which the handler raises, the keys of which it     *)
(* uses the first that it has, the columns whose resources it looks up     *)
(* before, the columns that must have one of some types, and the key with  *)
(* the id of the resource it is about: bam_id, or a column of its own.     *)
(* "none" is the method of a request that is never sent, "UNLINK" that of  *)
(* a DELETE which names both ends of a link instead of an id.              *)
(***************************************************************************)
EXTENDS Naturals, Sequences, FiniteSets

Request(method, collection, needs) ==
    [method |-> method, collection |-> collection, needs |-> needs,
     oneOf |-> {}, looksUp |-> {}, typed |-> {}, by |-> "bam_id", guarded |-> FALSE]

NoCollection == ""
Unsupported == Request("none", NoCollection, {})

Post(collection, needs)   == Request("POST", collection, needs)
Put(collection, needs)    == Request("PUT", collection, needs)
Delete(collection, needs) == Request("DELETE", collection, needs)
Unlink(collection, needs) == Request("UNLINK", collection, needs)

\* operation.resource_id is not looked at: the id comes from a column of the row
ByColumn(request, column) ==
    [request EXCEPT !.by = column, !.needs = @ \cup {column}]

\* The handler raises for any other type in that column
OfType(request, column, types) ==
    [request EXCEPT !.typed = @ \cup {<<column, types>>}]

(***************************************************************************)
(* BAMClient.update_entity_by_id() and delete_entity_by_id()               *)
(***************************************************************************)
ResourceTypeMapping == [
    IPv4Block |-> "blocks", IPv4Network |-> "networks", IPv4Address |-> "addresses",
    IPv6Block |-> "blocks", IPv6Network |-> "networks", IPv6Address |-> "addresses",
    IPv4DHCPRange |-> "ranges", IPv6DHCPRange |-> "ranges",
    DHCPDeploymentRole |-> "deploymentRoles", DNSDeploymentRole |-> "deploymentRoles",
    DNSZone |-> "zones", HostRecord |-> "resourceRecords", AliasRecord |-> "resourceRecords",
    MXRecord |-> "resourceRecords", TXTRecord |-> "resourceRecords",
    SRVRecord |-> "resourceRecords", ExternalHostRecord |-> "resourceRecords",
    Device |-> "devices", DeviceType |-> "deviceTypes", DeviceSubtype |-> "deviceSubtypes"]

ProtectedResourceTypes ==
    {"IPv4Block", "IPv4Network", "IPv6Block", "IPv6Network", "DNSZone"}

\* A type without a collection is sent to an endpoint that BAM does not have
UpdateEntity(type) ==
    Request("PATCH", IF type \in DOMAIN ResourceTypeMapping
                     THEN ResourceTypeMapping[type] ELSE NoCollection, {})

\* Slip: the safety check is left to the callers
DeleteEntityUnguarded(type) ==
    IF type \notin DOMAIN ResourceTypeMapping THEN Unsupported
    ELSE Request("DELETE", ResourceTypeMapping[type], {})

DeleteEntity(type) ==
    IF type \notin DOMAIN ResourceTypeMapping THEN Unsupported
    ELSE [Request("DELETE", ResourceTypeMapping[type], {})
            EXCEPT !.guarded = type \in ProtectedResourceTypes]

-----------------------------------------------------------------------------
Handler(create, update, delete) ==
    [create |-> create, update |-> update, delete |-> delete]

IPv4BlockHandler ==
    Handler(Post("blocks", {"config_id"}), UpdateEntity("IPv4Block"), DeleteEntity("IPv4Block"))
IPv4NetworkHandler ==
    Handler(Post("networks", {"block_id"}),
            UpdateEntity("IPv4Network"), DeleteEntity("IPv4Network"))
IPv4GroupHandler ==
    Handler(Post("ipGroups", {"network_id", "name", "range"}),
            Put("ipGroups", {}), Delete("ipGroups", {}))
IPv4AddressHandler ==
    Handler(Post("addresses", {"network_id"}),
            UpdateEntity("IPv4Address"), DeleteEntity("IPv4Address"))
\* Without a parent it looks for 2000::/3, and goes on if there is none
IPv6BlockHandler ==
    Handler(Post("blocks", {"config_id"}), UpdateEntity("IPv6Block"), DeleteEntity("IPv6Block"))
IPv6NetworkHandler ==
    Handler(Post("networks", {"block_id"}),
            UpdateEntity("IPv6Network"), DeleteEntity("IPv6Network"))
IPv6AddressHandler ==
    Handler(Post("addresses", {"network_id"}),
            UpdateEntity("IPv6Address"), DeleteEntity("IPv6Address"))
IPv6DHCPRangeHandler ==
    Handler(Post("ranges", {"network_id"}),
            UpdateEntity("IPv6DHCPRange"), DeleteEntity("IPv6DHCPRange"))
IPv4DHCPRangeHandler ==
    Handler(Post("ranges", {"network_id"}),
            UpdateEntity("IPv4DHCPRange"), DeleteEntity("IPv4DHCPRange"))

DHCPDeploymentRoleHandler ==
    Handler([Post("deploymentRoles", {})
               EXCEPT !.oneOf = {"network_id", "block_id"}, !.looksUp = {"interfaces"}],
            UpdateEntity("DHCPDeploymentRole"), DeleteEntity("DHCPDeploymentRole"))
DNSDeploymentRoleHandler ==
    Handler([Post("deploymentRoles", {"interfaces"})
               EXCEPT !.oneOf = {"zone_id", "network_id", "block_id"},
                      !.looksUp = {"interfaces"}],
            UpdateEntity("DNSDeploymentRole"), Delete("deploymentRoles", {}))
DHCPv4ClientDeploymentOptionHandler ==
    Handler(Post("deploymentOptions", {"network_id", "name", "code", "value"}),
            Put("deploymentOptions", {}), Delete("deploymentOptions", {}))
DHCPv4ServiceDeploymentOptionHandler ==
    Handler(Post("deploymentOptions", {"network_id", "name", "code", "value"}),
            Put("deploymentOptions", {}), Delete("deploymentOptions", {}))

\* Without its view the request goes to views/None
DNSZoneHandler ==
    Handler(Post("zones", {"view_id"}), UpdateEntity("DNSZone"), DeleteEntity("DNSZone"))

\* Without their zone the requests of the records go to zones/None
RecordHandler(type, needs) ==
    Handler(Post("resourceRecords", {"zone_id"} \cup needs),
            UpdateEntity(type), DeleteEntity(type))
HostRecordHandler  == RecordHandler("HostRecord", {})
AliasRecordHandler == RecordHandler("AliasRecord", {})
MXRecordHandler    == RecordHandler("MXRecord", {})
TXTRecordHandler   == RecordHandler("TXTRecord", {})
SRVRecordHandler   == RecordHandler("SRVRecord", {})
ExternalHostRecordHandler == RecordHandler("ExternalHostRecord", {"view_id"})
GenericRecordHandler == RecordHandler("GenericRecord", {"record_type", "rdata"})

LocationHandler ==
    Handler(Post("locations", {"parent_location_id", "code", "name"}),
            Put("locations", {"bam_id"}), Delete("locations", {}))
UDFDefinitionHandler ==
    Handler(Post("userDefinedFieldDefinitions", {"name", "field_type"}),
            Put("userDefinedFieldDefinitions", {"bam_id"}),
            Delete("userDefinedFieldDefinitions", {}))
UDLDefinitionHandler ==
    Handler(Post("userDefinedLinkDefinitions", {"name", "source_types", "destination_types"}),
            Put("userDefinedLinkDefinitions", {"bam_id"}),
            Delete("userDefinedLinkDefinitions", {}))
Linkable ==
    {"ip4_address", "ip6_address", "ip4_block", "ip6_block", "ip4_network", "ip6_network",
     "device", "mac_address", "mac_pool", "dns_zone", "view", "server", "server_group",
     "ipv4_dhcp_range", "ipv6_dhcp_range"}
UserDefinedLinkHandler ==
    Handler(OfType(Post("userDefinedLinks",
                        {"udl_definition_id", "source_id", "destination_id"}),
                   "destination_type", Linkable),
            Unsupported,
            OfType(Delete("userDefinedLinks", {"bam_id", "destination_id"}),
                   "destination_type", Linkable))
MACPoolHandler ==
    Handler(Post("macPools", {"config_id", "name"}),
            Put("macPools", {"bam_id"}), Delete("macPools", {}))
MACAddressHandler ==
    Handler(Post("macAddresses", {"config_id", "mac_address"}),
            Put("macAddresses", {"bam_id"}), Delete("macAddresses", {}))
TagGroupHandler ==
    Handler(Post("tagGroups", {"name"}), Put("tagGroups", {"bam_id"}), Delete("tagGroups", {}))
TagHandler ==
    Handler(Post("tags", {"name", "tag_group_id"}), Unsupported, Delete("tags", {}))
Taggable ==
    {"ip4_network", "ip4_block", "ip6_network", "ip6_block", "dns_zone", "ip4_address",
     "ip6_address"}
ResourceTagHandler ==
    Handler(OfType(Post("resourceTags", {"resource_id", "tag_id"}), "resource_type", Taggable),
            Unsupported,
            OfType(Unlink("resourceTags", {"resource_id", "tag_id"}), "resource_type", Taggable))

DeviceTypeHandler ==
    Handler(Post("deviceTypes", {}), UpdateEntity("DeviceType"),
            ByColumn(Delete("deviceTypes", {}), "device_type_id"))
DeviceSubtypeHandler ==
    Handler(Post("deviceSubtypes", {"device_type_id"}), UpdateEntity("DeviceSubtype"),
            ByColumn(Delete("deviceSubtypes", {}), "device_subtype_id"))
DeviceHandler ==
    Handler(Post("devices", {"config_id"}), Put("devices", {}),
            ByColumn(Delete("devices", {}), "device_id"))
DeviceAddressHandler ==
    Handler(Post("deviceAddresses", {"device_id", "address_id"}), Unsupported,
            Unlink("deviceAddresses", {"device_id", "address_id"}))
ACLHandler ==
    Handler(Post("acls", {"config_id", "name"}), ByColumn(Put("acls", {"name"}), "acl_id"),
            ByColumn(Delete("acls", {}), "acl_id"))
AccessRightHandler ==
    Handler([Post("accessRights", {"user_type", "user_name"}) EXCEPT !.looksUp = {"user_name"}],
            ByColumn(Put("accessRights", {}), "access_right_id"),
            ByColumn(Delete("accessRights", {}), "access_right_id"))

HandlerRegistry == [
    ip4_block |-> IPv4BlockHandler, ip4_group |-> IPv4GroupHandler,
    ip4_network |-> IPv4NetworkHandler, ip4_address |-> IPv4AddressHandler,
    ip6_block |-> IPv6BlockHandler, ip6_network |-> IPv6NetworkHandler,
    ip6_address |-> IPv6AddressHandler, ipv4_dhcp_range |-> IPv4DHCPRangeHandler,
    ipv6_dhcp_range |-> IPv6DHCPRangeHandler,
    dhcp_deployment_role |-> DHCPDeploymentRoleHandler,
    dns_deployment_role |-> DNSDeploymentRoleHandler,
    dhcpv4_client_deployment_option |-> DHCPv4ClientDeploymentOptionHandler,
    dhcpv4_service_deployment_option |-> DHCPv4ServiceDeploymentOptionHandler,
    dns_zone |-> DNSZoneHandler, host_record |-> HostRecordHandler,
    alias_record |-> AliasRecordHandler, mx_record |-> MXRecordHandler,
    txt_record |-> TXTRecordHandler, srv_record |-> SRVRecordHandler,
    external_host_record |-> ExternalHostRecordHandler,
    generic_record |-> GenericRecordHandler, location |-> LocationHandler,
    udf_definition |-> UDFDefinitionHandler, udl_definition |-> UDLDefinitionHandler,
    user_defined_link |-> UserDefinedLinkHandler, mac_pool |-> MACPoolHandler,
    mac_address |-> MACAddressHandler, tag_group |-> TagGroupHandler, tag |-> TagHandler,
    resource_tag |-> ResourceTagHandler, device_type |-> DeviceTypeHandler,
    device_subtype |-> DeviceSubtypeHandler, device |-> DeviceHandler,
    device_address |-> DeviceAddressHandler, acl |-> ACLHandler,
    access_right |-> AccessRightHandler]

\* Types that _lookup_existing_resource() can find after a conflict, and the
\* payload key that it needs for it
LookupKey == [
    ip4_block |-> "config_id", ip4_network |-> "config_id", ip6_block |-> "config_id",
    ip6_network |-> "config_id", ip4_address |-> "config_id", ip6_address |-> "config_id",
    location |-> "code", dns_zone |-> "view_id", host_record |-> "zone_id",
    alias_record |-> "zone_id", mx_record |-> "zone_id", txt_record |-> "zone_id",
    srv_record |-> "zone_id", external_host_record |-> "zone_id"]
=============================================================================
