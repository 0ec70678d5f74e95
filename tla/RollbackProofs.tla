---------------------------- MODULE RollbackProofs ----------------------------
(***************************************************************************)
(* Proofs about Rollback, for any files, any contents of BAM and any       *)
(* number of faults.                                                       *)
(***************************************************************************)
EXTENDS Rollback, FiniteSetTheorems, WellFoundedInduction, TLAPS

Types == DOMAIN HandlerRegistry
Protected == {"ip4_block", "ip4_network", "ip6_block", "ip6_network", "dns_zone"}
ProtectedCollections == {"blocks", "networks", "zones"}

-----------------------------------------------------------------------------
(***************************************************************************)
(* The handlers: only a creation posts, a deletion from one of the         *)
(* protected collections is guarded, and an update or a deletion that is   *)
(* sent to BAM goes to the collection of the creation.                     *)
(***************************************************************************)
Changes(request)  == request.method # "POST"
Guards(request)   == request.collection \in ProtectedCollections => request.guarded
Fits(request, collection) ==
    request.method = "none" \/ request.collection = NoCollection \/ request.collection = collection
Sound(handler) ==
    /\ handler.create.method = "POST"
    /\ Changes(handler.update) /\ Fits(handler.update, handler.create.collection)
    /\ Changes(handler.delete) /\ Fits(handler.delete, handler.create.collection)
    /\ Guards(handler.delete)

LEMMA HandlerIsSound ==
  \A create, update, delete, collection :
    /\ create.method = "POST" /\ create.collection = collection
    /\ Changes(update) /\ Fits(update, collection)
    /\ Changes(delete) /\ Fits(delete, collection) /\ Guards(delete)
    => Sound(Handler(create, update, delete))
BY DEF Sound, Handler

LEMMA Posts ==
  \A collection, needs :
    Post(collection, needs).method = "POST" /\ Post(collection, needs).collection = collection
BY DEF Post, Request

LEMMA Updates ==
  \A type, collection :
    /\ Changes(UpdateEntity(type))
    /\ type \notin DOMAIN ResourceTypeMapping \/ ResourceTypeMapping[type] = collection
         => Fits(UpdateEntity(type), collection)
BY DEF Changes, Fits, UpdateEntity, Request

LEMMA Puts ==
  \A collection, needs :
    Changes(Put(collection, needs)) /\ Fits(Put(collection, needs), collection)
BY DEF Changes, Fits, Put, Request

LEMMA UnsupportedIsSound ==
  /\ Changes(Unsupported) /\ Guards(Unsupported)
  /\ \A collection : Fits(Unsupported, collection)
<1>1. Changes(Unsupported) /\ Guards(Unsupported)
  BY DEF Changes, Guards, Unsupported, Request, NoCollection, ProtectedCollections
<1>2. Unsupported.method = "none"
  BY DEF Unsupported, Request
<1> QED
  BY <1>1, <1>2 DEF Fits

LEMMA DeletesOfEntities ==
  \A type, collection :
    /\ Changes(DeleteEntity(type)) /\ Guards(DeleteEntity(type))
    /\ type \notin DOMAIN ResourceTypeMapping \/ ResourceTypeMapping[type] = collection
         => Fits(DeleteEntity(type), collection)
<1> SUFFICES ASSUME NEW type, NEW collection
             PROVE  /\ Changes(DeleteEntity(type)) /\ Guards(DeleteEntity(type))
                    /\ type \notin DOMAIN ResourceTypeMapping
                       \/ ResourceTypeMapping[type] = collection
                         => Fits(DeleteEntity(type), collection)
  OBVIOUS
<1>1. CASE type \notin DOMAIN ResourceTypeMapping
  BY <1>1, UnsupportedIsSound DEF DeleteEntity
<1>2. CASE type \in DOMAIN ResourceTypeMapping
  <2>1. ResourceTypeMapping[type] \in ProtectedCollections
        => type \in ProtectedResourceTypes
    BY <1>2 DEF ResourceTypeMapping, ProtectedCollections, ProtectedResourceTypes
  <2> QED
    BY <1>2, <2>1 DEF DeleteEntity, Request, Changes, Guards, Fits
<1> QED
  BY <1>1, <1>2

LEMMA Deletes ==
  \A collection, needs :
    /\ Changes(Delete(collection, needs)) /\ Fits(Delete(collection, needs), collection)
    /\ collection \notin ProtectedCollections => Guards(Delete(collection, needs))
BY DEF Changes, Guards, Fits, Delete, Request

LEMMA Unlinks ==
  \A collection, needs :
    /\ Changes(Unlink(collection, needs)) /\ Fits(Unlink(collection, needs), collection)
    /\ collection \notin ProtectedCollections => Guards(Unlink(collection, needs))
BY DEF Changes, Guards, Fits, Unlink, Request

\* A column of its own for the id, or a type that is checked, changes nothing of this
LEMMA Refinements ==
  ASSUME NEW request, "method" \in DOMAIN request, "collection" \in DOMAIN request,
         "guarded" \in DOMAIN request, "by" \in DOMAIN request
  PROVE  \A column, types :
           LET r == ByColumn(request, column)
               s == OfType(request, column, types)
           IN  /\ r.method = request.method /\ r.collection = request.collection
               /\ r.guarded = request.guarded
               /\ s.method = request.method /\ s.collection = request.collection
               /\ s.guarded = request.guarded /\ s.by = request.by
BY DEF ByColumn, OfType

LEMMA RefinedRequests ==
  \A collection, needs, column, types :
    LET put    == ByColumn(Put(collection, needs), column)
        delete == ByColumn(Delete(collection, needs), column)
        post   == OfType(Post(collection, needs), column, types)
        typed  == OfType(Delete(collection, needs), column, types)
        unlink == OfType(Unlink(collection, needs), column, types)
    IN  /\ post.method = "POST" /\ post.collection = collection
        /\ Changes(put) /\ Fits(put, collection)
        /\ \A r \in {delete, typed, unlink} :
             /\ Changes(r) /\ Fits(r, collection)
             /\ collection \notin ProtectedCollections => Guards(r)
<1> SUFFICES ASSUME NEW collection, NEW needs, NEW column, NEW types
             PROVE  LET put    == ByColumn(Put(collection, needs), column)
                        delete == ByColumn(Delete(collection, needs), column)
                        post   == OfType(Post(collection, needs), column, types)
                        typed  == OfType(Delete(collection, needs), column, types)
                        unlink == OfType(Unlink(collection, needs), column, types)
                    IN  /\ post.method = "POST" /\ post.collection = collection
                        /\ Changes(put) /\ Fits(put, collection)
                        /\ \A r \in {delete, typed, unlink} :
                             /\ Changes(r) /\ Fits(r, collection)
                             /\ collection \notin ProtectedCollections => Guards(r)
  OBVIOUS
<1>1. \A r \in {Put(collection, needs), Delete(collection, needs), Post(collection, needs),
               Unlink(collection, needs)} :
        {"method", "collection", "guarded", "by"} \subseteq DOMAIN r
  BY DEF Put, Delete, Post, Unlink, Request
<1>2. \A r, s : r.method = s.method /\ r.collection = s.collection /\ r.guarded = s.guarded
        => /\ Changes(s) => Changes(r)
           /\ Fits(s, collection) => Fits(r, collection)
           /\ Guards(s) => Guards(r)
  BY DEF Changes, Fits, Guards
<1>3. LET put == ByColumn(Put(collection, needs), column)
      IN  Changes(put) /\ Fits(put, collection)
  BY <1>1, <1>2, Refinements, Puts
<1>4. LET post == OfType(Post(collection, needs), column, types)
      IN  post.method = "POST" /\ post.collection = collection
  BY <1>1, Refinements, Posts
<1>5. ASSUME NEW r \in {ByColumn(Delete(collection, needs), column),
                       OfType(Delete(collection, needs), column, types)}
      PROVE  /\ Changes(r) /\ Fits(r, collection)
             /\ collection \notin ProtectedCollections => Guards(r)
  BY <1>1, <1>2, Refinements, Deletes
<1>6. LET unlink == OfType(Unlink(collection, needs), column, types)
      IN  /\ Changes(unlink) /\ Fits(unlink, collection)
          /\ collection \notin ProtectedCollections => Guards(unlink)
  BY <1>1, <1>2, Refinements, Unlinks
<1> QED
  BY <1>3, <1>4, <1>5, <1>6

\* The collection in which an entity of a type is changed
InCollection(type, collection) ==
    Fits(UpdateEntity(type), collection) /\ Fits(DeleteEntity(type), collection)

LEMMA EntityCollections ==
  /\ InCollection("IPv4Block", "blocks") /\ InCollection("IPv6Block", "blocks")
  /\ InCollection("IPv4Network", "networks") /\ InCollection("IPv6Network", "networks")
  /\ InCollection("IPv4Address", "addresses") /\ InCollection("IPv6Address", "addresses")
  /\ InCollection("IPv4DHCPRange", "ranges") /\ InCollection("IPv6DHCPRange", "ranges")
  /\ InCollection("DHCPDeploymentRole", "deploymentRoles") /\ InCollection("DNSDeploymentRole", "deploymentRoles")
  /\ InCollection("DNSZone", "zones")
  /\ InCollection("DeviceType", "deviceTypes")
  /\ InCollection("DeviceSubtype", "deviceSubtypes")
  /\ \A type \in {"HostRecord", "AliasRecord", "MXRecord", "TXTRecord", "SRVRecord",
                  "ExternalHostRecord", "GenericRecord"} : InCollection(type, "resourceRecords")
<1>1. \A type, collection :
        type \notin DOMAIN ResourceTypeMapping \/ ResourceTypeMapping[type] = collection
          => InCollection(type, collection)
  BY Updates, DeletesOfEntities DEF InCollection
<1> QED
  BY <1>1 DEF ResourceTypeMapping

LEMMA RecordsAreSound ==
  \A type, needs : InCollection(type, "resourceRecords") => Sound(RecordHandler(type, needs))
BY HandlerIsSound, Posts, Updates, DeletesOfEntities DEF RecordHandler, InCollection

LEMMA HandlersAreSound == \A t \in Types : Sound(HandlerRegistry[t])
<1>1. Sound(IPv4BlockHandler)
  BY HandlerIsSound, Posts, Updates, DeletesOfEntities, EntityCollections DEF InCollection, IPv4BlockHandler
<1>2. Sound(IPv4NetworkHandler)
  BY HandlerIsSound, Posts, Updates, DeletesOfEntities, EntityCollections DEF InCollection, IPv4NetworkHandler
<1>3. Sound(IPv4GroupHandler)
  BY HandlerIsSound, Posts, Puts, Deletes DEF IPv4GroupHandler, ProtectedCollections
<1>4. Sound(IPv4AddressHandler)
  BY HandlerIsSound, Posts, Updates, DeletesOfEntities, EntityCollections DEF InCollection, IPv4AddressHandler
<1>5. Sound(IPv6BlockHandler)
  BY HandlerIsSound, Posts, Updates, DeletesOfEntities, EntityCollections DEF InCollection, IPv6BlockHandler
<1>6. Sound(IPv6NetworkHandler)
  BY HandlerIsSound, Posts, Updates, DeletesOfEntities, EntityCollections DEF InCollection, IPv6NetworkHandler
<1>7. Sound(IPv6AddressHandler)
  BY HandlerIsSound, Posts, Updates, DeletesOfEntities, EntityCollections DEF InCollection, IPv6AddressHandler
<1>8. Sound(IPv4DHCPRangeHandler)
  BY HandlerIsSound, Posts, Updates, DeletesOfEntities, EntityCollections DEF InCollection, IPv4DHCPRangeHandler
<1>9. Sound(IPv6DHCPRangeHandler)
  BY HandlerIsSound, Posts, Updates, DeletesOfEntities, EntityCollections DEF InCollection, IPv6DHCPRangeHandler
<1>10. Sound(DHCPDeploymentRoleHandler)
  BY HandlerIsSound, Updates, DeletesOfEntities, EntityCollections
  DEF InCollection, DHCPDeploymentRoleHandler, Post, Request
<1>11. Sound(DNSDeploymentRoleHandler)
  BY HandlerIsSound, Updates, Deletes, EntityCollections
  DEF InCollection, DNSDeploymentRoleHandler, Post, Request, ProtectedCollections
<1>12. Sound(DHCPv4ClientDeploymentOptionHandler)
  BY HandlerIsSound, Posts, Puts, Deletes DEF DHCPv4ClientDeploymentOptionHandler, ProtectedCollections
<1>13. Sound(DHCPv4ServiceDeploymentOptionHandler)
  BY HandlerIsSound, Posts, Puts, Deletes DEF DHCPv4ServiceDeploymentOptionHandler, ProtectedCollections
<1>14. Sound(DNSZoneHandler)
  BY HandlerIsSound, Posts, Updates, DeletesOfEntities, EntityCollections DEF InCollection, DNSZoneHandler
<1>15. Sound(HostRecordHandler)
  BY RecordsAreSound, EntityCollections DEF HostRecordHandler
<1>16. Sound(AliasRecordHandler)
  BY RecordsAreSound, EntityCollections DEF AliasRecordHandler
<1>17. Sound(MXRecordHandler)
  BY RecordsAreSound, EntityCollections DEF MXRecordHandler
<1>18. Sound(TXTRecordHandler)
  BY RecordsAreSound, EntityCollections DEF TXTRecordHandler
<1>19. Sound(SRVRecordHandler)
  BY RecordsAreSound, EntityCollections DEF SRVRecordHandler
<1>20. Sound(ExternalHostRecordHandler)
  BY RecordsAreSound, EntityCollections DEF ExternalHostRecordHandler
<1>21. Sound(GenericRecordHandler)
  BY RecordsAreSound, EntityCollections DEF GenericRecordHandler
<1>22. Sound(LocationHandler)
  BY HandlerIsSound, Posts, Puts, Deletes DEF LocationHandler, ProtectedCollections
<1>23. Sound(UDFDefinitionHandler)
  BY HandlerIsSound, Posts, Puts, Deletes DEF UDFDefinitionHandler, ProtectedCollections
<1>24. Sound(UDLDefinitionHandler)
  BY HandlerIsSound, Posts, Puts, Deletes DEF UDLDefinitionHandler, ProtectedCollections
<1>25. Sound(UserDefinedLinkHandler)
  BY HandlerIsSound, RefinedRequests, UnsupportedIsSound DEF UserDefinedLinkHandler, ProtectedCollections
<1>26. Sound(MACPoolHandler)
  BY HandlerIsSound, Posts, Puts, Deletes DEF MACPoolHandler, ProtectedCollections
<1>27. Sound(MACAddressHandler)
  BY HandlerIsSound, Posts, Puts, Deletes DEF MACAddressHandler, ProtectedCollections
<1>28. Sound(TagGroupHandler)
  BY HandlerIsSound, Posts, Puts, Deletes DEF TagGroupHandler, ProtectedCollections
<1>29. Sound(TagHandler)
  BY HandlerIsSound, Posts, UnsupportedIsSound, Deletes DEF TagHandler, ProtectedCollections
<1>30. Sound(ResourceTagHandler)
  BY HandlerIsSound, RefinedRequests, UnsupportedIsSound DEF ResourceTagHandler, ProtectedCollections
<1>31. Sound(DeviceTypeHandler)
  <2>1. /\ Post("deviceTypes", {}).method = "POST"
        /\ Post("deviceTypes", {}).collection = "deviceTypes"
    BY Posts
  <2>2. /\ Changes(UpdateEntity("DeviceType"))
        /\ Fits(UpdateEntity("DeviceType"), "deviceTypes")
    BY Updates, EntityCollections DEF InCollection
  <2>3. LET delete == ByColumn(Delete("deviceTypes", {}), "device_type_id")
        IN  Changes(delete) /\ Fits(delete, "deviceTypes") /\ Guards(delete)
    BY RefinedRequests DEF ProtectedCollections
  <2> QED
    BY <2>1, <2>2, <2>3, HandlerIsSound DEF DeviceTypeHandler
<1>32. Sound(DeviceSubtypeHandler)
  <2>1. /\ Post("deviceSubtypes", {"device_type_id"}).method = "POST"
        /\ Post("deviceSubtypes", {"device_type_id"}).collection = "deviceSubtypes"
    BY Posts
  <2>2. /\ Changes(UpdateEntity("DeviceSubtype"))
        /\ Fits(UpdateEntity("DeviceSubtype"), "deviceSubtypes")
    BY Updates, EntityCollections DEF InCollection
  <2>3. LET delete == ByColumn(Delete("deviceSubtypes", {}), "device_subtype_id")
        IN  Changes(delete) /\ Fits(delete, "deviceSubtypes") /\ Guards(delete)
    BY RefinedRequests DEF ProtectedCollections
  <2> QED
    BY <2>1, <2>2, <2>3, HandlerIsSound DEF DeviceSubtypeHandler
<1>33. Sound(DeviceHandler)
  BY HandlerIsSound, Posts, Puts, RefinedRequests DEF DeviceHandler, ProtectedCollections
<1>34. Sound(DeviceAddressHandler)
  BY HandlerIsSound, Posts, UnsupportedIsSound, Unlinks DEF DeviceAddressHandler, ProtectedCollections
<1>35. Sound(ACLHandler)
  <2>1. /\ Post("acls", {"config_id", "name"}).method = "POST"
        /\ Post("acls", {"config_id", "name"}).collection = "acls"
    BY Posts
  <2>2. LET update == ByColumn(Put("acls", {"name"}), "acl_id")
        IN  Changes(update) /\ Fits(update, "acls")
    BY RefinedRequests
  <2>3. LET delete == ByColumn(Delete("acls", {}), "acl_id")
        IN  Changes(delete) /\ Fits(delete, "acls") /\ Guards(delete)
    BY RefinedRequests DEF ProtectedCollections
  <2> QED
    BY <2>1, <2>2, <2>3, HandlerIsSound DEF ACLHandler
<1>36. Sound(AccessRightHandler)
  BY HandlerIsSound, RefinedRequests DEF AccessRightHandler, Post, Request, ProtectedCollections
<1> QED
  BY <1>1, <1>2, <1>3, <1>4, <1>5, <1>6, <1>7, <1>8, <1>9, <1>10, <1>11, <1>12, <1>13, <1>14, <1>15, <1>16, <1>17, <1>18, <1>19, <1>20, <1>21, <1>22, <1>23, <1>24, <1>25, <1>26, <1>27, <1>28, <1>29, <1>30, <1>31, <1>32, <1>33, <1>34, <1>35, <1>36 DEF Types, HandlerRegistry

\* An update or a deletion that is not named in OwnColumn or Unlinking is sent for
\* the bam_id of its row
ById(request)  == request.by = "bam_id" /\ request.method # "UNLINK"
Plain(handler) == ById(handler.update) /\ ById(handler.delete)

LEMMA PlainHandler ==
  \A create, update, delete :
    /\ Handler(create, update, delete).update = update
    /\ Handler(create, update, delete).delete = delete
    /\ ById(update) /\ ById(delete) => Plain(Handler(create, update, delete))
BY DEF Plain, Handler

LEMMA PlainRequests ==
  /\ ById(Unsupported)
  /\ \A type : ById(UpdateEntity(type)) /\ ById(DeleteEntity(type))
  /\ \A collection, needs : ById(Put(collection, needs)) /\ ById(Delete(collection, needs))
  /\ \A collection, needs, column, types : ById(OfType(Delete(collection, needs), column, types))
<1>1. ById(Unsupported)
  BY DEF ById, Unsupported, Request
<1>2. \A collection, needs : ById(Put(collection, needs)) /\ ById(Delete(collection, needs))
  BY DEF ById, Put, Delete, Request
<1>3. \A type : ById(UpdateEntity(type)) /\ ById(DeleteEntity(type))
  BY <1>1 DEF ById, UpdateEntity, DeleteEntity, Request
<1>4. \A collection, needs, column, types : ById(OfType(Delete(collection, needs), column, types))
  BY DEF ById, OfType, Delete, Request
<1> QED
  BY <1>1, <1>2, <1>3, <1>4

LEMMA PlainRecords == \A type, needs : Plain(RecordHandler(type, needs))
BY PlainHandler, PlainRequests DEF RecordHandler

LEMMA OthersAreSentById ==
  \A t \in Types : \A a \in {"update", "delete"} :
    <<t, a>> \notin OwnColumn \cup Unlinking => ById(HandlerRegistry[t][a])
<1>1. \A t \in {"ip4_block", "ip4_group", "ip4_network", "ip4_address", "ip6_block",
                "ip6_network", "ip6_address", "ipv4_dhcp_range", "ipv6_dhcp_range"} :
        Plain(HandlerRegistry[t])
  BY PlainHandler, PlainRequests
  DEF HandlerRegistry, IPv4BlockHandler, IPv4GroupHandler, IPv4NetworkHandler,
      IPv4AddressHandler, IPv6BlockHandler, IPv6NetworkHandler, IPv6AddressHandler,
      IPv4DHCPRangeHandler, IPv6DHCPRangeHandler
<1>2. \A t \in {"dhcp_deployment_role", "dns_deployment_role",
                "dhcpv4_client_deployment_option", "dhcpv4_service_deployment_option",
                "dns_zone", "location", "udf_definition", "udl_definition"} :
        Plain(HandlerRegistry[t])
  BY PlainHandler, PlainRequests
  DEF HandlerRegistry, DHCPDeploymentRoleHandler, DNSDeploymentRoleHandler,
      DHCPv4ClientDeploymentOptionHandler, DHCPv4ServiceDeploymentOptionHandler,
      DNSZoneHandler, LocationHandler, UDFDefinitionHandler, UDLDefinitionHandler
<1>3. \A t \in {"host_record", "alias_record", "mx_record", "txt_record", "srv_record",
                "external_host_record", "generic_record"} : Plain(HandlerRegistry[t])
  BY PlainRecords
  DEF HandlerRegistry, HostRecordHandler, AliasRecordHandler, MXRecordHandler,
      TXTRecordHandler, SRVRecordHandler, ExternalHostRecordHandler, GenericRecordHandler
<1>4. \A t \in {"user_defined_link", "mac_pool", "mac_address", "tag_group", "tag"} :
        Plain(HandlerRegistry[t])
  BY PlainHandler, PlainRequests
  DEF HandlerRegistry, UserDefinedLinkHandler, MACPoolHandler, MACAddressHandler,
      TagGroupHandler, TagHandler
<1>5. \A t \in {"resource_tag", "device_type", "device_subtype", "device", "device_address"} :
        ById(HandlerRegistry[t].update)
  BY PlainHandler, PlainRequests
  DEF HandlerRegistry, ResourceTagHandler, DeviceTypeHandler, DeviceSubtypeHandler,
      DeviceHandler, DeviceAddressHandler
<1>6. \A t \in {"resource_tag", "device_type", "device_subtype", "device", "device_address",
                "acl", "access_right"} : <<t, "delete">> \in OwnColumn \cup Unlinking
  BY DEF OwnColumn, Unlinking
<1>7. \A t \in {"acl", "access_right"} : <<t, "update">> \in OwnColumn \cup Unlinking
  BY DEF OwnColumn
<1>8. \A t \in Types :
        \/ Plain(HandlerRegistry[t])
        \/ t \in {"resource_tag", "device_type", "device_subtype", "device", "device_address",
                  "acl", "access_right"}
  <2>1. Types = {"ip4_block", "ip4_group", "ip4_network", "ip4_address", "ip6_block",
                 "ip6_network", "ip6_address", "ipv4_dhcp_range", "ipv6_dhcp_range"}
                \cup {"dhcp_deployment_role", "dns_deployment_role",
                      "dhcpv4_client_deployment_option", "dhcpv4_service_deployment_option",
                      "dns_zone", "location", "udf_definition", "udl_definition"}
                \cup {"host_record", "alias_record", "mx_record", "txt_record", "srv_record",
                      "external_host_record", "generic_record"}
                \cup {"user_defined_link", "mac_pool", "mac_address", "tag_group", "tag"}
                \cup {"resource_tag", "device_type", "device_subtype", "device",
                      "device_address", "acl", "access_right"}
    BY DEF Types, HandlerRegistry
  <2> QED
    BY <1>1, <1>2, <1>3, <1>4, <2>1
<1> QED
  BY <1>5, <1>6, <1>7, <1>8 DEF Plain

LEMMA ProtectedTypes == \A t \in Protected : CollectionOf(t) \in ProtectedCollections
BY DEF Protected, ProtectedCollections, CollectionOf, HandlerRegistry, Handler, Post, Request,
       IPv4BlockHandler, IPv4NetworkHandler, IPv6BlockHandler, IPv6NetworkHandler, DNSZoneHandler

-----------------------------------------------------------------------------
(***************************************************************************)
(* The types that can be looked up after a conflict, and those whose rows  *)
(* can do without any column: no type is both.                             *)
(***************************************************************************)
Looked == DOMAIN LookupKey
Bare == {"ipv4_dhcp_range", "ipv6_dhcp_range", "dhcp_deployment_role",
         "dhcpv4_client_deployment_option", "dhcpv4_service_deployment_option"}

\* To create what can be looked up takes no more than the payload
Simple(request) ==
    request.oneOf = {} /\ request.looksUp = {} /\ request.typed = {} /\ ~request.guarded
LEMMA PostsAreSimple == \A collection, needs : Simple(Post(collection, needs))
BY DEF Simple, Post, Request

LEMMA RecordsAreSimple == \A type, needs : Simple(RecordHandler(type, needs).create)
BY PostsAreSimple DEF RecordHandler, Handler

LEMMA LookedAreSimple ==
  \A t \in Looked : /\ t \in Types
                    /\ Simple(HandlerRegistry[t].create)
                    /\ NameColumn(t) \in Csv!CSVRow[t].required
                    /\ t \notin Nameless
<1>1. Looked = {"ip4_block", "ip4_network", "ip6_block", "ip6_network", "ip4_address",
                "ip6_address", "location", "dns_zone"}
               \cup {"host_record", "alias_record", "mx_record", "txt_record",
                     "srv_record", "external_host_record"}
  BY DEF Looked, LookupKey
<1>2. \A t \in {"ip4_block", "ip4_network", "ip6_block", "ip6_network", "ip4_address",
                "ip6_address", "location", "dns_zone"} : Simple(HandlerRegistry[t].create)
  BY PostsAreSimple
  DEF HandlerRegistry, Handler, IPv4BlockHandler, IPv4NetworkHandler, IPv6BlockHandler,
      IPv6NetworkHandler, IPv4AddressHandler, IPv6AddressHandler, LocationHandler, DNSZoneHandler
<1>3. \A t \in {"host_record", "alias_record", "mx_record", "txt_record", "srv_record",
                "external_host_record"} : Simple(HandlerRegistry[t].create)
  BY RecordsAreSimple
  DEF HandlerRegistry, HostRecordHandler, AliasRecordHandler, MXRecordHandler,
      TXTRecordHandler, SRVRecordHandler, ExternalHostRecordHandler
<1>4. \A t \in Looked : t \in Types
  BY <1>1 DEF Types, HandlerRegistry
<1>5. \A t \in Looked : NameColumn(t) \in Csv!CSVRow[t].required
  BY <1>1
  DEF NameColumn, Csv!CSVRow, Csv!Class, Csv!DNSRow, Csv!IP4BlockRow, Csv!IP4NetworkRow,
      Csv!IP6BlockRow, Csv!IP6NetworkRow, Csv!IP4AddressRow, Csv!IP6AddressRow,
      Csv!LocationRow, Csv!DNSZoneRow, Csv!HostRecordRow, Csv!AliasRecordRow,
      Csv!MXRecordRow, Csv!TXTRecordRow, Csv!SRVRecordRow, Csv!ExternalHostRecordRow
<1>6. \A t \in Looked : t \notin Nameless
  BY <1>1 DEF Nameless, Roles
<1> QED
  BY <1>1, <1>2, <1>3, <1>4, <1>5, <1>6

LEMMA BareAreNotLooked == Bare \cap Looked = {} /\ Bare \subseteq Types
BY DEF Bare, Looked, LookupKey, Types, HandlerRegistry

LEMMA Requirements ==
  \A t \in Types : t \notin Bare \cup {"dns_deployment_role"} => Csv!CSVRow[t].required # {}
<1>1. \A t \in {"ip4_block", "ip4_network", "ip4_group", "ip4_address", "ip6_block",
                "ip6_network", "ip6_address", "location"} :
        Csv!CSVRow[t].required # {}
  BY DEF Csv!CSVRow, Csv!Class, Csv!IP4BlockRow, Csv!IP4NetworkRow, Csv!IP4GroupRow,
      Csv!IP4AddressRow, Csv!IP6BlockRow, Csv!IP6NetworkRow, Csv!IP6AddressRow,
      Csv!LocationRow
<1>2. \A t \in {"host_record", "alias_record", "mx_record", "txt_record", "srv_record",
                "external_host_record", "generic_record", "dns_zone"} :
        Csv!CSVRow[t].required # {}
  BY DEF Csv!CSVRow, Csv!Class, Csv!DNSRow, Csv!HostRecordRow, Csv!AliasRecordRow,
      Csv!MXRecordRow, Csv!TXTRecordRow, Csv!SRVRecordRow, Csv!ExternalHostRecordRow,
      Csv!GenericRecordRow, Csv!DNSZoneRow
<1>3. \A t \in {"udf_definition", "udl_definition", "user_defined_link", "mac_pool",
                "mac_address", "tag_group", "tag", "resource_tag"} :
        Csv!CSVRow[t].required # {}
  BY DEF Csv!CSVRow, Csv!Class, Csv!UDFDefinitionRow, Csv!UDLDefinitionRow,
      Csv!UserDefinedLinkRow, Csv!MACPoolRow, Csv!MACAddressRow, Csv!TagGroupRow,
      Csv!TagRow, Csv!ResourceTagRow
<1>4. \A t \in {"device_type", "device_subtype", "device", "device_address",
                "access_right", "acl"} :
        Csv!CSVRow[t].required # {}
  BY DEF Csv!CSVRow, Csv!Class, Csv!DeviceTypeRow, Csv!DeviceSubtypeRow, Csv!DeviceRow,
      Csv!DeviceAddressRow, Csv!AccessRightRow, Csv!ACLRow
<1> QED
  BY <1>1, <1>2, <1>3, <1>4 DEF Types, HandlerRegistry, Bare

\* What has no required column is deleted by its id alone, from its collection
IdAlone(request, collection) ==
    /\ request.method = "DELETE" /\ request.collection = collection
    /\ request.needs = {} /\ request.oneOf = {} /\ request.looksUp = {}
    /\ request.typed = {} /\ request.by = "bam_id"

LEMMA BareDeletes ==
  \A t \in Bare : IdAlone(HandlerRegistry[t].delete, CollectionOf(t))
<1>1. \A type \in DOMAIN ResourceTypeMapping :
        IdAlone(DeleteEntity(type), ResourceTypeMapping[type])
  BY DEF DeleteEntity, Request, IdAlone
<1>2. \A collection : IdAlone(Delete(collection, {}), collection)
  BY DEF Delete, Request, IdAlone
<1>3. \A collection, needs : Post(collection, needs).collection = collection
  BY DEF Post, Request
<1>4. /\ {"IPv4DHCPRange", "IPv6DHCPRange", "DHCPDeploymentRole"}
           \subseteq DOMAIN ResourceTypeMapping
      /\ ResourceTypeMapping["IPv4DHCPRange"] = "ranges"
      /\ ResourceTypeMapping["IPv6DHCPRange"] = "ranges"
      /\ ResourceTypeMapping["DHCPDeploymentRole"] = "deploymentRoles"
  BY DEF ResourceTypeMapping
<1>5. IdAlone(DHCPDeploymentRoleHandler.delete, DHCPDeploymentRoleHandler.create.collection)
  BY <1>1, <1>4 DEF DHCPDeploymentRoleHandler, Handler, Post, Request
<1>6. /\ IdAlone(IPv4DHCPRangeHandler.delete, IPv4DHCPRangeHandler.create.collection)
      /\ IdAlone(IPv6DHCPRangeHandler.delete, IPv6DHCPRangeHandler.create.collection)
  BY <1>1, <1>3, <1>4 DEF IPv4DHCPRangeHandler, IPv6DHCPRangeHandler, Handler
<1>7. /\ IdAlone(DHCPv4ClientDeploymentOptionHandler.delete,
                 DHCPv4ClientDeploymentOptionHandler.create.collection)
      /\ IdAlone(DHCPv4ServiceDeploymentOptionHandler.delete,
                 DHCPv4ServiceDeploymentOptionHandler.create.collection)
  BY <1>2, <1>3 DEF DHCPv4ClientDeploymentOptionHandler, DHCPv4ServiceDeploymentOptionHandler,
                    Handler
<1> QED
  BY <1>5, <1>6, <1>7 DEF Bare, CollectionOf, HandlerRegistry

\* What is in their collections contains nothing
LEMMA BareContainNothing ==
  \A t \in Bare : /\ \A u : CollectionOf(u) = CollectionOf(t) => Inside(u) = {}
                  /\ CollectionOf(t) # NoCollection
<1>1. \A t \in Bare : CollectionOf(t) \in {"ranges", "deploymentRoles", "deploymentOptions"}
  <2>1. /\ IPv4DHCPRangeHandler.create.collection = "ranges"
        /\ IPv6DHCPRangeHandler.create.collection = "ranges"
        /\ DHCPDeploymentRoleHandler.create.collection = "deploymentRoles"
    BY DEF IPv4DHCPRangeHandler, IPv6DHCPRangeHandler, DHCPDeploymentRoleHandler, Handler,
           Post, Request
  <2>2. /\ DHCPv4ClientDeploymentOptionHandler.create.collection = "deploymentOptions"
        /\ DHCPv4ServiceDeploymentOptionHandler.create.collection = "deploymentOptions"
    BY DEF DHCPv4ClientDeploymentOptionHandler, DHCPv4ServiceDeploymentOptionHandler, Handler,
           Post, Request
  <2> QED
    BY <2>1, <2>2 DEF Bare, CollectionOf, HandlerRegistry
<1>2. CollectionOf("location") = "locations"
  BY DEF CollectionOf, HandlerRegistry, Handler, LocationHandler, Post, Request
<1>3. \A u : u \notin Protected \cup {"location"} => Inside(u) = {}
  BY DEF Inside, Protected
<1> QED
  BY <1>1, <1>2, <1>3, ProtectedTypes DEF ProtectedCollections, NoCollection

-----------------------------------------------------------------------------
(***************************************************************************)
(* The parser and the factory                                              *)
(***************************************************************************)
\* A file that is not refused becomes one row per line, each of them accepted
LEMMA ParsedFile ==
  ASSUME NEW lines, ~Csv!Parse(lines, TRUE).refused
  PROVE  /\ Csv!Parse(lines, TRUE).rows = lines
         /\ \A i \in DOMAIN lines : Csv!Accepted(lines[i])
BY DEF Csv!Parse, Csv!Refused

LEMMA RefusedFile ==
  ASSUME NEW lines, Csv!Parse(lines, TRUE).refused
  PROVE  Csv!Parse(lines, TRUE).rows = <<>>
BY DEF Csv!Parse

LEMMA AcceptedLine ==
  ASSUME NEW line, Csv!Accepted(line)
  PROVE  line.type \in Types /\ line.action \in {"create", "update", "delete"}
BY DEF Csv!Accepted, Csv!CSVRow, Types, HandlerRegistry

\* What a row creates that can be looked up has a name
LEMMA LookedHaveNames ==
  ASSUME NEW line, Csv!Accepted(line), line.type \in Looked
  PROVE  FactoryRow(line).name # None
<1>1. Csv!Given(line, NameColumn(line.type))
  BY LookedAreSimple DEF Csv!Accepted
<1>2. FactoryRow(line).name = IF line.type \in Csv!Apex /\ Csv!Cell(line, "name") = None
                              THEN <<"@">> ELSE Csv!Cell(line, NameColumn(line.type))
  BY DEF FactoryRow
<1> QED
  BY <1>1, <1>2, CellAssumption DEF Csv!Given

\* A row with no cells is of a type that needs none
LEMMA BareLines ==
  ASSUME NEW line, Csv!Accepted(line), line.cells = <<>>
  PROVE  line.type \in Bare
<1>1. \A c : c \notin DOMAIN line.cells
  OBVIOUS
<1>2. \A c : ~Csv!Given(line, c) /\ Csv!Cell(line, c) = None
  BY <1>1 DEF Csv!Given, Csv!Cell
<1>3. Csv!CSVRow[line.type].required = {}
  BY <1>2 DEF Csv!Accepted
<1>4. line.type # "dns_deployment_role"
  <2> SUFFICES ASSUME line.type = "dns_deployment_role" PROVE FALSE
    OBVIOUS
  <2>1. Csv!Whole(line)
    BY DEF Csv!Accepted
  <2> QED
    BY <1>2, <2>1 DEF Csv!Whole
<1> QED
  BY <1>3, <1>4, AcceptedLine, Requirements

\* A row of one of these types without cells waits for nothing and fails in nothing
LEMMA BareRows ==
  ASSUME NEW line, line.cells = <<>>, line.type \in Bare, NEW c
  PROVE  CreateFromRow(c, FactoryRow(line)).payload = Nothing
<1>1. \A column : Csv!Cell(line, column) = None
  BY DEF Csv!Cell
<1> DEFINE r == FactoryRow(line)
<1>2. r.type = line.type /\ r.config = None /\ r.path = None
  BY <1>1 DEF FactoryRow
<1> HIDE DEF r
<1>3. Build(c, r) = Nothing
  BY <1>2 DEF Build, Bare, DhcpRangePayload, DeploymentRolePayload, DeploymentOptionPayload,
              DnsTypes
<1> QED
  BY <1>2, <1>3 DEF CreateFromRow, r

-----------------------------------------------------------------------------
(***************************************************************************)
(* A finite set of numbers in order                                        *)
(***************************************************************************)
LEMMA OrderExists ==
  ASSUME NEW S \in SUBSET Nat, IsFiniteSet(S)
  PROVE  \E s \in [1..Cardinality(S) -> S] :
           \A i, j \in 1..Cardinality(S) : i < j => s[i] < s[j]
<1> DEFINE n == Cardinality(S)
           UpTo(x) == {y \in S : y <= x}
           rank == [x \in S |-> Cardinality(UpTo(x))]
<1>1. n \in Nat
  BY FS_CardinalityType
<1>2. \A x \in S : IsFiniteSet(UpTo(x)) /\ Cardinality(UpTo(x)) \in 1..n
  <2> TAKE x \in S
  <2>1. IsFiniteSet(UpTo(x)) /\ Cardinality(UpTo(x)) <= n
    BY FS_Subset
  <2>2. Cardinality(UpTo(x)) \in Nat /\ (Cardinality(UpTo(x)) = 0 <=> UpTo(x) = {})
    BY <2>1, FS_CardinalityType, FS_EmptySet
  <2>3. x \in UpTo(x)
    OBVIOUS
  <2> QED
    BY <1>1, <2>1, <2>2, <2>3
<1>3. \A x, y \in S : x < y => rank[x] < rank[y]
  <2> SUFFICES ASSUME NEW x \in S, NEW y \in S, x < y PROVE rank[x] < rank[y]
    OBVIOUS
  <2>1. UpTo(x) \subseteq UpTo(y) /\ y \in UpTo(y) /\ y \notin UpTo(x)
    <3>1. \A z \in S : z \in Nat
      OBVIOUS
    <3>2. ~(y <= x) /\ y <= y /\ \A z \in S : z <= x => z <= y
      BY <3>1
    <3> QED
      BY <3>1, <3>2
  <2>2. UpTo(x) # UpTo(y)
    BY <2>1
  <2>3. /\ Cardinality(UpTo(x)) <= Cardinality(UpTo(y))
        /\ Cardinality(UpTo(y)) = Cardinality(UpTo(x)) => UpTo(y) = UpTo(x)
    BY <1>2, <2>1, FS_Subset
  <2> QED
    BY <1>2, <2>2, <2>3
<1>4. rank \in [S -> 1..n]
  BY <1>2
<1>5. rank \in Injection(S, 1..n)
  <2>1. \A x, y \in S : rank[x] = rank[y] => x = y
    <3> SUFFICES ASSUME NEW x \in S, NEW y \in S, rank[x] = rank[y], x # y PROVE FALSE
      OBVIOUS
    <3>1. x < y \/ y < x
      OBVIOUS
    <3>2. rank[x] \in Nat
      BY <1>4
    <3> QED
      BY <1>3, <3>1, <3>2
  <2> QED
    BY <1>4, <2>1 DEF Injection, IsInjective
<1>6. IsFiniteSet(1..n) /\ Cardinality(1..n) = n
  BY <1>1, FS_Interval
<1>7. rank \in Surjection(S, 1..n)
  BY <1>5, <1>6, FS_Injection
<1> DEFINE s == [i \in 1..n |-> CHOOSE x \in S : rank[x] = i]
<1>8. \A i \in 1..n : s[i] \in S /\ rank[s[i]] = i
  BY <1>7 DEF Surjection
<1>9. \A i, j \in 1..n : i < j => s[i] < s[j]
  <2> SUFFICES ASSUME NEW i \in 1..n, NEW j \in 1..n, i < j, ~(s[i] < s[j]) PROVE FALSE
    OBVIOUS
  <2> HIDE DEF s, rank
  <2>1. s[j] < s[i] \/ s[j] = s[i]
    <3>1. s[i] \in Nat /\ s[j] \in Nat
      BY <1>8
    <3> QED
      BY <3>1
  <2>2. j < i \/ j = i
    BY <1>3, <1>8, <2>1
  <2> QED
    BY <1>1, <2>2
<1>10. s \in [1..n -> S]
  BY <1>8
<1> QED
  BY <1>9, <1>10

\* What the sequence of a set is: every member, and no other
IsOrderOf(s, S) ==
    /\ DOMAIN s = 1..Cardinality(S)
    /\ Cardinality(S) \in Nat
    /\ \A i \in DOMAIN s : s[i] \in S
    /\ \A x \in S : \E i \in DOMAIN s : s[i] = x

LEMMA OrderOfSet ==
  ASSUME NEW S \in SUBSET Nat, IsFiniteSet(S)
  PROVE  IsOrderOf(InOrder(S), S)
<1> DEFINE n == Cardinality(S)
           s == InOrder(S)
<1>1. n \in Nat
  BY FS_CardinalityType
<1>2. s \in [1..n -> S] /\ \A i, j \in 1..n : i < j => s[i] < s[j]
  BY OrderExists DEF InOrder
<1> HIDE DEF s
<1>3. s \in Injection(1..n, S)
  <2>1. \A i, j \in 1..n : s[i] = s[j] => i = j
    <3> SUFFICES ASSUME NEW i \in 1..n, NEW j \in 1..n, s[i] = s[j], i # j PROVE FALSE
      OBVIOUS
    <3>1. i < j \/ j < i
      BY <1>1
    <3>2. s[i] \in Nat
      BY <1>2
    <3> QED
      BY <1>2, <3>1, <3>2
  <2> QED
    BY <1>2, <2>1 DEF Injection, IsInjective
<1>4. IsFiniteSet(1..n) /\ Cardinality(1..n) = n
  BY <1>1, FS_Interval
<1>5. s \in Surjection(1..n, S)
  BY <1>3, <1>4, FS_Injection
<1>6. \A x \in S : \E i \in 1..n : s[i] = x
  BY <1>5 DEF Surjection
<1> QED
  BY <1>1, <1>2, <1>6 DEF IsOrderOf, s

-----------------------------------------------------------------------------
(***************************************************************************)
(* The inductive invariant                                                 *)
(***************************************************************************)
IsResource(e) ==
    /\ e = [id |-> e.id, type |-> e.type, name |-> e.name, edited |-> e.edited]
    /\ e.id \in Nat /\ e.id > 0 /\ e.id <= newest

BamInv ==
    /\ newest \in Nat /\ faults \in Nat
    /\ \A e \in bam : IsResource(e)
    /\ \A e, f \in bam : e.id = f.id => e = f
    /\ \A e \in start : e.id \in Nat /\ e.id <= newest

\* The operations of a session are the lines of its file, all of them accepted
IsOperation(op, line) ==
    /\ op.line = line /\ op.row = FactoryRow(line)
    /\ Csv!Accepted(line)
    /\ \E c : op.payload = CreateFromRow(c, FactoryRow(line)).payload

SessionInv ==
    /\ run \in {"import", "again", "rollback"}
    /\ phase \in {"parsing", "executing", "done", "refused"}
    /\ \E n \in Nat : DOMAIN file = 1..n
    /\ IF phase \in {"executing", "done"}
       THEN DOMAIN ops = DOMAIN file /\ \A i \in DOMAIN ops : IsOperation(ops[i], file[i])
       ELSE DOMAIN ops = {}
    /\ DOMAIN result \subseteq DOMAIN ops
    /\ phase = "done" => DOMAIN result = DOMAIN ops

\* What BAM has under an id that was reported for a creation: a resource of the
\* same collection, if it is still there, and a new one unless it could be looked up
Reported(type, id) ==
    /\ id \in Nat /\ id > 0 /\ id <= newest
    /\ \A e \in bam : e.id = id => CollectionOf(e.type) = CollectionOf(type)
    /\ type \notin Looked => \A e \in start : e.id # id

\* What a success names: the resource r acted on, with its own id unless it is one of
\* the deletions and updates that are not sent for the bam_id of their row
Names(op, r) ==
    /\ r.on.id \in 1..newest /\ CollectionOf(r.on.type) = CollectionOf(op.line.type)
    /\ op.line.action = "create" => Reported(op.line.type, r.id) /\ r.on.name = op.row.name
    /\ r.id = r.on.id \/ <<op.line.type, op.line.action>> \in OwnColumn \cup Unlinking

ResultInv == \A i \in Succeeded : Names(ops[i], result[i])

LogInv ==
    /\ \E n \in Nat : DOMAIN log = 1..n
    /\ phase = "done" \/ run = "rollback" =>
         \A k \in DOMAIN log : log[k].action = "create" => Reported(log[k].type, log[k].bam_id)

\* What a rollback without a fault has done so far
RollbackInv ==
    run = "rollback" =>
      /\ file = RollbackFile /\ allow
      /\ faults = 0 => \A i \in DOMAIN result : \A e \in bam : e.id # ops[i].line.bam_id

\* What a session without a fault has done so far with a file that it can complete
Completed(i) ==
    /\ result[i].ok
    /\ Stored(ops[i]) \subseteq created
    /\ \E e \in Existing(ops[i]) : e.id = result[i].id
RerunInv == faults = 0 /\ Repeatable => \A i \in DOMAIN result : Completed(i)

IInv == BamInv /\ SessionInv /\ ResultInv /\ LogInv /\ RollbackInv /\ RerunInv

-----------------------------------------------------------------------------
(***************************************************************************)
(* What a request does to BAM                                              *)
(***************************************************************************)

\* An update or a deletion leaves the resources what they are
LEMMA ChangedResources ==
  ASSUME BamInv, NEW op
  PROVE  /\ \A e \in Changed(op) : /\ IsResource(e)
                                   /\ \E f \in bam : /\ f.id = e.id /\ f.type = e.type
                                                     /\ f.name = e.name
         /\ \A e, f \in Changed(op) : e.id = f.id => e = f
<1> DEFINE found == At(RequestOf(op), op)
           Edit(e) == [e EXCEPT !.edited = e \in found \/ @]
<1>1. CASE op.line.action = "update"
  <2>1. Changed(op) = {Edit(e) : e \in bam}
    BY <1>1 DEF Changed
  <2>2. \A e \in bam : Edit(e) = [id |-> e.id, type |-> e.type, name |-> e.name,
                                 edited |-> (e \in found \/ e.edited)]
    BY DEF BamInv, IsResource
  <2> HIDE DEF Edit
  <2>3. \A e \in bam : /\ IsResource(Edit(e)) /\ Edit(e).id = e.id
                       /\ Edit(e).type = e.type /\ Edit(e).name = e.name
    BY <2>2 DEF BamInv, IsResource
  <2> QED
    BY <2>1, <2>3 DEF BamInv
<1>2. CASE op.line.action # "update"
  <2>1. Changed(op) \subseteq bam
    BY <1>2 DEF Changed
  <2> QED
    BY <2>1 DEF BamInv
<1> QED
  BY <1>1, <1>2

BamMoves(op) ==
    \/ bam' = bam /\ newest' = newest
    \/ bam' = bam \cup {New(op)} /\ newest' = newest + 1
    \/ bam' = Changed(op) /\ newest' = newest

\* What was reported stays true of BAM
LEMMA BamStep ==
  ASSUME BamInv, NEW op, BamMoves(op), start' = start, faults' \in Nat
  PROVE  /\ BamInv'
         /\ newest <= newest'
         /\ \A type, id : Reported(type, id) => Reported(type, id)'
<1>1. CASE bam' = bam /\ newest' = newest
  BY <1>1 DEF BamInv, IsResource, Reported
<1>2. CASE bam' = bam \cup {New(op)} /\ newest' = newest + 1
  <2>0. PICK new : new = New(op)
    OBVIOUS
  <2>1. /\ newest \in Nat /\ newest' = newest + 1
        /\ bam' = bam \cup {new} /\ new.id = newest + 1
        /\ IsResource(new)'
    BY <1>2, <2>0 DEF BamInv, IsResource, New
  <2>2. \A e \in bam : e.id \in Nat /\ e.id <= newest /\ IsResource(e)'
    BY <2>1 DEF BamInv, IsResource
  <2>3. BamInv'
    <3>1. \A e \in bam' : IsResource(e)'
      BY <1>2, <2>1, <2>2
    <3>2. \A e, f \in bam' : e.id = f.id => e = f
      BY <1>2, <2>1, <2>2 DEF BamInv
    <3>3. \A e \in start' : e.id \in Nat /\ e.id <= newest'
      BY <2>1 DEF BamInv
    <3> QED
      BY <2>1, <3>1, <3>2, <3>3 DEF BamInv
  <2>4. ASSUME NEW type, NEW id, Reported(type, id)
        PROVE  Reported(type, id)'
    BY <1>2, <2>1, <2>4 DEF Reported
  <2> QED
    BY <2>1, <2>3, <2>4
<1>3. CASE bam' = Changed(op) /\ newest' = newest
  <2>1. \A e \in bam' : /\ IsResource(e)
                        /\ \E f \in bam : f.id = e.id /\ f.type = e.type
    BY <1>3, ChangedResources
  <2>2. \A e, f \in bam' : e.id = f.id => e = f
    BY <1>3, ChangedResources
  <2>3. BamInv'
    BY <1>3, <2>1, <2>2 DEF BamInv, IsResource
  <2>4. ASSUME NEW type, NEW id, Reported(type, id)
        PROVE  Reported(type, id)'
    BY <1>3, <2>1, <2>4 DEF Reported
  <2> QED
    BY <1>3, <2>3, <2>4 DEF BamInv
<1> QED
  BY <1>1, <1>2, <1>3 DEF BamMoves

-----------------------------------------------------------------------------
(***************************************************************************)
(* The operations of a session                                             *)
(***************************************************************************)
LEMMA Operations ==
  ASSUME SessionInv, NEW i \in DOMAIN ops
  PROVE  /\ i \in DOMAIN file /\ ops[i].line = file[i] /\ IsOperation(ops[i], file[i])
         /\ ops[i].line.type \in Types
         /\ ops[i].line.action \in {"create", "update", "delete"}
         /\ RequestOf(ops[i]) = HandlerRegistry[ops[i].line.type][ops[i].line.action]
         /\ Sound(HandlerRegistry[ops[i].line.type])
         /\ CollectionOf(ops[i].line.type) = HandlerRegistry[ops[i].line.type].create.collection
         /\ RequestOf(ops[i]).method = "POST" <=> ops[i].line.action = "create"
         /\ ops[i].line.action = "create"
              => RequestOf(ops[i]) = HandlerRegistry[ops[i].line.type].create
         /\ ops[i].line.action = "delete"
              => RequestOf(ops[i]) = HandlerRegistry[ops[i].line.type].delete
<1>1. i \in DOMAIN file /\ IsOperation(ops[i], file[i])
  BY DEF SessionInv
<1>2. ops[i].line = file[i] /\ Csv!Accepted(file[i])
  BY <1>1 DEF IsOperation
<1>3. ops[i].line.type \in Types /\ ops[i].line.action \in {"create", "update", "delete"}
  BY <1>2, AcceptedLine
<1>4. Sound(HandlerRegistry[ops[i].line.type])
  BY <1>3, HandlersAreSound
<1>5. CollectionOf(ops[i].line.type) = HandlerRegistry[ops[i].line.type].create.collection
  BY <1>3 DEF CollectionOf, Types
<1> QED
  BY <1>1, <1>2, <1>3, <1>4, <1>5 DEF RequestOf, Sound, Changes

\* The rows of a rollback file that parse: each deletes, by its id alone and with
\* permission, what an entry of the changelog reported as created
LEMMA RollbackOperations ==
  ASSUME SessionInv, LogInv, RollbackInv, run = "rollback", NEW i \in DOMAIN ops
  PROVE  /\ ops[i].line.action = "delete" /\ ops[i].line.type \in Bare
         /\ Reported(ops[i].line.type, ops[i].line.bam_id)
         /\ Sends(ops[i])
<1> DEFINE line == ops[i].line
           creates == {k \in DOMAIN log : log[k].action = "create" /\ log[k].bam_id # None}
           last == Cardinality(creates)
<1>1. i \in DOMAIN RollbackFile /\ line = RollbackFile[i] /\ IsOperation(ops[i], line)
  BY Operations DEF RollbackInv
<1>2. creates \in SUBSET Nat /\ IsFiniteSet(creates)
  <2>1. PICK n \in Nat : DOMAIN log = 1..n
    BY DEF LogInv
  <2>2. IsFiniteSet(1..n)
    BY FS_Interval
  <2> QED
    BY <2>1, <2>2, FS_Subset
<1>3. IsOrderOf(InOrder(creates), creates)
  BY <1>2, OrderOfSet
<1>4. RollbackFile = [k \in 1..last |-> DeleteRow(log[InOrder(creates)[last + 1 - k]])]
  BY DEF RollbackFile
<1>5. PICK k \in creates : line = DeleteRow(log[k])
  <2>1. i \in 1..last /\ last \in Nat /\ line = DeleteRow(log[InOrder(creates)[last + 1 - i]])
    BY <1>1, <1>3, <1>4 DEF IsOrderOf
  <2>2. last + 1 - i \in 1..last
    BY <2>1
  <2>3. InOrder(creates)[last + 1 - i] \in creates
    BY <1>3, <2>2 DEF IsOrderOf
  <2> QED
    BY <2>1, <2>3
<1>6. /\ line.action = "delete" /\ line.cells = <<>>
      /\ line.type = log[k].type /\ line.bam_id = log[k].bam_id
  BY <1>5 DEF DeleteRow
<1>7. Reported(line.type, line.bam_id)
  BY <1>6 DEF LogInv
<1>8. line.type \in Bare
  BY <1>1, <1>6, BareLines DEF IsOperation
<1>9. Sends(ops[i])
  <2>1. ops[i].payload = Nothing
    BY <1>1, <1>6, <1>8, BareRows DEF IsOperation
  <2>2. RequestOf(ops[i]) = HandlerRegistry[line.type].delete
    BY <1>6, Operations
  <2>3. /\ RequestOf(ops[i]).method = "DELETE"
        /\ RequestOf(ops[i]).needs = {} /\ RequestOf(ops[i]).oneOf = {}
        /\ RequestOf(ops[i]).looksUp = {} /\ RequestOf(ops[i]).typed = {}
    BY <1>8, <2>2, BareDeletes DEF IdAlone
  <2>4. allow
    BY DEF RollbackInv
  <2> QED
    BY <2>1, <2>3, <2>4 DEF Sends, Resolved, Nothing
<1> QED
  BY <1>6, <1>7, <1>8, <1>9

\* Such a deletion takes away what has the id, and nothing else
LEMMA RollbackDeletes ==
  ASSUME BamInv, SessionInv, LogInv, RollbackInv, run = "rollback", NEW i \in DOMAIN ops
  PROVE  Changed(ops[i]) = {e \in bam : e.id # ops[i].line.bam_id}
<1> DEFINE line == ops[i].line
           found == At(RequestOf(ops[i]), ops[i])
<1>1. line.action = "delete" /\ line.type \in Bare /\ Reported(line.type, line.bam_id)
  BY RollbackOperations
<1>2. /\ RequestOf(ops[i]).method = "DELETE"
      /\ RequestOf(ops[i]).collection = CollectionOf(line.type)
      /\ RequestOf(ops[i]).by = "bam_id" /\ RequestOf(ops[i]).collection # NoCollection
  BY <1>1, Operations, BareDeletes, BareContainNothing DEF IdAlone
<1>3. found = {e \in bam : e.id = line.bam_id}
  <2>1. \A e \in bam : e.id = line.bam_id => CollectionOf(e.type) = RequestOf(ops[i]).collection
    BY <1>1, <1>2 DEF Reported
  <2> QED
    BY <1>2, <2>1 DEF At, TargetId
<1>4. \A f \in found : Inside(f.type) = {}
  <2>1. \A f \in found : CollectionOf(f.type) = CollectionOf(line.type)
    BY <1>2 DEF At
  <2> QED
    BY <1>1, <2>1, BareContainNothing
<1>5. Contents(found) = found
  BY <1>4 DEF Contents, At
<1>6. Changed(ops[i]) = bam \ Contents(found)
  BY <1>1 DEF Changed
<1> QED
  BY <1>3, <1>5, <1>6

-----------------------------------------------------------------------------
(***************************************************************************)
(* The end of an operation                                                 *)
(***************************************************************************)
LEMMA ReportStep ==
  ASSUME IInv, NEW i, Ready(i), NEW ok, NEW id, NEW on, Report(i, ok, id, on),
         NEW op, op = ops[i], BamMoves(op), faults' \in Nat,
         ok => Names(op, [ok |-> ok, id |-> id, on |-> on])'
  PROVE  BamInv' /\ SessionInv' /\ LogInv' /\ ResultInv'
<1>1. /\ i \in DOMAIN ops /\ phase = "executing"
      /\ UNCHANGED <<start, run, phase, file, allow, ops, log>>
      /\ result' = [j \in DOMAIN result \cup {i} |->
                      IF j = i THEN [ok |-> ok, id |-> id, on |-> on] ELSE result[j]]
  BY DEF Ready, Report
<1>2. /\ BamInv' /\ newest <= newest' /\ newest \in Nat /\ newest' \in Nat
      /\ \A type, given : Reported(type, given) => Reported(type, given)'
  <2>1. BamInv' /\ newest <= newest'
        /\ \A type, given : Reported(type, given) => Reported(type, given)'
    BY <1>1, Operations, BamStep DEF IInv
  <2> QED
    BY <2>1 DEF IInv, BamInv
<1>3. SessionInv'
  BY <1>1 DEF IInv, SessionInv, IsOperation, FactoryRow, CreateFromRow
<1>4. LogInv'
  BY <1>1, <1>2 DEF IInv, LogInv
<1>5. ResultInv'
  <2>1. \A o, r : Names(o, r) => Names(o, r)'
    BY <1>2 DEF Names, CollectionOf
  <2>2. \A j \in DOMAIN result' : j # i => j \in DOMAIN result /\ result'[j] = result[j]
    BY <1>1
  <2>3. i \in DOMAIN result' /\ result'[i] = [ok |-> ok, id |-> id, on |-> on]
    BY <1>1
  <2> SUFFICES ASSUME NEW j, j \in Succeeded'
               PROVE  Names(ops[j], result[j])'
    BY DEF ResultInv
  <2>4. j \in DOMAIN result' /\ result'[j].ok
    BY DEF Succeeded
  <2>5. CASE j = i
    <3>1. PICK r : r = [ok |-> ok, id |-> id, on |-> on]
      OBVIOUS
    <3>2. Names(op, r)'
      BY <2>3, <2>4, <2>5, <3>1
    <3> QED
      BY <1>1, <2>3, <2>5, <3>1, <3>2 DEF Names
  <2>6. CASE j # i
    <3>1. Names(ops[j], result[j])
      BY <2>2, <2>4, <2>6 DEF IInv, ResultInv, Succeeded
    <3>2. PICK o, r : o = ops[j] /\ r = result[j]
      OBVIOUS
    <3>3. Names(o, r)'
      BY <2>1, <3>1, <3>2
    <3> QED
      BY <1>1, <2>2, <2>4, <2>6, <3>2, <3>3 DEF Names
  <2> QED
    BY <2>5, <2>6
<1> QED
  BY <1>2, <1>3, <1>4, <1>5

-----------------------------------------------------------------------------
(***************************************************************************)
(* Files that can be imported again                                        *)
(***************************************************************************)
LEMMA SameOperations ==
  ASSUME ops' = ops
  PROVE  /\ Repeatable' = Repeatable
         /\ \A j : Stored(ops[j])' = Stored(ops[j])
<1>1. \A o : CanLookUp(o)' = CanLookUp(o) /\ Keys(o)' = Keys(o)
             /\ RequestOf(o)' = RequestOf(o) /\ Stored(o)' = Stored(o)
  BY DEF CanLookUp, Keys, RequestOf, Stored, SlotKey
<1> QED
  BY <1>1 DEF Repeatable, Rows, CanLookUp, Keys, RequestOf, Stored

\* As long as all went well, the next operation comes to its request
LEMMA RepeatableSends ==
  ASSUME IInv, faults = 0, Repeatable, NEW i, Ready(i)
  PROVE  /\ Sends(ops[i]) /\ RequestOf(ops[i]).method = "POST"
         /\ ops[i].line.action = "create"
         /\ ops[i].line.type \in Looked
         /\ ops[i].row.name # None
         /\ CanLookUp(ops[i])
<1>1. i \in DOMAIN ops /\ Waits(i) = {}
  BY DEF Ready
<1>2. /\ ops[i].line.action = "create" /\ CanLookUp(ops[i]) /\ ~ops[i].payload.error
      /\ RequestOf(ops[i]).needs \subseteq Keys(ops[i])
      /\ \A d \in ops[i].payload.deferred :
           \E j \in Rows(d) : <<d.slot, d.key>> \in Stored(ops[j])
  BY <1>1 DEF Repeatable
<1>3. ops[i].line.type \in Looked
  BY <1>2 DEF CanLookUp, Looked
<1>4. /\ IsOperation(ops[i], file[i]) /\ RequestOf(ops[i]).method = "POST"
      /\ RequestOf(ops[i]) = HandlerRegistry[ops[i].line.type].create
  BY <1>1, <1>2, Operations DEF IInv
<1>5. ops[i].row.name # None
  BY <1>3, <1>4, LookedHaveNames DEF IsOperation
<1>6. Resolved(ops[i])
  <2> SUFFICES ASSUME NEW d \in ops[i].payload.deferred
               PROVE  <<d.slot, d.key>> \in created
    BY DEF Resolved
  <2>1. PICK j \in Rows(d) : <<d.slot, d.key>> \in Stored(ops[j])
    BY <1>2
  <2>2. j \in DOMAIN result
    BY <1>1, <2>1 DEF Waits, Done
  <2>3. Completed(j)
    BY <2>2 DEF IInv, RerunInv
  <2> QED
    BY <2>1, <2>3 DEF Completed
<1>7. Simple(RequestOf(ops[i]))
  BY <1>3, <1>4, LookedAreSimple
<1>8. Sends(ops[i])
  BY <1>2, <1>4, <1>6, <1>7 DEF Sends, Simple
<1> QED
  BY <1>2, <1>3, <1>4, <1>5, <1>8

\* The other operations stay completed while BAM only grows
LEMMA OthersStayCompleted ==
  ASSUME IInv, faults = 0, Repeatable, NEW i, NEW ok, NEW id, NEW on,
         Ready(i), Report(i, ok, id, on), bam \subseteq bam', created \subseteq created',
         Completed(i)'
  PROVE  RerunInv'
<1>1. /\ ops' = ops
      /\ result' = [j \in DOMAIN result \cup {i} |->
                      IF j = i THEN [ok |-> ok, id |-> id, on |-> on] ELSE result[j]]
  BY DEF Report
<1>2. ASSUME NEW j \in DOMAIN result, j # i
      PROVE  Completed(j)'
  <2>1. Completed(j)
    BY DEF IInv, RerunInv
  <2>2. PICK e \in Existing(ops[j]) : e.id = result[j].id
    BY <2>1 DEF Completed
  <2>3. e \in Existing(ops[j])'
    BY <1>1, <2>2 DEF Existing, SameName
  <2>4. result'[j] = result[j]
    BY <1>1, <1>2
  <2>5. Stored(ops[j])' = Stored(ops[j])
    BY <1>1, SameOperations
  <2> QED
    BY <1>1, <2>1, <2>2, <2>3, <2>4, <2>5 DEF Completed
<1>3. \A j \in DOMAIN result' : j = i \/ (j \in DOMAIN result /\ j # i)
  BY <1>1
<1> QED
  BY <1>2, <1>3 DEF RerunInv

-----------------------------------------------------------------------------
(***************************************************************************)
(* One lemma for each action                                               *)
(***************************************************************************)
LEMMA Untouched ==
  ASSUME UNCHANGED log
  PROVE  RollbackFile' = RollbackFile
BY DEF RollbackFile, InOrder, DeleteRow

LEMMA FailWithoutRequestStep ==
  ASSUME IInv, NEW i, FailWithoutRequest(i)
  PROVE  IInv'
<1>1. /\ Ready(i) /\ ~Sends(ops[i]) /\ Report(i, FALSE, None, None)
      /\ UNCHANGED <<created, bam, newest, faults>>
  BY DEF FailWithoutRequest, Failed
<1>2. BamInv' /\ SessionInv' /\ LogInv' /\ ResultInv'
  <2>1. PICK op : op = ops[i]
    OBVIOUS
  <2>2. BamMoves(op) /\ faults' \in Nat
    BY <1>1 DEF BamMoves, IInv, BamInv
  <2> QED
    BY <1>1, <2>1, <2>2, ReportStep
<1>3. i \in DOMAIN ops /\ UNCHANGED <<run, ops, log, file, allow>>
  BY <1>1 DEF Ready, Report
<1>4. RollbackInv'
  <2>1. run # "rollback"
    BY <1>1, <1>3, RollbackOperations DEF IInv
  <2> QED
    BY <1>3, <2>1 DEF RollbackInv
<1>5. RerunInv'
  <2>1. ~(faults = 0 /\ Repeatable)
    BY <1>1, RepeatableSends
  <2> QED
    BY <1>1, <1>3, <2>1, SameOperations DEF RerunInv
<1> QED
  BY <1>2, <1>4, <1>5 DEF IInv

LEMMA CreateStep ==
  ASSUME IInv, NEW i, Create(i)
  PROVE  IInv'
<1>0. PICK op : op = ops[i]
  OBVIOUS
<1>1. PICK new : new = New(op)
  OBVIOUS
<1>2. /\ Ready(i) /\ Sends(op) /\ RequestOf(op).method = "POST"
      /\ newest' = newest + 1 /\ bam' = bam \cup {new}
      /\ created' = created \cup Stored(op)
      /\ Report(i, TRUE, newest + 1, new)
      /\ UNCHANGED faults
  BY <1>0, <1>1 DEF Create, Created
<1>3. /\ i \in DOMAIN ops /\ UNCHANGED <<run, ops, log, file, allow, start>>
      /\ i \in DOMAIN result' /\ result'[i] = [ok |-> TRUE, id |-> newest + 1, on |-> new]
  BY <1>2 DEF Ready, Report
<1>4. op.line.action = "create" /\ newest \in Nat
  BY <1>0, <1>2, <1>3, Operations DEF IInv, BamInv
<1>5. new = [id |-> newest + 1, type |-> op.line.type, name |-> op.row.name, edited |-> FALSE]
  BY <1>1 DEF New
<1>6. BamInv' /\ SessionInv' /\ LogInv' /\ ResultInv'
  <2>1. BamMoves(op) /\ faults' \in Nat
    BY <1>1, <1>2 DEF BamMoves, IInv, BamInv
  <2>2. PICK r : r = [ok |-> TRUE, id |-> newest + 1, on |-> new]
    OBVIOUS
  <2>3. \A e \in bam : e.id \in Nat /\ e.id <= newest
    BY DEF IInv, BamInv, IsResource
  <2>4. \A e \in start : e.id \in Nat /\ e.id <= newest
    BY DEF IInv, BamInv
  <2>5. PICK type, given : type = op.line.type /\ given = newest + 1
    OBVIOUS
  <2>6. Reported(type, given)'
    BY <1>2, <1>3, <1>4, <1>5, <2>3, <2>4, <2>5 DEF Reported
  <2>7. Names(op, r)'
    <3>1. r.on = new /\ r.id = newest + 1 /\ new.id = newest + 1
          /\ new.type = op.line.type /\ new.name = op.row.name
      BY <1>5, <2>2
    <3>2. newest + 1 \in 1..newest'
      BY <1>2, <1>4
    <3> QED
      BY <2>5, <2>6, <3>1, <3>2 DEF Names, CollectionOf
  <2>8. PICK id : id = newest + 1
    OBVIOUS
  <2> QED
    BY <1>0, <1>2, <2>1, <2>2, <2>7, <2>8, ReportStep
<1>7. RollbackInv'
  <2>1. run # "rollback"
    BY <1>0, <1>3, <1>4, RollbackOperations DEF IInv
  <2> QED
    BY <1>3, <2>1 DEF RollbackInv
<1>8. RerunInv'
  <2> SUFFICES ASSUME faults = 0, Repeatable PROVE RerunInv'
    BY <1>2, <1>3, SameOperations DEF RerunInv
  <2>1. op.line.type \in Looked /\ op.row.name # None
    BY <1>0, <1>2, RepeatableSends
  <2>2. new \in Existing(op)'
    BY <1>2, <1>5, <2>1, LookedAreSimple DEF Existing, SameName
  <2>3. Completed(i)'
    BY <1>0, <1>2, <1>3, <1>5, <2>2 DEF Completed, Existing
  <2> QED
    BY <1>2, <2>3, OthersStayCompleted
<1> QED
  BY <1>6, <1>7, <1>8 DEF IInv

LEMMA ConflictStep ==
  ASSUME IInv, NEW i, Conflict(i)
  PROVE  IInv'
<1>0. PICK op : op = ops[i]
  OBVIOUS
<1>1. /\ Ready(i) /\ Sends(op) /\ RequestOf(op).method = "POST" /\ Existing(op) # {}
      /\ UNCHANGED <<bam, newest, faults>>
      /\ \/ /\ CanLookUp(op)
            /\ \E e \in LookedUp(op) : Report(i, TRUE, e.id, e)
            /\ created' = created \cup Stored(op)
         \/ /\ ~(CanLookUp(op) /\ LookedUp(op) # {})
            /\ Report(i, FALSE, None, None) /\ UNCHANGED created
  BY <1>0 DEF Conflict, Failed, Created
<1>2. /\ i \in DOMAIN ops /\ UNCHANGED <<run, ops, log, file, allow, start>>
  BY <1>1 DEF Ready, Report
<1>3. op.line.action = "create" /\ IsOperation(op, file[i])
  BY <1>0, <1>1, <1>2, Operations DEF IInv
<1>4. BamMoves(op) /\ faults' \in Nat
  BY <1>1 DEF BamMoves, IInv, BamInv
<1>5. RollbackInv'
  <2>1. run # "rollback"
    BY <1>0, <1>2, <1>3, RollbackOperations DEF IInv
  <2> QED
    BY <1>2, <2>1 DEF RollbackInv
<1>6. CASE Report(i, FALSE, None, None) /\ ~(CanLookUp(op) /\ LookedUp(op) # {})
  <2>1. BamInv' /\ SessionInv' /\ LogInv' /\ ResultInv'
    BY <1>0, <1>1, <1>4, <1>6, ReportStep
  <2>2. RerunInv'
    <3>1. ~(faults = 0 /\ Repeatable)
      <4> SUFFICES ASSUME faults = 0, Repeatable PROVE FALSE
        OBVIOUS
      <4>1. CanLookUp(op) /\ op.row.name # None
        BY <1>0, <1>1, RepeatableSends
      <4>2. Existing(op) \subseteq LookedUp(op)
        BY DEF Existing, SameName, LookedUp
      <4> QED
        BY <1>1, <1>6, <4>1, <4>2
    <3> QED
      BY <1>1, <1>2, <3>1, SameOperations DEF RerunInv
  <2> QED
    BY <1>5, <2>1, <2>2 DEF IInv
<1>7. ASSUME CanLookUp(op), created' = created \cup Stored(op),
             NEW e \in LookedUp(op), Report(i, TRUE, e.id, e)
      PROVE  IInv'
  <2>1. /\ e \in bam /\ CollectionOf(e.type) = CollectionOf(op.line.type)
        /\ e.name = op.row.name
    BY <1>7 DEF LookedUp
  <2>2. op.line.type \in Looked
    BY <1>7 DEF CanLookUp, Looked
  <2>3. BamInv' /\ SessionInv' /\ LogInv' /\ ResultInv'
    <3>1. PICK type, id : type = op.line.type /\ id = e.id
      OBVIOUS
    <3>2. PICK r : r = [ok |-> TRUE, id |-> id, on |-> e]
      OBVIOUS
    <3>3. Reported(type, id)'
      BY <1>1, <1>2, <2>1, <2>2, <3>1 DEF Reported, IInv, BamInv, IsResource
    <3>4. Names(op, r)'
      <4>1. e.id \in 1..newest'
        BY <1>1, <2>1 DEF IInv, BamInv, IsResource
      <4> QED
        BY <2>1, <3>1, <3>2, <3>3, <4>1 DEF Names, CollectionOf
    <3> QED
      BY <1>0, <1>1, <1>4, <1>7, <3>1, <3>2, <3>4, ReportStep
  <2>4. RerunInv'
    <3> SUFFICES ASSUME faults = 0, Repeatable PROVE RerunInv'
      BY <1>1, <1>2, SameOperations DEF RerunInv
    <3>1. op.row.name # None
      BY <1>0, <1>1, RepeatableSends
    <3>2. e \in Existing(op)'
      BY <1>1, <2>1, <2>2, <3>1, LookedAreSimple DEF Existing, SameName
    <3>3. result'[i] = [ok |-> TRUE, id |-> e.id, on |-> e]
      BY <1>7 DEF Report
    <3>4. Completed(i)'
      BY <1>0, <1>2, <1>7, <3>2, <3>3 DEF Completed, Existing
    <3> QED
      BY <1>1, <1>7, <3>4, OthersStayCompleted
  <2> QED
    BY <1>5, <2>3, <2>4 DEF IInv
<1> QED
  BY <1>1, <1>6, <1>7

\* What a rollback deletes is gone afterwards
LEMMA RollbackStep ==
  ASSUME IInv, run = "rollback", NEW i \in DOMAIN ops, bam' = Changed(ops[i]),
         UNCHANGED <<run, ops, log, file, allow>>,
         DOMAIN result' \subseteq DOMAIN result \cup {i}, faults' = 0 => faults = 0
  PROVE  RollbackInv'
<1>1. bam' = {e \in bam : e.id # ops[i].line.bam_id}
  BY RollbackDeletes DEF IInv
<1>2. file' = RollbackFile' /\ allow'
  BY Untouched DEF IInv, RollbackInv
<1> SUFFICES ASSUME faults' = 0, NEW j \in DOMAIN result', NEW e \in bam'
             PROVE  e.id # ops[j].line.bam_id
  BY <1>2 DEF RollbackInv
<1>3. CASE j = i
  BY <1>1, <1>3
<1>4. CASE j # i
  BY <1>1, <1>4 DEF IInv, RollbackInv
<1> QED
  BY <1>3, <1>4

LEMMA ChangeStep ==
  ASSUME IInv, NEW i, Change(i)
  PROVE  IInv'
<1>0. PICK op : op = ops[i]
  OBVIOUS
<1>1. /\ Ready(i) /\ Sends(op) /\ RequestOf(op).method # "POST"
      /\ bam' = Changed(op) /\ UNCHANGED <<newest, faults>>
      /\ \/ Report(i, FALSE, None, None)
         \/ \E e \in At(RequestOf(op), op) : Report(i, TRUE, op.line.bam_id, e)
  BY <1>0 DEF Change, Failed
<1>2. /\ i \in DOMAIN ops /\ UNCHANGED <<run, ops, log, file, allow, start>>
      /\ DOMAIN result' = DOMAIN result \cup {i}
  BY <1>1 DEF Ready, Report
<1>3. op.line.action # "create" /\ newest \in Nat
  BY <1>0, <1>1, <1>2, Operations DEF IInv, BamInv
<1>4. BamMoves(op) /\ faults' \in Nat
  BY <1>1 DEF BamMoves, IInv, BamInv
<1>8. /\ \/ RequestOf(op).collection = NoCollection
         \/ RequestOf(op).collection = CollectionOf(op.line.type)
      /\ <<op.line.type, op.line.action>> \in OwnColumn \cup Unlinking \/ ById(RequestOf(op))
  <2>1. /\ op.line.action \in {"update", "delete"} /\ op.line.type \in Types
        /\ RequestOf(op) = HandlerRegistry[op.line.type][op.line.action]
        /\ Sound(HandlerRegistry[op.line.type])
        /\ CollectionOf(op.line.type) = HandlerRegistry[op.line.type].create.collection
    BY <1>0, <1>2, <1>3, Operations DEF IInv
  <2>2. RequestOf(op).method # "none"
    BY <1>1 DEF Sends
  <2>3. Fits(RequestOf(op), CollectionOf(op.line.type))
    BY <2>1 DEF Sound
  <2>4. \/ RequestOf(op).collection = NoCollection
        \/ RequestOf(op).collection = CollectionOf(op.line.type)
    BY <2>2, <2>3 DEF Fits
  <2> QED
    BY <2>1, <2>4, OthersAreSentById
<1>5. BamInv' /\ SessionInv' /\ LogInv' /\ ResultInv'
  <2>1. CASE Report(i, FALSE, None, None)
    BY <1>0, <1>1, <1>4, <2>1, ReportStep
  <2>2. ASSUME NEW e \in At(RequestOf(op), op), Report(i, TRUE, op.line.bam_id, e)
        PROVE  BamInv' /\ SessionInv' /\ LogInv' /\ ResultInv'
    <3>1. PICK id : id = op.line.bam_id
      OBVIOUS
    <3>2. PICK r : r = [ok |-> TRUE, id |-> id, on |-> e]
      OBVIOUS
    <3>3. e \in bam /\ IsResource(e)
      BY DEF At, IInv, BamInv
    <3>4. id = e.id \/ <<op.line.type, op.line.action>> \in OwnColumn \cup Unlinking
      BY <1>8, <3>1 DEF At, TargetId, ById
    <3>5. CollectionOf(e.type) = CollectionOf(op.line.type)
      <4>1. /\ CollectionOf(e.type) = RequestOf(op).collection
            /\ RequestOf(op).collection # NoCollection
        BY DEF At
      <4>2. RequestOf(op).collection = CollectionOf(op.line.type)
        BY <1>8, <4>1
      <4> QED
        BY <4>1, <4>2
    <3>6. e.id \in 1..newest'
      BY <1>1, <1>3, <3>3 DEF IsResource
    <3>7. Names(op, r)'
      BY <1>3, <3>1, <3>2, <3>4, <3>5, <3>6 DEF Names, CollectionOf
    <3> QED
      BY <1>0, <1>1, <1>4, <2>2, <3>1, <3>2, <3>7, ReportStep
  <2> QED
    BY <1>1, <2>1, <2>2
<1>6. RollbackInv'
  <2>1. CASE run = "rollback"
    BY <1>0, <1>1, <1>2, <2>1, RollbackStep
  <2>2. CASE run # "rollback"
    BY <1>2, <2>2 DEF RollbackInv
  <2> QED
    BY <2>1, <2>2
<1>7. RerunInv'
  <2>1. ~(faults = 0 /\ Repeatable)
    BY <1>0, <1>1, RepeatableSends
  <2> QED
    BY <1>1, <1>2, <2>1, SameOperations DEF RerunInv
<1> QED
  BY <1>5, <1>6, <1>7 DEF IInv

LEMMA FaultStep ==
  ASSUME IInv, NEW i, Fault(i)
  PROVE  IInv'
<1>0. PICK op : op = ops[i]
  OBVIOUS
<1>1. /\ Ready(i) /\ Sends(op) /\ faults' = faults + 1
      /\ Report(i, FALSE, None, None)
      /\ BamMoves(op)
  BY <1>0 DEF Fault, Failed, BamMoves
<1>2. faults' \in Nat /\ faults' # 0
  BY <1>1 DEF IInv, BamInv
<1>3. UNCHANGED <<run, ops, log, file, allow>>
  BY <1>1 DEF Report
<1>4. BamInv' /\ SessionInv' /\ LogInv' /\ ResultInv'
  BY <1>0, <1>1, <1>2, ReportStep
<1>5. RollbackInv'
  BY <1>2, <1>3, Untouched DEF IInv, RollbackInv
<1>6. RerunInv'
  BY <1>2 DEF RerunInv
<1> QED
  BY <1>4, <1>5, <1>6 DEF IInv

-----------------------------------------------------------------------------
(***************************************************************************)
(* The sessions                                                            *)
(***************************************************************************)
\* While nothing was done, nothing is known of the operations
LEMMA NothingDone ==
  ASSUME DOMAIN result = {}
  PROVE  ResultInv /\ RerunInv
BY DEF ResultInv, RerunInv, Succeeded

LEMMA ParseFileStep ==
  ASSUME IInv, ParseFile
  PROVE  IInv'
<1> DEFINE parsed == Csv!Parse(file, TRUE)
           rows   == [i \in DOMAIN parsed.rows |-> FactoryRow(parsed.rows[i])]
           known  == [bam |-> {<<e.type, e.name>> : e \in bam}, pending |-> FromRows(rows)]
<1>1. /\ phase = "parsing"
      /\ phase' = IF parsed.refused THEN "refused" ELSE "executing"
      /\ ops' = [i \in DOMAIN rows |->
                   LET made == CreateFromRow(known, rows[i])
                   IN  [line |-> parsed.rows[i], row |-> made.row, payload |-> made.payload]]
      /\ UNCHANGED <<bam, newest, start, run, file, allow, result, created, log, faults>>
  BY DEF ParseFile
<1>2. PICK n \in Nat : DOMAIN file = 1..n
  BY DEF IInv, SessionInv
<1>3. DOMAIN result' = {}
  BY <1>1 DEF IInv, SessionInv
<1>4. SessionInv'
  <2>1. CASE parsed.refused
    <3>0. parsed.rows = <<>>
      BY <2>1, RefusedFile
    <3> HIDE DEF parsed
    <3>1. DOMAIN parsed.rows = {}
      BY <3>0
    <3>2. DOMAIN ops' = {}
      BY <1>1, <3>1
    <3> HIDE DEF rows, known
    <3> QED
      BY <1>1, <1>2, <1>3, <2>1, <3>2 DEF IInv, SessionInv
  <2>2. CASE ~parsed.refused
    <3>1. parsed.rows = file /\ \A i \in DOMAIN file : Csv!Accepted(file[i])
      BY <2>2, ParsedFile
    <3>2. DOMAIN ops' = DOMAIN file
      BY <1>1, <3>1
    <3> HIDE DEF parsed, known
    <3>3. \A i \in DOMAIN file :
            ops'[i] = [line |-> file[i], row |-> CreateFromRow(known, FactoryRow(file[i])).row,
                       payload |-> CreateFromRow(known, FactoryRow(file[i])).payload]
      BY <1>1, <3>1
    <3>4. \A r : CreateFromRow(known, r).row = r
      BY DEF CreateFromRow
    <3>5. ASSUME NEW i \in DOMAIN file
          PROVE  IsOperation(ops[i], file[i])'
      <4>1. PICK op, line, c : op = ops'[i] /\ line = file[i] /\ c = known
        OBVIOUS
      <4>2. op = [line |-> line, row |-> FactoryRow(line),
                  payload |-> CreateFromRow(c, FactoryRow(line)).payload]
        BY <3>3, <3>4, <4>1
      <4>3. IsOperation(op, line)
        BY <3>1, <4>1, <4>2 DEF IsOperation
      <4> QED
        BY <1>1, <4>1, <4>3 DEF IsOperation
    <3>6. \A i \in DOMAIN ops' : IsOperation(ops[i], file[i])'
      BY <3>2, <3>5
    <3> HIDE DEF rows
    <3> QED
      BY <1>1, <1>2, <1>3, <2>2, <3>2, <3>6 DEF IInv, SessionInv
  <2> QED
    BY <2>1, <2>2
<1> HIDE DEF parsed, rows, known
<1>5. BamInv' /\ LogInv'
  BY <1>1 DEF IInv, BamInv, IsResource, LogInv, Reported
<1>6. RollbackInv'
  BY <1>1, <1>3, Untouched DEF IInv, RollbackInv
<1>7. ResultInv' /\ RerunInv'
  BY <1>3 DEF ResultInv, RerunInv, Succeeded
<1> QED
  BY <1>4, <1>5, <1>6, <1>7 DEF IInv

LEMMA EndSessionStep ==
  ASSUME IInv, EndSession
  PROVE  IInv'
<1> DEFINE order == InOrder(Succeeded)
<1>1. /\ phase = "executing" /\ DOMAIN result = DOMAIN ops /\ phase' = "done"
      /\ log' = IF run = "rollback" THEN log ELSE [k \in DOMAIN order |-> Entry(order[k])]
      /\ UNCHANGED <<bam, newest, start, run, file, allow, ops, result, created, faults>>
  BY DEF EndSession
<1>2. PICK n \in Nat : DOMAIN file = 1..n /\ DOMAIN ops = 1..n
  BY <1>1 DEF IInv, SessionInv
<1>3. Succeeded \in SUBSET Nat /\ IsFiniteSet(Succeeded)
  <2>1. Succeeded \subseteq 1..n
    BY <1>1, <1>2 DEF Succeeded
  <2>2. IsFiniteSet(1..n) /\ \A k \in 1..n : k \in Nat
    BY <1>2, FS_Interval
  <2> QED
    BY <2>1, <2>2, FS_Subset
<1>4. IsOrderOf(order, Succeeded)
  BY <1>3, OrderOfSet
<1> HIDE DEF order
<1>5. BamInv'
  BY <1>1 DEF IInv, BamInv, IsResource
<1>6. SessionInv'
  BY <1>1, <1>2 DEF IInv, SessionInv, IsOperation, FactoryRow, CreateFromRow
<1>7. ResultInv'
  BY <1>1 DEF IInv, ResultInv, Succeeded, Names, Reported, CollectionOf
<1>8. RerunInv'
  BY <1>1, SameOperations DEF IInv, RerunInv, Completed, Existing, SameName
<1>9. LogInv'
  <2>1. CASE run = "rollback"
    BY <1>1, <2>1 DEF IInv, LogInv, Reported
  <2>2. CASE run # "rollback"
    <3>1. log' = [k \in DOMAIN order |-> Entry(order[k])]
      BY <1>1, <2>2
    <3>2. DOMAIN log' = 1..Cardinality(Succeeded) /\ Cardinality(Succeeded) \in Nat
      BY <1>4, <3>1 DEF IsOrderOf
    <3>3. ASSUME NEW k \in DOMAIN log', log'[k].action = "create"
          PROVE  Reported(log'[k].type, log'[k].bam_id)
      <4>1. PICK i \in Succeeded : log'[k] = Entry(i)
        BY <1>4, <3>1 DEF IsOrderOf
      <4>2. Names(ops[i], result[i])
        BY DEF IInv, ResultInv
      <4> QED
        BY <3>3, <4>1, <4>2 DEF Entry, Names
    <3>4. \A type, id : Reported(type, id)' = Reported(type, id)
      BY <1>1 DEF Reported
    <3>5. ASSUME NEW k \in DOMAIN log', log'[k].action = "create"
          PROVE  Reported(log[k].type, log[k].bam_id)'
      BY <1>1, <3>3, <3>5 DEF Reported
    <3> QED
      BY <3>2, <3>5 DEF LogInv
  <2> QED
    BY <2>1, <2>2
<1>10. RollbackInv'
  BY <1>1, Untouched DEF IInv, RollbackInv
<1> QED
  BY <1>5, <1>6, <1>7, <1>8, <1>9, <1>10 DEF IInv

LEMMA ImportAgainStep ==
  ASSUME IInv, ImportAgain
  PROVE  IInv'
<1>1. /\ run' = "again" /\ phase' = "parsing" /\ file' = file /\ allow' = allow
      /\ ops' = <<>> /\ result' = <<>> /\ faults' = 0 /\ start' = bam
      /\ UNCHANGED <<bam, newest, log>>
  BY DEF ImportAgain, Session
<1>2. BamInv'
  BY <1>1 DEF IInv, BamInv, IsResource
<1>3. DOMAIN ops' = {} /\ DOMAIN result' = {}
  BY <1>1
<1>4. SessionInv'
  BY <1>1, <1>3 DEF IInv, SessionInv
<1>5. LogInv' /\ RollbackInv'
  BY <1>1 DEF IInv, LogInv, RollbackInv
<1>6. ResultInv' /\ RerunInv'
  BY <1>3 DEF ResultInv, RerunInv, Succeeded
<1> QED
  BY <1>2, <1>4, <1>5, <1>6 DEF IInv

LEMMA RollBackStep ==
  ASSUME IInv, RollBack
  PROVE  IInv'
<1>1. /\ phase = "done"
      /\ run' = "rollback" /\ phase' = "parsing" /\ file' = RollbackFile /\ allow' = TRUE
      /\ ops' = <<>> /\ result' = <<>> /\ faults' = 0
      /\ UNCHANGED <<bam, newest, start, log>>
  BY DEF RollBack, Session
<1>2. BamInv'
  BY <1>1 DEF IInv, BamInv, IsResource
<1>3. DOMAIN ops' = {} /\ DOMAIN result' = {}
  BY <1>1
<1>4. \E n \in Nat : DOMAIN RollbackFile = 1..n
  <2> DEFINE creates == {k \in DOMAIN log : log[k].action = "create" /\ log[k].bam_id # None}
  <2>1. PICK n \in Nat : DOMAIN log = 1..n
    BY DEF IInv, LogInv
  <2>2. IsFiniteSet(creates)
    BY <2>1, FS_Interval, FS_Subset
  <2>3. Cardinality(creates) \in Nat
    BY <2>2, FS_CardinalityType
  <2> QED
    BY <2>3 DEF RollbackFile
<1>5. SessionInv'
  BY <1>1, <1>3, <1>4 DEF IInv, SessionInv
<1>6. LogInv'
  BY <1>1 DEF IInv, LogInv, Reported
<1>7. RollbackInv'
  BY <1>1, <1>3, Untouched DEF IInv, RollbackInv
<1>8. ResultInv' /\ RerunInv'
  BY <1>3 DEF ResultInv, RerunInv, Succeeded
<1> QED
  BY <1>2, <1>5, <1>6, <1>7, <1>8 DEF IInv

LEMMA InitInv == Init => IInv
<1> SUFFICES ASSUME Init PROVE IInv
  OBVIOUS
<1>1. /\ file \in Files /\ bam \in Bams /\ start = bam
      /\ newest \in {i \in Ids(bam) : \A j \in Ids(bam) : j <= i}
      /\ run = "import" /\ phase = "parsing"
      /\ ops = <<>> /\ result = <<>> /\ log = <<>> /\ faults = 0
  BY DEF Init
<1>2. BamInv
  <2>1. \A e \in bam : /\ e = [id |-> e.id, type |-> e.type, name |-> e.name, edited |-> e.edited]
                       /\ e.id \in Nat /\ e.id > 0 /\ e.id <= newest
    BY <1>1, BamAssumption DEF Ids
  <2>2. newest \in Nat
    BY <1>1, BamAssumption DEF Ids
  <2> QED
    BY <1>1, <2>1, <2>2, BamAssumption DEF BamInv, IsResource
<1>3. DOMAIN ops = {} /\ DOMAIN result = {} /\ DOMAIN log = 1..0
  BY <1>1
<1>4. SessionInv
  <2>1. \E n \in Nat : DOMAIN file = 1..n
    BY <1>1, FileAssumption
  <2> QED
    BY <1>1, <1>3, <2>1 DEF SessionInv
<1>5. LogInv /\ RollbackInv
  BY <1>1, <1>3 DEF LogInv, RollbackInv
<1>6. ResultInv /\ RerunInv
  BY <1>3, NothingDone
<1> QED
  BY <1>2, <1>4, <1>5, <1>6 DEF IInv

-----------------------------------------------------------------------------
(***************************************************************************)
(* The theorems                                                            *)
(***************************************************************************)
LEMMA StutterStep ==
  ASSUME IInv, UNCHANGED vars
  PROVE  IInv'
<1>1. UNCHANGED <<bam, newest, start, run, phase, file, allow, ops, result, created, log, faults>>
  BY DEF vars
<1>2. BamInv' /\ LogInv'
  BY <1>1 DEF IInv, BamInv, IsResource, LogInv, Reported
<1>3. SessionInv'
  BY <1>1 DEF IInv, SessionInv, IsOperation, FactoryRow, CreateFromRow
<1>4. ResultInv'
  BY <1>1 DEF IInv, ResultInv, Succeeded, Names, Reported, CollectionOf
<1>5. RollbackInv'
  BY <1>1, Untouched DEF IInv, RollbackInv
<1>6. RerunInv'
  BY <1>1, SameOperations DEF IInv, RerunInv, Completed, Existing, SameName
<1> QED
  BY <1>2, <1>3, <1>4, <1>5, <1>6 DEF IInv

LEMMA NextStep == IInv /\ [Next]_vars => IInv'
<1> SUFFICES ASSUME IInv, [Next]_vars PROVE IInv'
  OBVIOUS
<1>1. CASE ParseFile
  BY <1>1, ParseFileStep
<1>2. ASSUME NEW i \in DOMAIN ops, FailWithoutRequest(i) PROVE IInv'
  BY <1>2, FailWithoutRequestStep
<1>3. ASSUME NEW i \in DOMAIN ops, Create(i) PROVE IInv'
  BY <1>3, CreateStep
<1>4. ASSUME NEW i \in DOMAIN ops, Conflict(i) PROVE IInv'
  BY <1>4, ConflictStep
<1>5. ASSUME NEW i \in DOMAIN ops, Change(i) PROVE IInv'
  BY <1>5, ChangeStep
<1>6. ASSUME NEW i \in DOMAIN ops, Fault(i) PROVE IInv'
  BY <1>6, FaultStep
<1>7. CASE EndSession
  BY <1>7, EndSessionStep
<1>8. CASE ImportAgain
  BY <1>8, ImportAgainStep
<1>9. CASE RollBack
  BY <1>9, RollBackStep
<1>10. CASE UNCHANGED vars
  BY <1>10, StutterStep
<1> QED
  BY <1>1, <1>2, <1>3, <1>4, <1>5, <1>6, <1>7, <1>8, <1>9, <1>10 DEF Next

\* Across an import, its repetition and its rollback: BAM keeps one resource for an
\* id, the operations of a session are the lines of its file, and what the changelog
\* reports as created is in BAM, if at all, in the collection of its row.
THEOREM InvariantAlways == Spec => []IInv
<1> QED
  BY InitInv, NextStep, PTL DEF Spec

\* An operation that succeeded acted on a resource of the collection of its type, under
\* the name of its row if it is a creation, and reports the id of that resource, unless
\* it is one of the updates and deletions that OwnColumn and Unlinking name: these take
\* the id from a column of their own, or none, and report the bam_id of the row.
THEOREM SuccessesNameResources == Spec => []SuccessNamesAResource
<1>1. IInv => SuccessNamesAResource
  BY DEF IInv, ResultInv, Names, SuccessNamesAResource
<1> QED
  BY <1>1, InvariantAlways, PTL

\* A rollback that is carried out without a fault leaves nothing of what the import
\* reported as created: its file has a row for each, and every row that was accepted
\* came to its request and took that resource away.
THEOREM RollbacksAreAllOrNothing == Spec => []RollbackIsAllOrNothing
<1>1. IInv => RollbackIsAllOrNothing
  <2> SUFFICES ASSUME IInv, run = "rollback", phase = "done", faults = 0,
                      NEW k \in DOMAIN log, log[k].action = "create",
                      NEW e \in bam, e.id = log[k].bam_id
               PROVE  FALSE
    BY DEF RollbackIsAllOrNothing, Logged, Ids
  <2> DEFINE creates == {j \in DOMAIN log : log[j].action = "create" /\ log[j].bam_id # None}
             last == Cardinality(creates)
  <2>1. k \in creates
    BY CellAssumption DEF IInv, BamInv, IsResource
  <2>2. creates \in SUBSET Nat /\ IsFiniteSet(creates)
    <3>1. PICK n \in Nat : DOMAIN log = 1..n
      BY DEF IInv, LogInv
    <3>2. IsFiniteSet(1..n) /\ \A j \in 1..n : j \in Nat
      BY FS_Interval
    <3> QED
      BY <3>1, <3>2, FS_Subset
  <2>3. IsOrderOf(InOrder(creates), creates)
    BY <2>2, OrderOfSet
  <2>4. PICK m \in 1..last : InOrder(creates)[m] = k
    BY <2>1, <2>3 DEF IsOrderOf
  <2>5. PICK i \in 1..last : last + 1 - i = m
    <3>1. last \in Nat
      BY <2>3 DEF IsOrderOf
    <3>2. last + 1 - m \in 1..last /\ last + 1 - (last + 1 - m) = m
      BY <3>1
    <3> QED
      BY <3>2
  <2>6. file = [j \in 1..last |-> DeleteRow(log[InOrder(creates)[last + 1 - j]])]
    BY DEF IInv, RollbackInv, RollbackFile
  <2>7. i \in DOMAIN file /\ file[i] = DeleteRow(log[k])
    BY <2>4, <2>5, <2>6
  <2>8. i \in DOMAIN ops /\ i \in DOMAIN result
    BY <2>7 DEF IInv, SessionInv
  <2>9. ops[i].line.bam_id = log[k].bam_id
    BY <2>7, <2>8, Operations DEF IInv, DeleteRow
  <2>10. e.id # ops[i].line.bam_id
    BY <2>8 DEF IInv, RollbackInv
  <2> QED
    BY <2>9, <2>10
<1> QED
  BY <1>1, InvariantAlways, PTL

\* The same file imported again without a fault completes the import, whatever went
\* wrong in the first session: by induction over the operations done, each stores the
\* id under which the rows that wait for it ask.
THEOREM RerunsComplete == Spec => []RerunCompletesTheImport
<1>1. IInv => RerunCompletesTheImport
  BY DEF IInv, SessionInv, RerunInv, Completed, RerunCompletesTheImport, Succeeded
<1> QED
  BY <1>1, InvariantAlways, PTL

\* What was in BAM when the session began survives the rollback of that session: the
\* types whose rows do without columns are the only ones in a file that parses, and a
\* conflict never makes one of these take over an existing resource.
THEOREM RollbacksKeepWhatWasThere == Spec => RollbackKeepsWhatWasThere
<1>1. ASSUME IInv, [Next]_vars, run = "rollback",
             NEW id \in Ids(start) \cap Ids(bam)
      PROVE  id \in Ids(bam')
  <2>1. PICK e \in bam : e.id = id
    BY DEF Ids
  <2>2. CASE bam' = bam
    BY <2>1, <2>2 DEF Ids
  <2>3. ASSUME NEW i \in DOMAIN ops
        PROVE  /\ RequestOf(ops[i]).method # "POST"
               /\ bam' = Changed(ops[i]) => id \in Ids(bam')
    <3>1. /\ ops[i].line.action = "delete" /\ ops[i].line.type \in Bare
          /\ Reported(ops[i].line.type, ops[i].line.bam_id)
      BY <1>1, RollbackOperations DEF IInv
    <3>2. RequestOf(ops[i]).method # "POST"
      BY <1>1, <3>1, Operations DEF IInv
    <3>3. e.id # ops[i].line.bam_id
      BY <1>1, <2>1, <3>1, BareAreNotLooked DEF Reported, Ids
    <3>4. Changed(ops[i]) = {f \in bam : f.id # ops[i].line.bam_id}
      BY <1>1, RollbackDeletes DEF IInv
    <3> QED
      BY <2>1, <3>2, <3>3, <3>4 DEF Ids
  <2>4. \/ bam' = bam
        \/ \E i \in DOMAIN ops : RequestOf(ops[i]).method = "POST" \/ bam' = Changed(ops[i])
    BY <1>1 DEF Next, vars, ParseFile, FailWithoutRequest, Create, Conflict, Change, Fault,
                EndSession, ImportAgain, RollBack, Session
  <2> QED
    BY <2>2, <2>3, <2>4
<1>2. IInv /\ [Next]_vars => [run = "rollback" => Ids(start) \cap Ids(bam) \subseteq Ids(bam')]_vars
  BY <1>1
<1> QED
  BY <1>2, InvariantAlways, PTL DEF Spec, RollbackKeepsWhatWasThere

\* Without permission a request leaves the protected resources where they are: the
\* deletions from their collections are guarded, and nothing outside contains them.
LEMMA ChangesKeepProtected ==
  ASSUME IInv, NEW i \in DOMAIN ops, Sends(ops[i]), RequestOf(ops[i]).method # "POST", ~allow,
         NEW e \in bam, e.type \in Protected
  PROVE  \E f \in Changed(ops[i]) : f.id = e.id
<1> DEFINE found == At(RequestOf(ops[i]), ops[i])
<1>1. ops[i].line.action \in {"update", "delete"} /\ ops[i].line.type \in Types
  BY Operations DEF IInv
<1>2. CASE ops[i].line.action = "update"
  <2>1. [e EXCEPT !.edited = e \in found \/ @] \in Changed(ops[i])
    BY <1>2 DEF Changed
  <2>2. e = [id |-> e.id, type |-> e.type, name |-> e.name, edited |-> e.edited]
    BY DEF IInv, BamInv, IsResource
  <2>3. [e EXCEPT !.edited = e \in found \/ @].id = e.id
    BY <2>2
  <2> QED
    BY <2>1, <2>3
<1>3. CASE ops[i].line.action = "delete"
  <2>1. RequestOf(ops[i]) = HandlerRegistry[ops[i].line.type].delete
    BY <1>3, Operations DEF IInv
  <2>2. RequestOf(ops[i]).collection \notin ProtectedCollections
    BY <1>1, <2>1, HandlersAreSound DEF Sound, Guards, Sends
  <2>3. \A f \in found : f.type \notin Protected
    BY <2>2, ProtectedTypes DEF At
  <2>4. \A t : t \notin Protected => e.type \notin Inside(t)
    BY DEF Inside, Protected
  <2>5. e \notin Contents(found)
    BY <2>3, <2>4 DEF Contents
  <2> QED
    BY <1>3, <2>5 DEF Changed
<1> QED
  BY <1>1, <1>2, <1>3

\* An import without --allow-dangerous-operations never removes a block, a network or
\* a zone, neither by its own row nor with something that contains it.
THEOREM ProtectedWithoutPermission == Spec => ProtectedNeedPermission
<1>1. ASSUME IInv, [Next]_vars, ~allow, NEW e \in bam, e \notin bam', e.type \in Protected
      PROVE  \E f \in bam' : f.id = e.id
  <2>1. \/ bam \subseteq bam'
        \/ \E i \in DOMAIN ops : /\ Sends(ops[i]) /\ RequestOf(ops[i]).method # "POST"
                                 /\ bam' = Changed(ops[i])
    BY <1>1 DEF Next, vars, ParseFile, FailWithoutRequest, Create, Conflict, Change, Fault,
                EndSession, ImportAgain, RollBack, Session
  <2> QED
    BY <1>1, <2>1, ChangesKeepProtected
<1>2. IInv /\ [Next]_vars
      => [~allow => \A e \in bam \ bam' :
            e.type \notin {"ip4_block", "ip4_network", "ip6_block", "ip6_network", "dns_zone"}
            \/ \E f \in bam' : f.id = e.id]_vars
  BY <1>1 DEF Protected
<1> QED
  BY <1>2, InvariantAlways, PTL DEF Spec, ProtectedNeedPermission

=============================================================================
