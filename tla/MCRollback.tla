------------------------------ MODULE MCRollback ------------------------------
(***************************************************************************)
(* Small files for the way from lines to BAM and back: one row of every    *)
(* type and action, pairs of rows that refer to each other or that the     *)
(* rollback treats differently, and lines that the parser refuses.         *)
(***************************************************************************)
EXTENDS Rollback, TLC

Cfg == <<"Default">>      View == <<"Internal">>
B8  == <<"10/8">>         N16 == <<"10.1/16">>      IP == <<"10.1.0.5">>
B6  == <<"2001::/32">>    N6  == <<"2001::/64">>    IP6 == <<"2001::5">>
Com == <<"example", "com">>      Www == <<"www", "example", "com">>
FR  == <<"FR", "PAR">>           HQ  == <<"FR", "PAR", "HQ">>
X   == <<"x">>      \* the value of a column nothing depends on

MCCidrs  == {B8, N16, B6, N6}
MCCovers == {<<B8, N16>>, <<B8, IP>>, <<N16, IP>>, <<B6, N6>>, <<B6, IP6>>, <<N6, IP6>>,
             <<Com, Www>>, <<Com, <<"@">>>>, <<FR, HQ>>}

In(cells)  == ("config" :> Cfg) @@ cells
Dns(cells) == In(("view_path" :> View) @@ cells)
Named(n)   == "name" :> n
Record(cells) == Dns(("zone_name" :> Com) @@ cells)
Path4 == <<Cfg, B8, N16>>        Path6 == <<Cfg, B6, N6>>

\* A complete row of every type
CellsOf(type) ==
    CASE type = "ip4_block"   -> In(("cidr" :> B8) @@ Named(X))
      [] type = "ip4_network" -> In(("cidr" :> N16) @@ Named(X) @@ ("parent" :> <<Cfg, B8>>))
      [] type = "ip4_group"   -> In(Named(X) @@ ("parent" :> Path4) @@ ("range" :> IP))
      [] type = "ip4_address" -> In("address" :> IP)
      [] type = "ip6_block"   -> In(("cidr" :> B6) @@ Named(X))
      [] type = "ip6_network" -> In(("cidr" :> N6) @@ Named(X) @@ ("parent" :> <<Cfg, B6>>))
      [] type = "ip6_address" -> In("address" :> IP6)
      [] type = "ipv4_dhcp_range" -> In(("range" :> IP) @@ ("network_path" :> Path4))
      [] type = "ipv6_dhcp_range" -> In(("range" :> IP6) @@ ("network_path" :> Path6))
      [] type = "dns_zone"     -> Dns("zone_name" :> Com)
      [] type = "host_record"  -> Record(Named(Www) @@ ("addresses" :> IP))
      [] type = "alias_record" -> Record(Named(Www) @@ ("linked_record_name" :> X))
      [] type = "mx_record"    -> Record(Named(Www) @@ ("exchange" :> X) @@ ("preference" :> X))
      [] type = "txt_record"   -> Record(Named(Blank) @@ ("text" :> X))
      [] type = "srv_record"   -> Record(Named(Www) @@ ("target" :> X) @@ ("port" :> X)
                                           @@ ("priority" :> X) @@ ("weight" :> X))
      [] type = "external_host_record" -> Record(Named(Www))
      [] type = "generic_record" -> Record(Named(Www) @@ ("record_type" :> X) @@ ("rdata" :> X))
      [] type = "dhcp_deployment_role" -> In("network_path" :> <<N16>>)
      [] type = "dns_deployment_role"  -> In(("block_path" :> <<Cfg, B8>>)
                                               @@ ("interfaces" :> <<"ns1">>))
      [] type \in {"dhcpv4_client_deployment_option", "dhcpv4_service_deployment_option"}
            -> In(Named(X) @@ ("network_path" :> <<N16>>) @@ ("code" :> X) @@ ("value" :> X))
      [] type = "location" -> ("code" :> HQ) @@ ("parent_code" :> FR) @@ Named(X)
      [] type = "udf_definition" -> Named(<<"udf">>) @@ ("field_type" :> X)
      [] type = "udl_definition" -> Named(<<"uplink">>) @@ ("source_types" :> X)
                                      @@ ("destination_types" :> X)
      [] type = "user_defined_link" -> In(("udl_name" :> <<"uplink">>)
             @@ ("source_type" :> "ip4_network") @@ ("source_path" :> <<N16>>)
             @@ ("destination_type" :> "device") @@ ("destination_path" :> <<<<"r1">>>>))
      [] type = "mac_pool"    -> In(Named(<<"pool">>))
      [] type = "mac_address" -> In("mac_address" :> <<"00:11">>)
      [] type = "tag_group"   -> Named(<<"sites">>)
      [] type = "tag"         -> Named(<<"core">>) @@ ("tag_group" :> <<"sites">>)
      [] type = "resource_tag" -> In(("resource_type" :> "ip4_network")
             @@ ("resource_path" :> <<N16>>) @@ ("tag_name" :> <<"core">>))
      [] type = "device_type"    -> Named(<<"router">>)
      [] type = "device_subtype" -> Named(<<"edge">>) @@ ("device_type" :> <<"router">>)
      [] type = "device" -> In(Named(<<"r1">>) @@ ("device_type" :> <<"router">>)
                                 @@ ("device_subtype" :> <<"edge">>))
      [] type = "device_address" -> In(("device_name" :> <<"r1">>) @@ ("address" :> IP))
      [] type = "acl"          -> In(Named(<<"acl">>))
      [] type = "access_right" -> ("user_type" :> "user") @@ ("user_name" :> <<"operator">>)
                                    @@ ("default_access_level" :> X)

\* BAM with one resource of every type, and with what a creation needs only
TypeList ==
    <<"ip4_block", "ip4_network", "ip4_group", "ip4_address", "ip6_block", "ip6_network",
      "ip6_address", "ipv4_dhcp_range", "ipv6_dhcp_range", "dns_zone", "host_record",
      "alias_record", "mx_record", "txt_record", "srv_record", "external_host_record",
      "generic_record", "dhcp_deployment_role", "dns_deployment_role",
      "dhcpv4_client_deployment_option", "dhcpv4_service_deployment_option", "location",
      "udf_definition", "udl_definition", "user_defined_link", "mac_pool", "mac_address",
      "tag_group", "tag", "resource_tag", "device_type", "device_subtype", "device",
      "device_address", "acl", "access_right">>
Types == {TypeList[i] : i \in DOMAIN TypeList}
Id == [t \in Types |-> 100 + CHOOSE i \in DOMAIN TypeList : TypeList[i] = t]
Entity(id, type, name) == [id |-> id, type |-> type, name |-> name, edited |-> FALSE]
Resource(t) ==
    Entity(Id[t], t, FactoryRow([id |-> "", type |-> t, action |-> "create",
                                 bam_id |-> None, cells |-> CellsOf(t)]).name)
Foundation == {Entity(1, "configuration", Cfg), Entity(2, "view", View),
               Entity(3, "location", FR), Entity(4, "server", <<"ns1">>),
               Entity(5, "user", <<"operator">>)}
Containers == {"ip4_block", "ip4_network", "ip6_block", "ip6_network", "dns_zone",
               "tag_group", "tag", "device_type", "device_subtype", "device",
               "udl_definition"}
Empty    == Foundation
Prepared == Foundation \cup {Resource(t) : t \in Containers}
Full     == Foundation \cup {Resource(t) : t \in Types \ {"device_address", "resource_tag"}}
MCBams   == {Empty, Prepared, Full}

Line(id, type, action, bam_id, cells) ==
    [id |-> id, type |-> type, action |-> action, bam_id |-> bam_id, cells |-> cells]
Creates(id, type) == Line(id, type, "create", None, CellsOf(type))
With(line, cells) == [line EXCEPT !.cells = cells @@ @]

Singles == {<<Creates("1", t)>> : t \in Types}
Changes == {<<Line("1", t, a, Id[t], CellsOf(t))>> : t \in Types, a \in {"update", "delete"}}
Blind   == {<<Line("1", t, a, None, CellsOf(t))>> :
              t \in {"ip4_address", "location", "resource_tag"}, a \in {"update", "delete"}}
\* Ids given in extra columns, which the row classes let through: of the resource,
\* of one of another type, of none; with the bam_id of another resource or none
Column == [device_type |-> "device_type_id", device_subtype |-> "device_subtype_id",
           device |-> "device_id", acl |-> "acl_id", access_right |-> "access_right_id"]
ById(t, action, bam_id, id) ==
    With(Line("1", t, action, bam_id, CellsOf(t)), Column[t] :> id)
Extra   == {<<ById(t, a, b, Id[t])>> : t \in DOMAIN Column, a \in {"update", "delete"},
                                       b \in {None, Id["ip4_block"]}}
           \cup {<<ById("device", "delete", Id["device"], i)>> : i \in {Id["ip4_block"], 99}}
           \cup {<<With(Line("1", "device_address", a, None, CellsOf("device_address")),
                       "address_id" :> Id["ip4_address"])>> : a \in {"create", "delete"}}

\* Types that cannot be tagged, or be the destination of a link
Untyped == {<<With(Line("1", "resource_tag", a, None, CellsOf("resource_tag")),
                   "resource_type" :> "location")>> : a \in {"create", "delete"}}
           \cup {<<With(Line("1", "user_defined_link", a, Id["user_defined_link"],
                            CellsOf("user_defined_link")), "destination_type" :> "location")>> :
                    a \in {"create", "delete"}}

Pairs ==
    {<<Creates("1", p[1]), Creates("2", p[2])>> :
       p \in {<<"ip4_network", "ip4_block">>, <<"ip4_network", "ip4_address">>,
              <<"ip4_address", "ipv4_dhcp_range">>, <<"ipv4_dhcp_range", "ipv6_dhcp_range">>,
              <<"dhcp_deployment_role", "dhcpv4_client_deployment_option">>,
              <<"dhcp_deployment_role", "ip4_address">>,
              <<"ip6_block", "ip6_network">>, <<"ip6_network", "ip6_address">>,
              <<"dns_zone", "host_record">>, <<"host_record", "alias_record">>,
              <<"device_type", "device_subtype">>, <<"device_subtype", "device">>,
              <<"device", "device_address">>, <<"tag_group", "tag">>}}
Site == Line("2", "location", "create", None,
             ("code" :> HQ \o <<"A">>) @@ ("parent_code" :> HQ) @@ Named(X))
Mixed ==
    {<<Creates("1", "location"), Site>>,
     <<Creates("1", "ipv4_dhcp_range"), Line("2", "ip4_network", "delete", Id["ip4_network"],
                                             CellsOf("ip4_network"))>>,
     <<Creates("1", "txt_record"), Line("2", "dns_zone", "delete", Id["dns_zone"],
                                        CellsOf("dns_zone"))>>,
     <<Creates("1", "resource_tag"), Line("2", "resource_tag", "delete", None,
                                          CellsOf("resource_tag"))>>,
     <<Creates("1", "dns_zone"), With(Creates("2", "host_record"),
                                      "zone_name" :> <<"sub">> \o Com)>>}

\* A required column missing, a value refused, a row_id used twice, a wrong parent
Faulty ==
    {<<Creates("1", "ip4_block"),
       Line("2", "ip4_network", "create", None, In("cidr" :> N16))>>,
     <<Creates("1", "ipv4_dhcp_range"), With(Creates("2", "ip4_address"), "mac" :> Bad)>>,
     <<Creates("1", "dns_zone"), With(Creates("2", "dns_deployment_role"), "zone_path" :> Com)>>,
     <<Creates("1", "tag_group"), Creates("1", "udf_definition")>>,
     <<Creates("1", "location"), With(Site, "parent_code" :> <<"US">>)>>,
     <<Line("1", "view", "delete", 2, In(Named(View)))>>}

MCFiles == Singles \cup Changes \cup Blind \cup Extra \cup Untyped \cup Pairs \cup Mixed \cup Faulty

\* One file with a check of the name, as the guides show it
VerifyFiles ==
    {<<With(Line("1", "ip4_address", a, Id[t], CellsOf("ip4_address")), "verify_name" :> n)>> :
       a \in {"update", "delete"}, t \in {"ip4_address", "ip6_address"}, n \in {IP, <<"other">>}}
=============================================================================
