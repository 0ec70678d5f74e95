------------------------------ MODULE MCPlanning ------------------------------
(***************************************************************************)
(* Small files for the planner: rows of every type, in the combinations in *)
(* which they refer to each other, and the properties of the plans.        *)
(***************************************************************************)
EXTENDS Planning
LOCAL INSTANCE SequencesExt
LOCAL INSTANCE FiniteSetsExt

Blank == [id |-> "", type |-> "", action |-> "create", config |-> None, name |-> None,
          parent |-> None, location |-> None, view |-> None, zone |-> None, target |-> None,
          addresses |-> None, path |-> None, dtype |-> None, subtype |-> None,
          device |-> None, group |-> None, tag |-> None, stype |-> None, spath |-> None,
          dest |-> None, dpath |-> None, udl |-> None]
Row(id, type, name) == [Blank EXCEPT !.id = id, !.type = type, !.name = name]

Cfg == <<"Default">>      View == <<"Internal">>
B8  == <<"10/8">>         N16 == <<"10.1/16">>      IP == <<"10.1.0.5">>
B6  == <<"2001::/32">>    N6  == <<"2001::/64">>    IP6 == <<"2001::5">>
Com == <<"example", "com">>      Sub == <<"sub", "example", "com">>
Www == <<"www", "example", "com">>
Paris == <<"FR PAR">>     France == <<"FR">>

MCCidrs  == {B8, N16, B6, N6}
MCCovers == {<<B8, N16>>, <<B8, IP>>, <<N16, IP>>, <<B6, N6>>, <<B6, IP6>>, <<N6, IP6>>}

In(r)        == [r EXCEPT !.config = Cfg]
Under(r, p)  == [In(r) EXCEPT !.parent = p]
Dns(r, zone) == [In(r) EXCEPT !.view = View, !.zone = zone]
Doing(r, action) == [r EXCEPT !.action = action, !.id = action \o r.id]

block   == [In(Row("block", "ip4_block", B8)) EXCEPT !.location = Paris]
net     == Under(Row("net", "ip4_network", N16), <<Cfg, B8>>)
autonet == [In(Row("autonet", "ip4_network", N16)) EXCEPT !.location = Paris]
addr    == In(Row("addr", "ip4_address", IP))
block6  == Under(Row("block6", "ip6_block", B6), None)
sub6    == Under(Row("sub6", "ip6_block", N6), <<B6>>)
net6    == Under(Row("net6", "ip6_network", N6), <<B6>>)
odd6    == Under(Row("odd6", "ip6_network", N6), <<B8>>)
addr6   == In(Row("addr6", "ip6_address", IP6))
range   == [In(Row("range", "ipv4_dhcp_range", IP)) EXCEPT !.path = <<Cfg, B8, N16>>]
range6  == [In(Row("range6", "ipv6_dhcp_range", IP6)) EXCEPT !.path = <<Cfg, B6, N6>>]
paris   == [Row("paris", "location", Paris) EXCEPT !.parent = <<France>>]
france  == Row("france", "location", France)
own     == [Row("own", "location", Paris) EXCEPT !.parent = <<Paris>>]
zone    == Dns(Row("zone", "dns_zone", Com), None)
child   == Dns(Row("child", "dns_zone", Sub), None)
www     == [Dns(Row("www", "host_record", Www), Com) EXCEPT !.addresses = <<IP>>]
fqdn    == Dns(Row("fqdn", "host_record", Www), None)
deep    == Dns(Row("deep", "txt_record", Sub), Sub)
alias   == [Dns(Row("alias", "alias_record", Sub), Com) EXCEPT !.target = Www]
outside == Dns(Row("outside", "external_host_record", Www), Com)
dhcp    == [In(Row("dhcp", "dhcp_deployment_role", None)) EXCEPT !.path = <<N16>>]
dns     == [In(Row("dns", "dns_deployment_role", None)) EXCEPT !.parent = <<B8>>]
served  == [Dns(Row("served", "dns_deployment_role", None), Com) EXCEPT !.id = "served"]
option  == [In(Row("option", "dhcpv4_client_deployment_option", None)) EXCEPT !.path = <<N16>>]
dtype   == Row("dtype", "device_type", <<"router">>)
stype   == [Row("stype", "device_subtype", <<"edge">>) EXCEPT !.dtype = <<"router">>]
device  == [In(Row("device", "device", <<"r1">>)) EXCEPT !.dtype = <<"router">>,
                                                         !.subtype = <<"edge">>]
port    == [In(Row("port", "device_address", IP)) EXCEPT !.device = <<"r1">>]
group   == Row("group", "tag_group", <<"sites">>)
tag     == [Row("tag", "tag", <<"core">>) EXCEPT !.group = <<"sites">>]
tagged(type, path) == [In(Row("tagged " \o type, "resource_tag", None))
                         EXCEPT !.stype = type, !.spath = path, !.tag = <<"core">>]
link(type, path, dest, dpath) ==
    [In(Row("link to " \o dest, "user_defined_link", None))
       EXCEPT !.udl = <<"uplink">>, !.stype = type, !.spath = path,
              !.dest = dest, !.dpath = dpath]

\* The files of a list of rows: up to n of them, in the order of the list
Sublists(rows, n) ==
    {[i \in DOMAIN pick |-> rows[pick[i]]] :
       pick \in {SetToSortSeq(S, <) : S \in UNION {kSubset(k, DOMAIN rows) : k \in 1..n}}}
\* The same in every order
Orders(rows, n) ==
    UNION {SetToSeqs({rows[i] : i \in S}) : S \in UNION {kSubset(k, DOMAIN rows) : k \in 1..n}}

Hierarchy == <<france, paris, block, net, autonet, addr, range, dhcp, dns>>
Ip6Rows   == <<block6, sub6, net6, addr6, range6>>
DnsRows   == <<zone, child, www, fqdn, deep, alias, outside, served, addr>>
DeviceRows == <<dtype, stype, device, port, group, tag, option>>
Replace   == <<Doing(net, "delete"), Doing(block, "delete"), block, net,
               Doing(net, "update"), Doing(block, "update"), Doing(addr, "delete")>>
Links     == <<www, device, tagged("ip4_network", <<N16>>), tagged("dns_zone", <<Com>>),
               link("ip4_address", <<IP>>, "device", <<<<"r1">>>>),
               link("ip4_network", <<N16>>, "dns_zone", <<Com>>)>>

\* Rows that wait in vain: deletions, a location below itself, IPv6 below IPv4
Undone    == {<<net, Doing(addr, "delete")>>, <<zone, Doing(deep, "delete")>>,
              <<device, Doing(port, "delete")>>, <<paris, Doing(block, "update")>>,
              <<own, block>>, <<own, Doing(own, "update")>>, <<block, odd6>>}

MCFiles == Sublists(Hierarchy, 4) \cup Sublists(Ip6Rows, 4) \cup Sublists(DnsRows, 4)
           \cup Sublists(DeviceRows, 3) \cup Orders(Replace, 3) \cup Sublists(Links, 2)
           \cup Undone
           \cup {<<Doing(net, "delete"), Doing(block, "delete"), block, net>>,
                 <<Doing(device, "delete"), dtype, stype, device>>,
                 <<paris, block, Doing(block, "update"), net>>}

FullBam == {<<"configuration", Cfg>>, <<"view", View>>, <<"ip4_block", B8>>,
            <<"ip4_network", N16>>, <<"ip4_address", IP>>, <<"ip6_block", B6>>,
            <<"ip6_network", N6>>, <<"dns_zone", Com>>, <<"location", Paris>>,
            <<"location", France>>, <<"device_type", <<"router">>>>,
            <<"device_subtype", <<"edge">>>>, <<"device", Cfg \o <<"r1">>>>,
            <<"tag_group", <<"sites">>>>, <<"tag", <<"core">>>>,
            <<"udl_definition", <<"uplink">>>>}
MCBams == {FullBam, {<<"configuration", Cfg>>, <<"view", View>>}}

=============================================================================
