------------------------------ MODULE MCResolver ------------------------------
(***************************************************************************)
(* An IPv4 block with a network and an IPv6 block with a network; files    *)
(* that create them, use them as parents, and delete them with and without *)
(* their paths, which they spell with and without a slash in front.        *)
(***************************************************************************)
EXTENDS Resolver, TLC

MCBlockOf == ("10/8" :> None) @@ ("10.1/16" :> "10/8")
             @@ ("2001::/32" :> None) @@ ("2001::/64" :> "2001::/32")

R(type, action, parent, cidr, within) ==
    [type |-> type, action |-> action, parent |-> parent, cidr |-> cidr, within |-> within]

Plain(names) == [slashes |-> 0, names |-> names]
Slash(names) == [slashes |-> 1, names |-> names]
Path4  == <<"Default", "10/8">>        Path6 == <<"Default", "2001::/32">>
Deep4  == Append(Path4, "10.1/16")     Deep6 == Append(Path6, "2001::/64")
Short6 == <<"2001::/32">>

Block4(action)       == R("ip4_block", action, None, "10/8", None)
Net4(action, parent) == R("ip4_network", action, parent, "10.1/16", "10/8")
Block6(action)       == R("ip6_block", action, None, "2001::/32", None)
Net6(action, parent) == R("ip6_network", action, parent, "2001::/64", "2001::/32")
Address(parent)      == R("ip4_address", "create", parent, "10.1.0.5", "10.1/16")
Range4(parent)       == R("ipv4_dhcp_range", "create", parent, "10.1.0.9", "10.1/16")
Range6(parent)       == R("ipv6_dhcp_range", "create", parent, "2001::9", "2001::/64")

MCBams == {[t \in DOMAIN MCBlockOf |-> 0],
           ("10/8" :> 1) @@ ("10.1/16" :> 2) @@ ("2001::/32" :> 3) @@ ("2001::/64" :> 4)}

MCFiles ==
    {<<Net4("create", Plain(Path4)), Address(Plain(Deep4))>>,
     <<Range4(Plain(Deep4))>>, <<Range4(Slash(Deep4))>>,
     <<Net4("delete", Plain(Path4))>>, <<Net4("delete", None)>>,
     <<Block4("create"), Net4("create", Slash(Path4)), Range4(Slash(Deep4))>>, <<Block4("delete")>>,
     <<Net6("create", Slash(Path6))>>, <<Range6(Plain(Deep6))>>,
     <<Net6("delete", Plain(Path6))>>, <<Net6("delete", Plain(Short6))>>,
     <<Block6("create"), Net6("create", Plain(Short6))>>,
     <<Block6("create"), Net6("create", Plain(Path6))>>,
     <<Net4("delete", Slash(Path4)), Net4("create", Plain(Path4)), Address(Plain(Deep4))>>}

Symmetric == Permutations(Run)
=============================================================================
