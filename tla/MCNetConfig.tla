------------------------------ MODULE MCNetConfig ------------------------------
(***************************************************************************)
(* A small instance of NetConfig: addresses of two bytes of two bits, four *)
(* nodes, one of them named three times, with letters of different case   *)
(* and with a slash.                                                       *)
(***************************************************************************)
EXTENDS NetConfig

Name(letters, case, slashes) == [letters |-> letters, case |-> case, slashes |-> slashes]
Me == Name("me", "lower", {})
B  == Name("b", "lower", {})
C  == Name("c_c", "lower", {})
UC == Name("c_c", "upper", {})
SC == Name("c_c", "lower", {2})               \* c/c

Net(family, bytes, mask) ==
    [form |-> "plain", family |-> family, bytes |-> bytes, mask |-> mask]

Half    == Net("INET", <<{1}, {}>>, 1)        \* 10 00 /1
Quarter == Net("INET", <<{1}, {}>>, 2)        \* 10 00 /2
Eighth  == Net("INET", <<{1}, {1}>>, 3)       \* 10 10 /3
Host    == Net("INET", <<{0, 1}, {0}>>, NoMask)
Other   == Net("INET", <<{}, {1}>>, 3)
Bad     == Net("INET", <<{1}, {}>>, 5)
Six     == Net("INET6", <<{0}, {}>>, 2)
Host6   == Net("INET6", <<{1}, {1}>>, NoMask)

Header(name)        == [kind |-> "header", name |-> name]
Item(kind, f, v)    == [kind |-> kind, field |-> f, value |-> v]
Network(text)       == Item("list", Networks[text.family], text)
Plain(kind)         == [kind |-> kind]
KeyLine(v)          == [kind |-> "other", value |-> v]

Sections ==
    { << Header(Me), Item("string", "gatewayhost", "h"), Network(Half) >>,
      << Header(B), Item("string", "gatewayhost", "h"), Network(Quarter), Network(Six), Network(Host6),
         Item("flag", "primary", "yes"), Plain("begin"), KeyLine("k1"), Plain("end") >>,
      << Header(B), Network(Bad), Item("list", "network6", Quarter), Network(Half),
         Item("flag", "hidden", "yes"), Item("string", "gatewayhost", "h"),
         [kind |-> "port", value |-> 65537], Plain("begin"), KeyLine("k1") >>,
      << Header(C), KeyLine("k2"), Network(Eighth), Network(Host), Plain("pingtest"),
         Item("string", "gatewayhost", "g"), Item("string", "ed25519publickey", "e") >>,
      << Header(UC), Network(Quarter), Network(Other), Item("flag", "hidden", "maybe"),
         [kind |-> "port", value |-> TooLarge], Plain("comment"),
         Item("string", "gatewayhost", "g") >>,
      << Header(SC), Network(Other), Item("string", "gatewayhost", "g") >>,
      << Plain("end"), KeyLine("k3"), Item("flag", "silent", "yes") >> }

MCData ==
    {FlattenSeq(s) : s \in UNION {[1 .. n -> Sections] : n \in 1 .. 3}}

MyIp  == Net("INET", <<{1}, {0, 1}>>, NoMask)
MyIp6 == Net("INET6", <<{1}, {0, 1}>>, 4)

Common ==
    [peerid |-> Me, vpn_ip |-> MyIp, vpn_ip6 |-> NoAddress, routeadd |-> "add", routeadd6 |-> "add",
     routedel |-> "del", routedel6 |-> "del", use_dynamic_routes |-> FALSE,
     connect_only_to_primary_nodes |-> FALSE, tincd_version |-> <<49, 46, 48, 46, 57>>,
     ed25519publickey |-> "own", exclude |-> {}, mergeroutes_supernet |-> <<>>,
     ignore_subnets |-> <<>>, whitelist_subnets |-> <<>>]

Version(numbers, suffix) == [numbers |-> numbers, suffix |-> suffix]
MCVersions ==
    {Version(<<1, 0, n>>, <<>>) : n \in {2, 9, 11, 12, 13, 16, 17, 20, 36}}
    \cup {Version(<<1, 0, 12>>, <<43>>), Version(<<1, 1>>, <<>>), Version(<<1, 1>>, <<112, 49, 55>>),
          Version(<<1, 10>>, <<>>), Version(<<1, 0>>, <<>>), Version(<<2, 0, 1>>, <<>>),
          Version(<<1, 0, 16, 1>>, <<>>), Version(<<10, 0>>, <<>>)}

MCSettings ==
    {[Common EXCEPT !.tincd_version = VersionText(v)] : v \in MCVersions} \cup
    { Common,
      [Common EXCEPT !.tincd_version = NoVersion],
      [Common EXCEPT !.vpn_ip6 = MyIp6, !.exclude = {C},
                     !.tincd_version = <<49, 46, 48, 46, 51, 54>>],
      [Common EXCEPT !.connect_only_to_primary_nodes = TRUE, !.mergeroutes_supernet = <<Quarter>>,
                     !.tincd_version = <<49, 46, 49, 112>>],
      [Common EXCEPT !.mergeroutes_supernet = <<Six, Half, Bad>>, !.vpn_ip6 = MyIp6,
                     !.routedel6 = Empty],
      [Common EXCEPT !.ignore_subnets = <<Host, Eighth>>],
      [Common EXCEPT !.ignore_subnets = <<Quarter, Half>>, !.routedel = Empty],
      [Common EXCEPT !.whitelist_subnets = <<Eighth, Quarter>>, !.ignore_subnets = <<Eighth>>],
      [Common EXCEPT !.use_dynamic_routes = TRUE, !.exclude = {C}, !.vpn_ip6 = MyIp6],
      [Common EXCEPT !.use_dynamic_routes = TRUE],
      [Common EXCEPT !.vpn_ip = Half],                  \* no address of a machine
      [Common EXCEPT !.use_dynamic_routes = TRUE, !.ignore_subnets = <<Host>>] }
=============================================================================
