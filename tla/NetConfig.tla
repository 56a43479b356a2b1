-------------------------------- MODULE NetConfig --------------------------------
(***************************************************************************)
(* What one fetched configuration becomes: parser.c reads it line by line, *)
(* tinc.c writes tinc's configuration and scripts from it, and the tincd   *)
(* that is started on them runs the scripts, which set the routes of the   *)
(* machine.  The last part is external: tincd runs tinc-up and tinc-down   *)
(* when it starts and stops, subnet-up and subnet-down for each subnet of  *)
(* a node that becomes reachable or unreachable.                           *)
(*                                                                         *)
(* Failing writes and allocations are in module Updater.  A script is the  *)
(* set of the routes its commands name, those behind a comment sign left   *)
(* out.  A name is [letters, case, slashes], because the code compares     *)
(* names with strcmp in some places and strcasecmp in others, and makes    *)
(* the name of a file from them: letters has `_' for `/', and slashes are  *)
(* the places where the name has `/'.                                      *)
(***************************************************************************)
EXTENDS AddrMask, StrNatCmp, SequencesExt

CONSTANTS
    Settings,    \* the contents of chaosvpn.conf that are considered
    Versions,    \* the versions of tinc that are considered: [numbers, suffix]
    Data,        \* the fetched configurations that are considered, as lines
    SlashAlways, \* tincd writes the mask of a single address into $SUBNET too
    MaxEvents    \* bound: nodes that become reachable or unreachable

ASSUME NetConfigAssumption == MaxEvents \in Nat /\ SlashAlways \in BOOLEAN

NoVersion == <<>>                                   \* tincd_version is NULL
V1_0_12 == <<49, 46, 48, 46, 49, 50>>               \* "1.0.12"
V1_0_16 == <<49, 46, 48, 46, 49, 54>>               \* "1.0.16"
V1_1    == <<49, 46, 49>>                           \* "1.1"

Empty     == "empty"             \* an empty string, a NULL pointer
NoAddress == [form |-> "none"]   \* the same where a text with an address could be

StringFields == {"gatewayhost", "owner", "cipher", "compression", "digest",
                 "ed25519publickey"}
FlagFields   == {"use_tcp_only", "hidden", "silent", "indirectdata", "primary"}
ListFields   == [network |-> "INET", network6 |-> "INET6",
                 route_network |-> "INET", route_network6 |-> "INET6"]
Networks     == [INET |-> "network", INET6 |-> "network6"]

DefaultPort == 655
PortModulus == 65536    \* values of an unsigned short
TooLarge    == -1       \* a number for which strtoul returns ULONG_MAX

VARIABLES
    config,          \* struct config after config_init
    data, pos,       \* the fetched lines; the next one to parse
    peers,           \* config->peer_config; my_config is the last one, if any
    parse_key_mode,
    my_peer,         \* config->my_peer, as an index of peers; 0 is NULL
    pc,
    tincconf, hosts, up, down, subnetup, subnetdown,   \* the files
    routes,          \* routes of the machine into the VPN
    reachable,       \* nodes tincd can reach
    events

fileVars  == <<tincconf, hosts, up, down, subnetup, subnetdown>>
parseVars == <<pos, peers, parse_key_mode>>
tincVars  == <<routes, reachable, events>>
vars == <<config, data, pos, peers, parse_key_mode, my_peer, pc, tincconf, hosts, up, down,
          subnetup, subnetdown, routes, reachable, events>>

NoFile == [written |-> FALSE]

-----------------------------------------------------------------------------
(* config_init.                                                              *)

\* What the first k texts of a list leave.
parse_and_free_raw_subnetlist(raw) ==
    LET parsed[k \in 0 .. Len(raw)] ==
            IF k = 0 THEN <<>>
            ELSE IF addrmask_parse(raw[k]) = Invalid THEN parsed[k - 1]
            ELSE Append(parsed[k - 1], addrmask_parse(raw[k]))
    IN  parsed[Len(raw)]

SubnetLists == {"mergeroutes_supernet", "ignore_subnets", "whitelist_subnets"}

\* The settings that are lists of subnets are lists of texts.
ASSUME SettingsAssumption ==
    \A raw \in Settings : SubnetLists \subseteq DOMAIN raw /\ \A f \in SubnetLists : raw[f] \in Seq(Texts)

\* The lists of chaosvpn.conf are parsed; what cannot be parsed is left out.
Configured(raw) ==
    [raw EXCEPT
        !.mergeroutes_supernet = parse_and_free_raw_subnetlist(@),
        !.ignore_subnets       = parse_and_free_raw_subnetlist(@),
        !.whitelist_subnets    = parse_and_free_raw_subnetlist(@)]

\* config_init's checks: the required settings, and the ones that exclude each other.
config_init(c) ==
    /\ c.vpn_ip # NoAddress /\ addrmask_verify_ip(c.vpn_ip, "INET")
    /\ c.vpn_ip6 # NoAddress => addrmask_verify_ip(c.vpn_ip6, "INET6")
    /\ c.routeadd # Empty
    /\ c.use_dynamic_routes => c.routedel # Empty
    /\ c.vpn_ip6 # NoAddress => /\ c.routeadd6 # Empty
                                /\ c.use_dynamic_routes => c.routedel6 # Empty
    /\ c.use_dynamic_routes => /\ c.mergeroutes_supernet = <<>>
                               /\ c.ignore_subnets = <<>>
                               /\ c.whitelist_subnets = <<>>

Init ==
    /\ config \in {c \in {Configured(raw) : raw \in Settings} : config_init(c)}
    /\ data \in Data /\ pos = 1
    /\ peers = <<>> /\ parse_key_mode = FALSE /\ my_peer = 0 /\ pc = "parse"
    /\ tincconf = NoFile /\ hosts = <<>> /\ up = {} /\ down = {}
    /\ subnetup = NoFile /\ subnetdown = NoFile
    /\ routes = {} /\ reachable = {} /\ events = 0

-----------------------------------------------------------------------------
(* parser_parse_config and parser_parse_line.                                *)

\* The kinds of lines that parser_parse_line tells apart, and what it finds in them.
LineKinds ==
    {"header", "comment", "pingtest", "string", "flag", "list", "port", "begin", "end", "other"}

IsLine(l) ==
    /\ l.kind \in LineKinds
    /\ l.kind = "string" => l.field \in StringFields
    /\ l.kind = "flag" => l.field \in FlagFields
    /\ l.kind = "list" => l.field \in DOMAIN ListFields /\ l.value \in Texts
    /\ l.kind = "port" => l.value \in Nat \cup {TooLarge}

\* What is fetched is a sequence of such lines.
ASSUME DataAssumption == \A d \in Data : d \in Seq(Range(d)) /\ \A l \in Range(d) : IsLine(l)

PeerFields == {"name", "port", "key"} \cup StringFields \cup FlagFields \cup DOMAIN ListFields

parser_create_config(name) ==
    [f \in PeerFields |-> CASE f = "name" -> name
                            [] f = "port" -> DefaultPort
                            [] f \in StringFields -> Empty
                            [] f \in FlagFields -> FALSE
                            [] OTHER -> <<>>]

str_is_true(item) == item = "yes"

\* The next line is of one of these kinds; parsing goes on behind it.
Line(kinds) ==
    /\ pc = "parse" /\ pos <= Len(data) /\ data[pos].kind \in kinds
    /\ pos' = pos + 1
    /\ UNCHANGED <<config, data, my_peer, pc, fileVars, tincVars>>

Assign(field, value) ==
    peers' = [peers EXCEPT ![Len(peers)][field] = value]

parser_extend_key(text) == Assign("key", Append(Last(peers).key, text))

\* Mutant: a key without END line goes on in the next section.
ParseHeader_KeepsKeyMode ==
    /\ Line({"header"})
    /\ peers' = Append(peers, parser_create_config(data[pos].name))
    /\ UNCHANGED parse_key_mode

\* [name]: parser_create_config, and no key of the section before goes on.
ParseHeader ==
    /\ Line({"header"})
    /\ peers' = Append(peers, parser_create_config(data[pos].name))
    /\ parse_key_mode' = FALSE

\* Comments, pingtest=, and everything in front of the first header.
ParseSkipped ==
    /\ Line({"comment", "pingtest", "string", "flag", "list", "port", "begin", "end", "other"})
    /\ data[pos].kind \in {"comment", "pingtest"} \/ peers = <<>>
    /\ UNCHANGED <<peers, parse_key_mode>>

ParseString ==
    /\ Line({"string"}) /\ peers # <<>>
    /\ Assign(data[pos].field, data[pos].value)
    /\ UNCHANGED parse_key_mode

ParseFlag ==
    /\ Line({"flag"}) /\ peers # <<>>
    /\ Assign(data[pos].field, str_is_true(data[pos].value))
    /\ UNCHANGED parse_key_mode

ParseList ==
    /\ Line({"list"}) /\ peers # <<>>
    /\ LET field == data[pos].field
           text  == data[pos].value
       IN  IF addrmask_verify_subnet(text, ListFields[field])
           THEN Assign(field, Append(Last(peers)[field], text))
           ELSE UNCHANGED peers
    /\ UNCHANGED parse_key_mode

\* The number is cut to an unsigned short.
ParsePort ==
    /\ Line({"port"}) /\ peers # <<>>
    /\ IF data[pos].value # TooLarge
       THEN Assign("port", data[pos].value % PortModulus)
       ELSE UNCHANGED peers
    /\ UNCHANGED parse_key_mode

ParseBegin ==
    /\ Line({"begin"}) /\ peers # <<>>
    /\ Assign("key", <<"begin">>)
    /\ parse_key_mode' = TRUE

ParseEnd ==
    /\ Line({"end"}) /\ peers # <<>>
    /\ parser_extend_key("end")
    /\ parse_key_mode' = FALSE

\* Any other line: part of a key, or unknown and ignored with a warning.
ParseOther ==
    /\ Line({"other"}) /\ peers # <<>>
    /\ IF parse_key_mode THEN parser_extend_key(data[pos].value) ELSE UNCHANGED peers
    /\ UNCHANGED parse_key_mode

\* main_parse_config looks for the own entry; the last one of that name is kept.
FindMyPeer ==
    /\ pc = "parse" /\ pos > Len(data)
    /\ LET own == {k \in DOMAIN peers : peers[k].name = config.peerid}
       IN  /\ my_peer' = IF own = {} THEN 0 ELSE Max(own)
           /\ pc' = IF own = {} THEN "failed" ELSE "tinc.conf"
    /\ UNCHANGED <<config, data, parseVars, fileVars, tincVars>>

-----------------------------------------------------------------------------
(* The files.                                                                *)

Write(file, next) ==
    /\ pc = file /\ pc' = next
    /\ UNCHANGED <<config, data, parseVars, my_peer, tincVars>>

After(version) ==
    config.tincd_version # NoVersion /\ strnatcmp(config.tincd_version, version) > 0

strcasecmp(n, m) == n.letters = m.letters /\ n.slashes = m.slashes

tinc_check_if_excluded(name) == \E n \in config.exclude : strcasecmp(n, name)

HasAddress(peer) == peer.gatewayhost # Empty /\ ~ peer.hidden

\* Mutant: connects to hidden nodes too.
tinc_write_config_Hidden ==
    /\ Write("tinc.conf", "hosts")
    /\ tincconf' =
          [written |-> TRUE, StrictSubnets |-> After(V1_0_12), BroadcastNo |-> After(V1_0_16),
           ConnectTo |-> {p.name : p \in {q \in Range(peers) :
                  /\ ~ peers[my_peer].silent /\ q.name # config.peerid
                  /\ ~ tinc_check_if_excluded(q.name)
                  /\ ~ (/\ config.connect_only_to_primary_nodes
                        /\ After(V1_0_12) /\ ~ q.primary)
                  /\ q.gatewayhost # Empty}}]
    /\ UNCHANGED <<hosts, up, down, subnetup, subnetdown>>

tinc_write_config ==
    /\ Write("tinc.conf", "hosts")
    /\ tincconf' =
          [written       |-> TRUE,
           StrictSubnets |-> After(V1_0_12),
           BroadcastNo   |-> After(V1_0_16),
           ConnectTo     |->
              {p.name : p \in {q \in Range(peers) :
                  /\ ~ peers[my_peer].silent
                  /\ q.name # config.peerid
                  /\ ~ tinc_check_if_excluded(q.name)
                  /\ ~ (/\ config.connect_only_to_primary_nodes
                        /\ After(V1_0_12) /\ ~ q.primary)
                  /\ HasAddress(q)}}]
    /\ UNCHANGED <<hosts, up, down, subnetup, subnetdown>>

tinc_generate_peer_config(peer) ==
    [Address |-> IF HasAddress(peer) THEN peer.gatewayhost ELSE Empty,
     Subnet  |-> peer.network \o peer.network6,
     Port    |-> peer.port,
     key     |-> peer.key,
     Ed25519PublicKey |->
        IF strnatcmp(config.tincd_version, V1_1) <= 0 THEN Empty
        ELSE IF peer.name = config.peerid THEN config.ed25519publickey
        ELSE peer.ed25519publickey]

\* fs_writecontents_safe puts `_' for `/' in the name of a hosts file.
FileName(name) == [name EXCEPT !.slashes = {}]

\* One file per entry, in the order of the entries, so that a later entry replaces
\* the file of an earlier one with the same file name.  strnatcmp asserts that the
\* version is known.
tinc_write_hosts ==
    /\ Write("hosts", IF config.tincd_version = NoVersion THEN "aborted" ELSE "tinc-up")
    /\ hosts' = IF config.tincd_version = NoVersion THEN hosts
                ELSE [n \in {FileName(p.name) : p \in Range(peers)} |->
                        LET k == Max({j \in DOMAIN peers : FileName(peers[j].name) = n})
                        IN  tinc_generate_peer_config(peers[k])]
    /\ UNCHANGED <<tincconf, up, down, subnetup, subnetdown>>

\* There is an address for the family, and a command for its routes.
Routable(family, isup) ==
    IF family = "INET"
    THEN config.vpn_ip # NoAddress /\ (IF isup THEN config.routeadd ELSE config.routedel) # Empty
    ELSE config.vpn_ip6 # NoAddress /\ (IF isup THEN config.routeadd6 ELSE config.routedel6) # Empty

\* Mutants: a subnet counts as merged if its bits agree, whatever its size; a
\* whitelisted subnet is routed although it is ignored.
CommentedOut_AnySizeMerged(text) ==
    \/ \E net \in Range(config.mergeroutes_supernet) : BitsMatch(net, addrmask_parse(text))
    \/ addrmask_match(config.ignore_subnets, text) # 0
    \/ /\ config.whitelist_subnets # <<>>
       /\ addrmask_match(config.whitelist_subnets, text) = 0

CommentedOut_WhitelistWins(text) ==
    \/ addrmask_match(config.mergeroutes_supernet, text) # 0
    \/ IF config.whitelist_subnets # <<>>
       THEN addrmask_match(config.whitelist_subnets, text) = 0
       ELSE addrmask_match(config.ignore_subnets, text) # 0

\* The route of a subnet is written as a comment.
CommentedOut(text) ==
    \/ addrmask_match(config.mergeroutes_supernet, text) # 0
    \/ addrmask_match(config.ignore_subnets, text) # 0
    \/ /\ config.whitelist_subnets # <<>>
       /\ addrmask_match(config.whitelist_subnets, text) = 0

\* The routes of the nodes' subnets, and of the supernets.
NodeRoutes(isup, nodes) ==
    UNION {UNION {{addrmask_parse(text) :
                      text \in {t \in Range(p[Networks[family]]) :
                                   Routable(family, isup) /\ ~ CommentedOut(t)}} :
                  family \in Families} :
           p \in {q \in Range(peers) : ~ config.use_dynamic_routes /\ q.name \in nodes}}

Supernets(isup) ==
    {addrmask_parse(addrmask_to_string(net)) :
        net \in {n \in Range(config.mergeroutes_supernet) : Routable(n.family, isup)}}

\* Mutants: routes to excluded nodes; supernets that tinc-down leaves behind.
UpDownRoutes_Excluded(isup) ==
    Supernets(isup)
    \cup NodeRoutes(isup, {p.name : p \in Range(peers)} \ {config.peerid})

UpDownRoutes_KeepsSupernets(isup) ==
    (IF isup THEN Supernets(isup) ELSE {})
    \cup NodeRoutes(isup, {p.name : p \in {q \in Range(peers) :
             q.name # config.peerid /\ ~ tinc_check_if_excluded(q.name)}})

\* The routes that the commands of tinc-up or tinc-down name.
UpDownRoutes(isup) ==
    Supernets(isup)
    \cup NodeRoutes(isup, {p.name : p \in {q \in Range(peers) :
             q.name # config.peerid /\ ~ tinc_check_if_excluded(q.name)}})

tinc_write_up ==
    /\ Write("tinc-up", "tinc-down")
    /\ up' = UpDownRoutes(TRUE)
    /\ UNCHANGED <<tincconf, hosts, down, subnetup, subnetdown>>

tinc_write_down ==
    /\ Write("tinc-down", "subnet-up")
    /\ down' = UpDownRoutes(FALSE)
    /\ UNCHANGED <<tincconf, hosts, up, subnetup, subnetdown>>

\* What the script's two patterns recognise, a family and whether there is a mask: the
\* mask may be missing behind an IPv4 address, and not behind an IPv6 address.
Recognised == {<<"INET", "masked">>, <<"INET", "plain">>, <<"INET6", "masked">>}

\* Without dynamic routes the script is removed; a script of the administrator that
\* may then take its place is not modelled.
SubnetScript(isup) ==
    IF ~ config.use_dynamic_routes THEN NoFile
    ELSE [written |-> TRUE, self |-> config.peerid, excluded |-> config.exclude,
          enabled |-> {s \in Recognised : Routable(s[1], isup)}]

tinc_write_subnetup ==
    /\ Write("subnet-up", "subnet-down")
    /\ subnetup' = SubnetScript(TRUE)
    /\ UNCHANGED <<tincconf, hosts, up, down, subnetdown>>

tinc_write_subnetdown ==
    /\ Write("subnet-down", "written")
    /\ subnetdown' = SubnetScript(FALSE)
    /\ UNCHANGED <<tincconf, hosts, up, down, subnetup>>

-----------------------------------------------------------------------------
(* tincd and the shell: external.                                            *)

tincdUnchanged == UNCHANGED <<config, data, parseVars, my_peer, fileVars>>

TincdUp ==
    /\ pc = "written" /\ pc' = "running"
    /\ routes' = routes \cup up
    /\ tincdUnchanged /\ UNCHANGED <<reachable, events>>

\* The form in which tincd hands a subnet to the script.
Spelling(r) ==
    <<r.family, IF SlashAlways \/ r.shift # BitCount(r.family) THEN "masked" ELSE "plain">>

\* The subnets that a run of the script for each subnet of a node sets or removes.
\* The shell compares the names as they are written.
ScriptRoutes(script, node) ==
    IF ~ script.written \/ node = script.self \/ node \in script.excluded THEN {}
    ELSE {r \in {addrmask_parse(t) : t \in Range(hosts[node].Subnet)} :
             Spelling(r) \in script.enabled}

NodeUp(n) ==
    /\ pc = "running" /\ events < MaxEvents
    /\ n \in DOMAIN hosts \ reachable
    /\ reachable' = reachable \cup {n} /\ events' = events + 1
    /\ routes' = routes \cup ScriptRoutes(subnetup, n)
    /\ UNCHANGED pc /\ tincdUnchanged

NodeDown(n) ==
    /\ pc = "running" /\ n \in reachable
    /\ reachable' = reachable \ {n}
    /\ routes' = routes \ ScriptRoutes(subnetdown, n)
    /\ UNCHANGED <<pc, events>> /\ tincdUnchanged

\* tincd stops once it has reported every node as unreachable.
TincdDown ==
    /\ pc = "running" /\ reachable = {} /\ pc' = "stopped"
    /\ routes' = routes \ down
    /\ tincdUnchanged /\ UNCHANGED <<reachable, events>>

Parse ==
    \/ ParseHeader \/ ParseSkipped \/ ParseString \/ ParseFlag \/ ParseList
    \/ ParsePort \/ ParseBegin \/ ParseEnd \/ ParseOther \/ FindMyPeer

WriteFiles ==
    \/ tinc_write_config \/ tinc_write_hosts \/ tinc_write_up \/ tinc_write_down
    \/ tinc_write_subnetup \/ tinc_write_subnetdown

Tincd == TincdUp \/ TincdDown \/ \E n \in DOMAIN hosts : NodeUp(n) \/ NodeDown(n)

Next == Parse \/ WriteFiles \/ Tincd

Spec == Init /\ [][Next]_vars

-----------------------------------------------------------------------------
(* Properties.                                                               *)

Locations ==
    {"parse", "failed", "tinc.conf", "hosts", "aborted", "tinc-up", "tinc-down", "subnet-up",
     "subnet-down", "written", "running", "stopped"}

TypeOK ==
    /\ pc \in Locations /\ pos \in 1 .. Len(data) + 1
    /\ parse_key_mode \in BOOLEAN /\ my_peer \in 0 .. Len(peers)
    /\ Len(peers) <= Len(data)
    /\ \A p \in Range(peers) :
          /\ \A f \in FlagFields : p[f] \in BOOLEAN
          /\ \A f \in DOMAIN ListFields : \A t \in Range(p[f]) : t.family = ListFields[f]
          /\ p.port \in 0 .. PortModulus - 1
    /\ reachable \subseteq DOMAIN hosts /\ events \in 0 .. MaxEvents

\* How many of a set of lines come up to line i; and a list holds the texts of a set
\* of lines, in their order.
Rank(lines, i) == Cardinality({j \in lines : j <= i})
Lists(list, lines, text) ==
    /\ Len(list) = Cardinality(lines)
    /\ \A i \in lines : list[Rank(lines, i)] = text[i]

\* The section headers, and the other lines of the k-th section.
Headers == {i \in DOMAIN data : data[i].kind = "header"}
Section(k) == {i \in DOMAIN data \ Headers : Rank(Headers, i) = k}

\* The lines that give a field a value, and the last value given.
Given(lines, kind, field) == {i \in lines : data[i].kind = kind /\ data[i].field = field}
LastValue(given, default) == IF given = {} THEN default ELSE data[Max(given)].value

\* Lines with a network: of the right family, written properly, with a mask that fits
\* once it is cut to an unsigned char.
Networked(given, family) ==
    {i \in given :
        LET t == data[i].value IN
        /\ t.family = family /\ t.bytes # Unparsable
        /\ t.form \in {"plain", "inner", "outer"}
        /\ t.mask # NoMask => t.mask \in Nat /\ t.mask % ShiftModulus <= BitCount(family)}

\* Lines with a port that strtoul can read.
Ports(lines) == {i \in lines : data[i].kind = "port" /\ data[i].value # TooLarge}

\* A BEGIN line that no END line follows.
OpenKey(lines) ==
    \E b \in lines : data[b].kind = "begin" /\ \A j \in lines : j > b => data[j].kind # "end"

\* The key: the last BEGIN line, the lines from there to the END line, and any
\* further END line.
KeyLines(lines) ==
    {i \in lines :
        /\ \/ data[i].kind \in {"begin", "end"}
           \/ data[i].kind = "other" /\ OpenKey({j \in lines : j < i})
        /\ \A j \in lines : j > i => data[j].kind # "begin"}

\* An entry has what these lines say, and nothing else.
EntryFrom(p, lines) ==
    /\ Lists(p.key, KeyLines(lines),
             [i \in KeyLines(lines) |->
                 IF data[i].kind = "other" THEN data[i].value ELSE data[i].kind])
    /\ \A f \in StringFields : p[f] = LastValue(Given(lines, "string", f), Empty)
    /\ \A f \in FlagFields : p[f] <=> LastValue(Given(lines, "flag", f), "no") = "yes"
    /\ \A f \in DOMAIN ListFields :
          LET networks == Networked(Given(lines, "list", f), ListFields[f])
          IN  Lists(p[f], networks, [i \in networks |-> data[i].value])
    /\ p.port = LastValue(Ports(lines), DefaultPort) % PortModulus

\* Every entry is made from the lines of its own section and from nothing else: no
\* key goes on into the next section when its END line is missing, no setting is
\* inherited, and a network of the wrong family or with a bad mask is left out
\* (parser_parse_line).
EntriesFromOwnSection ==
    pc # "parse" =>
        /\ Len(peers) = Cardinality(Headers)
        /\ \A h \in Headers : peers[Rank(Headers, h)].name = data[h].name
        /\ \A k \in DOMAIN peers : EntryFrom(peers[k], Section(k))

\* Every section has a hosts file for itself, and under its own name.
UniqueNames == \A j, k \in DOMAIN peers : FileName(peers[j].name) = peers[k].name <=> j = k

Written == pc \in {"written", "running", "stopped"}

\* The nodes this one exchanges packets with.
Remote == {n \in DOMAIN hosts : n # config.peerid /\ ~ tinc_check_if_excluded(n)}

\* A node that tinc.conf tells tincd to connect to is another one, is not excluded,
\* and its hosts file says at which address (tinc_write_config and
\* tinc_generate_peer_config, which decide about it separately).
ConnectToHasAddress ==
    Written /\ UniqueNames =>
        \A n \in tincconf.ConnectTo : n \in Remote /\ hosts[n].Address # Empty

\* A version of tinc as it is written, with numbers below 100.
VersionText(v) ==
    LET digits(n) == IF n < 10 THEN <<Zero + n>> ELSE <<Zero + n \div 10, Zero + (n % 10)>>
    IN  FlattenSeq([i \in DOMAIN v.numbers |->
                       IF i = 1 THEN digits(v.numbers[i]) ELSE <<46>> \o digits(v.numbers[i])])
        \o v.suffix

\* It comes after the release with these numbers: the first difference counts, and
\* more numbers or a suffix come after fewer or none.
Newer(v, numbers) ==
    \/ \E k \in DOMAIN v.numbers :
          /\ \A j \in 1 .. k - 1 : j <= Len(numbers) /\ v.numbers[j] = numbers[j]
          /\ k > Len(numbers) \/ v.numbers[k] > numbers[k]
    \/ v.numbers = numbers /\ v.suffix # <<>>

\* An option is written exactly for the versions of tinc that came after the release
\* the code names, by their numbers and not by their characters: StrictSubnets and
\* Broadcast in tinc.conf, this node's Ed25519 key in its hosts file, provided that
\* tincd finds that file and no other node's file has taken its place.
OptionsMatchVersion ==
    Written => \A v \in Versions : config.tincd_version = VersionText(v) =>
        /\ tincconf.StrictSubnets <=> Newer(v, <<1, 0, 12>>)
        /\ tincconf.BroadcastNo <=> Newer(v, <<1, 0, 16>>)
        /\ (\A p \in Range(peers) : FileName(p.name) = config.peerid <=> p.name = config.peerid)
           => (hosts[config.peerid].Ed25519PublicKey # Empty <=> Newer(v, <<1, 1>>))

Covered(r) ==
    \A a \in AddressesOf(r.family, r.net, r.shift) :
        \E q \in routes : q.family = r.family /\ SamePrefix(a, q.net, q.shift)

\* Two nodes announce the same subnet.
SharedSubnet ==
    \E n, m \in DOMAIN hosts : n # m /\
        {addrmask_parse(t) : t \in Range(hosts[n].Subnet)}
            \cap {addrmask_parse(t) : t \in Range(hosts[m].Subnet)} # {}

\* While tincd runs, every address of every subnet of every other node has a route,
\* also where a route was left out because a supernet covers it; with
\* $use_dynamic_routes this is so for the nodes that are reachable, provided that no
\* two nodes announce the same subnet, and for the subnets that tincd hands over in a
\* form the script recognises (tinc_write_updown, tinc_write_subnetupdown,
\* addrmask_match).
RoutesComplete ==
    /\ pc = "running" /\ UniqueNames
    /\ config.ignore_subnets = <<>> /\ config.whitelist_subnets = <<>>
    /\ ~ (config.use_dynamic_routes /\ SharedSubnet)
    => \A n \in Remote \cap (IF config.use_dynamic_routes THEN reachable ELSE DOMAIN hosts) :
          \A t \in Range(hosts[n].Subnet) :
              /\ Routable(t.family, TRUE)
              /\ config.use_dynamic_routes => Spelling(addrmask_parse(t)) \in Recognised
              => Covered(addrmask_parse(t))

\* While tincd runs, every route is a configured supernet or leads to a subnet of
\* another node, one that is not excluded.  With $use_dynamic_routes only the exact
\* spelling of an excluded name counts.
RoutesOwned ==
    pc = "running" /\ UniqueNames =>
        \A r \in routes :
            \/ \E s \in Range(config.mergeroutes_supernet) : r = addrmask_parse(addrmask_to_string(s))
            \/ \E n \in IF config.use_dynamic_routes
                        THEN reachable \ (config.exclude \cup {config.peerid})
                        ELSE Remote :
                  r \in {addrmask_parse(t) : t \in Range(hosts[n].Subnet)}

\* No entry of a list lies within another one.
Disjoint(list) ==
    \A j, k \in DOMAIN list : ContainedIn(list[j], list[k]) => j = k

\* The administrator's @whitelist_subnets and @ignore_subnets hold: the route to a
\* subnet of a node lies within a whitelisted subnet, and does not lie within an
\* ignored one as long as the ignored ones do not overlap (addrmask_match gives up at
\* the first entry whose bits agree).
FiltersHold ==
    pc = "running" =>
        \A r \in routes \ Range(config.mergeroutes_supernet) :
            /\ config.whitelist_subnets # <<>> =>
                  \E w \in Range(config.whitelist_subnets) : ContainedIn(r, w)
            /\ Disjoint(config.ignore_subnets) =>
                  ~ \E i \in Range(config.ignore_subnets) : ContainedIn(r, i)

\* When tincd has stopped there is no route left of a family for which a command to
\* remove routes is configured (tinc_write_updown and tinc_write_subnetupdown write
\* the script that adds and the one that removes separately).
NoRouteLeft ==
    pc = "stopped" => \A r \in routes : ~ Routable(r.family, FALSE)

=============================================================================
