-------------------------- MODULE FilterFunctions --------------------------
(***************************************************************************)
(* The firewall, the ARP responder and the layer 3 switch: functions whose *)
(* verdict depends on a table that is filled before the first packet.  A   *)
(* prefix table keeps one value per prefix; an address has Width bits.     *)
(***************************************************************************)
EXTENDS NfApp, Sequences, FiniteSets

CONSTANTS Functions, Packets,  \* packets: [kind, src, dst, op, port, key]
          Argvs,
          Width,               \* bits of an address
          Byte,                \* values of an 8 bit number
          RuleFiles,           \* of the firewall: sequences of [ip, depth, action]
          NoAddress,           \* an address that does not parse
          AddressLists,        \* of the ARP responder
          NumPorts,            \* ports of the host: 0 .. NumPorts - 1
          Routes,              \* ipv4_l3fwd_lpm_route_array: [ip, depth, if_out]
          FewFlows,            \* ipv4_l3fwd_em_route_array: [key, if_out], a key being
                               \* the class of a flow and its destination
          HashEntries,         \* L3FWD_HASH_ENTRIES: places of the exact match table
          MaxPkts

VARIABLES fn, app, tbl, st, hist

vars == <<fn, app, tbl, st, hist>>

Ports == 0 .. NumPorts - 1
Addresses == 0 .. 2 ^ Width - 1
NoStats == [drop |-> 0, accept |-> 0, not_ipv4 |-> 0, total |-> 0, port |-> [p \in Ports |-> 0], replies |-> <<>>]

Init ==
    /\ fn \in Functions
    /\ app = Off /\ tbl = <<>> /\ st = NoStats /\ hist = <<>>
-----------------------------------------------------------------------------
(* The prefix table of DPDK.                                               *)

Prefix(ip, depth) == <<ip \div 2 ^ (Width - depth), depth>>
rte_lpm_add(t, r) == (Prefix(r.ip, r.depth) :> r.value) @@ t
ValidDepth(d) == d \in 1 .. Width

\* The prefixes of an address that are there, and the value of the longest
Hits(t, ip) == {d \in 1 .. Width : Prefix(ip, d) \in DOMAIN t}
rte_lpm_lookup(t, ip) == t[Prefix(ip, CHOOSE d \in Hits(t, ip) : \A e \in Hits(t, ip) : e <= d)]
-----------------------------------------------------------------------------
Start(f, app2, t) ==
    /\ fn = f /\ app = Off
    /\ app' = app2 /\ tbl' = t
    /\ UNCHANGED <<fn, st, hist>>

Opts(d) == [o \in DOMAIN d |-> Nat]
FwOptions == ("d" :> 0) @@ ("p" :> 10000000) @@ ("f" :> 0) @@ ("b" :> 0)
firewall_parse_app_args(argv) == Parses(argv, FwOptions, {"d", "f"}, Opts(FwOptions))

\* Depth and action are cut to 8 bits; the address of a text that is none is whatever
\* the memory held
setup_rules(file, junk) ==
    [i \in DOMAIN file |-> [ip |-> IF file[i].ip = NoAddress THEN junk ELSE file[i].ip,
                            depth |-> file[i].depth % Byte, value |-> file[i].action % Byte]]

\* Mutant: a rule that is refused is skipped
SkipsBad(rules, t) ==
    LET RECURSIVE Add(_, _)
        Add(i, u) == IF i > Len(rules) THEN u ELSE Add(i + 1, IF ValidDepth(rules[i].depth) THEN rte_lpm_add(u, rules[i]) ELSE u)
    IN  Add(1, t)

\* The first rule that the table refuses ends the set-up, and the function runs without the rest
lpm_setup(rules, t) ==
    LET RECURSIVE Add(_, _)
        Add(i, u) == IF i > Len(rules) \/ ~ValidDepth(rules[i].depth) THEN u ELSE Add(i + 1, rte_lpm_add(u, rules[i]))
    IN  Add(1, t)

\* A file that is missing or lacks a field ends the function
firewall_main(argv, ok, readable, file, junk) ==
    Start("firewall", Main(argv, ok, firewall_parse_app_args(argv) /\ readable, FwOptions),
          [lpm |-> lpm_setup(setup_rules(file, junk), <<>>), rules |-> setup_rules(file, junk)])

ArpOptions == ("d" :> 0) @@ ("s" :> 0) @@ ("p" :> 0)

\* Of the list of addresses only eight characters are counted, which hold one address
get_ip_count(ips) == IF ips = <<>> THEN 0 ELSE 1

arp_parse_app_args(argv, ips) ==
    /\ Parses(argv, ArpOptions, {"d", "s"}, Opts(ArpOptions))
    /\ get_ip_count(ips) <= NumPorts
    /\ \A i \in DOMAIN ips : ips[i] # NoAddress

\* Ports that are given no address have address zero; addresses beyond the last port lie
\* outside the array
arp_main(argv, ok, ips) ==
    Start("arp", Main(argv, ok, arp_parse_app_args(argv, ips), ArpOptions),
          [source_ips |-> [p \in Ports |-> IF p + 1 <= Len(ips) THEN ips[p + 1] ELSE 0], outside |-> Len(ips) > NumPorts])

L3Options == ("p" :> 1000000) @@ ("h" :> 4) @@ ("e" :> 0)
l3fwd_parse_app_args(argv) == Parses(argv, L3Options, {}, Opts(L3Options))

get_initialized_ports(if_out) == if_out \in Ports

\* Routes to ports the host does not have are left out
setup_lpm ==
    LET used == SelectSeq(Routes, LAMBDA r : get_initialized_ports(r.if_out))
    IN  lpm_setup([i \in DOMAIN used |-> [ip |-> used[i].ip, depth |-> used[i].depth, value |-> used[i].if_out]], <<>>)

\* The flows of the array, or n of them with the destination counted up
populate_ipv4_few_flow_into_table ==
    [k \in {FewFlows[i].key : i \in DOMAIN FewFlows} |-> FewFlows[CHOOSE i \in DOMAIN FewFlows : FewFlows[i].key = k].if_out]

Counting(i) == FewFlows[(i % Len(FewFlows)) + 1]
populate_ipv4_many_flow_into_table(n) ==
    [k \in {<<Counting(i).key[1], i \div Len(FewFlows)>> : i \in 0 .. n - 1} |->
        FewFlows[CHOOSE i \in DOMAIN FewFlows : FewFlows[i].key[1] = k[1]].if_out]

setup_hash(n) == IF n # L3Options["h"] THEN populate_ipv4_many_flow_into_table(n) ELSE populate_ipv4_few_flow_into_table

\* One flow more than the table holds ends the function
nf_setup(a) ==
    IF ~Runs(a) \/ (a.arg["e"] = 1 /\ Cardinality(DOMAIN setup_hash(a.arg["h"])) > HashEntries) THEN [app |-> Gone, tbl |-> <<>>]
    ELSE [app |-> a, tbl |-> IF a.arg["e"] = 0 THEN [lpm |-> setup_lpm, em |-> <<>>] ELSE [lpm |-> <<>>, em |-> setup_hash(a.arg["h"])]]

l3fwd_main(argv, ok) ==
    LET s == nf_setup(Main(argv, ok, l3fwd_parse_app_args(argv) /\ NumPorts > 0, L3Options))
    IN  Start("l3fwd", s.app, s.tbl)
-----------------------------------------------------------------------------
Did(p, act, dest) == hist' = Append(hist, [p |-> p, act |-> act, dest |-> dest])
Handles(f) == fn = f /\ Runs(app) /\ Len(hist) < MaxPkts

\* Sources without rule and rules other than zero drop
firewall_packet_handler(p) ==
    LET seen == [st EXCEPT !.total = @ + 1]
        pass == Hits(tbl.lpm, p.src) # {} /\ rte_lpm_lookup(tbl.lpm, p.src) = 0
    IN  /\ Handles("firewall")
        /\ app' = Counted(app)
        /\ \/ p.kind # "ipv4" /\ st' = [seen EXCEPT !.not_ipv4 = @ + 1] /\ Did(p, "drop", 0)
           \/ p.kind = "ipv4" /\ pass /\ st' = [seen EXCEPT !.accept = @ + 1] /\ Did(p, "tonf", app.arg["d"])
           \/ p.kind = "ipv4" /\ ~pass /\ st' = [seen EXCEPT !.drop = @ + 1] /\ Did(p, "drop", 0)
        /\ UNCHANGED <<fn, tbl>>

\* A reply needs a buffer and room in the ring
send_arp_reply(p) ==
    \E sent \in BOOLEAN :
        st' = IF sent THEN [st EXCEPT !.replies = Append(@, [port |-> p.port, sip |-> tbl.source_ips[p.port], tip |-> p.src])] ELSE st

\* Requests for the address of the port are answered and dropped, replied to or not
arp_packet_handler(p) ==
    LET mine == p.kind = "arp" /\ p.op = "request" /\ p.dst = tbl.source_ips[p.port]
    IN  /\ Handles("arp")
        /\ IF mine THEN send_arp_reply(p) /\ Did(p, "drop", 0) ELSE Did(p, "tonf", app.arg["d"]) /\ UNCHANGED st
        /\ UNCHANGED <<fn, app, tbl>>

lpm_get_ipv4_dst_port(p) == IF Hits(tbl.lpm, p.dst) = {} THEN p.port ELSE rte_lpm_lookup(tbl.lpm, p.dst)
em_get_ipv4_dst_port(p) == IF p.key \in DOMAIN tbl.em THEN tbl.em[p.key] ELSE 1

\* Mutant: a port the host does not have is used
AnyPort(p, d) == d

ValidPort(p, d) == IF get_initialized_ports(d) THEN d ELSE p.port

\* The counter is compared before it is counted up
l3fwd_packet_handler(p) ==
    LET d == ValidPort(p, IF app.arg["e"] = 0 THEN lpm_get_ipv4_dst_port(p) ELSE em_get_ipv4_dst_port(p))
    IN  /\ Handles("l3fwd")
        /\ app' = IF app.counter = app.arg["p"] THEN Display(app) ELSE [app EXCEPT !.counter = @ + 1]
        /\ IF p.kind = "ipv4"
           THEN /\ st' = [st EXCEPT !.port = [q \in Ports \union {d} |-> (IF q \in Ports THEN st.port[q] ELSE 0) + (IF q = d THEN 1 ELSE 0)]]
                /\ Did(p, "out", d)
           ELSE st' = [st EXCEPT !.drop = @ + 1] /\ Did(p, "drop", 0)
        /\ UNCHANGED <<fn, tbl>>

Next ==
    \/ \E argv \in Argvs[fn], ok \in BOOLEAN :
          \/ \E file \in RuleFiles, junk \in Addresses, readable \in BOOLEAN : firewall_main(argv, ok, readable, file, junk)
          \/ \E ips \in AddressLists : arp_main(argv, ok, ips)
          \/ l3fwd_main(argv, ok)
    \/ \E p \in Packets[fn] : firewall_packet_handler(p) \/ arp_packet_handler(p) \/ l3fwd_packet_handler(p)

Spec == Init /\ [][Next]_vars
-----------------------------------------------------------------------------
Running(f) == fn = f /\ Runs(app)
Last == hist[Len(hist)]

\* The rules that count are those before the first of bad depth.  The longest that covers the
\* source decides, of equal ones the last, and a packet passes only if that one has action zero
LongestRuleDecides ==
    Running("firewall") /\ hist # <<>> /\ Last.p.kind = "ipv4" =>
        LET rules == tbl.rules
            loaded == {i \in DOMAIN rules : \A j \in 1 .. i : ValidDepth(rules[j].depth)}
            cover == {i \in loaded : Last.p.src \div 2 ^ (Width - rules[i].depth) = rules[i].ip \div 2 ^ (Width - rules[i].depth)}
            best == {i \in cover : \A j \in cover : rules[j].depth < rules[i].depth \/ (rules[j].depth = rules[i].depth /\ j <= i)}
        IN  (Last.act = "tonf") = (\E i \in best : rules[i].value = 0)

\* The statistics of the firewall and of the switch say what happened to all packets
StatisticsAddUp ==
    /\ Running("firewall") => /\ st.total = Len(hist) /\ st.total = st.drop + st.accept + st.not_ipv4
                              /\ st.accept = Cardinality({i \in DOMAIN hist : hist[i].act = "tonf"})
    /\ Running("l3fwd") => \A q \in Ports : st.port[q] = Cardinality({i \in DOMAIN hist : hist[i].act = "out" /\ hist[i].dest = q})

\* A reply is one to a request for the address of the port it came in, which goes no further;
\* no other packet is kept from the next function
RequestsAreAnsweredOnce ==
    Running("arp") =>
        LET taken == {i \in DOMAIN hist : hist[i].act = "drop"}
        IN  /\ Len(st.replies) <= Cardinality(taken)
            /\ \A i \in taken : hist[i].p.op = "request" /\ hist[i].p.dst = tbl.source_ips[hist[i].p.port]
            /\ \A r \in DOMAIN st.replies : \E i \in taken :
                   st.replies[r] = [port |-> hist[i].p.port, sip |-> hist[i].p.dst, tip |-> hist[i].p.src]

\* The switch sends out of ports of the host only: that of the longest route, or of the flow
\* the table was filled with, and back where the packet came from when there is no such port.
\* A flow the exact match table was not filled with goes to port one
SwitchedToItsPort ==
    Running("l3fwd") /\ hist # <<>> /\ Last.act = "out" =>
        LET p == Last.p
            routes == {i \in DOMAIN Routes : p.dst \div 2 ^ (Width - Routes[i].depth) = Routes[i].ip \div 2 ^ (Width - Routes[i].depth)
                                             /\ Routes[i].if_out \in Ports}
            long == {i \in routes : \A j \in routes : Routes[j].depth <= Routes[i].depth}
            flows == {i \in DOMAIN FewFlows : IF app.arg["h"] = 4 THEN FewFlows[i].key = p.key
                                              ELSE FewFlows[i].key[1] = p.key[1] /\ p.key[2] * Len(FewFlows) + i <= app.arg["h"]}
            want == IF app.arg["e"] = 0 THEN {Routes[i].if_out : i \in long}
                    ELSE IF flows = {} THEN {1} ELSE {FewFlows[i].if_out : i \in flows}
        IN  Last.dest \in (IF want \intersect Ports = {} THEN {p.port} ELSE want)
=============================================================================
