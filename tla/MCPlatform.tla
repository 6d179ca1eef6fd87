----------------------------- MODULE MCPlatform -----------------------------
(***************************************************************************)
(* The parts of the OpenNetVM platform, of its example functions and of    *)
(* the control plane (nodes, rules, session tables, message coding and     *)
(* buffers), each on a small instance.  A behaviour is one of one part,    *)
(* chosen at the start, whose variables take the places v1, v2, ... in the *)
(* order of its module; the places it does not need hold 0.                *)
(***************************************************************************)
EXTENDS Integers, Sequences, FiniteSets, TLC

CONSTANTS p1, p2, p3      \* processes

VARIABLES part, v1, v2, v3, v4, v5, v6, v7, v8, v9, v10, v11, v12, v13, v14

vars == <<part, v1, v2, v3, v4, v5, v6, v7, v8, v9, v10, v11, v12, v13, v14>>

\* A NF that shares its core, and one that asks for an id and a core of its own.
Life == INSTANCE NfLife WITH
    Procs <- {p1, p2, p3}, MaxNfs <- 3, Services <- {1}, PerService <- 2, Cores <- {0, 1},
    QueueSize <- 3, MaxStarts <- 3,
    Requests <- {[id |-> -1, service |-> 1, manual |-> FALSE, share |-> TRUE, core |-> 0],
                 [id |-> 1, service |-> 1, manual |-> TRUE, share |-> FALSE, core |-> 1]},
    nfs <- v1, services <- v2, nf_per_service_count <- v3, num_nfs <- v4,
    next_instance_id <- v5, cores <- v6, rings <- v7, incoming_msg_queue <- v8, batch <- v9,
    mgr <- v10, stops <- v11, proc <- v12, starts <- v13, full <- v14

\* Two NFs of a service and two ports, one of which is down.
Fwd == INSTANCE NfForward WITH
    Nfs <- {1, 2}, Ports <- {1, 2}, Live <- {1}, ReadSize <- 2, RingSize <- 2, MaxPkts <- 3,
    MaxChanges <- 3,
    row <- v1, rx_q <- v2, tx_q <- v3, work <- v4, meta <- v5, nf_rx_bufs <- v6,
    to_tx_buf <- v7, port_tx_bufs <- v8, wire <- v9, freed <- v10, leaked <- v11,
    arrived <- v12, changes <- v13

\* A rule under seven messages: two that create it, and changes of each IE.
Pdr == INSTANCE PdrRules WITH
    Messages <- {
        ("sourceInterface" :> 1) @@ ("sdf" :> <<"from", "net1", "to", "assigned">>) @@ ("farId" :> 1)
            @@ ("qerId" :> <<1, 2>>) @@ ("ueIp" :> [flags |-> {"v4"}, v4 |-> 1, v6 |-> 0]),
        ("sourceInterface" :> 0) @@ ("fTeid" :> [flags |-> {"v4"}, teid |-> 1, v4 |-> 1, v6 |-> 0])
            @@ ("sdf" :> <<"from", "net1">>) @@ ("farId" :> 1),
        ("sdf" :> <<"from", "any", "to", "net1">>),
        ("sdf" :> <<"from", "net2", "to", "net1">>) @@ ("sourceInterface" :> 0),
        ("farId" :> 2) @@ ("qerId" :> <<2, 0>>), ("farId" :> 1) @@ ("qerId" :> <<1, 0>>),
        ("fTeid" :> [flags |-> {"v6"}, teid |-> 2, v4 |-> 0, v6 |-> 1])
            @@ ("ueIp" :> [flags |-> {"v4", "v6"}, v4 |-> 2, v6 |-> 1])},
    Fars <- {1}, QerIds <- 1 .. 2, MaxQers <- 3, Port <- (0 :> 0) @@ (1 :> 1), Garbled <- {"word"},
    pdr <- v1, qers <- v2, steps <- v3, sent <- v4, failed <- v5, shortened <- v6

\* The packets each NFD function is offered: 4 and 5 are inside, 2 is outside, 3 is
\* the address of the translator.
NfdPkt == [sip |-> 4, dip |-> 2, sport |-> 1, dport |-> 1, udp |-> FALSE, syn |-> FALSE, fin |-> FALSE, ack |-> FALSE]
NfdSyn == {[NfdPkt EXCEPT !.syn = TRUE], [NfdPkt EXCEPT !.syn = TRUE, !.sip = 2], NfdPkt}
Nfd == INSTANCE NfdFunctions WITH
    Packets <- ("HHD" :> NfdSyn)
            @@ ("SSD" :> {[NfdPkt EXCEPT !.syn = TRUE], [NfdPkt EXCEPT !.fin = TRUE], [NfdPkt EXCEPT !.ack = TRUE]})
            @@ ("SYNFD" :> NfdSyn \union {[NfdPkt EXCEPT !.ack = TRUE]})
            @@ ("UDPFM" :> {[NfdPkt EXCEPT !.udp = TRUE], [NfdPkt EXCEPT !.udp = TRUE, !.sip = 2], NfdPkt})
            @@ ("DNSAM" :> {[NfdPkt EXCEPT !.dport = 53], [NfdPkt EXCEPT !.sip = 2, !.dip = 4, !.sport = 53],
                            [NfdPkt EXCEPT !.sport = 53], [NfdPkt EXCEPT !.dip = 0]})
            @@ ("stateful" :> {NfdPkt, [NfdPkt EXCEPT !.sip = 2, !.dip = 4], [NfdPkt EXCEPT !.sip = 5, !.dip = 4]})
            @@ ("stateless" :> {NfdPkt, [NfdPkt EXCEPT !.sip = 2]})
            @@ ("NAPT" :> {NfdPkt, [NfdPkt EXCEPT !.sip = 5, !.sport = 2], [NfdPkt EXCEPT !.sip = 2, !.dip = 3, !.dport = 2],
                           [NfdPkt EXCEPT !.sip = 2, !.dip = 3, !.dport = 3]}),
    Addrs <- 0 .. 5, Width <- 3, Net <- [ip |-> 4, bits |-> 1], Base <- 3, Threshold <- 2, FirstPort <- 2, PortMax <- 4, MaxPkts <- 5,
    Argvs <- {("d" :> 1), ("d" :> 1) @@ ("p" :> 2), ("p" :> 2), ("d" :> -1), ("d" :> 1) @@ ("x" :> 1)},
    fn <- v1, app <- v2, st <- v3, hist <- v4

\* What the small functions are offered: the address 9 is in the configurations twice.
SimplePkt == [port |-> 0, kind |-> "ipv4", dst |-> 9, l4 |-> "udp", match |-> TRUE, len |-> 1]
Simple == INSTANCE SimpleFunctions WITH
    Functions <- {"skeleton", "bridge", "forward", "monitor", "scan", "router", "l2fwd", "tb"},
    Packets <- [f \in {"skeleton", "bridge", "forward", "monitor", "l2fwd"} |->
                  IF f = "skeleton" THEN {SimplePkt} ELSE {SimplePkt, [SimplePkt EXCEPT !.port = 1], [SimplePkt EXCEPT !.port = 2]}]
            @@ ("scan" :> {SimplePkt, [SimplePkt EXCEPT !.match = FALSE], [SimplePkt EXCEPT !.kind = "other"], [SimplePkt EXCEPT !.l4 = "other"]})
            @@ ("router" :> {SimplePkt, [SimplePkt EXCEPT !.kind = "arp", !.dst = 8], [SimplePkt EXCEPT !.kind = "other"], [SimplePkt EXCEPT !.dst = 7]})
            @@ ("tb" :> {SimplePkt, [SimplePkt EXCEPT !.len = 2], [SimplePkt EXCEPT !.len = 4]}),
    Ports <- <<0, 1, 2>>, Byte <- 4, Period <- 1, MaxPkts <- 4, MaxTime <- 3,
    Configs <- {<<>>, <<<<8, 1>>, <<9, 2>>, <<9, 3>>>>, <<<<7, 5>>, <<8, 1>>>>, <<<<9, 1>>, <<8, 1>>, <<7, 1>>, <<7, 2>>>>,
                <<<<9, 1>>, <<8, 1>>, <<7, 1>>, <<7, 2>>, <<9, 3>>>>},
    Argvs <- ("skeleton" :> {<<>>, ("p" :> 2), ("v" :> 2), ("v" :> 0)})
          @@ ("bridge" :> {("p" :> 2), ("p" :> -1), <<>>}) @@ ("forward" :> {("d" :> 1) @@ ("p" :> 2), ("p" :> 2)})
          @@ ("monitor" :> {("p" :> 2), ("x" :> 1)})
          @@ ("scan" :> {("d" :> 1) @@ ("s" :> 1) @@ ("p" :> 2), ("d" :> 1) @@ ("s" :> 1) @@ ("i" :> 1), ("d" :> 1)})
          @@ ("router" :> {("f" :> 1) @@ ("p" :> 2), ("p" :> 2)}) @@ ("l2fwd" :> {("p" :> 2), ("n" :> 1) @@ ("m" :> 1)})
          @@ ("tb" :> {("d" :> 1) @@ ("D" :> 3), ("d" :> 1) @@ ("p" :> 2), ("D" :> 2)}),
    fn <- v1, app <- v2, st <- v3, hist <- v4, now <- v5

Path == INSTANCE N4Path WITH
    Peers <- {"smf1", "smf2"}, Seids <- {1, 2}, Nodes <- {"n1", "n2"}, MaxMsgs <- 2, ListHead <- "head", Nowhere <- "nowhere",
    Messages <- {[type |-> t, seidP |-> FALSE, seid |-> 0] : t \in {"HEARTBEAT_REQUEST", "HEARTBEAT_RESPONSE", "SETUP_REQUEST", "RELEASE_REQUEST", "RELEASE_RESPONSE"}}
           \union {[type |-> t, seidP |-> TRUE, seid |-> 1] : t \in {"MODIFICATION_REQUEST", "DELETION_REQUEST", "REPORT_RESPONSE"}}
           \union {[type |-> t, seidP |-> TRUE, seid |-> 0] : t \in {"ESTABLISHMENT_REQUEST", "DELETION_REQUEST"}},
    pool <- v1, upfN4List <- v2, gnode <- v3, remoteAddr <- v4, session <- v5, log <- v6, heard <- v7, wild <- v8

Tabs == INSTANCE SessionTables WITH
    Keys <- {<<0, 0>>, <<0, 1>>, <<1, 0>>}, Slots <- {1, 2}, Workers <- {"w1", "w2"}, NoWorker <- "unset", None <- 0, Clients <- {"upf_c", "upf_u"},
    zone <- v1, mgr <- v2, view <- v3, teid_map <- v4, ueip_map <- v5, sess <- v6

Lists == INSTANCE RuleLists WITH
    Ids <- {1, 2, 5, 6}, Short <- 4, Cells <- {1, 2, 3, 4}, Null <- 0, MaxOps <- 5,
    self <- v1, heap <- v2, iterators <- v3, rules <- v4, long <- v5, ops <- v6

Fair == INSTANCE FairQueue WITH
    NumQueues <- 2, Flows <- {"a", "b", "c"}, NotIp <- "none",
    Hash <- ("a" :> 0) @@ ("b" :> 1) @@ ("c" :> 1), Size <- 2, Batch <- 2, MaxPkts <- 4, Null <- [n |-> 0, flow |-> "none"],
    fq <- v1, qid <- v2, rx <- v3, tx <- v4, arrived <- v5, out <- v6, lost <- v7, exit <- v8, passed <- v9

\* Connections of three clients; the last packet is the answer to the first.
FlowPkt == [kind |-> "ipv4", src |-> 1, dst |-> 5, sport |-> 7, dport |-> 8, proto |-> "tcp", port |-> 0, mac |-> "m1"]
FlowFn == INSTANCE FlowFunctions WITH
    Functions <- {"tracker", "lb"}, TableSize <- 2, Expire <- 1, MaxPkts <- 4, MaxTime <- 1, Ports <- {0, 1, 2},
    Configs <- {[policy |-> "RROBIN", weights |-> <<3, 0>>], [policy |-> "WEIGHTED_RANDOM", weights |-> <<1, 0, 2>>]},
    Packets <- [f \in {"tracker", "lb"} |->
                  {FlowPkt, [FlowPkt EXCEPT !.src = 2, !.mac = "m2"],
                   [FlowPkt EXCEPT !.src = 5, !.dst = 1, !.sport = 8, !.dport = 7, !.port = 1, !.mac = "s"], [FlowPkt EXCEPT !.src = 3, !.proto = "icmp"]}
                  \union (IF f = "lb" THEN {[FlowPkt EXCEPT !.port = 2, !.dst = 2]} ELSE {[FlowPkt EXCEPT !.kind = "other"]})],
    Argvs <- ("tracker" :> {("d" :> 1) @@ ("p" :> 0), <<>>})
          @@ ("lb" :> {("c" :> 1) @@ ("r" :> 0) @@ ("s" :> 1) @@ ("t" :> 1) @@ ("f" :> 1) @@ ("p" :> 2),
                       ("c" :> 1) @@ ("r" :> 7) @@ ("s" :> 1) @@ ("t" :> 1) @@ ("f" :> 1), ("f" :> 1)}),
    fn <- v1, app <- v2, cfg <- v3, ft <- v4, num_stored <- v5, elapsed <- v6, last <- v7, hist <- v8, born <- v9

FilterPkt == [kind |-> "ipv4", src |-> 1, dst |-> 1, op |-> "none", port |-> 0, key |-> <<"a", 9>>]
Filter == INSTANCE FilterFunctions WITH
    Functions <- {"firewall", "arp", "l3fwd"}, Width <- 2, Byte <- 8, NoAddress <- 99, NumPorts <- 2, MaxPkts <- 3,
    RuleFiles <- {<<[ip |-> 0, depth |-> 1, action |-> 0], [ip |-> 1, depth |-> 2, action |-> 9], [ip |-> 2, depth |-> 1, action |-> 8]>>,
                  <<[ip |-> 1, depth |-> 2, action |-> 1], [ip |-> 99, depth |-> 10, action |-> 0], [ip |-> 1, depth |-> 2, action |-> 0]>>,
                  <<[ip |-> 1, depth |-> 2, action |-> 0], [ip |-> 0, depth |-> 0, action |-> 0], [ip |-> 2, depth |-> 1, action |-> 0]>>},
    AddressLists <- {<<1>>, <<1, 2>>, <<1, 2, 3>>, <<1, 99>>, <<>>},
    Routes <- <<[ip |-> 0, depth |-> 2, if_out |-> 0], [ip |-> 1, depth |-> 2, if_out |-> 1], [ip |-> 2, depth |-> 2, if_out |-> 2]>>,
    FewFlows <- <<[key |-> <<"a", 9>>, if_out |-> 0], [key |-> <<"b", 9>>, if_out |-> 1], [key |-> <<"c", 9>>, if_out |-> 2], [key |-> <<"d", 9>>, if_out |-> 3]>>, HashEntries <- 5,
    Packets <- ("firewall" :> {[FilterPkt EXCEPT !.src = s] : s \in 0 .. 3} \union {[FilterPkt EXCEPT !.kind = "other"]})
            @@ ("arp" :> {[FilterPkt EXCEPT !.kind = "arp", !.op = o, !.dst = d, !.port = q] : o \in {"request", "reply"}, d \in {0, 1, 2}, q \in {0, 1}}
                         \union {FilterPkt})
            @@ ("l3fwd" :> {[FilterPkt EXCEPT !.dst = d] : d \in 0 .. 3} \union {[FilterPkt EXCEPT !.kind = "other"]}
                           \union {[FilterPkt EXCEPT !.key = k] : k \in {<<"b", 0>>, <<"c", 0>>, <<"c", 9>>, <<"a", 1>>}}),
    Argvs <- ("firewall" :> {("d" :> 1) @@ ("f" :> 1) @@ ("p" :> 2), ("d" :> 1)})
          @@ ("arp" :> {("d" :> 1) @@ ("s" :> 1), ("s" :> 1)})
          @@ ("l3fwd" :> {("p" :> 1), ("e" :> 1), ("e" :> 1) @@ ("h" :> 5), ("e" :> 1) @@ ("h" :> 6), ("l" :> 1)}),
    fn <- v1, app <- v2, tbl <- v3, st <- v4, hist <- v5

FDir == INSTANCE FlowDir WITH
    Insts <- {1, 2}, Argvs <- {("d" :> 3) @@ ("p" :> 2), ("x" :> 1)}, Flows <- {"f", "g"}, NotIp <- "none", Entries <- 1, MaxChain <- 4, MaxPkts <- 3,
    app <- v1, flow <- v2, sdn_ft <- v3, heap <- v4, nf <- v5, done <- v6, raced <- v7

Self == INSTANCE SelfMessages WITH
    Argvs <- {<<>>, ("p" :> 1)}, RingSize <- 4, Several <- 2, Magic <- 11, PoolSize <- 6, Strange <- {0, 11}, Stop <- -1, MaxNoise <- 2, MaxLate <- 4,
    app <- v1, test_phase <- v2, test_status <- v3, test_msg_count <- v4, tests_passed <- v5, mempool_count <- v6, msg_q <- v7,
    avail <- v8, held <- v9, pc <- v10, time <- v11

Kids == INSTANCE NfChildren WITH
    Children <- 1 .. 2, Ids <- {2, 3}, Parent <- 1, DefaultNum <- 1, MaxIter <- 2,
    Configs <- {[mode |-> "default", num_children |-> 2, share |-> TRUE], [mode |-> "advanced", num_children |-> 2, share |-> TRUE],
                [mode |-> "advanced", num_children |-> 1, share |-> FALSE]},
    cfg <- v1, main <- v2, keep_running <- v3, signal_exit_flag <- v4, children_cnt <- v5, child <- v6, nfs <- v7, mgr_msg_queue <- v8, other <- v9, strayed <- v10

Gens == INSTANCE Traffic WITH
    Bufs <- {1, 2}, GenArgvs <- {("d" :> 1) @@ ("t" :> 3), ("d" :> 1) @@ ("t" :> 1), ("s" :> 14)}, TestArgvs <- {("d" :> 1) @@ ("p" :> 1) @@ ("c" :> 2) @@ ("l" :> 1), ("d" :> 1) @@ ("p" :> 2), ("d" :> 1) @@ ("c" :> 3)},
    Part <- 2, BatchLimit <- 1, DefaultPkts <- 1, LatPkts <- 2, MaxPkts <- 2, MaxTime <- 3, MaxReal <- 1, MaxVisits <- 3,
    mbuf <- v1, gen <- v2, test <- v3, now <- v4, real <- v5, wild <- v6

\* What the peer sends: each kind of message, the elements of a session in and out of the
\* order of the table, groups that outgrow a buffer, and short messages that follow long ones
Leaf(t, k) == [type |-> t, v |-> k, sub |-> <<>>]
Group(t, ies) == [type |-> t, v |-> 0, sub |-> ies]
CreateFar == Group(3, <<Leaf(108, 6), Leaf(44, 7)>>)
PfcpRequests ==
    {[type |-> 1, ies |-> <<Leaf(96, 1)>>], [type |-> 5, ies |-> <<Leaf(60, 1), Leaf(96, 2)>>],
     [type |-> 7, ies |-> <<Leaf(60, 1)>>], [type |-> 9, ies |-> <<Leaf(60, 1)>>],
     [type |-> 10, ies |-> <<Leaf(60, 1), Leaf(19, 2)>>], [type |-> 11, ies |-> <<>>],
     [type |-> 50, ies |-> <<Leaf(60, 1), Leaf(57, 2), Group(1, <<Leaf(56, 3), Leaf(29, 4), Group(2, <<Leaf(20, 5)>>)>>), CreateFar>>],
     [type |-> 50, ies |-> <<Leaf(60, 1), Leaf(57, 2), CreateFar, Group(1, <<Leaf(56, 3)>>)>>],
     [type |-> 52, ies |-> <<Leaf(57, 1), Group(10, <<Leaf(108, 2), Group(11, <<Leaf(42, 3)>>)>>), Leaf(49, 4)>>],
     [type |-> 52, ies |-> <<Group(15, <<Leaf(56, 2)>>), Group(9, <<Leaf(56, 3)>>), Group(9, <<Leaf(56, 4), Leaf(29, 5)>>), Group(10, <<Leaf(44, 6), Leaf(108, 7)>>)>>],
     [type |-> 52, ies |-> <<Leaf(57, 1), Group(9, <<Leaf(56, 4), Leaf(29, 5)>>)>>],
     [type |-> 54, ies |-> <<>>], [type |-> 57, ies |-> <<Leaf(19, 1)>>]}

\* The rows of messages and groups, along which they are written and read: the types of
\* the first numToParse members.  A type without a row is a plain element
ieDescriptionTable ==
    1 :> <<56, 29, 2, 95, 108, 81, 81, 81, 81, 109, 109, 106>> @@
    2 :> <<20, 21, 22, 93, 131, 23, 24, 142, 132, 124, 153, 154, 155>> @@
    3 :> <<108, 44, 4, 5, 88>> @@ 4 :> <<42, 22, 38, 84, 30, 41, 98, 131, 137>> @@
    5 :> <<42, 84, 30, 41>> @@
    6 :> <<81, 62, 37, 64, 31, 73, 32, 74, 71, 72, 33, 148, 34, 35, 121, 122, 36, 82, 100, 115, 118, 108, 146, 147>> @@
    7 :> <<109, 28, 25, 26, 27, 94, 97, 124, 123>> @@ 8 :> <<56, 21>> @@
    9 :> <<56, 95, 29, 2, 108, 81, 81, 81, 81, 109, 106, 107>> @@ 10 :> <<108, 44, 11, 105, 88>> @@
    11 :> <<42, 22, 38, 84, 30, 41, 98, 49, 131>> @@ 12 :> <<88, 46, 47, 48, 140>> @@
    13 :> <<81, 62, 37, 64, 31, 73, 32, 74, 71, 72, 33, 148, 34, 35, 121, 122, 36, 82, 100, 115, 118, 108, 146, 147>> @@
    14 :> <<109, 28, 25, 26, 27, 94, 97, 124, 123>> @@ 15 :> <<56>> @@ 16 :> <<108>> @@
    17 :> <<81>> @@ 18 :> <<109>> @@ 51 :> <<52, 53>> @@ 54 :> <<52, 53, 55, 110>> @@
    58 :> <<24, 59>> @@ 59 :> <<61>> @@ 68 :> <<24, 91, 92>> @@ 77 :> <<81>> @@
    78 :> <<81, 104, 63, 75, 76, 66, 67, 69, 70, 90, 125, 143>> @@
    79 :> <<81, 104, 63, 75, 76, 66, 67, 69, 70, 90, 143>> @@
    80 :> <<81, 104, 63, 75, 76, 66, 67, 68, 93, 22, 69, 70, 90, 125, 149, 143>> @@
    83 :> <<56, 45>> @@ 85 :> <<88, 46, 140>> @@ 86 :> <<88, 46, 140>> @@ 87 :> <<88>> @@
    99 :> <<21>> @@ 102 :> <<103>> @@ 105 :> <<42, 84, 30, 41>> @@ 111 :> <<60>> @@
    118 :> <<120, 119>> @@ 127 :> <<131, 21, 22, 93, 142, 153, 154, 155>> @@ 128 :> <<131, 21>> @@
    129 :> <<131, 21, 22, 93, 153, 154, 155>> @@ 130 :> <<131>> @@
    132 :> <<138, 139, 133, 136, 134, 135, 23>> @@ 143 :> <<144, 145>> @@
    147 :> <<33, 34, 35, 121, 122>> @@ 148 :> <<150, 151>> @@ 149 :> <<150>> @@ 156 :> <<96>> @@
    157 :> <<96>> @@ 158 :> <<58>> @@ 159 :> <<19, 40>> @@ 160 :> <<60, 96, 43, 89, 116>> @@
    161 :> <<60, 19, 96, 43, 89, 116>> @@ 162 :> <<60, 43, 89, 111, 112, 116>> @@
    163 :> <<60, 19, 43, 89>> @@ 164 :> <<60, 19>> @@ 165 :> <<60, 101, 102>> @@
    166 :> <<60, 19, 40>> @@ 167 :> <<60, 65, 65, 65, 65, 65, 65, 65>> @@ 168 :> <<60, 19, 40>> @@
    169 :> <<60, 57, 1, 1, 1, 1, 3, 3, 3, 3, 6, 6, 6, 6, 7, 7, 7, 7, 85, 127, 113, 65, 65, 65, 65, 65, 117, 141, 152>> @@
    170 :> <<60, 19, 40, 57, 8, 51, 54, 65, 65, 114, 128>> @@
    171 :> <<57, 15, 16, 17, 18, 87, 130, 1, 1, 3, 3, 6, 7, 85, 127, 9, 9, 9, 9, 10, 10, 13, 14, 86, 129, 49, 77, 65, 65, 65, 65>> @@
    172 :> <<19, 40, 8, 51, 54, 78, 114, 126, 128>> @@ 173 :> <<>> @@
    174 :> <<19, 40, 51, 54, 79>> @@ 175 :> <<39, 83, 80, 99, 51, 54, 126>> @@
    176 :> <<19, 40, 12, 50>>

Coding == INSTANCE PfcpCoding WITH
    next <- ieDescriptionTable, Requests <- PfcpRequests, NBufs <- 2, BufLen <- 20, GroupCap <- 6, MaxMsgs <- 3,
    bufs <- v1, free <- v2, cur <- v3, live <- v4, out <- v5, longest <- v6

Pools == INSTANCE BufPool WITH
    Classes <- <<2, 5>>, NBlks <- 4, NBufs <- <<3, 4>>, Datagrams <- {3}, MsgSize <- 5, Values <- <<1>>,
    Bodies <- {<<<<1>>, <<2, 3>>>>}, MaxXacts <- 2, MaxReports <- 1,
    p <- v1, hand <- v2, xacts <- v3, reports <- v4

-----------------------------------------------------------------------------
\* The places from the nth on, and that they are not used.
From14 == <<v14>>
From13 == <<v13, From14>>
From12 == <<v12, From13>>
From11 == <<v11, From12>>
From10 == <<v10, From11>>
From9 == <<v9, From10>>
From8 == <<v8, From9>>
From7 == <<v7, From8>>
From6 == <<v6, From7>>
From5 == <<v5, From6>>
Idle14 == v14 = 0
Idle13 == v13 = 0 /\ Idle14
Idle12 == v12 = 0 /\ Idle13
Idle11 == v11 = 0 /\ Idle12
Idle10 == v10 = 0 /\ Idle11
Idle9 == v9 = 0 /\ Idle10
Idle8 == v8 = 0 /\ Idle9
Idle7 == v7 = 0 /\ Idle8
Idle6 == v6 = 0 /\ Idle7
Idle5 == v5 = 0 /\ Idle6

Init ==
    \/ part = "life" /\ Life!Init
    \/ part = "forward" /\ Fwd!Init /\ Idle14
    \/ part = "pdr" /\ Pdr!Init /\ Idle7
    \/ part = "nfd" /\ Nfd!Init /\ Idle5
    \/ part = "simple" /\ Simple!Init /\ Idle6
    \/ part = "n4path" /\ Path!Init /\ Idle9
    \/ part = "tables" /\ Tabs!Init /\ Idle7
    \/ part = "lists" /\ Lists!Init /\ Idle7
    \/ part = "fair" /\ Fair!Init /\ Idle10
    \/ part = "flows" /\ FlowFn!Init /\ Idle10
    \/ part = "filter" /\ Filter!Init /\ Idle6
    \/ part = "fdir" /\ FDir!Init /\ Idle8
    \/ part = "selfmsg" /\ Self!Init /\ Idle12
    \/ part = "children" /\ Kids!Init /\ Idle11
    \/ part = "traffic" /\ Gens!Init /\ Idle7
    \/ part = "coding" /\ Coding!Init /\ Idle7
    \/ part = "pools" /\ Pools!Init /\ Idle5

Next ==
    /\ UNCHANGED part
    /\ \/ part = "life" /\ Life!Next
       \/ part = "forward" /\ Fwd!Next /\ UNCHANGED From14
       \/ part = "pdr" /\ Pdr!Next /\ UNCHANGED From7
       \/ part = "nfd" /\ Nfd!Next /\ UNCHANGED From5
       \/ part = "simple" /\ Simple!Next /\ UNCHANGED From6
       \/ part = "n4path" /\ Path!Next /\ UNCHANGED From9
       \/ part = "tables" /\ Tabs!Next /\ UNCHANGED From7
       \/ part = "lists" /\ Lists!Next /\ UNCHANGED From7
       \/ part = "fair" /\ Fair!Next /\ UNCHANGED From10
       \/ part = "flows" /\ FlowFn!Next /\ UNCHANGED From10
       \/ part = "filter" /\ Filter!Next /\ UNCHANGED From6
       \/ part = "fdir" /\ FDir!Next /\ UNCHANGED From8
       \/ part = "selfmsg" /\ Self!Next /\ UNCHANGED From12
       \/ part = "children" /\ Kids!Next /\ UNCHANGED From11
       \/ part = "traffic" /\ Gens!Next /\ UNCHANGED From7
       \/ part = "coding" /\ Coding!Next /\ UNCHANGED From7
       \/ part = "pools" /\ Pools!Next /\ UNCHANGED From5

Spec == Init /\ [][Next]_vars

\* Processes are interchangeable.
Symmetry == Permutations({p1, p2, p3})
-----------------------------------------------------------------------------
\* The tables say what is the case: the row of a service lists its running NFs, an id
\* has one holder, a core counts its NFs, a parent its children; session maps, rule lists
\* and flow tables hold what was put in and not taken out.
TablesAreExact ==
    CASE part = "life" -> Life!ServiceMapIsExact /\ Life!InstanceIdsAreUnique /\ Life!CoresAreCounted
      [] part = "tables" -> Tabs!TablesAreThere /\ Tabs!FoundIsOwner
      [] part = "lists" -> Lists!ListIsLinked /\ Lists!ShortIdsAreExact /\ Lists!RulesAreNotDoubled
      [] part = "fdir" -> FDir!EntriesAreWhole /\ FDir!EndsOverTwoPackets
      [] part = "flows" -> FlowFn!StoredIsCounted /\ FlowFn!RecordsCountPackets /\ FlowFn!KeysTellConnections
      [] part = "children" -> Kids!ChildrenAreCounted /\ Kids!NoneIsLeftBehind /\ Kids!SleepersAreFound
      [] OTHER -> TRUE

\* Every packet, message and buffer is in one place, on its way or given back, once.
PacketsAreInOnePlace ==
    CASE part = "forward" -> Fwd!PacketsAreInOnePlace
      [] part = "fair" -> Fair!EachInOnePlace /\ Fair!FullIsForEver
      [] part = "fdir" -> FDir!NoneIsLost
      [] part = "selfmsg" -> Self!MessagesAreReturned
      [] part = "pools" -> Pools!BuffersAreFreeOnce /\ Pools!PoolsAreExactBeforeReports /\ Pools!OneDescriptorPerReport
      [] part = "coding" -> Coding!ValuesAreReturned
      [] OTHER -> TRUE

\* Packets of one path keep their order, and queues take turns.
ArrivalOrderIsKept ==
    CASE part = "forward" -> Fwd!ArrivalOrderIsKept
      [] part = "fair" -> Fair!FlowsKeepOrder /\ Fair!TurnsAreFair
      [] OTHER -> TRUE

\* What a peer sent is what is parsed, stored, looked up and answered, and the answer
\* goes to the one that asked.
MessagesTakeEffect ==
    CASE part = "pdr" -> Pdr!FieldsAreLastSent /\ Pdr!FilterIsCurrent /\ Pdr!RulePointersAreSound
      [] part = "n4path" -> Path!AnswersGoToTheAsker /\ Path!OnePeerIsServed /\ Path!NodesAreAccounted
      [] part = "selfmsg" -> Self!QuietTestsPass /\ Self!FailuresSpread
      [] part = "pools" -> Pools!KeptPacketsAreWhole
      [] part = "coding" -> Coding!ParsedAsSent /\ Coding!OneElementOnePlace /\ Coding!LeftoversNeedALongerMessage /\ Coding!RoundTrip /\ Coding!TypesMeanMembers
      [] OTHER -> TRUE

\* The verdict of a network function on a packet is the one its rule gives for the
\* packets and calls that came before.
VerdictsFollowHistory ==
    CASE part = "nfd" -> Nfd!VerdictFollowsRule /\ Nfd!RepliesFindTheirSender /\ Nfd!MarksNeedTheThreshold /\ Nfd!ShownIsHandled
      [] part = "simple" -> Simple!RoutesFollowTheFile /\ Simple!PortsArePaired /\ Simple!ScansAddUp /\ Simple!BurstIsBounded /\ Simple!RateIsKept /\ Simple!ShownIsCounted
      [] part = "filter" -> Filter!LongestRuleDecides /\ Filter!StatisticsAddUp /\ Filter!RequestsAreAnsweredOnce /\ Filter!SwitchedToItsPort
      [] part = "fdir" -> FDir!KnownFlowsAreDropped
      [] part = "flows" -> FlowFn!ConnectionsStay /\ FlowFn!AnswersGoToTheClient
      [] part = "traffic" -> Gens!MadeAreAccounted /\ Gens!RateIsKept /\ Gens!EnoughAreTimed /\ Gens!DisplayLags
      [] OTHER -> TRUE
=============================================================================
