-------------------------- MODULE SimpleFunctions --------------------------
(***************************************************************************)
(* The small example functions: the skeleton, bridge, forwarder, monitor,  *)
(* payload scanner, router, layer 2 switch and the forwarder with a token  *)
(* bucket.  A behaviour is one of one function; hist keeps the packets it  *)
(* handled, with what it did and when.                                     *)
(***************************************************************************)
EXTENDS NfApp, Sequences, FiniteSets

CONSTANTS Functions,           \* the functions to run
          Packets,             \* those each is offered: [port, kind, dst, l4, match, len]
          Ports,               \* the ports of the host, a sequence
          Configs,             \* router configurations: sequences of <<address, destination>>
          Byte,                \* values of an 8 bit number
          Argvs,               \* command lines of each function
          Period,              \* between two reports of the monitor
          MaxPkts, MaxTime

VARIABLES fn, app, st, hist, now

vars == <<fn, app, st, hist, now>>

Range(s) == {s[i] : i \in DOMAIN s}
RECURSIVE SumTo(_, _, _)
SumTo(f, i, j) == IF i > j THEN 0 ELSE f[i] + SumTo(f, i + 1, j)
-----------------------------------------------------------------------------
(* Options.  A flag that takes no value has value 1.                       *)

AnyOf(defaults) == [o \in DOMAIN defaults |-> Nat]
OptP == ("p" :> 1000000)

\* One option is read, and only a positive delay; v counts packets, p seconds
skeleton_parse_app_args(argv) == Parses(argv, ("p" :> 0) @@ ("v" :> 0), {}, [o \in {"p", "v"} |-> Nat \ {0}])
bridge_parse_app_args(argv) == Parses(argv, OptP, {}, AnyOf(OptP))
forward_parse_app_args(argv) == Parses(argv, OptP @@ ("d" :> 0), {"d"}, AnyOf(OptP @@ ("d" :> 0)))
monitor_parse_app_args(argv) == Parses(argv, OptP, {}, AnyOf(OptP))
ScanOptions == OptP @@ ("d" :> 0) @@ ("s" :> 0) @@ ("i" :> 0)
scan_parse_app_args(argv) == Parses(argv, ScanOptions, {"d", "s"}, AnyOf(ScanOptions))
router_parse_app_args(argv) == Parses(argv, OptP @@ ("f" :> 0), {}, AnyOf(OptP @@ ("f" :> 0)))
SwitchOptions == OptP @@ ("n" :> 0) @@ ("m" :> 0)
l2fwd_parse_app_args(argv) == Parses(argv, SwitchOptions, {}, AnyOf(SwitchOptions))
BucketOptions == OptP @@ ("d" :> 0) @@ ("D" :> 2) @@ ("R" :> 1)
tb_parse_app_args(argv) == Parses(argv, BucketOptions, {"d"}, AnyOf(BucketOptions))
-----------------------------------------------------------------------------
(* Start.                                                                  *)

\* Mutant: the port count decides by its last value
SetDestUnpaired(i) == IF i % 2 = 0 THEN Ports[i - 1] ELSE IF i < Len(Ports) THEN Ports[i + 1] ELSE Ports[1]

\* Ports forward to each other in pairs, the last of an odd number to itself
l2fwd_set_dest_ports(i) == IF i % 2 = 0 THEN Ports[i - 1] ELSE IF i < Len(Ports) THEN Ports[i + 1] ELSE Ports[i]

\* The number of entries and the destinations are kept in 8 bits; the function ends when
\* there is no file or there is nothing to keep
parse_router_config(cfg) == [i \in 1 .. Len(cfg) % Byte |-> <<cfg[i][1], cfg[i][2] % Byte>>]

\* What a function keeps: statistics, ports, routes, bucket
skeleton_setup == [packets_processed |-> 0, current_time |-> 0]
NoStats == [accept |-> 0, drop |-> 0, total |-> 0, not_ipv4 |-> 0, not_tcp_udp |-> 0]
nf_setup ==
    [dst |-> [p \in Range(Ports) |-> l2fwd_set_dest_ports(CHOOSE i \in DOMAIN Ports : Ports[i] = p)],
     rx |-> [p \in Range(Ports) |-> 0], tx |-> [p \in Range(Ports) |-> 0]]
Bucket(arg) == [tb_rate |-> arg["R"], tb_depth |-> arg["D"], tb_tokens |-> arg["D"], last_cycle |-> now]
Monitor == [total_packets |-> 0, last_cycle |-> now, reported |-> 0]

Init ==
    /\ fn \in Functions
    /\ app = Off
    /\ st = <<>>
    /\ hist = <<>>
    /\ now = 0

Start(f, argv, registered, parses, defaults, state) ==
    /\ fn = f /\ app = Off
    /\ app' = Main(argv, registered, parses, defaults)
    /\ st' = IF Runs(app') THEN state ELSE <<>>
    /\ UNCHANGED <<fn, hist, now>>

skeleton_main(argv, ok) == Start("skeleton", argv, ok, skeleton_parse_app_args(argv), ("p" :> 0) @@ ("v" :> 0), skeleton_setup)
bridge_main(argv, ok) == Start("bridge", argv, ok, bridge_parse_app_args(argv), OptP, <<>>)
forward_main(argv, ok) == Start("forward", argv, ok, forward_parse_app_args(argv), OptP @@ ("d" :> 0), <<>>)
monitor_main(argv, ok) == Start("monitor", argv, ok, monitor_parse_app_args(argv), OptP, Monitor)
scan_main(argv, ok) == Start("scan", argv, ok, scan_parse_app_args(argv), ScanOptions, NoStats)
router_main(argv, ok, cfg) == Start("router", argv, ok /\ "f" \in DOMAIN argv /\ parse_router_config(cfg) # <<>>, router_parse_app_args(argv), OptP @@ ("f" :> 0),
                                    [file |-> cfg, fwd_nf |-> parse_router_config(cfg)])
l2fwd_main(argv, ok) == Start("l2fwd", argv, ok /\ Ports # <<>>, l2fwd_parse_app_args(argv), SwitchOptions, nf_setup)
tb_main(argv, ok) == Start("tb", argv, ok, tb_parse_app_args(argv), BucketOptions, Bucket(BucketOptions @@ argv))
-----------------------------------------------------------------------------
(* Packets.                                                                *)

Did(p, act, dest, at) == hist' = Append(hist, [p |-> p, act |-> act, dest |-> dest, at |-> at])
Handles(f) == fn = f /\ Runs(app) /\ Len(hist) < MaxPkts

\* Everything is dropped; the count is shown at the multiples of the delay
skeleton_packet_handler(p) ==
    /\ Handles("skeleton")
    /\ st' = [st EXCEPT !.packets_processed = @ + 1]
    /\ app' = IF app.arg["v"] # 0 /\ (st.packets_processed + 1) % app.arg["v"] = 0
              THEN [app EXCEPT !.shown = st.packets_processed + 1] ELSE app
    /\ Did(p, "drop", 0, now)
    /\ UNCHANGED <<fn, now>>

\* Between packets: with a delay in seconds the count is shown at its multiples, once each
skeleton_action ==
    /\ fn = "skeleton" /\ Runs(app)
    /\ st' = [st EXCEPT !.current_time = now]
    /\ app' = IF app.arg["p"] # 0 /\ now % app.arg["p"] = 0 /\ now # st.current_time
              THEN [app EXCEPT !.shown = st.packets_processed] ELSE app
    /\ UNCHANGED <<fn, hist, now>>

\* The counter is compared before it is counted up: a display comes one packet late
BridgeCounted ==
    IF app.counter = app.arg["p"] THEN Display(app) ELSE [app EXCEPT !.counter = @ + 1]

bridge_packet_handler(p) ==
    /\ Handles("bridge")
    /\ app' = BridgeCounted
    /\ Did(p, "out", IF p.port = 0 THEN 1 ELSE 0, now)
    /\ UNCHANGED <<fn, st, now>>

forward_packet_handler(p) ==
    /\ Handles("forward")
    /\ app' = Counted(app)
    /\ Did(p, "tonf", app.arg["d"], now)
    /\ UNCHANGED <<fn, st, now>>

monitor_packet_handler(p) ==
    /\ Handles("monitor")
    /\ app' = Counted(app)
    /\ st' = [st EXCEPT !.total_packets = @ + 1]
    /\ Did(p, "out", p.port, now)
    /\ UNCHANGED <<fn, now>>

\* Between packets: the total is reported when the period is over
monitor_callback_handler ==
    /\ fn = "monitor" /\ Runs(app)
    /\ now - st.last_cycle > Period
    /\ st' = [st EXCEPT !.last_cycle = now, !.reported = st.total_packets]
    /\ UNCHANGED <<fn, app, hist, now>>

\* A packet that is not IPv4 counts as dropped, one of another protocol only as such
scan_packet_handler(p) ==
    LET accepted == p.match = (app.arg["i"] = 0)
        seen == [st EXCEPT !.total = @ + 1]
    IN  /\ Handles("scan")
        /\ app' = Counted(app)
        /\ \/ /\ p.kind # "ipv4"
              /\ st' = [seen EXCEPT !.drop = @ + 1] /\ Did(p, "drop", 0, now)
           \/ /\ p.kind = "ipv4" /\ p.l4 \notin {"udp", "tcp"}
              /\ st' = [seen EXCEPT !.not_tcp_udp = @ + 1] /\ Did(p, "drop", 0, now)
           \/ /\ p.kind = "ipv4" /\ p.l4 \in {"udp", "tcp"} /\ accepted
              /\ st' = [seen EXCEPT !.accept = @ + 1] /\ Did(p, "tonf", app.arg["d"], now)
           \/ /\ p.kind = "ipv4" /\ p.l4 \in {"udp", "tcp"} /\ ~accepted
              /\ st' = [seen EXCEPT !.drop = @ + 1] /\ Did(p, "drop", 0, now)
        /\ UNCHANGED <<fn, now>>

\* The first entry of the address decides, also for an ARP request; only IP is counted
router_packet_handler(p) ==
    LET hits == {i \in DOMAIN st.fwd_nf : st.fwd_nf[i][1] = p.dst /\ p.kind \in {"ipv4", "arp"}}
        first == CHOOSE i \in hits : \A j \in hits : i <= j
    IN  /\ Handles("router")
        /\ app' = IF p.kind = "ipv4" THEN Counted(app) ELSE app
        /\ IF hits = {} THEN Did(p, "drop", 0, now) ELSE Did(p, "tonf", st.fwd_nf[first][2], now)
        /\ UNCHANGED <<fn, st, now>>

l2fwd_packet_handler(p) ==
    /\ Handles("l2fwd")
    /\ app' = Counted(app)
    /\ st' = [st EXCEPT !.rx[p.port] = @ + 1, !.tx[st.dst[p.port]] = @ + 1]
    /\ Did(p, "out", st.dst[p.port], now)
    /\ UNCHANGED <<fn, now>>

\* Mutant: the time of the last refill is not moved on
RefillAgain(t) == [st EXCEPT !.tb_tokens = IF @ + (t - st.last_cycle) * st.tb_rate > st.tb_depth THEN st.tb_depth
                                           ELSE @ + (t - st.last_cycle) * st.tb_rate]

\* Tokens are made only when there are too few, for all the time since they were made last
Refill(t) == [st EXCEPT !.tb_tokens = IF @ + (t - st.last_cycle) * st.tb_rate > st.tb_depth THEN st.tb_depth
                                      ELSE @ + (t - st.last_cycle) * st.tb_rate,
                        !.last_cycle = t]

\* The packet waits in the handler until the tokens suffice
packet_handler_tb(p, ended) ==
    /\ app' = [Counted(app) EXCEPT !.phase = IF ended THEN "gone" ELSE @]
    /\ IF p.len > st.tb_depth THEN Did(p, "drop", 0, now) /\ UNCHANGED <<st, now>>
       ELSE \E t \in now .. MaxTime :
                /\ IF st.tb_tokens >= p.len THEN t = now
                   ELSE (t - st.last_cycle) * st.tb_rate + st.tb_tokens >= p.len
                /\ st' = [(IF st.tb_tokens >= p.len THEN st ELSE Refill(t)) EXCEPT !.tb_tokens = @ - p.len]
                /\ now' = t
                /\ Did(p, "tonf", app.arg["d"], t)
    /\ UNCHANGED fn

\* A stop message is seen before a burst is taken: the burst is still handled
thread_main_loop(p) == Handles("tb") /\ \E ended \in BOOLEAN : packet_handler_tb(p, ended)

Stop ==
    /\ Runs(app)
    /\ app' = [app EXCEPT !.phase = "gone"]
    /\ UNCHANGED <<fn, st, hist, now>>

Tick ==
    /\ fn \in {"tb", "monitor", "skeleton"} /\ Runs(app) /\ now < MaxTime
    /\ now' = now + 1
    /\ UNCHANGED <<fn, app, st, hist>>

Next ==
    \/ \E argv \in Argvs[fn], ok \in BOOLEAN :
          \/ skeleton_main(argv, ok) \/ bridge_main(argv, ok) \/ forward_main(argv, ok)
          \/ monitor_main(argv, ok) \/ scan_main(argv, ok) \/ l2fwd_main(argv, ok) \/ tb_main(argv, ok)
          \/ \E cfg \in Configs : router_main(argv, ok, cfg)
    \/ \E p \in Packets[fn] :
          \/ skeleton_packet_handler(p) \/ bridge_packet_handler(p) \/ forward_packet_handler(p)
          \/ monitor_packet_handler(p) \/ scan_packet_handler(p) \/ router_packet_handler(p)
          \/ l2fwd_packet_handler(p) \/ thread_main_loop(p)
    \/ skeleton_action \/ monitor_callback_handler \/ Tick \/ Stop

Spec == Init /\ [][Next]_vars
-----------------------------------------------------------------------------
Running(f) == fn = f /\ Runs(app)
Last == hist[Len(hist)]
Times(S) == Cardinality(S)

\* A packet for an address of the configuration goes where its first entry says, if the
\* configuration has fewer entries than 8 bits count
RoutesFollowTheFile ==
    Running("router") /\ hist # <<>> /\ Len(st.file) < Byte =>
        LET hits == {i \in DOMAIN st.file : st.file[i][1] = Last.p.dst /\ Last.p.kind # "other"}
        IN  IF hits = {} THEN Last.act = "drop"
            ELSE Last.act = "tonf" /\ \E i \in hits : (\A j \in hits : i <= j) /\ Last.dest = st.file[i][2] % Byte

\* Ports of the switch forward to each other, and what one received the other sent
PortsArePaired ==
    Running("l2fwd") => \A p \in DOMAIN st.dst : st.dst[st.dst[p]] = p /\ st.tx[st.dst[p]] = st.rx[p]

\* The statistics of the scanner add up to what it was given and say what it let through
ScansAddUp ==
    Running("scan") => /\ st.total = Len(hist) /\ st.total = st.accept + st.drop + st.not_tcp_udp
                       /\ st.accept = Times({i \in DOMAIN hist : hist[i].act = "tonf"})

\* Through the bucket goes, between any two packets, no more than twice its depth and what
\* the rate allows for the time between them: tokens left from before and the refill for
\* the time they lay unused come together
BurstIsBounded ==
    Running("tb") =>
        \A i \in DOMAIN hist : \A j \in i .. Len(hist) :
            SumTo([k \in DOMAIN hist |-> IF hist[k].act = "tonf" THEN hist[k].p.len ELSE 0], i, j)
                <= 2 * st.tb_depth + st.tb_rate * (hist[j].at - hist[i].at)

\* Since the start no more went through than one depth and what the rate allows
RateIsKept ==
    Running("tb") /\ hist # <<>> =>
        SumTo([k \in DOMAIN hist |-> IF hist[k].act = "tonf" THEN hist[k].p.len ELSE 0], 1, Len(hist))
            <= st.tb_depth + st.tb_rate * Last.at

\* The display never shows more than was handled; where it is counted before it is compared
\* what was shown and what was counted since is just that
ShownIsCounted ==
    Runs(app) =>
        /\ app.shown <= Len(hist)
        /\ fn \in {"forward", "monitor", "scan", "l2fwd", "tb"} => app.shown + app.counter = Len(hist)
        /\ fn = "bridge" /\ app.arg["p"] > 0 =>
              app.shown + app.shown \div app.arg["p"] + app.counter = Len(hist)
=============================================================================
