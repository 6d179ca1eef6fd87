--------------------------- MODULE FlowFunctions ---------------------------
(***************************************************************************)
(* The flow tracker and the load balancer: functions that keep a record of *)
(* every connection in a flow table, and clear it of expired ones when it  *)
(* is full.  The clock they use is the one the callback between packets    *)
(* read last.  hist keeps what happened to each packet; born tells when    *)
(* the record in a place was made.                                         *)
(***************************************************************************)
EXTENDS NfApp, Sequences, FiniteSets

CONSTANTS Functions, Packets,  \* packets: [kind, src, dst, sport, dport, proto, port, mac]
          Argvs,
          Configs,             \* of the balancer: [policy, weights], weights a sequence
          Ports,               \* ports of the host
          TableSize,           \* TBL_SIZE, TABLE_SIZE
          Expire,              \* EXPIRE_TIME, expire_time
          MaxPkts, MaxTime

VARIABLES fn, app, cfg, ft, num_stored, elapsed, last, hist, born

vars == <<fn, app, cfg, ft, num_stored, elapsed, last, hist, born>>
-----------------------------------------------------------------------------
(* The flow table of the NF library: a hash table from 5-tuples to places of *)
(* an array of values.  A place that is freed keeps its value and may be     *)
(* given to any other key later.                                             *)

\* No key; a key is [src, dst, sport, dport, proto]
Free == [src |-> -1, dst |-> -1, sport |-> -1, dport |-> -1, proto |-> "none"]

onvm_ft_create(cnt, zero) == [key |-> [i \in 1 .. cnt |-> Free], data |-> [i \in 1 .. cnt |-> zero]]

\* Places of a key, empty when it is not there
onvm_ft_lookup_key(tab, key) == {i \in DOMAIN tab.key : tab.key[i] = key}

\* The place an add gives to a key: its own, or a free one.  None is an error
onvm_ft_add_key(tab, key) ==
    LET own == onvm_ft_lookup_key(tab, key)
        free == onvm_ft_lookup_key(tab, Free)
    IN  IF own # {} THEN own ELSE {i \in free : \A j \in free : i <= j}

\* The keys of a table after each of the keys in gone was removed
onvm_ft_remove_key(keys, gone) == [i \in DOMAIN keys |-> IF keys[i] \in gone THEN Free ELSE keys[i]]

\* What an iteration visits
onvm_ft_iterate(tab) == {i \in DOMAIN tab.key : tab.key[i] # Free}

HasPorts(p) == p.proto \in {"tcp", "udp"}

\* The key of an IPv4 packet; only TCP and UDP have ports
onvm_ft_fill_key(p) ==
    [src |-> p.src, dst |-> p.dst, proto |-> p.proto,
     sport |-> IF HasPorts(p) THEN p.sport ELSE 0, dport |-> IF HasPorts(p) THEN p.dport ELSE 0]

\* Both directions of a connection have one key: addresses and ports are ordered, each for itself
Larger(a, b) == IF a > b THEN a ELSE b
Smaller(a, b) == IF a > b THEN b ELSE a
onvm_ft_fill_key_symmetric(p) ==
    LET k == onvm_ft_fill_key(p)
    IN  [k EXCEPT !.src = Larger(k.src, k.dst), !.dst = Smaller(k.src, k.dst),
                  !.sport = Larger(k.sport, k.dport), !.dport = Smaller(k.sport, k.dport)]
-----------------------------------------------------------------------------
Blank == [pkt_count |-> 0, last_pkt |-> 0, is_active |-> FALSE, dest |-> 0, mac |-> "zero"]

Init ==
    /\ fn \in Functions
    /\ app = Off /\ cfg = [policy |-> "none", weights |-> <<>>]
    /\ ft = onvm_ft_create(TableSize, Blank)
    /\ num_stored = 0 /\ elapsed = 0 /\ last = 0
    /\ hist = <<>> /\ born = [i \in 1 .. TableSize |-> 0]
-----------------------------------------------------------------------------
TrackerOptions == ("d" :> 0) @@ ("p" :> 5)
tracker_parse_app_args(argv) == Parses(argv, TrackerOptions, {"d"}, [o \in DOMAIN TrackerOptions |-> Nat])

\* Addresses may not be zero; a port must be given, and be one of the host
LbOptions == ("c" :> 0) @@ ("r" :> 0) @@ ("s" :> 0) @@ ("t" :> 0) @@ ("f" :> 0) @@ ("p" :> 1000000)
lb_parse_app_args(argv) ==
    Parses(argv, LbOptions, {"c", "r", "s", "t", "f"}, [o \in DOMAIN LbOptions |-> IF o \in {"c", "s"} THEN Nat \ {0} ELSE Nat])
validate_iface_config(argv) == {argv["r"], argv["t"]} \subseteq Ports

\* Weights count for one policy only
parse_backend_config(c) ==
    IF c.policy = "WEIGHTED_RANDOM" THEN c ELSE [c EXCEPT !.weights = [i \in DOMAIN c.weights |-> 1]]

Start(f, app2, c) ==
    /\ fn = f /\ app = Off
    /\ app' = app2 /\ cfg' = c
    /\ UNCHANGED <<fn, ft, num_stored, elapsed, last, hist, born>>

tracker_main(argv, ok) == Start("tracker", Main(argv, ok, tracker_parse_app_args(argv), TrackerOptions), cfg)

lb_main(argv, ok, c) ==
    LET good == lb_parse_app_args(argv) /\ validate_iface_config(argv)
    IN  Start("lb", Main(argv, ok /\ c.weights # <<>>, good, LbOptions), parse_backend_config(c))
-----------------------------------------------------------------------------
(* The table.                                                              *)

\* A connection without packet for the expiry time is no longer active
update_status(d) == elapsed - d.last_pkt < Expire

Cleared(t) == {i \in onvm_ft_iterate(t) : ~update_status(t.data[i])}

\* Expired records leave the table, all others are marked active
clear_entries(t) ==
    [key |-> onvm_ft_remove_key(t.key, {t.key[i] : i \in Cleared(t)}),
     data |-> [i \in DOMAIN t.data |-> IF i \in onvm_ft_iterate(t)
                                       THEN [t.data[i] EXCEPT !.is_active = update_status(t.data[i])] ELSE t.data[i]]]

FullAt == IF fn = "tracker" THEN TableSize ELSE TableSize - 1

\* The 16 bits of num_stored count to one less than the balancer's table has places
Wide == IF fn = "tracker" THEN 2 ^ 16 ELSE TableSize

\* Mutant: a record is counted before it is known to fit
CountsEarly(n, added) == (n + 1) % Wide

CountAdded(n, added) == IF added THEN (n + 1) % Wide ELSE n

\* A new record d in a table that was cleared if it was full.  The hash may find no place for a
\* key before all are taken
table_add_entry(key, d, fits) ==
    LET full == num_stored = FullAt
        t == IF full THEN clear_entries(ft) ELSE ft
        n == IF full THEN num_stored - Cardinality(Cleared(ft)) ELSE num_stored
        places == IF fits THEN onvm_ft_add_key(t, key) ELSE {}
    IN  /\ num_stored' = CountAdded(n, places # {})
        /\ \/ places = {} /\ ft' = t /\ UNCHANGED born
           \/ \E i \in places : /\ ft' = [t EXCEPT !.key[i] = key, !.data[i] = d]
                                /\ born' = [born EXCEPT ![i] = Len(hist) + 1]

\* Otherwise the record of the key gets the time, and what f makes of it
Touch(i, d) ==
    /\ ft' = [ft EXCEPT !.data[i] = d]
    /\ UNCHANGED <<num_stored, born>>

Did(p, key, act, out) == hist' = Append(hist, [p |-> p, key |-> key, act |-> act, out |-> out])
Handles(f) == fn = f /\ Runs(app) /\ Len(hist) < MaxPkts
NoOut == [port |-> -1, mac |-> "none", dst |-> 0]
-----------------------------------------------------------------------------
(* Flow tracker: every packet goes on, tracked or not.                     *)

tracker_table_lookup_entry(p, key, fits) ==
    LET found == onvm_ft_lookup_key(ft, key)
    IN  IF found = {}
        THEN table_add_entry(key, [Blank EXCEPT !.last_pkt = elapsed, !.is_active = TRUE], fits)
        ELSE \E i \in found : Touch(i, [ft.data[i] EXCEPT !.pkt_count = @ + 1, !.last_pkt = elapsed])

tracker_packet_handler(p, fits) ==
    /\ Handles("tracker")
    /\ IF p.kind # "ipv4" THEN Did(p, Free, "tonf", NoOut) /\ UNCHANGED <<ft, num_stored, born>>
       ELSE LET key == onvm_ft_fill_key_symmetric(p)
            IN  tracker_table_lookup_entry(p, key, fits) /\ Did(p, key, "tonf", NoOut)
    /\ UNCHANGED <<fn, app, cfg, elapsed, last>>

\* The display brings the status of all records up to date
tracker_do_stats_display(t, now) ==
    [t EXCEPT !.data = [i \in DOMAIN t.data |-> IF i \in onvm_ft_iterate(t)
                           THEN [t.data[i] EXCEPT !.is_active = now - t.data[i].last_pkt < Expire] ELSE t.data[i]]]

\* Between packets the clock is read, and now and then the records are shown
tracker_callback_handler(now) ==
    /\ fn = "tracker" /\ Runs(app) /\ now > elapsed
    /\ elapsed' = now
    /\ IF now - last > app.arg["p"] THEN last' = now /\ ft' = tracker_do_stats_display(ft, now) ELSE UNCHANGED <<last, ft>>
    /\ UNCHANGED <<fn, app, cfg, num_stored, hist, born>>
-----------------------------------------------------------------------------
(* Load balancer.                                                          *)

\* The server of a new connection: in turn by the number of records, or any that has weight
Servers(n) ==
    IF cfg.policy = "RROBIN" THEN {n % Len(cfg.weights)}
    ELSE {i - 1 : i \in {j \in DOMAIN cfg.weights : cfg.weights[j] > 0}}

\* The address of the balancer is taken out, so that both directions have one key
LbKey(p) ==
    IF p.port = app.arg["r"] THEN onvm_ft_fill_key_symmetric([p EXCEPT !.dst = 0])
    ELSE onvm_ft_fill_key_symmetric([p EXCEPT !.src = 0])

\* The record a packet meets: what was there, or a new one that is not active yet
NewFlow(s) == [Blank EXCEPT !.last_pkt = elapsed, !.dest = s]

\* Mutant: the address is learnt from every packet
LearnAlways(d, p) == [d EXCEPT !.is_active = TRUE, !.mac = p.mac]

\* A record that is not active learns the hardware address of the packet as the client's
Learn(d, p) == IF d.is_active THEN d ELSE [d EXCEPT !.is_active = TRUE, !.mac = p.mac]

\* Where the packet goes with the record: to the client from the servers' port, else to the server
Rewritten(p, d) ==
    IF p.port = app.arg["t"] THEN [port |-> app.arg["r"], mac |-> d.mac, dst |-> p.dst]
    ELSE [port |-> app.arg["t"], mac |-> "server", dst |-> d.dest]

NewCount == ((IF num_stored = FullAt THEN num_stored - Cardinality(Cleared(ft)) ELSE num_stored) + 1) % Wide

lb_table_lookup_entry(p, key, fits) ==
    LET found == onvm_ft_lookup_key(ft, key)
    IN  IF found # {}
        THEN \E i \in found :
                LET d == Learn([ft.data[i] EXCEPT !.last_pkt = elapsed], p)
                IN  /\ Touch(i, d) /\ Did(p, key, "out", Rewritten(p, d)) /\ app' = Counted(app)
        ELSE \E s \in Servers(NewCount) :
                LET d == Learn(NewFlow(s), p)
                IN  /\ table_add_entry(key, d, fits)
                    /\ IF onvm_ft_lookup_key(ft', key) = {}
                       THEN Did(p, key, "drop", NoOut) /\ UNCHANGED app
                       ELSE Did(p, key, "out", Rewritten(p, d)) /\ app' = Counted(app)

lb_packet_handler(p, fits) ==
    /\ Handles("lb")
    /\ IF p.kind # "ipv4" \/ p.src = 0 \/ p.dst = 0
       THEN Did(p, Free, "drop", NoOut) /\ UNCHANGED <<ft, num_stored, born, app>>
       ELSE lb_table_lookup_entry(p, LbKey(p), fits)
    /\ UNCHANGED <<fn, cfg, elapsed, last>>

lb_callback_handler(now) ==
    /\ fn = "lb" /\ Runs(app) /\ now > elapsed
    /\ elapsed' = now
    /\ last' = IF now - last > Expire THEN now ELSE last
    /\ UNCHANGED <<fn, app, cfg, ft, num_stored, hist, born>>

Next ==
    \/ \E argv \in Argvs[fn], ok \in BOOLEAN : tracker_main(argv, ok) \/ \E c \in Configs : lb_main(argv, ok, c)
    \/ \E p \in Packets[fn], fits \in BOOLEAN : tracker_packet_handler(p, fits) \/ lb_packet_handler(p, fits)
    \/ \E now \in 1 .. MaxTime : tracker_callback_handler(now) \/ lb_callback_handler(now)

Spec == Init /\ [][Next]_vars
-----------------------------------------------------------------------------
Stored == onvm_ft_iterate(ft)

\* The packets a record has seen
Seen(i) == {j \in born[i] .. Len(hist) : hist[j].key = ft.key[i]}

\* The count of records is right, whatever was cleared or did not fit; otherwise the table
\* would be cleared too early or never.  That of the balancer is right up to a table that
\* is full of active records: it is zero then, and the table is never cleared again
StoredIsCounted == num_stored = Cardinality(Stored) % Wide

\* A key has one record, and the record counts the packets after the one that made it
RecordsCountPackets ==
    \A i \in Stored :
        /\ \A j \in Stored : ft.key[i] = ft.key[j] => i = j
        /\ fn = "tracker" => ft.data[i].pkt_count = Cardinality(Seen(i)) - 1

\* All packets of a connection that came from the clients' port since its record was made
\* went to the server of the record, which is one of the configuration
ConnectionsStay ==
    fn = "lb" => \A i \in Stored :
        /\ ft.data[i].dest \in 0 .. Len(cfg.weights) - 1
        /\ \A j \in Seen(i) : hist[j].act = "out" /\ hist[j].p.port # app.arg["t"] =>
               hist[j].out.dst = ft.data[i].dest /\ hist[j].out.port = app.arg["t"]

\* Answers of a connection whose record a client made go to the hardware address of that
\* client's first packet, out of the clients' port, also when the record was marked in a clearing
AnswersGoToTheClient ==
    fn = "lb" => \A i \in Stored : \A j \in Seen(i) :
        hist[j].p.port = app.arg["t"] =>
            hist[j].out.mac = hist[born[i]].p.mac /\ hist[j].out.port = app.arg["r"]

\* Two packets with one key are of one connection, up to the exchange of both addresses or
\* of both ports
KeysTellConnections ==
    \A i, j \in DOMAIN hist : fn = "tracker" /\ hist[i].key = hist[j].key /\ hist[i].key # Free =>
        LET a == hist[i].p
            b == hist[j].p
        IN  {a.src, a.dst} = {b.src, b.dst} /\ (HasPorts(a) => {a.sport, a.dport} = {b.sport, b.dport}) /\ a.proto = b.proto
=============================================================================
