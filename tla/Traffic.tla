------------------------------ MODULE Traffic ------------------------------
(***************************************************************************)
(* The two functions that make packets of their own: the load generator,   *)
(* which sends at a given rate and counts what comes back, and the speed   *)
(* tester, which sends a batch once and bounces it for ever.  Both know    *)
(* their packets by a bit in the metadata of the buffer, which neither the *)
(* pool nor the manager clears between two packets.  A destination bounces *)
(* packets or loses them.  Credit is counted in parts of a packet.         *)
(***************************************************************************)
EXTENDS Integers, FiniteSets, FiniteSetsExt, NfApp

CONSTANTS Bufs,                \* the buffers of the pool
          GenArgvs, TestArgvs, \* command lines
          Part,                \* parts of a packet in a credit of one
          BatchLimit,          \* BATCH_LIMIT
          DefaultPkts, LatPkts, MaxPkts,  \* DEFAULT_PKT_NUM, DEFAULT_LAT_PKT_NUM, MAX_PKT_NUM
          MaxTime, MaxReal, MaxVisits  \* bounds of the instance

VARIABLES mbuf,                \* where each buffer is, and what its packet and metadata hold
          gen, test,           \* the static variables of the two functions
          now,                 \* cycles
          real,                \* packets that came from the network
          wild                 \* pointers that were never set went to the manager

vars == <<mbuf, gen, test, now, real, wild>>

Pool == {b \in Bufs : mbuf[b].at = "pool"}

\* A freed buffer keeps its metadata
Freed(m) == [m EXCEPT !.at = "pool"]
AllFreed(s) == [b \in Bufs |-> IF b \in s THEN Freed(mbuf[b]) ELSE mbuf[b]]

\* onvm_nflib_return_pkt_bulk takes all the packets, or none and frees them
Returned(packets, room) ==
    [b \in Bufs |-> IF b \notin DOMAIN packets THEN mbuf[b]
                    ELSE IF room THEN packets[b] ELSE Freed(packets[b])]

Idle == [app |-> Off, credit |-> 0, last |-> 0, start |-> 0, sincePrint |-> 0, sent |-> 0,
         received |-> 0, sentSince |-> 0, receivedSince |-> 0, refused |-> 0, lost |-> 0, mistaken |-> 0]
Unused == [app |-> Off, number |-> 0, made |-> 0, marked |-> 0, refused |-> 0, lost |-> 0,
           handled |-> 0, latency |-> 0, latencyPkts |-> 0, mistaken |-> 0]

Init ==
    /\ mbuf = [b \in Bufs |-> [at |-> "pool", flags |-> {}, ts |-> 0, by |-> "net"]]
    /\ gen = Idle /\ test = Unused
    /\ now = 1 /\ real = 0 /\ wild = FALSE

Tick ==
    /\ now < MaxTime
    /\ now' = now + 1
    /\ UNCHANGED <<mbuf, gen, test, real, wild>>
-----------------------------------------------------------------------------
(* The load generator.                                                     *)

\* A destination is required.  Times are in cycles and the rate in parts for each cycle
gen_parse_app_args(argv) ==
    Parses(argv, ("d" :> 0) @@ ("p" :> 1) @@ ("t" :> 3) @@ ("s" :> 14), {"d"},
           ("d" :> Int) @@ ("p" :> Int) @@ ("t" :> Nat) @@ ("s" :> {n \in Nat : n >= 14}))

\* The setup takes the time before the loop starts; it fails without a pool
gen_main(argv) ==
    /\ gen.app.phase = "off"
    /\ \E registered, pool \in BOOLEAN :
          gen' = [gen EXCEPT !.app = Main(argv, registered, gen_parse_app_args(argv) /\ pool,
                                          ("d" :> 0) @@ ("p" :> 1) @@ ("t" :> 3) @@ ("s" :> 14)),
                             !.start = now, !.last = now]
    /\ UNCHANGED <<mbuf, test, now, real, wild>>

\* The flag is added to whatever flags the buffer had
Generated(m) == [m EXCEPT !.at = "dest", !.flags = @ \union {"gen"}, !.ts = now, !.by = "gen"]

\* Mutant: credit over a batch is forgotten
SpentAll(credit, batch) == credit % Part

Spent(credit, batch) == credit - Part * batch

\* The counters since the last display start again
gen_do_stats_display(g, delta) ==
    IF g.sincePrint + delta > g.app.arg["p"]
    THEN [g EXCEPT !.sincePrint = 0, !.sentSince = 0, !.receivedSince = 0]
    ELSE [g EXCEPT !.sincePrint = @ + delta]

\* The credit grows with the time since the last call and pays for the packets of a
\* batch.  When the pool runs out in the middle, the batch still goes to the manager in
\* its full length, and what the manager does with the rest is not followed
callback_handler ==
    LET delta == now - gen.last
        credit == gen.credit + delta * gen.app.arg["t"]
        batch == Min({credit \div Part, BatchLimit})
    IN  /\ Runs(gen.app) /\ delta > 0
        /\ IF credit < Part
           THEN /\ gen' = gen_do_stats_display([gen EXCEPT !.credit = credit, !.last = now], delta)
                /\ UNCHANGED <<mbuf, wild>>
           ELSE \E room \in BOOLEAN :
                \E s \in kSubset(Min({batch, Cardinality(Pool)}), Pool) :
                  /\ mbuf' = Returned([b \in s |-> Generated(mbuf[b])], room)
                  /\ wild' = (Cardinality(s) < batch)
                  /\ gen' = gen_do_stats_display(
                               [gen EXCEPT !.credit = Spent(credit, Cardinality(s)), !.last = now,
                                           !.sent = @ + Cardinality(s), !.sentSince = @ + Cardinality(s),
                                           !.refused = @ + (IF room THEN 0 ELSE Cardinality(s))], delta)
        /\ UNCHANGED <<test, now, real>>

\* Mutant: a packet is its own whatever its flags say
AnyIsMine(m) == TRUE

IsMine(m) == "gen" \in m.flags

\* Every packet ends here; those with the bit are counted
gen_packet_handler(b) ==
    LET mine == IF IsMine(mbuf[b]) THEN 1 ELSE 0
    IN  /\ Runs(gen.app) /\ mbuf[b].at = "gen"
        /\ gen' = [gen EXCEPT !.received = @ + mine, !.receivedSince = @ + mine,
                              !.mistaken = @ + (IF mbuf[b].by # "gen" /\ "gen" \in mbuf[b].flags THEN 1 ELSE 0)]
        /\ test' = [test EXCEPT !.lost = @ + (IF mbuf[b].by = "test" THEN 1 ELSE 0)]
        /\ mbuf' = AllFreed({b})
        /\ UNCHANGED <<now, real, wild>>
-----------------------------------------------------------------------------
(* The speed tester.                                                       *)

\* A number of packets above the size of a ring is refused, zero is not
test_parse_app_args(argv) ==
    Parses(argv, ("d" :> 0) @@ ("p" :> 3) @@ ("s" :> 14) @@ ("c" :> 0) @@ ("l" :> 0), {"d"},
           ("d" :> Int) @@ ("p" :> Nat) @@ ("s" :> Nat) @@ ("c" :> 0 .. MaxPkts) @@ ("l" :> {1}))

\* Mutant: the number of timed packets is taken for their distance
MarksEveryNth(i, n) == n < LatPkts \/ i % LatPkts = 0

\* Which of n packets carry a time
Marks(i, n) == n < LatPkts \/ i % (n \div LatPkts) = 0

\* Unlike the generator it sets the flags anew; the time starts at zero
Tested(m, marked) ==
    [m EXCEPT !.at = "dest", !.flags = {"test"} \union (IF marked THEN {"latency"} ELSE {}),
              !.ts = 0, !.by = "test"]

\* Creates as many packets as asked for and the pool has.  Only when there are none, though
\* some were asked for, it ends; a ring without room for them leaves it running with none
nf_setup(argv) ==
    LET want == IF "c" \in DOMAIN argv THEN argv["c"] ELSE DefaultPkts
        n == Min({want, Cardinality(Pool)})
        marks == IF "l" \in DOMAIN argv THEN Cardinality({i \in 0 .. n - 1 : Marks(i, want)}) ELSE 0
    IN  \E room \in BOOLEAN :
        \E s \in kSubset(n, Pool) :
        \E marked \in kSubset(marks, s) :
          /\ mbuf' = Returned([b \in s |-> Tested(mbuf[b], b \in marked)], room)
          /\ test' = [test EXCEPT !.app = IF n = 0 /\ want > 0 THEN Gone
                                          ELSE Main(argv, TRUE, TRUE, ("d" :> 0) @@ ("p" :> 3) @@ ("s" :> 14) @@ ("c" :> 0) @@ ("l" :> 0)),
                                  !.number = n, !.made = n, !.marked = marks,
                                  !.refused = IF room THEN 0 ELSE n]

test_main(argv) ==
    /\ test.app.phase = "off"
    /\ IF test_parse_app_args(argv)
       THEN \/ nf_setup(argv)
            \/ test' = [test EXCEPT !.app = Gone] /\ UNCHANGED mbuf
       ELSE test' = [test EXCEPT !.app = Gone] /\ UNCHANGED mbuf
    /\ UNCHANGED <<gen, now, real, wild>>

\* Mutant: the comparison sees the counter after it grew
CountsBefore(app) == Counted(app)

\* The display comes one packet late and adds the delay alone
test_do_stats_display(app) ==
    IF app.counter = app.arg["p"] THEN Display(app) ELSE [app EXCEPT !.counter = @ + 1]

\* A packet with the bit goes round again, with the time of this visit; others are dropped
test_packet_handler(b) ==
    LET m == mbuf[b]
        app == test_do_stats_display(test.app)
        shows == test.app.counter = test.app.arg["p"]
        timed == {"test", "latency"} \subseteq m.flags /\ test.app.arg["l"] = 1
        again == timed /\ m.ts # 0
        total == IF shows THEN 0 ELSE test.latency
        count == IF shows THEN 0 ELSE test.latencyPkts
    IN  /\ Runs(test.app) /\ m.at = "test" /\ test.handled < MaxVisits
        /\ test' = [test EXCEPT !.app = app, !.handled = @ + 1,
                                !.latency = IF again THEN total + now - m.ts ELSE total,
                                !.latencyPkts = IF again THEN count + 1 ELSE count,
                                !.mistaken = @ + (IF m.by # "test" /\ "test" \in m.flags THEN 1 ELSE 0)]
        /\ mbuf' = IF "test" \in m.flags
                   THEN [mbuf EXCEPT ![b].at = "dest", ![b].by = "test", ![b].ts = IF timed THEN now ELSE @]
                   ELSE AllFreed({b})
        /\ gen' = [gen EXCEPT !.lost = @ + (IF m.by = "gen" THEN 1 ELSE 0)]
        /\ UNCHANGED <<now, real, wild>>
-----------------------------------------------------------------------------
(* What is around them.                                                    *)

\* The destination sends a packet on to the one or the other function, or loses it
Destination(b) ==
    /\ mbuf[b].at = "dest"
    /\ \/ /\ \E to \in {"gen", "test"} : mbuf' = [mbuf EXCEPT ![b].at = to]
          /\ UNCHANGED <<gen, test>>
       \/ /\ mbuf' = AllFreed({b})
          /\ gen' = [gen EXCEPT !.lost = @ + (IF mbuf[b].by = "gen" THEN 1 ELSE 0)]
          /\ test' = [test EXCEPT !.lost = @ + (IF mbuf[b].by = "test" THEN 1 ELSE 0)]
    /\ UNCHANGED <<now, real, wild>>

\* A packet of the network comes in a buffer of the pool, whose flags are what they were
Receive(b, to) ==
    /\ mbuf[b].at = "pool" /\ real < MaxReal
    /\ real' = real + 1
    /\ mbuf' = [mbuf EXCEPT ![b].at = to, ![b].by = "net", ![b].ts = 0]
    /\ UNCHANGED <<gen, test, now, wild>>

Next ==
    /\ ~wild
    /\ \/ Tick
       \/ \E argv \in GenArgvs : gen_main(argv)
       \/ callback_handler
       \/ \E argv \in TestArgvs : test_main(argv)
       \/ \E b \in Bufs :
             \/ gen_packet_handler(b) \/ test_packet_handler(b) \/ Destination(b)
             \/ \E to \in {"gen", "test"} : Receive(b, to)

Spec == Init /\ [][Next]_vars
-----------------------------------------------------------------------------
On(who) == Cardinality({b \in Bufs : mbuf[b].by = who /\ mbuf[b].at # "pool"})

\* The rate is kept over any time: what was sent and the credit left are what the rate gives
\* since the start, also when calls come late and batches are cut
RateIsKept ==
    (Runs(gen.app) /\ ~wild) => gen.credit + Part * gen.sent = gen.app.arg["t"] * (gen.last - gen.start)

\* Every packet a function made is counted as received, refused by the ring, lost on the way
\* or still under way; what it counts beyond those came in buffers that kept its bit from an
\* earlier packet
MadeAreAccounted ==
    ~wild => /\ gen.sent + gen.mistaken = gen.received + gen.refused + gen.lost + On("gen")
             /\ test.made + test.mistaken = test.refused + test.lost + On("test")

\* Of a full batch at least LatPkts packets are timed, or all when there are fewer, and less
\* than twice as many
EnoughAreTimed ==
    (Runs(test.app) /\ test.app.arg["l"] = 1 /\ test.made = (IF test.app.arg["c"] = 0 THEN DefaultPkts ELSE test.app.arg["c"]))
        => /\ test.marked >= Min({test.made, LatPkts})
           /\ test.marked < 2 * LatPkts

\* The display of the tester lags: one packet of every round is not in the number shown
DisplayLags ==
    Runs(test.app) => LET p == test.app.arg["p"] IN test.app.shown = p * (test.handled \div (p + 1))
=============================================================================
