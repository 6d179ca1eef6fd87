--------------------------- MODULE NfdFunctions ---------------------------
(***************************************************************************)
(* The eight functions generated from NFD models: three detectors that     *)
(* count SYNs by source, one that counts UDP packets, one that admits DNS  *)
(* answers only to those who asked, two firewalls and an address           *)
(* translator.  A behaviour is one of one function; st holds its tables,   *)
(* hist the packets it handled with its verdicts.                          *)
(***************************************************************************)
EXTENDS NfApp, Sequences, FiniteSets

CONSTANTS Packets,             \* the packets offered to each function
          Addrs,
          Width, Net,          \* bits of an address, and the inside network
          Base,                \* the address of the translator
          Threshold,
          FirstPort, PortMax,  \* ports given out, and the end of the port numbers
          MaxPkts,
          Argvs                \* command lines

VARIABLES fn, app, st, hist

vars == <<fn, app, st, hist>>

Functions == DOMAIN Packets
Defaults == ("d" :> 0) @@ ("p" :> 1000000)
Tables ==
    [mark |-> [a \in Addrs |-> 0], count |-> [a \in Addrs |-> 0], seen |-> {},
     port |-> FirstPort, list |-> <<>>]

\* The packet goes on as it is, or is dropped
Pass(s, p) == [st |-> s, ok |-> TRUE, pkt |-> p]
Drop(s, p) == [st |-> s, ok |-> FALSE, pkt |-> p]
-----------------------------------------------------------------------------
(* The functions.                                                          *)

\* operator<= of a host address: it has the prefix of the network
LE(a, net) == a \div 2 ^ (Width - net.bits) = net.ip \div 2 ^ (Width - net.bits)

\* The fields a function reads of an untagged frame: the detectors read everything, the
\* firewalls addresses only
Flow(p) == [sip |-> p.sip, dip |-> p.dip, sport |-> p.sport, dport |-> p.dport,
            udp |-> p.udp, syn |-> p.syn, fin |-> p.fin, ack |-> p.ack]
FlowAddresses(p) == [sip |-> p.sip, dip |-> p.dip]
FlowSource(p) == [sip |-> p.sip]
FlowPorts(p) == [sip |-> p.sip, dip |-> p.dip, sport |-> p.sport, dport |-> p.dport]

\* The header fields that are written back
clean(p, f) == [p EXCEPT !.sip = f.sip, !.dip = f.dip, !.sport = f.sport, !.dport = f.dport]

Mark(s, a, v) == [s EXCEPT !.mark[a] = v]
Add(s, a, d) == [s EXCEPT !.count[a] = @ + d]

\* Heavy hitters: the SYN that finds the threshold reached marks the source
HHD(s, p) ==
    IF p.syn /\ s.mark[p.sip] # 1 /\ s.count[p.sip] # Threshold THEN Pass(Add(s, p.sip, 1), p)
    ELSE IF p.syn /\ s.mark[p.sip] # 1 /\ s.count[p.sip] = Threshold THEN Pass(Mark(s, p.sip, 1), p)
    ELSE IF p.syn /\ s.mark[p.sip] = 1 THEN Drop(s, p)
    ELSE Pass(s, p)

\* Super spreaders: a FIN takes one off, and the mark
SSD(s, p) ==
    IF p.syn /\ s.mark[p.sip] = 1 THEN Drop(s, p)
    ELSE IF p.syn /\ s.count[p.sip] # Threshold THEN Pass(Add(s, p.sip, 1), p)
    ELSE IF p.syn THEN Pass(Mark(s, p.sip, 1), p)
    ELSE IF p.fin /\ s.mark[p.sip] = 1 THEN Pass(Mark(Add(s, p.sip, -1), p.sip, 0), p)
    ELSE IF p.fin THEN Pass(Add(s, p.sip, -1), p)
    ELSE Pass(s, p)

\* SYN floods: counted first, then judged; an ACK that is no SYN takes one off
SYNFD(s, p) ==
    IF p.syn THEN IF s.count[p.sip] + 1 >= Threshold THEN Drop(Add(s, p.sip, 1), p) ELSE Pass(Add(s, p.sip, 1), p)
    ELSE IF p.ack THEN Pass(Add(s, p.sip, -1), p)
    ELSE Pass(s, p)

\* Mutant: the counter starts again where the source should be marked
UDPFMUnmarked(s, p) ==
    IF p.udp /\ s.count[p.sip] # Threshold THEN Pass(Add(s, p.sip, 1), p)
    ELSE IF p.udp THEN Drop([s EXCEPT !.count[p.sip] = 0], p)
    ELSE Pass(s, p)

\* UDP floods: the packet that finds the threshold reached is dropped already
UDPFM(s, p) ==
    IF p.udp /\ s.mark[p.sip] = 1 THEN Drop(s, p)
    ELSE IF p.udp /\ s.count[p.sip] # Threshold THEN Pass(Add(s, p.sip, 1), p)
    ELSE IF p.udp THEN Drop(Mark(s, p.sip, 1), p)
    ELSE Pass(s, p)

\* DNS answers: an answer nobody asked for is readdressed to 0.0.0.0 and dropped.  The
\* shift by 32 in the mask of 0.0.0.0/0 decides whether a packet sent there is dropped too
DNSAM(s, p, hostMask) ==
    LET asked == IF p.dport = 53 THEN [s EXCEPT !.seen = @ \union {<<p.sip, p.dip>>}] ELSE s
        unasked == p.dport # 53 /\ p.sport = 53 /\ <<p.dip, p.sip>> \notin asked.seen
    IN  IF unasked \/ (p.dip = 0 /\ hostMask) THEN Drop(asked, p) ELSE Pass(asked, p)

\* Mutant: the source is remembered in place of the destination
StatefulSource(s, p) ==
    IF LE(p.sip, Net) THEN Pass([s EXCEPT !.seen = @ \union {p.sip}], p)
    ELSE IF p.sip \in s.seen THEN Pass(s, p) ELSE Drop(s, p)

stateful_firewall(s, p) ==
    IF LE(p.sip, Net) THEN Pass([s EXCEPT !.seen = @ \union {p.dip}], p)
    ELSE IF p.sip \in s.seen THEN Pass(s, p) ELSE Drop(s, p)

stateless_firewall(s, p) == IF LE(p.sip, Net) THEN Pass(s, p) ELSE Drop(s, p)

\* Mutant: the port is taken before it is counted up
NAPTLate(s, p) ==
    IF LE(p.sip, Net)
    THEN Pass([s EXCEPT !.list = Append(@, <<p.sip, p.sport>>), !.port = @ + 1],
              [p EXCEPT !.sip = Base, !.sport = (s.port + 1) % PortMax])
    ELSE IF p.dip = Base /\ p.dport - FirstPort + 1 \in DOMAIN s.list
         THEN Pass(s, [p EXCEPT !.dip = s.list[p.dport - FirstPort + 1][1], !.dport = s.list[p.dport - FirstPort + 1][2]])
         ELSE Drop(s, p)

\* Every packet from inside takes a port of its own; the header has 16 bits for it, the
\* counter more.  list[i] is the host and the port behind port FirstPort + i - 1
NAPT(s, p) ==
    IF LE(p.sip, Net)
    THEN Pass([s EXCEPT !.list = Append(@, <<p.sip, p.sport>>), !.port = @ + 1],
              [p EXCEPT !.sip = Base, !.sport = s.port % PortMax])
    ELSE IF p.dip = Base /\ p.dport - FirstPort + 1 \in DOMAIN s.list
         THEN Pass(s, [p EXCEPT !.dip = s.list[p.dport - FirstPort + 1][1], !.dport = s.list[p.dport - FirstPort + 1][2]])
         ELSE Drop(s, p)
-----------------------------------------------------------------------------
Init ==
    /\ fn \in Functions
    /\ app = Off
    /\ st = Tables
    /\ hist = <<>>

\* Each function reads the same two options and needs a destination
Reads(argv) == Parses(argv, Defaults, {"d"}, [o \in {"d", "p"} |-> Nat])
HHD_parse_app_args(argv) == Reads(argv)
SSD_parse_app_args(argv) == Reads(argv)
SYNFD_parse_app_args(argv) == Reads(argv)
UDPFM_parse_app_args(argv) == Reads(argv)
DNSAM_parse_app_args(argv) == Reads(argv)
stateful_parse_app_args(argv) == Reads(argv)
stateless_parse_app_args(argv) == Reads(argv)
NAPT_parse_app_args(argv) == Reads(argv)

\* The tables are made while the process starts, before main
HHD_main(argv, registered) == Main(argv, registered, HHD_parse_app_args(argv), Defaults)
SSD_main(argv, registered) == Main(argv, registered, SSD_parse_app_args(argv), Defaults)
SYNFD_main(argv, registered) == Main(argv, registered, SYNFD_parse_app_args(argv), Defaults)
UDPFM_main(argv, registered) == Main(argv, registered, UDPFM_parse_app_args(argv), Defaults)
DNSAM_main(argv, registered) == Main(argv, registered, DNSAM_parse_app_args(argv), Defaults)
stateful_main(argv, registered) == Main(argv, registered, stateful_parse_app_args(argv), Defaults)
stateless_main(argv, registered) == Main(argv, registered, stateless_parse_app_args(argv), Defaults)
NAPT_main(argv, registered) == Main(argv, registered, NAPT_parse_app_args(argv), Defaults)

main(argv, registered) ==
    /\ app = Off
    /\ app' = CASE fn = "HHD" -> HHD_main(argv, registered)
                [] fn = "SSD" -> SSD_main(argv, registered)
                [] fn = "SYNFD" -> SYNFD_main(argv, registered)
                [] fn = "UDPFM" -> UDPFM_main(argv, registered)
                [] fn = "DNSAM" -> DNSAM_main(argv, registered)
                [] fn = "stateful" -> stateful_main(argv, registered)
                [] fn = "stateless" -> stateless_main(argv, registered)
                [] fn = "NAPT" -> NAPT_main(argv, registered)
    /\ UNCHANGED <<fn, st, hist>>

Handle(p, r) ==
    /\ Runs(app) /\ Len(hist) < MaxPkts
    /\ st' = r.st
    /\ app' = Counted(app)
    /\ hist' = Append(hist, [p |-> p, ok |-> r.ok, out |-> IF r.ok /\ fn = "NAPT" THEN clean(p, r.pkt) ELSE p])
    /\ UNCHANGED fn

HHD_packet_handler(p) == fn = "HHD" /\ Handle(p, HHD(st, Flow(p)))

\* The action is set to send whatever the verdict was
SSD_packet_handler(p) == fn = "SSD" /\ Handle(p, [SSD(st, Flow(p)) EXCEPT !.ok = TRUE])
SYNFD_packet_handler(p) == fn = "SYNFD" /\ Handle(p, SYNFD(st, Flow(p)))
UDPFM_packet_handler(p) == fn = "UDPFM" /\ Handle(p, UDPFM(st, Flow(p)))
DNSAM_packet_handler(p) == fn = "DNSAM" /\ \E hostMask \in BOOLEAN : Handle(p, DNSAM(st, Flow(p), hostMask))
stateful_packet_handler(p) == fn = "stateful" /\ Handle(p, stateful_firewall(st, FlowAddresses(p)))
stateless_packet_handler(p) == fn = "stateless" /\ Handle(p, stateless_firewall(st, FlowSource(p)))
NAPT_packet_handler(p) == fn = "NAPT" /\ Handle(p, NAPT(st, FlowPorts(p)))

stop ==
    /\ Runs(app)
    /\ app' = [app EXCEPT !.phase = "gone"]
    /\ UNCHANGED <<fn, st, hist>>

Next ==
    \/ \E argv \in Argvs, registered \in BOOLEAN : main(argv, registered)
    \/ \E p \in Packets[fn] :
          \/ HHD_packet_handler(p) \/ SSD_packet_handler(p) \/ SYNFD_packet_handler(p)
          \/ UDPFM_packet_handler(p) \/ DNSAM_packet_handler(p) \/ NAPT_packet_handler(p)
          \/ stateful_packet_handler(p) \/ stateless_packet_handler(p)
    \/ stop

Spec == Init /\ [][Next]_vars
-----------------------------------------------------------------------------
(* The rule of each function, in terms of the packets it saw before.       *)

Before == {i \in 1 .. Len(hist) - 1 : TRUE}
Pkt(i) == hist[i].p
Last == hist[Len(hist)]
Number(S) == Cardinality(S)
SameSource(i) == Pkt(i).sip = Last.p.sip
Outbound == {i \in DOMAIN hist : LE(Pkt(i).sip, Net)}

\* The packet sent out that first took the wire port q
Owner(q) ==
    LET sent == {i \in Outbound : i < Len(hist) /\ hist[i].out.sport = q}
    IN  IF sent = {} \/ q < FirstPort THEN 0 ELSE CHOOSE i \in sent : \A j \in sent : i <= j

Rule ==
    CASE fn = "HHD" -> Last.p.syn => Number({i \in Before : Pkt(i).syn /\ SameSource(i)}) <= Threshold
      [] fn = "UDPFM" -> Last.p.udp => Number({i \in Before : Pkt(i).udp /\ SameSource(i)}) < Threshold
      [] fn = "SYNFD" -> Last.p.syn => Number({i \in DOMAIN hist : Pkt(i).syn /\ SameSource(i)})
                             - Number({i \in Before : ~Pkt(i).syn /\ Pkt(i).ack /\ SameSource(i)}) < Threshold
      [] fn = "DNSAM" -> \/ Last.p.dport = 53 \/ Last.p.sport # 53
                         \/ \E i \in Before : Pkt(i).dport = 53 /\ Pkt(i).sip = Last.p.dip /\ Pkt(i).dip = Last.p.sip
      [] fn = "stateful" -> LE(Last.p.sip, Net) \/ \E i \in Before : LE(Pkt(i).sip, Net) /\ Pkt(i).dip = Last.p.sip
      [] fn = "stateless" -> LE(Last.p.sip, Net)
      [] fn = "NAPT" -> LE(Last.p.sip, Net) \/ (Last.p.dip = Base /\ Owner(Last.p.dport) # 0)
      [] fn = "SSD" -> TRUE

\* A packet is let through just when the rule of the function says so for the packets
\* seen before, whatever their order; what is sent to 0.0.0.0 may be dropped besides
VerdictFollowsRule ==
    hist # <<>> => IF fn = "DNSAM" /\ Last.p.dip = 0 THEN Last.ok => Rule ELSE Last.ok = Rule

\* A reply goes to the host and port that sent the first packet from its port: those who
\* got the port after the numbers had wrapped do not get theirs
RepliesFindTheirSender ==
    hist # <<>> /\ fn = "NAPT" /\ ~LE(Last.p.sip, Net) /\ Last.ok =>
        LET i == Owner(Last.p.dport) IN Last.out.dip = Pkt(i).sip /\ Last.out.dport = Pkt(i).sport

\* A source that is marked has reached the threshold, and no counter exceeds it but that
\* of SYN floods, which counts on
MarksNeedTheThreshold ==
    \A a \in Addrs : /\ st.mark[a] = 1 => st.count[a] = Threshold
                     /\ fn # "SYNFD" => st.count[a] <= Threshold

\* What the display adds up and what was counted since is what was handled
ShownIsHandled == Runs(app) => app.shown + app.counter = Len(hist)
=============================================================================
