----------------------------- MODULE NfForward ------------------------------
(***************************************************************************)
(* The way of a packet through OpenNetVM: the RX thread of the manager     *)
(* reads it from a port and puts it into a buffer per NF, the buffer goes  *)
(* into the ring of the NF, the NF handles it and sends it to another NF   *)
(* by buffers of its own or, through its tx ring and the TX thread, to a   *)
(* port (main.c, onvm_pkt.c, onvm_pkt_common.c, onvm_sc_common.c,          *)
(* onvm_nflib.c).  NFs start and stop under way (NfLife), seen here as     *)
(* changes of the service row, the status and the rings.                   *)
(*                                                                         *)
(* One service; packets are numbered as they arrive, and a packet's number *)
(* is its RSS hash.  Every handler hands the packet back with an action;   *)
(* one that keeps it is the subject of DlPath.  The two status tests on    *)
(* the way into a buffer and its ring are one step: a NF that stops        *)
(* between them leaves a ring that is gone to be written to.               *)
(***************************************************************************)
EXTENDS Integers, Sequences, FiniteSets, SequencesExt, FiniteSetsExt

CONSTANTS
    Nfs,            \* instance ids, as integers from 1
    Ports, Live,    \* ports, and the ones that are initialised
    ReadSize,       \* PACKET_READ_SIZE
    RingSize,       \* NF_QUEUE_RINGSIZE less one
    MaxPkts,        \* bound on packets
    MaxChanges      \* bound on starts and stops of NFs

VARIABLES
    row,            \* the service's row of instance ids
    rx_q, tx_q,     \* instance id -> ring
    work,           \* thread -> packets of its batch it has not handled
    meta,           \* packet -> action and destination
    nf_rx_bufs,     \* thread -> instance id -> buffer
    to_tx_buf,      \* instance id -> buffer of packets for the TX thread
    port_tx_bufs,   \* port -> buffer of the TX thread
    wire,           \* port -> packets sent
    freed, leaked,  \* packets given back to the pool, packets nobody holds
    arrived, changes

fwdVars == <<row, rx_q, tx_q, work, meta, nf_rx_bufs, to_tx_buf, port_tx_bufs, wire, freed,
             leaked, arrived, changes>>

RX == 0
TX == -1
Threads == {RX, TX} \cup Nfs
None == [action |-> "NEXT", dest |-> 0]
Valid(i) == i \in Range(row)

\* onvm_sc_service_to_nf_map.
onvm_sc_service_to_nf_map(p) == IF row = <<>> THEN 0 ELSE row[(p % Len(row)) + 1]

\* A ring takes all of the packets or none of them (rte_ring_enqueue_bulk).
Fits(ring, buf) == Len(ring) + Len(buf) <= RingSize

\* Mutant: the buffer keeps its packets after they went into the ring.
FlushKeeps(t, i) ==
    LET buf == nf_rx_bufs[t][i]
    IN  IF buf # <<>> /\ Valid(i) /\ Fits(rx_q[i], buf)
        THEN [ring |-> rx_q[i] \o buf, buf |-> buf, freed |-> {}]
        ELSE [ring |-> rx_q[i], buf |-> buf, freed |-> {}]

\* onvm_pkt_flush_nf_queue: a NF that does not run leaves the buffer as it is.
onvm_pkt_flush_nf_queue(t, i) ==
    LET buf == nf_rx_bufs[t][i]
    IN  IF ~Valid(i) THEN [ring |-> rx_q[i], buf |-> buf, freed |-> {}]
        ELSE IF Fits(rx_q[i], buf) THEN [ring |-> rx_q[i] \o buf, buf |-> <<>>, freed |-> {}]
        ELSE [ring |-> rx_q[i], buf |-> <<>>, freed |-> Range(buf)]

\* onvm_pkt_flush_all_nfs.
onvm_pkt_flush_all_nfs(t) ==
    LET after == [i \in Nfs |-> onvm_pkt_flush_nf_queue(t, i)]
    IN  /\ rx_q' = [i \in Nfs |-> after[i].ring]
        /\ nf_rx_bufs' = [nf_rx_bufs EXCEPT ![t] = [i \in Nfs |-> after[i].buf]]
        /\ freed' = freed \cup UNION {after[i].freed : i \in Nfs}

\* Mutant: a full buffer goes out behind the packet that did not fit any more.
EnqueueOvertakes(t, p) ==
    LET i   == onvm_sc_service_to_nf_map(p)
        buf == nf_rx_bufs[t][i]
    IN  IF i = 0 THEN freed' = freed \cup {p} /\ UNCHANGED <<rx_q, nf_rx_bufs>>
        ELSE IF Len(buf) + 1 < ReadSize \/ ~Fits(rx_q[i], Append(buf, p))
        THEN /\ nf_rx_bufs' = [nf_rx_bufs EXCEPT ![t][i] = Append(buf, p)]
             /\ UNCHANGED <<rx_q, freed>>
        ELSE /\ rx_q' = [rx_q EXCEPT ![i] = Append(@, p)]
             /\ UNCHANGED <<nf_rx_bufs, freed>>

\* onvm_pkt_enqueue_nf: into the buffer, and the buffer into the ring when it is full.
onvm_pkt_enqueue_nf(t, p) ==
    LET i   == onvm_sc_service_to_nf_map(p)
        buf == Append(nf_rx_bufs[t][i], p)
    IN  IF i = 0 THEN freed' = freed \cup {p} /\ UNCHANGED <<rx_q, nf_rx_bufs>>
        ELSE IF Len(buf) # ReadSize
        THEN nf_rx_bufs' = [nf_rx_bufs EXCEPT ![t][i] = buf] /\ UNCHANGED <<rx_q, freed>>
        ELSE /\ nf_rx_bufs' = [nf_rx_bufs EXCEPT ![t][i] = <<>>]
             /\ IF Fits(rx_q[i], buf)
                THEN rx_q' = [rx_q EXCEPT ![i] = @ \o buf] /\ UNCHANGED freed
                ELSE freed' = freed \cup Range(buf) /\ UNCHANGED rx_q

\* onvm_pkt_enqueue_tx_thread: what happens to a buffer on its way into the tx ring of i.
onvm_pkt_enqueue_tx_thread(i, buf) ==
    /\ to_tx_buf' = [to_tx_buf EXCEPT ![i] = <<>>]
    /\ tx_q' = IF Fits(tx_q[i], buf) THEN [tx_q EXCEPT ![i] = @ \o buf] ELSE tx_q

Lost(i, buf) == IF Fits(tx_q[i], buf) THEN {} ELSE Range(buf)

----------------------------------------------------------------------------
\* rx_thread_main: a burst from the port; with no NF running it is dropped.
rx_thread_main ==
    /\ work[RX] = <<>> /\ \A i \in Nfs : nf_rx_bufs[RX][i] = <<>> \/ ~Valid(i)
    /\ \E n \in 1..ReadSize :
         /\ arrived + n <= MaxPkts
         /\ arrived' = arrived + n
         /\ IF row = <<>>
            THEN freed' = freed \cup (arrived + 1)..(arrived + n) /\ UNCHANGED work
            ELSE work' = [work EXCEPT ![RX] = [k \in 1..n |-> arrived + k]] /\ UNCHANGED freed
    /\ UNCHANGED <<row, rx_q, tx_q, meta, nf_rx_bufs, to_tx_buf, port_tx_bufs, wire, leaked,
                   changes>>

\* onvm_pkt_process_rx_batch: the default chain sends every packet to the service.
RxOne ==
    /\ work[RX] # <<>>
    /\ onvm_pkt_enqueue_nf(RX, Head(work[RX]))
    /\ work' = [work EXCEPT ![RX] = Tail(@)]
    /\ UNCHANGED <<row, tx_q, meta, to_tx_buf, port_tx_bufs, wire, leaked, arrived, changes>>

RxFlush ==
    /\ work[RX] = <<>> /\ \E i \in Nfs : nf_rx_bufs[RX][i] # <<>> /\ Valid(i)
    /\ onvm_pkt_flush_all_nfs(RX)
    /\ UNCHANGED <<row, tx_q, work, meta, to_tx_buf, port_tx_bufs, wire, leaked, arrived,
                   changes>>

\* onvm_nflib_dequeue_packets: the handler gives every packet its action.
onvm_nflib_dequeue_packets(i) ==
    /\ Valid(i) /\ work[i] = <<>> /\ rx_q[i] # <<>>
    /\ LET n == IF Len(rx_q[i]) < ReadSize THEN Len(rx_q[i]) ELSE ReadSize
           pkts == SubSeq(rx_q[i], 1, n)
       IN  /\ work' = [work EXCEPT ![i] = pkts]
           /\ rx_q' = [rx_q EXCEPT ![i] = SubSeq(@, n + 1, Len(@))]
           /\ \E act \in {[action |-> "DROP", dest |-> 0], [action |-> "TONF", dest |-> 0]}
                       \cup {[action |-> "OUT", dest |-> o] : o \in Ports} :
                meta' = [p \in DOMAIN meta |-> IF p \in Range(pkts) THEN act ELSE meta[p]]
    /\ UNCHANGED <<row, tx_q, nf_rx_bufs, to_tx_buf, port_tx_bufs, wire, freed, leaked, arrived,
                   changes>>

\* onvm_pkt_process_tx_batch in the NF.
NfOne(i) ==
    /\ Valid(i) /\ work[i] # <<>>
    /\ LET p   == Head(work[i])
           buf == Append(to_tx_buf[i], p)
       IN  CASE meta[p].action = "DROP" ->
                  freed' = freed \cup {p} /\ UNCHANGED <<rx_q, nf_rx_bufs, tx_q, to_tx_buf>>
             [] meta[p].action = "TONF" ->
                  onvm_pkt_enqueue_nf(i, p) /\ UNCHANGED <<tx_q, to_tx_buf>>
             [] meta[p].action = "OUT" ->
                  /\ IF Len(buf) = ReadSize
                     THEN onvm_pkt_enqueue_tx_thread(i, buf) /\ freed' = freed \cup Lost(i, buf)
                     ELSE /\ to_tx_buf' = [to_tx_buf EXCEPT ![i] = buf]
                          /\ UNCHANGED <<tx_q, freed>>
                  /\ UNCHANGED <<rx_q, nf_rx_bufs>>
    /\ work' = [work EXCEPT ![i] = Tail(@)]
    /\ UNCHANGED <<row, meta, port_tx_bufs, wire, leaked, arrived, changes>>

\* The end of an iteration of onvm_nflib_thread_main_loop.
NfFlush(i) ==
    /\ Valid(i) /\ work[i] = <<>>
    /\ to_tx_buf[i] # <<>> \/ \E j \in Nfs : nf_rx_bufs[i][j] # <<>> /\ Valid(j)
    /\ LET after == [j \in Nfs |-> onvm_pkt_flush_nf_queue(i, j)]
       IN  /\ rx_q' = [j \in Nfs |-> after[j].ring]
           /\ nf_rx_bufs' = [nf_rx_bufs EXCEPT ![i] = [j \in Nfs |-> after[j].buf]]
           /\ freed' = freed \cup UNION {after[j].freed : j \in Nfs} \cup Lost(i, to_tx_buf[i])
    /\ onvm_pkt_enqueue_tx_thread(i, to_tx_buf[i])
    /\ UNCHANGED <<row, work, meta, port_tx_bufs, wire, leaked, arrived, changes>>

\* tx_thread_main: a burst from the tx ring of a NF.
tx_thread_main(i) ==
    /\ Valid(i) /\ work[TX] = <<>> /\ tx_q[i] # <<>>
    /\ LET n == IF Len(tx_q[i]) < ReadSize THEN Len(tx_q[i]) ELSE ReadSize
       IN  /\ work' = [work EXCEPT ![TX] = SubSeq(tx_q[i], 1, n)]
           /\ tx_q' = [tx_q EXCEPT ![i] = SubSeq(@, n + 1, Len(@))]
    /\ UNCHANGED <<row, rx_q, meta, nf_rx_bufs, to_tx_buf, port_tx_bufs, wire, freed, leaked,
                   arrived, changes>>

\* onvm_pkt_enqueue_port, with onvm_pkt_flush_port_queue when the buffer is full.
onvm_pkt_enqueue_port ==
    /\ work[TX] # <<>>
    /\ LET p   == Head(work[TX])
           o   == meta[p].dest
           buf == Append(port_tx_bufs[o], p)
       IN  IF o \notin Live THEN leaked' = leaked \cup {p} /\ UNCHANGED <<port_tx_bufs, wire, freed>>
           ELSE IF Len(buf) # ReadSize
           THEN /\ port_tx_bufs' = [port_tx_bufs EXCEPT ![o] = buf]
                /\ UNCHANGED <<wire, freed, leaked>>
           ELSE \E sent \in 0..Len(buf) :
                /\ wire' = [wire EXCEPT ![o] = @ \o SubSeq(buf, 1, sent)]
                /\ freed' = freed \cup Range(SubSeq(buf, sent + 1, Len(buf)))
                /\ port_tx_bufs' = [port_tx_bufs EXCEPT ![o] = <<>>]
                /\ UNCHANGED leaked
    /\ work' = [work EXCEPT ![TX] = Tail(@)]
    /\ UNCHANGED <<row, rx_q, tx_q, meta, nf_rx_bufs, to_tx_buf, arrived, changes>>

\* onvm_pkt_flush_all_ports: the device may take fewer packets than it is given.
onvm_pkt_flush_port_queue(o) ==
    /\ work[TX] = <<>> /\ port_tx_bufs[o] # <<>>
    /\ \E sent \in 0..Len(port_tx_bufs[o]) :
         /\ wire' = [wire EXCEPT ![o] = @ \o SubSeq(port_tx_bufs[o], 1, sent)]
         /\ freed' = freed \cup Range(SubSeq(port_tx_bufs[o], sent + 1, Len(port_tx_bufs[o])))
    /\ port_tx_bufs' = [port_tx_bufs EXCEPT ![o] = <<>>]
    /\ UNCHANGED <<row, rx_q, tx_q, work, meta, nf_rx_bufs, to_tx_buf, leaked, arrived, changes>>

\* A NF becomes ready with empty rings and buffers.
NfStarts(i) ==
    /\ ~Valid(i) /\ changes < MaxChanges
    /\ row' = Append(row, i)
    /\ changes' = changes + 1
    /\ UNCHANGED <<rx_q, tx_q, work, meta, nf_rx_bufs, to_tx_buf, port_tx_bufs, wire, freed,
                   leaked, arrived>>

\* A NF stops between two iterations: the manager frees what is in its rings, and
\* onvm_nflib_cleanup the buffers of its tx manager with what is left in them.
NfStops(i) ==
    /\ Valid(i) /\ changes < MaxChanges /\ work[i] = <<>> /\ to_tx_buf[i] = <<>>
    /\ row' = SelectSeq(row, LAMBDA j : j # i)
    /\ freed' = freed \cup Range(rx_q[i]) \cup Range(tx_q[i])
    /\ leaked' = leaked \cup UNION {Range(nf_rx_bufs[i][j]) : j \in Nfs}
    /\ nf_rx_bufs' = [nf_rx_bufs EXCEPT ![i] = [j \in Nfs |-> <<>>]]
    /\ rx_q' = [rx_q EXCEPT ![i] = <<>>]
    /\ tx_q' = [tx_q EXCEPT ![i] = <<>>]
    /\ changes' = changes + 1
    /\ UNCHANGED <<work, meta, to_tx_buf, port_tx_bufs, wire, arrived>>

Init ==
    /\ row = <<>> /\ arrived = 0 /\ changes = 0
    /\ rx_q = [i \in Nfs |-> <<>>] /\ tx_q = [i \in Nfs |-> <<>>]
    /\ to_tx_buf = [i \in Nfs |-> <<>>]
    /\ work = [t \in Threads |-> <<>>]
    /\ nf_rx_bufs = [t \in Threads \ {TX} |-> [i \in Nfs |-> <<>>]]
    /\ port_tx_bufs = [o \in Ports |-> <<>>] /\ wire = [o \in Ports |-> <<>>]
    /\ meta = [p \in 1..MaxPkts |-> None]
    /\ freed = {} /\ leaked = {}

Next ==
    \/ rx_thread_main \/ RxOne \/ RxFlush \/ onvm_pkt_enqueue_port
    \/ \E o \in Ports : onvm_pkt_flush_port_queue(o)
    \/ \E i \in Nfs : \/ onvm_nflib_dequeue_packets(i) \/ NfOne(i) \/ NfFlush(i)
                      \/ tx_thread_main(i) \/ NfStarts(i) \/ NfStops(i)

Spec == Init /\ [][Next]_fwdVars

----------------------------------------------------------------------------
Count(s, p) == Cardinality({k \in DOMAIN s : s[k] = p})
CountIn(f, p) == MapThenSumSet(LAMBDA x : Count(f[x], p), DOMAIN f)

\* A packet that arrived is in exactly one place: a batch, a buffer, a ring, on the wire,
\* back in the pool, or with nobody; so no packet is sent twice, or freed and sent.
\* The buffers change hands by copying pointers, which is how it could go wrong.
PacketsAreInOnePlace ==
    \A p \in 1..arrived :
        CountIn(work, p) + CountIn(rx_q, p) + CountIn(tx_q, p) + CountIn(to_tx_buf, p)
        + CountIn(port_tx_bufs, p) + CountIn(wire, p)
        + MapThenSumSet(LAMBDA t : CountIn(nf_rx_bufs[t], p), DOMAIN nf_rx_bufs)
        + Cardinality({s \in {1, 2} : p \in IF s = 1 THEN freed ELSE leaked}) = 1

\* A NF gets the packets that come from the RX thread in the order in which they arrived,
\* whatever starts and stops: what waits in its ring is older than what waits in the
\* buffer for it, also after the ring refused a burst or the NF was away for a while.
ArrivalOrderIsKept ==
    \A i \in Nfs :
        LET line == SelectSeq(rx_q[i] \o nf_rx_bufs[RX][i], LAMBDA p : meta[p] = None)
        IN  \A a, b \in DOMAIN line : a < b => line[a] < line[b]
=============================================================================
