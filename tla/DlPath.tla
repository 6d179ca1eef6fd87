------------------------------- MODULE DlPath --------------------------------
(* The downlink packets of one session in its UPF-U worker: the burst loop of *)
(* the NF library, the decision of packet_handler, the session ring that      *)
(* holds packets while the FAR says BUFF, the shaper queue, the report of     *)
(* downlink data to UPF-C, and what UPF-C does to the FAR and to the session. *)
(*                                                                            *)
(* A packet is handled with one reference held by the burst; the ring and the *)
(* shaper take one more and let the burst drop its own.  The action a packet  *)
(* leaves the burst with is stored in the packet itself.                      *)
EXTENDS Naturals, Sequences, FiniteSets, Functions

CONSTANTS
    FarActions,     \* apply actions the SMF uses, of DROP, FORW and BUFF
    MaxPkts,        \* bound: downlink packets of the session
    BatchSize,      \* PACKET_READ_SIZE
    RingSize,       \* packets the session ring holds (SESS_RING_SIZE - 1)
    InlineDrain,    \* INLINE_DRAIN_BATCH
    MsgQueueSize,   \* messages an NF's ring holds
    MaxUpdates,     \* bound: FAR updates
    Shaped          \* whether packets of the session may exceed their token rates

VARIABLES
    far,        \* the FAR in shared memory
    srr,        \* session->srr_flag
    upc, old,   \* UPF-C: step of the handler, oldAction
    life,       \* the session and its ring exist, are removed, the worker knows
    ring,       \* g_sess_buf[i].ring
    touched,    \* g_sess_buf[i].touched
    shaper,     \* packets in the shaper queue of the session's flow
    burst, pos, \* the packets of the burst, the one handled now
    wpc, seen,  \* worker: step, far_action and the ring test of the packet
    action,     \* meta->action of each packet
    refs,       \* mbuf reference counts
    out,        \* how often each packet was handed to the TX thread
    wq, cq,     \* message rings of the worker and of UPF-C
    arrived,    \* number of packets received
    updates,    \* number of FAR updates
    clears,     \* number of times srr_flag was cleared
    reports,    \* number of Session Report Requests sent
    lost,       \* a message found the worker's ring full
    fault       \* the session ring was used after it was freed

upfc == <<far, srr, upc, old, life, updates, clears, reports>>
packets == <<ring, touched, shaper, action, refs, out>>
loop == <<burst, pos, wpc, seen, arrived>>
vars == <<upfc, packets, loop, wq, cq, lost, fault>>

Pkts == 1 .. MaxPkts
Far == [act : FarActions, nocp : BOOLEAN]
Occurrences(q, p) == Cardinality({i \in 1 .. Len(q) : q[i] = p})

TypeOK ==
    /\ far \in Far /\ old \in Far
    /\ srr \in BOOLEAN /\ touched \in BOOLEAN /\ lost \in BOOLEAN /\ fault \in BOOLEAN
    /\ life \in {"live", "removed", "flushed"}
    /\ upc \in {"idle", "notify"}
    /\ ring \in Seq(Pkts) /\ Len(ring) <= RingSize
    /\ shaper \in Seq(Pkts) /\ out \in [Pkts -> Nat]
    /\ burst \in Seq(Pkts) /\ Len(burst) <= BatchSize
    /\ pos \in 1 .. BatchSize + 1
    /\ wpc \in {"rx", "read", "act", "tx", "msg", "callback"}
    /\ seen \in [act : FarActions \cup {"DROP"}, ring : BOOLEAN]
    /\ action \in [Pkts -> {"DROP", "OUT"}]
    /\ refs \in [Pkts -> Nat]
    /\ wq \in Seq({"drain", "flush"}) /\ Len(wq) <= MsgQueueSize
    /\ cq \in 0 .. MsgQueueSize
    /\ arrived \in 0 .. MaxPkts /\ updates \in 0 .. MaxUpdates
    /\ clears \in Nat /\ reports \in Nat

Init ==
    /\ far \in {f \in Far : ~f.nocp} /\ old = far
    /\ srr = FALSE /\ life = "live" /\ touched = FALSE /\ lost = FALSE /\ fault = FALSE
    /\ upc = "idle"
    /\ ring = <<>> /\ shaper = <<>> /\ out = [p \in Pkts |-> 0]
    /\ burst = <<>> /\ pos = 1 /\ wpc = "rx" /\ seen = [act |-> "DROP", ring |-> FALSE]
    /\ action = [p \in Pkts |-> "DROP"]
    /\ refs = [p \in Pkts |-> 0]
    /\ wq = <<>> /\ cq = 0
    /\ arrived = 0 /\ updates = 0 /\ clears = 0 /\ reports = 0

-----------------------------------------------------------------------------
(* UPF-C.                                                                    *)

\* onvm_nflib_send_msg_to_nf to the worker.
SendWorker(msg) ==
    IF Len(wq) < MsgQueueSize
    THEN wq' = Append(wq, msg) /\ UNCHANGED lost
    ELSE lost' = TRUE /\ UNCHANGED wq

\* UpfN4HandleUpdateFar up to the store of the new values in the shared FAR.
UpdateFar(act, nocp) ==
    /\ ~fault /\ upc = "idle" /\ life = "live"
    /\ updates < MaxUpdates
    /\ old' = far
    /\ far' = [act |-> act, nocp |-> nocp]
    /\ updates' = updates + 1
    /\ upc' = "notify"
    /\ UNCHANGED <<srr, life, clears, reports, packets, loop, wq, cq, lost, fault>>

\* The rest of it: the drain event, then the report flag.
UpdateFarDone ==
    /\ ~fault /\ upc = "notify"
    /\ IF old.act = "BUFF" /\ far.act = "FORW"
       THEN SendWorker("drain")
       ELSE UNCHANGED <<wq, lost>>
    /\ IF old.nocp /\ ~far.nocp
       THEN srr' = FALSE /\ clears' = clears + 1
       ELSE UNCHANGED <<srr, clears>>
    /\ upc' = "idle"
    /\ UNCHANGED <<far, old, life, updates, reports, packets, loop, cq, fault>>

\* A mutant: srr_flag is not tested.
SessionReportEach(sent) ==
    /\ ~fault /\ upc = "idle"
    /\ cq > 0 /\ cq' = cq - 1
    /\ IF life = "live"
       THEN srr' = TRUE /\ reports' = IF sent THEN reports + 1 ELSE reports
       ELSE UNCHANGED <<srr, reports>>
    /\ UNCHANGED <<far, upc, old, life, updates, clears, packets, loop, wq, lost, fault>>

\* UPF_EVENT_SESSION_REPORT: the flag is set before the request is built and
\* before its transaction is created, either of which may fail.
SessionReport(sent) ==
    /\ ~fault /\ upc = "idle"
    /\ cq > 0 /\ cq' = cq - 1
    /\ IF life = "live" /\ ~srr
       THEN srr' = TRUE /\ reports' = IF sent THEN reports + 1 ELSE reports
       ELSE UNCHANGED <<srr, reports>>
    /\ UNCHANGED <<far, upc, old, life, updates, clears, packets, loop, wq, lost, fault>>

\* The ring is drained, its packets freed.
UpfSessBufRingDestroy ==
    /\ refs' = [p \in Pkts |-> refs[p] - Occurrences(ring, p)]
    /\ ring' = <<>> /\ touched' = FALSE

\* UpfN4HandleSessionDeletionRequest: the ring goes first, then the session
\* leaves the maps, and the worker is told to flush the shaper.
RemoveSession ==
    /\ ~fault /\ upc = "idle" /\ life = "live"
    /\ UpfSessBufRingDestroy
    /\ life' = "removed"
    /\ SendWorker("flush")
    /\ UNCHANGED <<far, srr, upc, old, updates, clears, reports, shaper, action, out,
                   loop, cq, fault>>

-----------------------------------------------------------------------------
(* UPF-U: one round of onvm_nflib_thread_main_loop.                          *)

\* A burst of packets is taken from rx_q, or none.
ReceiveBurst(n) ==
    /\ ~fault /\ wpc = "rx"
    /\ arrived + n <= MaxPkts
    /\ burst' = [i \in 1 .. n |-> arrived + i]
    /\ refs' = [p \in Pkts |-> IF p \in arrived + 1 .. arrived + n THEN 1 ELSE refs[p]]
    /\ arrived' = arrived + n
    /\ pos' = 1
    /\ wpc' = IF n = 0 THEN "msg" ELSE "read"
    /\ UNCHANGED <<upfc, ring, touched, shaper, action, out, seen, wq, cq, lost, fault>>

\* The packets are handed to the TX thread, once more each.
Send(set) == [p \in Pkts |-> IF p \in set THEN out[p] + 1 ELSE out[p]]

\* The first n packets leave the shaper queue: they get tokens and are sent,
\* except those that no longer fit a bucket, which are freed.
DrainShaper(n, unfit) ==
    LET sent == Range(SubSeq(shaper, 1, n)) \ unfit
    IN /\ shaper' = SubSeq(shaper, n + 1, Len(shaper))
       /\ action' = [p \in Pkts |-> IF p \in sent THEN "OUT" ELSE action[p]]
       /\ out' = Send(sent)
       /\ refs' = [p \in Pkts |-> IF p \in unfit THEN refs[p] - 1 ELSE refs[p]]

\* A mutant: ring_created is not tested.
HandlePacketNoRing(n, unfit) ==
    /\ ~fault /\ wpc = "read"
    /\ DrainShaper(n, unfit)
    /\ seen' = [act |-> far.act, ring |-> TRUE]
    /\ wpc' = "act"
    /\ UNCHANGED <<upfc, ring, touched, burst, pos, arrived, wq, cq, lost, fault>>

\* packet_handler up to the tests of the FAR and of the session ring.
HandlePacket(n, unfit) ==
    /\ ~fault /\ wpc = "read"
    /\ DrainShaper(n, unfit)
    /\ seen' = [act |-> far.act, ring |-> life = "live"]
    /\ wpc' = "act"
    /\ UNCHANGED <<upfc, ring, touched, burst, pos, arrived, wq, cq, lost, fault>>

\* The event of a packet whose FAR asks to notify the control plane.
Nocp == cq' = IF far.nocp /\ cq < MsgQueueSize THEN cq + 1 ELSE cq

\* The packet at hand leaves packet_handler with the action a.
Leave(a) ==
    /\ action' = [action EXCEPT ![burst[pos]] = a]
    /\ pos' = pos + 1
    /\ wpc' = IF pos = Len(burst) THEN "tx" ELSE "read"

\* DROP, or a session without ring.
DropPacket ==
    /\ ~fault /\ wpc = "act"
    /\ seen.act = "DROP" \/ ~seen.ring
    /\ Leave("DROP") /\ Nocp
    /\ UNCHANGED <<upfc, ring, touched, shaper, refs, out, burst, seen, arrived, wq, lost, fault>>

\* attach_l2_or_arp fails: the FAR names no tunnel endpoint, or no neighbour is
\* known for it.
NoNeighbour ==
    /\ ~fault /\ wpc = "act"
    /\ seen.act # "DROP" /\ seen.ring
    /\ Leave("DROP")
    /\ UNCHANGED <<upfc, ring, touched, shaper, refs, out, burst, seen, arrived, wq, cq,
                   lost, fault>>

\* A mutant: the reference is not taken back when the ring is full.
BufferPacketKeepsRef ==
    /\ ~fault /\ wpc = "act"
    /\ seen.act = "BUFF" /\ seen.ring
    /\ life = "live"
    /\ IF Len(ring) < RingSize
       THEN ring' = Append(ring, burst[pos]) /\ touched' = TRUE
       ELSE UNCHANGED <<ring, touched>>
    /\ refs' = [refs EXCEPT ![burst[pos]] = @ + 1]
    /\ Leave("DROP") /\ Nocp
    /\ UNCHANGED <<upfc, shaper, out, burst, seen, arrived, wq, lost, fault>>

\* rte_ring_sp_enqueue with a reference of its own, or nothing when it is full.
BufferPacket ==
    /\ ~fault /\ wpc = "act"
    /\ seen.act = "BUFF" /\ seen.ring
    /\ IF life # "live"
       THEN fault' = TRUE /\ UNCHANGED <<ring, touched, refs>>
       ELSE /\ IF Len(ring) < RingSize
               THEN /\ ring' = Append(ring, burst[pos]) /\ touched' = TRUE
                    /\ refs' = [refs EXCEPT ![burst[pos]] = @ + 1]
               ELSE UNCHANGED <<ring, touched, refs>>
            /\ UNCHANGED fault
    /\ Leave("DROP") /\ Nocp
    /\ UNCHANGED <<upfc, shaper, out, burst, seen, arrived, wq, lost>>

\* A mutant: an entry joins its flow at the head.
ShapePacketAtHead(queued) ==
    /\ ~fault /\ wpc = "act"
    /\ seen.act = "FORW" /\ seen.ring
    /\ queued /\ Shaped
    /\ shaper' = <<burst[pos]>> \o shaper
    /\ refs' = [refs EXCEPT ![burst[pos]] = @ + 1]
    /\ Leave("DROP") /\ Nocp
    /\ UNCHANGED <<upfc, ring, touched, out, burst, seen, arrived, wq, lost, fault>>

\* shape_or_enqueue_packet queues the packet, or drops it: it is red or too
\* large, or a queue, a table or the pool of entries is full.
ShapePacket(queued) ==
    /\ ~fault /\ wpc = "act"
    /\ seen.act = "FORW" /\ seen.ring
    /\ queued => Shaped
    /\ IF queued
       THEN /\ shaper' = Append(shaper, burst[pos])
            /\ refs' = [refs EXCEPT ![burst[pos]] = @ + 1]
       ELSE UNCHANGED <<shaper, refs>>
    /\ Leave("DROP") /\ Nocp
    /\ UNCHANGED <<upfc, ring, touched, out, burst, seen, arrived, wq, lost, fault>>

\* drain_session_batch: the first n packets of the ring are sent.
DrainSession(n) ==
    /\ ring' = SubSeq(ring, n + 1, Len(ring))
    /\ out' = Send(Range(SubSeq(ring, 1, n)))
    /\ touched' = (touched /\ n < Len(ring))

\* There are tokens and no queue: part of the ring goes out, then the packet.
ForwardPacket ==
    /\ ~fault /\ wpc = "act"
    /\ seen.act = "FORW" /\ seen.ring
    /\ shaper = <<>>
    /\ LET n == IF ~touched THEN 0 ELSE IF Len(ring) < InlineDrain THEN Len(ring) ELSE InlineDrain
           drained == Range(SubSeq(ring, 1, n)) \cup {burst[pos]}
       IN /\ DrainSession(n)
          /\ action' = [p \in Pkts |-> IF p \in drained THEN "OUT" ELSE action[p]]
    /\ pos' = pos + 1
    /\ wpc' = IF pos = Len(burst) THEN "tx" ELSE "read"
    /\ Nocp
    /\ UNCHANGED <<upfc, shaper, refs, burst, seen, arrived, wq, lost, fault>>

\* onvm_pkt_process_tx_batch on the burst: it frees what is to be dropped.
TransmitBurst ==
    /\ ~fault /\ wpc = "tx"
    /\ refs' = [p \in Pkts |-> IF p \in Range(burst) /\ action[p] = "DROP"
                               THEN refs[p] - 1 ELSE refs[p]]
    /\ out' = Send({p \in Range(burst) : action[p] = "OUT"})
    /\ burst' = <<>> /\ pos' = 1 /\ wpc' = "msg"
    /\ UNCHANGED <<upfc, ring, touched, shaper, action, seen, arrived, wq, cq, lost, fault>>

\* A mutant: a message may wait for ever.
NoMessageSkips ==
    /\ ~fault /\ wpc = "msg"
    /\ wpc' = "callback"
    /\ UNCHANGED <<upfc, packets, burst, pos, seen, arrived, wq, cq, lost, fault>>

\* onvm_nflib_dequeue_messages takes one message, if there is one.
NoMessage ==
    /\ ~fault /\ wpc = "msg"
    /\ wq = <<>>
    /\ wpc' = "callback"
    /\ UNCHANGED <<upfc, packets, burst, pos, seen, arrived, wq, cq, lost, fault>>

\* A mutant: the event drains no more than a packet does.
ClearAndDrainSome ==
    /\ ~fault /\ wpc = "msg"
    /\ wq # <<>> /\ Head(wq) = "drain" /\ wq' = Tail(wq)
    /\ LET n == IF Len(ring) < InlineDrain THEN Len(ring) ELSE InlineDrain
       IN /\ DrainSession(n)
          /\ action' = [p \in Pkts |-> IF p \in Range(SubSeq(ring, 1, n)) THEN "OUT" ELSE action[p]]
    /\ wpc' = "callback"
    /\ UNCHANGED <<upfc, shaper, refs, burst, pos, seen, arrived, cq, lost, fault>>

\* UPF_EVENT_CLEAR_AND_DRAIN
ClearAndDrain ==
    /\ ~fault /\ wpc = "msg"
    /\ wq # <<>> /\ Head(wq) = "drain" /\ wq' = Tail(wq)
    /\ DrainSession(Len(ring))
    /\ action' = [p \in Pkts |-> IF p \in Range(ring) THEN "OUT" ELSE action[p]]
    /\ wpc' = "callback"
    /\ UNCHANGED <<upfc, shaper, refs, burst, pos, seen, arrived, cq, lost, fault>>

\* UPF_EVENT_SHAPER_SESSION_REMOVE: shaper_flush_ue frees what is queued.
FlushShaper ==
    /\ ~fault /\ wpc = "msg"
    /\ wq # <<>> /\ Head(wq) = "flush" /\ wq' = Tail(wq)
    /\ refs' = [p \in Pkts |-> refs[p] - Occurrences(shaper, p)]
    /\ shaper' = <<>>
    /\ life' = "flushed"
    /\ wpc' = "callback"
    /\ UNCHANGED <<far, srr, upc, old, updates, clears, reports, ring, touched, action, out, burst, pos, seen, arrived, cq, lost, fault>>

\* callback_handler: drain_shaper_queues.
Callback(n, unfit) ==
    /\ ~fault /\ wpc = "callback"
    /\ DrainShaper(n, unfit)
    /\ wpc' = "rx"
    /\ UNCHANGED <<upfc, ring, touched, burst, pos, seen, arrived, wq, cq, lost, fault>>

-----------------------------------------------------------------------------
UpfC ==
    \/ \E act \in FarActions, nocp \in BOOLEAN : UpdateFar(act, nocp)
    \/ UpdateFarDone
    \/ \E sent \in BOOLEAN : SessionReport(sent)
    \/ RemoveSession

UpfU ==
    \/ \E n \in 0 .. BatchSize : ReceiveBurst(n)
    \/ \E n \in 0 .. Len(shaper) : \E unfit \in SUBSET Range(SubSeq(shaper, 1, n)) :
          HandlePacket(n, unfit) \/ Callback(n, unfit)
    \/ DropPacket \/ NoNeighbour \/ BufferPacket
    \/ \E queued \in BOOLEAN : ShapePacket(queued)
    \/ ForwardPacket
    \/ TransmitBurst
    \/ NoMessage \/ ClearAndDrain \/ FlushShaper

\* What follows the use of a freed ring is undefined: nothing more is said.
Undefined == fault /\ UNCHANGED vars

Next == UpfC \/ UpfU \/ Undefined

Spec == Init /\ [][Next]_vars

\* The worker polls for ever and UPF-C finishes the handler it is in.
FairSpec == Spec /\ WF_vars(UpfU) /\ WF_vars(UpdateFarDone)

-----------------------------------------------------------------------------
(* Properties.                                                               *)

\* A packet is freed when its last holder lets it go and not before: its
\* reference count is the number of places that still name it, over bursts,
\* the ring, the shaper and the transmit path (rte_mbuf_refcnt_update).
ReferencesAreExact ==
    \A p \in Pkts :
        refs[p] = Occurrences(burst, p) + Occurrences(ring, p) + Occurrences(shaper, p) + out[p]

\* Packets wait in the ring and in the shaper in the order they came, and a
\* packet waits in one of them only (packet_handler).
QueuesKeepOrder ==
    /\ \A q \in {ring, shaper} : \A i, j \in 1 .. Len(q) : i < j => q[i] < q[j]
    /\ Range(ring) \cap Range(shaper) = {}

\* The SMF gets one report for each time it turns notification off, and one
\* more, however many packets arrive and however late their events are
\* (srr_flag).
OneReportPerEpisode == reports <= clears + 1

\* "Flush it after the shared session maps have been removed so no new packet
\* can legitimately join the session": after the flush nothing of the session
\* is ever queued (UPF_EVENT_SHAPER_SESSION_REMOVE).
FlushIsFinal == life = "flushed" => shaper = <<>> /\ ring = <<>>

\* Packets are never stranded by an update from BUFF to FORW: as long as one
\* waits in the ring of a session that forwards, the drain event is on its way
\* (UPF_EVENT_CLEAR_AND_DRAIN).
NothingStranded ==
    ring # <<>> /\ far.act = "FORW" /\ upc = "idle" => "drain" \in Range(wq) \/ lost

Excused == lost \/ fault
MustSend == ring # <<>> /\ far.act = "FORW"

\* And the worker does send them, or the session changes again.
BufferedAreSent == MustSend ~> (~MustSend \/ Excused)

\* "Bump refcnt so the framework's rte_pktmbuf_free (DROP below) only decrements":
\* a packet that is queued leaves its burst as dropped, so it is sent only once.
SentOnce == \A p \in Pkts : out[p] <= 1

\* "if the action of srr has been done, then need to set the srr_flag to false":
\* while the FAR does not ask for notification the flag is clear, so that the
\* next time it asks a report is sent.
FlagFollowsNotification == upc = "idle" /\ ~far.nocp => ~srr

=============================================================================
