----------------------------- MODULE FairQueue -----------------------------
(***************************************************************************)
(* The fair queue function: one thread puts packets into the queue of      *)
(* their flow, a child thread takes them out in turn and sends them in     *)
(* batches.  A queue is a ring of slots with a spin lock; the look for a   *)
(* queue that is not empty is made without it.  The slots start empty, as  *)
(* the allocator of a release build hands out zeroed memory.               *)
(***************************************************************************)
EXTENDS Integers, Sequences, FiniteSets

CONSTANTS NumQueues,
          Flows, NotIp,        \* flows of packets
          Hash,                \* the queue of each flow
          Size,                \* QUEUE_SIZE
          Batch,               \* PKT_READ_SIZE
          MaxPkts, Null

VARIABLES fq,                  \* the queues
          qid,                 \* where the next look starts
          rx, tx,              \* the threads
          arrived,             \* packets taken from the receive ring
          out, lost,           \* batches the transmit ring took, and those it had no room for
          exit,                \* signal_exit_flag
          passed               \* packets sent of another queue while one had some

vars == <<fq, qid, rx, tx, arrived, out, lost, exit, passed>>

Queues == 0 .. NumQueues - 1

\* A thread stands at a point of its loop with the packet and queue in its hands
Thread == [pc |-> "loop", pkt |-> Null, q |-> 0, start |-> 0, batch |-> <<>>]

setup_fairqueue ==
    [q \in Queues |-> [head |-> 0, tail |-> 0, pkts |-> [i \in 0 .. Size - 1 |-> Null],
                       lock |-> "free", rx |-> 0, tx |-> 0, rx_drop |-> 0]]

Init ==
    /\ fq = setup_fairqueue
    /\ qid = 0
    /\ rx = Thread /\ tx = [Thread EXCEPT !.pc = "off"]
    /\ arrived = 0
    /\ out = <<>> /\ lost = {} /\ exit = FALSE
    /\ passed = [q \in Queues |-> [r \in Queues |-> 0]]

\* The child registers with the manager on its own; its failure leaves the queues unserved
start_child ==
    /\ tx.pc = "off"
    /\ \E pc \in {"loop", "gone"} : tx' = [tx EXCEPT !.pc = pc]
    /\ UNCHANGED <<fq, qid, rx, arrived, out, lost, exit, passed>>

\* A full batch goes to the ring as a whole or not at all, and is given up either way
Sent(batch, room) ==
    /\ out' = IF room THEN out \o batch ELSE out
    /\ lost' = IF room THEN lost ELSE lost \union {batch[i].pkt : i \in DOMAIN batch}
-----------------------------------------------------------------------------
(* The receiving thread.                                                   *)

Full(f) == f.head = f.tail /\ f.pkts[f.head] # Null
Put(f, p) == [f EXCEPT !.pkts[f.tail] = p, !.tail = (@ + 1) % Size]

\* A packet that finds no queue joins the batch of drops
Dropped(p) ==
    LET b == Append(rx.batch, [pkt |-> p, act |-> "drop"])
    IN  IF Len(b) = Batch
        THEN rx' = Thread /\ \E room \in BOOLEAN : Sent(b, room)
        ELSE rx' = [Thread EXCEPT !.batch = b] /\ UNCHANGED <<out, lost>>

\* Only an IPv4 packet has a flow
get_enqueue_qid(p) == IF p.flow = NotIp THEN -1 ELSE Hash[p.flow]

rx_loop(flow) ==
    LET p == [n |-> arrived + 1, flow |-> flow]
    IN  /\ rx.pc = "loop" /\ ~exit /\ arrived < MaxPkts
        /\ arrived' = arrived + 1
        /\ IF get_enqueue_qid(p) = -1 THEN Dropped(p)
           ELSE rx' = [rx EXCEPT !.pc = "lock", !.pkt = p, !.q = get_enqueue_qid(p)] /\ UNCHANGED <<out, lost>>
        /\ UNCHANGED <<fq, qid, tx, exit, passed>>

\* Under the lock.  A full queue is left without unlocking
fairqueue_enqueue ==
    LET f == fq[rx.q]
    IN  /\ rx.pc = "lock" /\ f.lock = "free"
        /\ IF Full(f)
           THEN fq' = [fq EXCEPT ![rx.q].rx_drop = @ + 1, ![rx.q].lock = "rx"] /\ Dropped(rx.pkt)
           ELSE /\ fq' = [fq EXCEPT ![rx.q] = [Put(f, rx.pkt) EXCEPT !.lock = "rx"]]
                /\ rx' = [rx EXCEPT !.pc = "unlock", !.pkt = Null]
                /\ UNCHANGED <<out, lost>>
        /\ UNCHANGED <<qid, tx, arrived, exit, passed>>

EnqueueUnlock ==
    /\ rx.pc = "unlock"
    /\ fq' = [fq EXCEPT ![rx.q].lock = "free", ![rx.q].rx = @ + 1]
    /\ rx' = [rx EXCEPT !.pc = "loop"]
    /\ UNCHANGED <<qid, tx, arrived, out, lost, exit, passed>>
-----------------------------------------------------------------------------
(* The sending thread.                                                     *)

\* Mutant: the next look starts where this one ended
PickedSticky(q) == q

Picked(q) == (q + 1) % NumQueues

\* One queue is looked at, and after a round without success the loop starts again
get_dequeue_qid ==
    LET empty == fq[qid].pkts[fq[qid].head] = Null
        next == (qid + 1) % NumQueues
    IN  /\ tx.pc = "scan" \/ (tx.pc = "loop" /\ ~exit)
        /\ qid' = IF empty THEN next ELSE Picked(qid)
        /\ LET start == IF tx.pc = "loop" THEN qid ELSE tx.start
           IN  tx' = [tx EXCEPT !.pc = IF ~empty THEN "lock" ELSE IF next = start THEN "loop" ELSE "scan",
                                !.q = qid, !.start = start]
        /\ UNCHANGED <<fq, rx, arrived, out, lost, exit, passed>>

\* Mutant: the slot keeps the packet
TakenKept(f) == [f EXCEPT !.head = (@ + 1) % Size]

Taken(f) == [f EXCEPT !.pkts[f.head] = Null, !.head = (@ + 1) % Size]

Waiting(q) == fq[q].pkts[fq[q].head] # Null

fairqueue_dequeue ==
    LET f == fq[tx.q]
    IN  /\ tx.pc = "lock" /\ f.lock = "free"
        /\ fq' = [fq EXCEPT ![tx.q] = [Taken(f) EXCEPT !.lock = "tx"]]
        /\ tx' = [tx EXCEPT !.pc = "unlock", !.pkt = f.pkts[f.head]]
        /\ passed' = [q \in Queues |-> [r \in Queues |->
                         IF q = tx.q \/ ~Waiting(q) THEN 0 ELSE passed[q][r] + (IF r = tx.q THEN 1 ELSE 0)]]
        /\ UNCHANGED <<qid, rx, arrived, out, lost, exit>>

\* The packet joins the batch, which is sent when it is full and never otherwise
tx_loop ==
    LET b == Append(tx.batch, [pkt |-> tx.pkt, act |-> "tonf"])
    IN  /\ tx.pc = "unlock"
        /\ fq' = [fq EXCEPT ![tx.q].lock = "free", ![tx.q].tx = @ + 1]
        /\ IF Len(b) = Batch
           THEN tx' = [tx EXCEPT !.pc = "loop", !.pkt = Null, !.batch = <<>>] /\ \E room \in BOOLEAN : Sent(b, room)
           ELSE tx' = [tx EXCEPT !.pc = "loop", !.pkt = Null, !.batch = b] /\ UNCHANGED <<out, lost>>
        /\ UNCHANGED <<qid, rx, arrived, exit, passed>>

\* A signal, or a stop message to either thread
sig_handler ==
    /\ ~exit
    /\ exit' = TRUE
    /\ UNCHANGED <<fq, qid, rx, tx, arrived, out, lost, passed>>

\* A thread that stands outside the lock sees the flag and ends
ThreadEnds ==
    /\ exit
    /\ \/ rx.pc = "loop" /\ rx' = [rx EXCEPT !.pc = "gone"] /\ UNCHANGED tx
       \/ tx.pc = "loop" /\ tx' = [tx EXCEPT !.pc = "gone"] /\ UNCHANGED rx
    /\ UNCHANGED <<fq, qid, arrived, out, lost, exit, passed>>

\* Only when both have ended the queues are freed, with the packets in them
destroy_fairqueue ==
    /\ rx.pc = "gone" /\ tx.pc = "gone"
    /\ rx' = [rx EXCEPT !.pc = "freed"]
    /\ UNCHANGED <<fq, qid, tx, arrived, out, lost, exit, passed>>

Next ==
    \/ start_child
    \/ ThreadEnds \/ destroy_fairqueue
    \/ \E flow \in Flows \union {NotIp} : rx_loop(flow)
    \/ fairqueue_enqueue \/ EnqueueUnlock
    \/ get_dequeue_qid \/ fairqueue_dequeue \/ tx_loop
    \/ sig_handler

Spec == Init /\ [][Next]_vars
-----------------------------------------------------------------------------
Mine(b) == {b[i].pkt : i \in DOMAIN b}
Held(t) == IF t.pkt = Null THEN {} ELSE {t.pkt}
InQueue(q) == {fq[q].pkts[i] : i \in 0 .. Size - 1} \ {Null}
Stored(q) == Cardinality({i \in 0 .. Size - 1 : fq[q].pkts[i] # Null})

\* Every packet that arrived is in one place: the hands of a thread, one slot of one queue,
\* a batch, the transmit ring, or given up with a batch.  The places together hold as many
\* packets as arrived
EachInOnePlace ==
    LET places == <<Held(rx), Held(tx), Mine(rx.batch), Mine(tx.batch), Mine(out), lost>>
        all == UNION ({places[i] : i \in DOMAIN places} \union {InQueue(q) : q \in Queues})
        RECURSIVE Count(_)
        Count(q) == IF q < 0 THEN 0 ELSE Stored(q) + Count(q - 1)
    IN  /\ {p.n : p \in all} = 1 .. arrived
        /\ Cardinality(Held(rx)) + Cardinality(Held(tx)) + Len(rx.batch) + Len(tx.batch) + Len(out)
              + Cardinality(lost) + Count(NumQueues - 1) = arrived

\* The packets of a queue, from the oldest
InOrder(q) ==
    LET f == fq[q]
        RECURSIVE From(_, _)
        From(i, k) == IF k = 0 \/ f.pkts[i] = Null THEN <<>> ELSE <<f.pkts[i]>> \o From((i + 1) % Size, k - 1)
    IN  From(f.head, Size)

\* The packets of a flow leave in the order they came: those sent, in the batch, in the
\* hands of the child and in the queue have rising numbers
FlowsKeepOrder ==
    \A flow \in Flows :
        LET Of(p) == p.flow = flow
            path == [i \in DOMAIN out |-> IF out[i].act = "tonf" THEN out[i].pkt ELSE [n |-> 0, flow |-> NotIp]]
                    \o [i \in DOMAIN tx.batch |-> tx.batch[i].pkt]
                    \o (IF tx.pkt = Null THEN <<>> ELSE <<tx.pkt>>) \o InOrder(Hash[flow])
            mine == SelectSeq(path, Of)
        IN  \A i, j \in DOMAIN mine : i < j => mine[i].n < mine[j].n

\* Between two packets of a queue that always has some, every other queue sends one at most
TurnsAreFair == \A q, r \in Queues : q # r => passed[q][r] <= 1

\* A queue that was full once stays locked and full for good: the packet that found it full
\* left without unlocking, so nobody is between lock and unlock of it again
FullIsForEver ==
    \A q \in Queues : fq[q].rx_drop > 0 =>
        /\ fq[q].rx_drop = 1 /\ fq[q].lock = "rx"
        /\ Stored(q) = Size
        /\ ~(rx.pc = "unlock" /\ rx.q = q) /\ ~(tx.pc = "unlock" /\ tx.q = q)
        /\ (tx.pc = "lock" /\ tx.q = q) => rx.pc # "freed"
=============================================================================
