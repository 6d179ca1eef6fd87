------------------------------ MODULE BufPool ------------------------------
(***************************************************************************)
(* The buffers of the control plane.  A Bufblk is a descriptor from a      *)
(* queue of descriptors with a data buffer from the pool of its size       *)
(* class.  One thread takes and gives back: for the datagram and the       *)
(* message struct, for each value the parser allocates, and for the        *)
(* message built, which a transaction keeps until it ends.                 *)
(* A report's descriptor is given back twice.                              *)
(***************************************************************************)
EXTENDS Integers, Sequences, SequencesExt, FiniteSets, FiniteSetsExt

CONSTANTS Classes,      \* the capacities of the size classes, ascending
          NBlks,        \* descriptors
          NBufs,        \* data buffers of each class, a sequence
          Datagrams,    \* lengths of received messages
          MsgSize,      \* size of the message struct
          Values,       \* lengths of the values in a message: a sequence
          Bodies,       \* what a handler builds: sequences of elements, each a sequence of octets
          MaxXacts,     \* transactions that hold a packet
          MaxReports    \* reports sent

VARIABLES p,            \* the pools, the descriptors and the contents of the data buffers;
                        \* dead once NULL was followed, short once octets were left out
          hand,         \* what the thread holds: [phase, recv, msg, values]
          xacts,        \* the packets kept by transactions, with what they should contain
          reports       \* reports sent

vars == <<p, hand, xacts, reports>>

NULL == <<0, 0>>
Blks == 1..NBlks
Bufs == UNION {{<<c, i>> : i \in 1..NBufs[c]} : c \in DOMAIN Classes}
Freed == [buf |-> NULL, size |-> 0, len |-> 0]

\* PoolFree: a full pool refuses
PoolFree(q, cap, x) == IF Len(q) < cap THEN Append(q, x) ELSE q
ClassBelow(size) ==
    LET fits == {c \in DOMAIN Classes : size < Classes[c]} IN IF fits = {} THEN 0 ELSE Min(fits)
\* SelectBufblkOption: the smallest class that holds the size, 0 when none does
ClassOf(size) ==
    LET fits == {c \in DOMAIN Classes : size <= Classes[c]} IN IF fits = {} THEN 0 ELSE Min(fits)
\* BufAlloc: a data buffer, or NULL.  The buffers of a class are all alike: it matters how
\* often each is in the pool, not in which order
BufAlloc(s, size) ==
    LET c == ClassOf(size)
        there == {i \in 1..NBufs[c] : s.data[<<c, i>>] > 0}
    IN  IF c = 0 \/ (c # 0 /\ there = {}) THEN [s |-> s, to |-> Freed]
        ELSE [s |-> [s EXCEPT !.data[<<c, Min(there)>>] = @ - 1],
              to |-> [buf |-> <<c, Min(there)>>, size |-> Classes[c], len |-> 0]]

\* BufblkAlloc: the descriptor goes back when there is no data buffer
BufblkAlloc(s, size) ==
    IF s.blk = <<>> THEN [s |-> s, b |-> 0]
    ELSE LET b == Head(s.blk)
             a == BufAlloc([s EXCEPT !.blk = Tail(@)], size)
         IN  IF a.to = Freed
             THEN [s |-> [a.s EXCEPT !.d[b] = Freed, !.blk = PoolFree(@, NBlks, b)], b |-> 0]
             ELSE [s |-> [a.s EXCEPT !.d[b] = a.to, !.mem[a.to.buf] = <<>>], b |-> b]

\* The data buffer of a descriptor goes back to the class its size names; what it holds is
\* of no use then.  Its pool is never full when it comes (BuffersAreFreeOnce)
BufBack(s, to) ==
    IF to.buf = NULL THEN s
    ELSE [s EXCEPT !.data[<<ClassOf(to.size), to.buf[2]>>] = @ + 1, !.mem[to.buf] = <<>>]
BufFreeKeeps(s, b) == BufBack(s, s.d[b])
BufFree(s, b) == [BufBack(s, s.d[b]) EXCEPT !.d[b] = Freed]
\* BufblkFree: the descriptor goes back whether it had a data buffer or not
BufblkFree(s, b) == [BufFree(s, b) EXCEPT !.blk = PoolFree(@, NBlks, b)]

ResizeForgets(s, b, size) ==
    LET a == BufAlloc(s, size)
        old == s.d[b]
    IN  IF a.to = Freed THEN s
        ELSE [BufBack(a.s, old) EXCEPT !.d[b] = [a.to EXCEPT !.len = old.len],
                                        !.mem[a.to.buf] = [i \in 1..old.len |-> 0]]
\* BufblkResize: a new data buffer with what the old one held
BufblkResize(s, b, size) ==
    LET a == BufAlloc(s, size)
        old == s.d[b]
        n == Min({old.len, a.to.size})
    IN  IF a.to = Freed THEN s
        ELSE [BufBack(a.s, old) EXCEPT !.d[b] = [a.to EXCEPT !.len = n],
                                        !.mem[a.to.buf] = SubSeq(s.mem[old.buf], 1, n)]
\* BufblkBytes: octets at the end; nothing is added when a larger buffer cannot be had
BufblkBytes(s, b, octets) ==
    LET enough == s.d[b].size - s.d[b].len >= Len(octets)
        r == IF enough THEN s ELSE BufblkResize(s, b, s.d[b].size + Len(octets))
    IN  IF r.d[b].size - r.d[b].len < Len(octets) THEN [r EXCEPT !.short = TRUE]
        ELSE [r EXCEPT !.mem[r.d[b].buf] = SubSeq(@, 1, r.d[b].len) \o octets, !.d[b].len = @ + Len(octets)]

\* UTLT_Malloc and UTLT_Free: the size, with one unit for itself, is kept in front
UTLT_Malloc(s, size) ==
    LET a == BufAlloc(s, size + 1)
    IN  [s |-> IF a.to = Freed THEN s ELSE [a.s EXCEPT !.mem[a.to.buf] = <<size + 1>>], buf |-> a.to.buf]
UTLT_Free(s, buf) == BufBack(s, [buf |-> buf, size |-> s.mem[buf][1], len |-> 0])

Octets(s, b) == SubSeq(s.mem[s.d[b].buf], 1, s.d[b].len)

-----------------------------------------------------------------------------
\* What the thread is building: the body begun, the elements still to come, all of them
Nothing == [body |-> 0, todo |-> <<>>, all |-> <<>>]
Idle == [phase |-> "idle", recv |-> 0, msg |-> 0, values |-> <<>>, new |-> Nothing]
Building == hand.new # Nothing

\* packet_handler and the start of the dispatcher: the datagram and the message struct
Receive(n) ==
    /\ ~p.dead /\ hand = Idle
    /\ LET r == BufblkAlloc(p, n)
           m == BufblkAlloc(IF r.b = 0 THEN r.s ELSE [r.s EXCEPT !.d[r.b].len = n], MsgSize)
       IN  IF r.b = 0 THEN p' = r.s /\ UNCHANGED hand
           ELSE IF m.b = 0 THEN p' = BufblkFree(m.s, r.b) /\ UNCHANGED hand
           ELSE p' = m.s /\ hand' = [Idle EXCEPT !.phase = "got", !.recv = r.b, !.msg = m.b]
    /\ UNCHANGED <<xacts, reports>>

\* The parser allocates the values; when the two descriptors are one, the datagram is gone
RECURSIVE Mallocs(_, _, _)
Mallocs(s, sizes, got) ==
    IF sizes = <<>> THEN [s |-> s, got |-> got]
    ELSE LET a == UTLT_Malloc(s, Head(sizes))
         IN  IF a.buf = NULL THEN [s |-> [a.s EXCEPT !.dead = TRUE], got |-> got]
             ELSE Mallocs(a.s, Tail(sizes), Append(got, a.buf))
Parse ==
    /\ ~p.dead /\ hand.phase = "got"
    /\ LET m == Mallocs(p, IF hand.recv = hand.msg THEN <<>> ELSE Values, <<>>)
       IN  p' = m.s /\ hand' = [hand EXCEPT !.phase = "parsed", !.values = m.got]
    /\ UNCHANGED <<xacts, reports>>

\* PfcpBuildBody: a handler, or a report, begins an empty body.  A NULL descriptor is not
\* looked for, here and below
Begin(ies) ==
    /\ ~p.dead /\ ~Building /\ Len(xacts) < MaxXacts
    /\ \/ hand.phase = "parsed" /\ hand.recv # hand.msg /\ UNCHANGED reports
       \/ hand.phase = "idle" /\ reports < MaxReports /\ reports' = reports + 1
    /\ LET a == BufblkAlloc(p, 0)
       IN  IF a.b = 0 THEN p' = [a.s EXCEPT !.dead = TRUE] /\ UNCHANGED hand
           ELSE p' = a.s /\ hand' = [hand EXCEPT !.new = [body |-> a.b, todo |-> ies, all |-> ies]]
    /\ UNCHANGED xacts

\* The next element is built in a buffer of its own and copied
Element ==
    /\ ~p.dead /\ Building /\ hand.new.todo # <<>>
    /\ LET ie == Head(hand.new.todo)
           t == BufblkAlloc(p, Len(ie))
       IN  p' = IF t.b = 0 THEN [t.s EXCEPT !.dead = TRUE]
                ELSE BufblkFree(BufblkBytes(t.s, hand.new.body, ie), t.b)
    /\ hand' = [hand EXCEPT !.new.todo = Tail(@)]
    /\ UNCHANGED <<xacts, reports>>

\* PfcpXactUpdateTx: the packet is the header and the body; the body is freed, and the
\* transaction keeps the packet
Framed(a) ==
    BufblkFree(BufblkBytes([a.s EXCEPT !.d[a.b].len = 1, !.mem[a.s.d[a.b].buf] = <<9>>], a.b, Octets(a.s, hand.new.body)),
               hand.new.body)
PfcpXactUpdateTx(a) ==
    /\ ~p.dead /\ Building /\ hand.new.todo = <<>>
    /\ p' = IF a.b = 0 THEN [a.s EXCEPT !.dead = TRUE] ELSE Framed(a)
    /\ xacts' = IF a.b = 0 THEN xacts ELSE Append(xacts, [b |-> a.b, want |-> <<9>> \o FlattenSeq(hand.new.all)])
    /\ hand' = [hand EXCEPT !.new = Nothing, !.phase = IF @ = "idle" THEN "reported" ELSE "answered",
                            !.msg = IF hand.phase = "idle" THEN hand.new.body ELSE @]
    /\ UNCHANGED reports

\* PfcpStructFree and the two descriptors, whether there was an answer or not
RECURSIVE FreeAll(_, _)
FreeAll(s, bufs) == IF bufs = <<>> THEN s ELSE FreeAll(UTLT_Free(s, Head(bufs)), Tail(bufs))
FinishDropsMessage ==
    /\ ~p.dead /\ hand.phase \in {"parsed", "answered"} /\ ~Building
    /\ p' = BufblkFree(FreeAll(p, hand.values), hand.recv)
    /\ hand' = Idle
    /\ UNCHANGED <<xacts, reports>>
Finish ==
    /\ ~p.dead /\ hand.phase \in {"parsed", "answered"} /\ ~Building
    /\ p' = BufblkFree(BufblkFree(FreeAll(p, hand.values), hand.msg), hand.recv)
    /\ hand' = Idle
    /\ UNCHANGED <<xacts, reports>>
\* The end of a report: the body, which went with its transaction, is freed again
ReportDone ==
    /\ ~p.dead /\ hand.phase = "reported"
    /\ p' = BufblkFree(p, hand.msg)
    /\ hand' = Idle
    /\ UNCHANGED <<xacts, reports>>

\* A transaction ends: its timer or its node, or the response that is being handled
PfcpXactDelete(i) ==
    /\ ~p.dead /\ hand.phase \in {"idle", "parsed"} /\ ~Building /\ i \in DOMAIN xacts
    /\ p' = BufblkFree(p, xacts[i].b)
    /\ xacts' = RemoveAt(xacts, i)
    /\ UNCHANGED <<hand, reports>>

\* BufblkPoolInit
BufblkPoolInit ==
    [blk |-> [i \in Blks |-> i],
     data |-> [b \in Bufs |-> 1],
     d |-> [b \in Blks |-> Freed],
     mem |-> [b \in Bufs \cup {NULL} |-> <<>>],
     dead |-> FALSE, short |-> FALSE]

Init == p = BufblkPoolInit /\ hand = Idle /\ xacts = <<>> /\ reports = 0

Next ==
    \/ \E n \in Datagrams : Receive(n)
    \/ Parse
    \/ \E ies \in Bodies : Begin(ies)
    \/ Element
    \/ PfcpXactUpdateTx(BufblkAlloc(p, 1))
    \/ Finish
    \/ ReportDone
    \/ \E i \in 1..MaxXacts : PfcpXactDelete(i)

Spec == Init /\ [][Next]_vars
-----------------------------------------------------------------------------
Held == ({hand.recv, hand.new.body} \ {0}) \cup (IF hand.recv = 0 THEN {} ELSE {hand.msg}) \cup {xacts[i].b : i \in DOMAIN xacts}
Twice(q) == \E i, j \in DOMAIN q : i # j /\ q[i] = q[j]

\* A data buffer is in its pool once, and never while a descriptor or a value uses it;
\* this outlasts descriptors that are freed twice, since the first free takes the buffer
\* out of the descriptor (utlt_buff.c:240)
BuffersAreFreeOnce ==
    /\ \A b \in Bufs : p.data[b] \in {0, 1}
    /\ ~p.dead => \A b \in {p.d[x].buf : x \in Blks} \cup Range(hand.values) : b # NULL => p.data[b] = 0

\* Before the first report no descriptor is queued twice or while it is held, and when
\* everything was given back every pool is as full as at the start (the memory leak check
\* of BufblkPoolCheck)
PoolsAreExactBeforeReports ==
    reports = 0 /\ ~p.dead =>
        /\ ~Twice(p.blk) /\ Range(p.blk) \cap Held = {}
        /\ Held = {} => Len(p.blk) = NBlks /\ \A b \in Bufs : p.data[b] = 1

\* Each report costs at most one descriptor for ever, and the leak check cannot see it:
\* the queue holds another one twice (n4_dispatcher.c:70)
OneDescriptorPerReport ==
    ~p.dead => NBlks - Cardinality(Range(p.blk) \cup Held) <= reports

\* A packet that waits with its transaction is the header and the elements in order, also
\* when its buffer was replaced on the way, unless a pool was empty or a report has
\* spoiled the descriptors
KeptPacketsAreWhole ==
    reports = 0 /\ ~p.short /\ ~p.dead => \A i \in DOMAIN xacts : Octets(p, xacts[i].b) = xacts[i].want
=============================================================================
