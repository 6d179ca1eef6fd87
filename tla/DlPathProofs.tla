---------------------------- MODULE DlPathProofs -----------------------------
(* Proofs about DlPath, for every number of packets and updates and every     *)
(* size of bursts, rings and queues: the order of the queues, the end of a    *)
(* session, the drain after an update, the number of reports and the          *)
(* reference counts of the packets.                                           *)
EXTENDS DlPath, FiniteSetTheorems, TLAPS

\* What the proofs take of the constants.
Sizes ==
    /\ MaxPkts \in Nat /\ BatchSize \in Nat /\ RingSize \in Nat
    /\ InlineDrain \in Nat /\ MsgQueueSize \in Nat

-----------------------------------------------------------------------------
(* The inductive invariants.                                                  *)

\* The part of the types that the other invariants need.
Shapes ==
    /\ far \in Far /\ old \in Far
    /\ ring \in Seq(Nat) /\ shaper \in Seq(Nat) /\ burst \in Seq(Nat)
    /\ wq \in Seq({"drain", "flush"})
    /\ pos \in Nat \ {0} /\ arrived \in Nat /\ reports \in Nat /\ clears \in Nat
    /\ wpc \in {"read", "act"} => pos <= Len(burst)

Increasing(q) == \A i, j \in 1 .. Len(q) : i < j => q[i] < q[j]

\* The packets of a burst are newer than all that wait, from the one at hand on.
OrderInv ==
    /\ Increasing(burst) /\ Increasing(ring) /\ Increasing(shaper)
    /\ \A i \in 1 .. Len(burst) : burst[i] <= arrived
    /\ \A i \in 1 .. Len(ring) : ring[i] <= arrived
    /\ \A i \in 1 .. Len(shaper) : shaper[i] <= arrived
    /\ wpc \in {"read", "act"} => /\ \A i \in 1 .. Len(ring) : ring[i] < burst[pos]
                                  /\ \A i \in 1 .. Len(shaper) : shaper[i] < burst[pos]
    /\ \A i \in 1 .. Len(ring), j \in 1 .. Len(shaper) : ring[i] # shaper[j]

\* The worker is told to flush after the session is gone, and handles that
\* between bursts, so that no packet decided before it is queued after it.
LifeInv ==
    /\ life # "live" => ring = <<>>
    /\ \A i \in 1 .. Len(wq) : wq[i] = "flush" => life # "live"
    /\ life = "flushed" => shaper = <<>> /\ (wpc = "act" => ~seen.ring)

Pending == lost \/ \E i \in 1 .. Len(wq) : wq[i] = "drain"

\* Packets that wait, or are about to, in spite of a FAR that forwards.
Waiting == far.act = "FORW" /\ (ring # <<>> \/ (wpc = "act" /\ seen.act = "BUFF"))

\* They have a drain event, or UPF-C is about to send it.
DrainInv == Waiting => Pending \/ (upc = "notify" /\ old.act = "BUFF")

\* The flag stands for a report that no clearing has paid for.
ReportInv == reports <= clears + (IF srr THEN 1 ELSE 0)

-----------------------------------------------------------------------------
(* Facts about sequences.                                                     *)

\* A bound on the entries of a queue.
LEMMA RangeBelow ==
    ASSUME NEW q \in Seq(Nat), NEW a, \A i \in 1 .. Len(q) : q[i] <= a
    PROVE  \A p \in Range(q) : p <= a
BY DEF Range

\* A reference of the burst is given up, or becomes one of the network's.
LEMMA ReferencesMove ==
    ASSUME NEW r \in Nat, NEW x \in {0, 1}, NEW y \in {0, 1}, NEW n \in Nat, r = 1 + x + y + n
    PROVE  /\ r - 1 \in Nat /\ r - 1 = 0 + x + y + n
           /\ n + 1 \in Nat /\ r = 0 + x + y + (n + 1)
OBVIOUS

\* What is left of a queue of packets when its first n have gone.
LEMMA RestOfQueue ==
    ASSUME NEW q \in Seq(Nat), NEW n \in 0 .. Len(q)
    PROVE  LET r == SubSeq(q, n + 1, Len(q))
           IN /\ r \in Seq(Nat) /\ Len(r) = Len(q) - n
              /\ \A i \in 1 .. Len(r) : r[i] = q[n + i]
              /\ n = Len(q) => r = <<>>
              /\ q = <<>> => r = <<>>
  OBVIOUS

\* A queue with one packet more.
LEMMA LongerQueue ==
    ASSUME NEW q \in Seq(Nat), NEW p \in Nat
    PROVE  /\ Append(q, p) \in Seq(Nat) /\ Len(Append(q, p)) = Len(q) + 1
           /\ \A i \in 1 .. Len(q) : Append(q, p)[i] = q[i]
           /\ Append(q, p)[Len(q) + 1] = p
  OBVIOUS

\* SendWorker adds its message or notes that it is lost, and loses no other.
LEMMA SendWorkerFacts ==
    ASSUME wq \in Seq({"drain", "flush"}), NEW msg \in {"drain", "flush"}, SendWorker(msg)
    PROVE  /\ wq' \in Seq({"drain", "flush"})
           /\ \A i \in 1 .. Len(wq') : wq'[i] = msg \/ (i \in 1 .. Len(wq) /\ wq'[i] = wq[i])
           /\ \A i \in 1 .. Len(wq) : i \in 1 .. Len(wq') /\ wq'[i] = wq[i]
           /\ lost' \/ \E i \in 1 .. Len(wq') : wq'[i] = msg
           /\ lost => lost'
  BY DEF SendWorker

\* Taking the first message keeps the others.
LEMMA TakeFirst ==
    ASSUME NEW q \in Seq({"drain", "flush"}), q # <<>>
    PROVE  /\ Tail(q) \in Seq({"drain", "flush"}) /\ Head(q) = q[1]
           /\ Len(q) >= 1 /\ Len(Tail(q)) = Len(q) - 1
           /\ \A i \in 1 .. Len(Tail(q)) : Tail(q)[i] = q[i + 1]
  OBVIOUS

-----------------------------------------------------------------------------
(* What the steps of the worker do to the queues.                             *)

\* The packet at hand leaves the handler, and the next one is at hand.
LEMMA LeaveFacts ==
    ASSUME Shapes, wpc = "act", NEW a, Leave(a)
    PROVE  pos' = pos + 1 /\ wpc' \in {"read", "tx"} /\ (wpc' = "read" => pos + 1 <= Len(burst))
  <1>1. pos' = pos + 1 /\ wpc' = IF pos = Len(burst) THEN "tx" ELSE "read"
    BY DEF Leave
  <1>2. pos \in Nat /\ Len(burst) \in Nat /\ pos <= Len(burst)
    BY DEF Shapes
  <1> QED
    BY <1>1, <1>2

\* The shaper lets some of its first packets go.
LEMMA DrainShaperFacts ==
    ASSUME Shapes, NEW n \in 0 .. Len(shaper), NEW unfit, DrainShaper(n, unfit)
    PROVE  /\ shaper' \in Seq(Nat) /\ Len(shaper') = Len(shaper) - n
           /\ \A i \in 1 .. Len(shaper') : shaper'[i] = shaper[n + i]
           /\ shaper = <<>> => shaper' = <<>>
  <1>1. shaper' = SubSeq(shaper, n + 1, Len(shaper)) /\ shaper \in Seq(Nat)
    BY DEF DrainShaper, Shapes
  <1> QED
    BY <1>1, RestOfQueue

\* ForwardPacket sends some of the first packets of the ring.
LEMMA ForwardFacts ==
    ASSUME Sizes, Shapes, ForwardPacket
    PROVE  /\ wpc = "act" /\ seen.act = "FORW" /\ seen.ring /\ UNCHANGED <<upfc, shaper, burst, seen, arrived, wq, lost>>
           /\ pos' = pos + 1 /\ wpc' \in {"read", "tx"} /\ (wpc' = "read" => pos + 1 <= Len(burst))
           /\ \E n \in 0 .. Len(ring) :
                 /\ ring' \in Seq(Nat) /\ Len(ring') = Len(ring) - n
                 /\ \A i \in 1 .. Len(ring') : ring'[i] = ring[n + i]
                 /\ ring = <<>> => ring' = <<>>
  <1> DEFINE n == IF ~touched THEN 0 ELSE IF Len(ring) < InlineDrain THEN Len(ring) ELSE InlineDrain
  <1>1. /\ wpc = "act" /\ seen.act = "FORW" /\ seen.ring /\ UNCHANGED <<upfc, shaper, burst, seen, arrived, wq, lost>>
        /\ pos' = pos + 1 /\ wpc' = IF pos = Len(burst) THEN "tx" ELSE "read"
        /\ ring' = SubSeq(ring, n + 1, Len(ring))
    BY DEF ForwardPacket, DrainSession
  <1>2. ring \in Seq(Nat) /\ Len(ring) \in Nat /\ InlineDrain \in Nat
    BY DEF Shapes, Sizes
  <1>3. n \in 0 .. Len(ring)
    BY <1>2
  <1>4. pos \in Nat /\ Len(burst) \in Nat /\ pos <= Len(burst)
    BY <1>1 DEF Shapes
  <1>5. wpc' \in {"read", "tx"} /\ (wpc' = "read" => pos + 1 <= Len(burst))
    BY <1>1, <1>4
  <1> HIDE DEF n
  <1> QED
    BY <1>1, <1>2, <1>3, <1>5, RestOfQueue, ZenonT(30)

\* BufferPacket leaves the session ring as it is or adds the packet at hand.
LEMMA BufferFacts ==
    ASSUME BufferPacket
    PROVE  /\ wpc = "act" /\ seen.act = "BUFF" /\ seen.ring /\ Leave("DROP")
           /\ UNCHANGED <<upfc, shaper, burst, seen, arrived, wq, lost>>
           /\ ring' = ring \/ (life = "live" /\ ring' = Append(ring, burst[pos]))
  BY DEF BufferPacket

\* The same of ShapePacket and the shaper's queue (upf_u.c, packet_handler).
LEMMA ShapeFacts ==
    ASSUME NEW queued, ShapePacket(queued)
    PROVE  /\ wpc = "act" /\ seen.act = "FORW" /\ seen.ring /\ Leave("DROP")
           /\ UNCHANGED <<upfc, ring, burst, seen, arrived, wq, lost>>
           /\ shaper' = shaper \/ shaper' = Append(shaper, burst[pos])
  BY DEF ShapePacket

\* The packet at hand is a packet.
LEMMA AtHand ==
    ASSUME Shapes, wpc \in {"read", "act"}
    PROVE  pos \in 1 .. Len(burst) /\ burst[pos] \in Nat
  BY DEF Shapes

\* ClearAndDrain empties the ring.
LEMMA DrainFacts ==
    ASSUME Shapes, ClearAndDrain
    PROVE  /\ ring' = <<>> /\ wpc = "msg" /\ wpc' = "callback" /\ wq # <<>> /\ wq' = Tail(wq)
           /\ UNCHANGED <<upfc, shaper, burst, pos, seen, arrived, lost>>
  <1>1. /\ ring' = SubSeq(ring, Len(ring) + 1, Len(ring)) /\ wpc = "msg" /\ wpc' = "callback"
        /\ wq # <<>> /\ wq' = Tail(wq) /\ UNCHANGED <<upfc, shaper, burst, pos, seen, arrived, lost>>
    BY DEF ClearAndDrain, DrainSession
  <1>2. ring \in Seq(Nat) /\ Len(ring) \in 0 .. Len(ring)
    BY DEF Shapes
  <1> QED
    BY <1>1, <1>2, RestOfQueue

-----------------------------------------------------------------------------
(* The invariants are preserved, one action at a time.                        *)

\* The shapes of the state.
LEMMA ShapesStep ==
    ASSUME Sizes, Shapes, [Next]_vars
    PROVE  Shapes'
  <1> USE DEF Shapes, Far
  <1>1. CASE UNCHANGED vars
    BY <1>1 DEF vars, upfc, packets, loop
  <1>2. ASSUME NEW act \in FarActions, NEW nocp \in BOOLEAN, UpdateFar(act, nocp) PROVE Shapes'
    BY <1>2 DEF UpdateFar, packets, loop
  <1>3. CASE UpdateFarDone
    <2>1. wq' \in Seq({"drain", "flush"})
      <3>1. CASE SendWorker("drain")
        BY <3>1, SendWorkerFacts
      <3> QED
        BY <1>3, <3>1 DEF UpdateFarDone
    <2>2. clears' \in Nat /\ UNCHANGED <<far, old, reports, packets, loop>>
      BY <1>3 DEF UpdateFarDone
    <2> QED
      BY <2>1, <2>2 DEF packets, loop
  <1>4. ASSUME NEW sent \in BOOLEAN, SessionReport(sent) PROVE Shapes'
    BY <1>4 DEF SessionReport, packets, loop
  <1>5. CASE RemoveSession
    <2>1. wq' \in Seq({"drain", "flush"})
      BY <1>5, SendWorkerFacts DEF RemoveSession
    <2>2. ring' = <<>> /\ UNCHANGED <<far, old, clears, reports, shaper, loop>>
      BY <1>5 DEF RemoveSession, UpfSessBufRingDestroy
    <2> QED
      BY <2>1, <2>2 DEF loop
  <1>6. ASSUME NEW n \in 0 .. BatchSize, ReceiveBurst(n) PROVE Shapes'
    <2>1. n \in Nat /\ burst' = [i \in 1 .. n |-> arrived + i] /\ arrived \in Nat
      BY <1>6 DEF ReceiveBurst, Sizes
    <2>2. burst' \in Seq(Nat) /\ Len(burst') = n
      BY <2>1
    <2>3. /\ arrived' = arrived + n /\ pos' = 1 /\ wpc' = IF n = 0 THEN "msg" ELSE "read"
          /\ UNCHANGED <<upfc, ring, shaper, wq>>
      BY <1>6 DEF ReceiveBurst
    <2> QED
      BY <2>1, <2>2, <2>3 DEF upfc
  <1>7. ASSUME NEW n \in 0 .. Len(shaper), NEW unfit, HandlePacket(n, unfit) \/ Callback(n, unfit)
        PROVE  Shapes'
    <2>1. /\ DrainShaper(n, unfit) /\ UNCHANGED <<upfc, ring, burst, pos, arrived, wq>>
          /\ wpc' = "rx" \/ (wpc = "read" /\ wpc' = "act")
      BY <1>7 DEF HandlePacket, Callback
    <2> QED
      BY <2>1, DrainShaperFacts DEF upfc
  <1>8. CASE DropPacket \/ NoNeighbour
    <2>1. wpc = "act" /\ Leave("DROP") /\ UNCHANGED <<upfc, ring, shaper, burst, arrived, wq>>
      BY <1>8 DEF DropPacket, NoNeighbour
    <2> QED
      BY <2>1, LeaveFacts DEF upfc
  <1>9. CASE BufferPacket
    <2>1. wpc = "act" /\ Leave("DROP") /\ UNCHANGED <<upfc, shaper, burst, arrived, wq>>
      BY <1>9, BufferFacts
    <2>2. ring' \in Seq(Nat)
      <3>1. burst[pos] \in Nat
        BY <2>1, AtHand
      <3>2. ring' = ring \/ ring' = Append(ring, burst[pos])
        BY <1>9, BufferFacts
      <3>3. ring \in Seq(Nat) /\ Append(ring, burst[pos]) \in Seq(Nat)
        BY <3>1
      <3> QED
        BY <3>2, <3>3, ZenonT(30)
    <2> QED
      BY <2>1, <2>2, LeaveFacts DEF upfc
  <1>10. ASSUME NEW queued \in BOOLEAN, ShapePacket(queued) PROVE Shapes'
    <2>1. wpc = "act" /\ Leave("DROP") /\ UNCHANGED <<upfc, ring, burst, arrived, wq>>
      BY <1>10, ShapeFacts
    <2>2. shaper' \in Seq(Nat)
      <3>1. burst[pos] \in Nat
        BY <2>1, AtHand
      <3>2. shaper' = shaper \/ shaper' = Append(shaper, burst[pos])
        BY <1>10, ShapeFacts
      <3>3. shaper \in Seq(Nat) /\ Append(shaper, burst[pos]) \in Seq(Nat)
        BY <3>1
      <3> QED
        BY <3>2, <3>3, ZenonT(30)
    <2> QED
      BY <2>1, <2>2, LeaveFacts DEF upfc
  <1>11. CASE ForwardPacket
    <2>1. /\ pos' = pos + 1 /\ wpc' \in {"read", "tx"} /\ (wpc' = "read" => pos + 1 <= Len(burst))
          /\ ring' \in Seq(Nat) /\ UNCHANGED <<upfc, shaper, burst, arrived, wq>>
      BY <1>11, ForwardFacts
    <2> QED
      BY <2>1 DEF upfc
  <1>12. CASE TransmitBurst
    <2>1. burst' = <<>> /\ pos' = 1 /\ wpc' = "msg" /\ UNCHANGED <<upfc, ring, shaper, arrived, wq>>
      BY <1>12 DEF TransmitBurst
    <2> QED
      BY <2>1 DEF upfc
  <1>13. CASE NoMessage
    BY <1>13 DEF NoMessage, upfc, packets
  <1>14. CASE ClearAndDrain
    <2>1. /\ ring' = <<>> /\ wpc' = "callback" /\ wq # <<>> /\ wq' = Tail(wq)
          /\ UNCHANGED <<upfc, shaper, burst, pos, arrived>>
      BY <1>14, DrainFacts
    <2>2. wq' \in Seq({"drain", "flush"})
      BY <2>1, TakeFirst
    <2> QED
      BY <2>1, <2>2 DEF upfc
  <1>15. CASE FlushShaper
    BY <1>15, TakeFirst DEF FlushShaper
  <1> HIDE DEF Shapes
  <1> QED
    BY <1>1, <1>2, <1>3, <1>4, <1>5, <1>6, <1>7, <1>8, <1>9, <1>10, <1>11, <1>12, <1>13, <1>14, <1>15
    DEF Next, UpfC, UpfU, Undefined

\* What is not newer than the packet at hand is older than the next one.
LEMMA OlderThanNext ==
    ASSUME Shapes, OrderInv, wpc = "act", burst' = burst, pos' = pos + 1, wpc' \in {"read", "tx"},
           wpc' = "read" => pos + 1 <= Len(burst),
           NEW q \in Seq(Nat), \A i \in 1 .. Len(q) : q[i] <= burst[pos]
    PROVE  wpc' \in {"read", "act"} => \A i \in 1 .. Len(q) : q[i] < burst'[pos']
  <1> SUFFICES ASSUME wpc' = "read", NEW i \in 1 .. Len(q) PROVE q[i] < burst[pos + 1]
    OBVIOUS
  <1>1. pos \in 1 .. Len(burst) /\ pos + 1 \in 1 .. Len(burst) /\ burst \in Seq(Nat)
    BY DEF Shapes
  <1>2. burst[pos] < burst[pos + 1] /\ burst[pos] \in Nat /\ burst[pos + 1] \in Nat
    BY <1>1 DEF OrderInv, Increasing
  <1>3. q[i] \in Nat /\ q[i] <= burst[pos]
    OBVIOUS
  <1> QED
    BY <1>2, <1>3

\* When the worker turns to the next packet of its burst, all that wait arrived before it.
LEMMA WaitingAreOlder ==
    ASSUME Shapes, OrderInv, wpc = "act", burst' = burst, pos' = pos + 1, wpc' \in {"read", "tx"},
           wpc' = "read" => pos + 1 <= Len(burst)
    PROVE  wpc' \in {"read", "act"} => /\ \A i \in 1 .. Len(ring) : ring[i] < burst'[pos']
                                       /\ \A i \in 1 .. Len(shaper) : shaper[i] < burst'[pos']
  <1>1. ring \in Seq(Nat) /\ shaper \in Seq(Nat) /\ burst[pos] \in Nat
    BY AtHand DEF Shapes
  <1>2. \A i \in 1 .. Len(ring) : ring[i] \in Nat /\ ring[i] < burst[pos]
    BY <1>1 DEF OrderInv
  <1>3. \A i \in 1 .. Len(shaper) : shaper[i] \in Nat /\ shaper[i] < burst[pos]
    BY <1>1 DEF OrderInv
  <1>4. /\ \A i \in 1 .. Len(ring) : ring[i] <= burst[pos]
        /\ \A i \in 1 .. Len(shaper) : shaper[i] <= burst[pos]
    BY <1>1, <1>2, <1>3
  <1> QED
    BY <1>1, <1>4, OlderThanNext, ZenonT(30)

\* A queue stays in order when its first packets leave.
LEMMA RestInOrder ==
    ASSUME NEW q \in Seq(Nat), Increasing(q), NEW n \in 0 .. Len(q), NEW r \in Seq(Nat),
           Len(r) = Len(q) - n, \A i \in 1 .. Len(r) : r[i] = q[n + i]
    PROVE  /\ Increasing(r)
           /\ \A i \in 1 .. Len(r) : \E j \in 1 .. Len(q) : r[i] = q[j]
  <1>1. n \in Nat /\ Len(q) \in Nat /\ \A i \in 1 .. Len(r) : n + i \in 1 .. Len(q)
    OBVIOUS
  <1>2. \A i, j \in 1 .. Len(r) : i < j => n + i < n + j
    BY <1>1
  <1> QED
    BY <1>1, <1>2, ZenonT(30) DEF Increasing

\* A queue stays in order when the packet at hand joins it.
LEMMA JoinedInOrder ==
    ASSUME Shapes, OrderInv, wpc = "act", NEW q \in Seq(Nat), Increasing(q),
           \A i \in 1 .. Len(q) : q[i] < burst[pos]
    PROVE  LET r == Append(q, burst[pos])
           IN /\ r \in Seq(Nat) /\ Increasing(r)
              /\ \A i \in 1 .. Len(r) : r[i] <= burst[pos] /\ r[i] <= arrived
              /\ \A i \in 1 .. Len(r) : r[i] = burst[pos] \/ (i \in 1 .. Len(q) /\ r[i] = q[i])
  <1> DEFINE r == Append(q, burst[pos])
  <1>1. pos \in 1 .. Len(burst) /\ burst[pos] \in Nat /\ burst[pos] <= arrived /\ arrived \in Nat
    BY AtHand DEF Shapes, OrderInv
  <1>2. /\ r \in Seq(Nat) /\ Len(r) = Len(q) + 1 /\ Len(q) \in Nat
        /\ \A i \in 1 .. Len(q) : r[i] = q[i]
        /\ r[Len(q) + 1] = burst[pos]
    BY <1>1
  <1>3. \A i \in 1 .. Len(q) : q[i] \in Nat
    OBVIOUS
  <1> HIDE DEF r
  <1>4. \A i \in 1 .. Len(r) : i \in 1 .. Len(q) \/ i = Len(q) + 1
    BY <1>2
  <1>5. Increasing(r)
    <2> SUFFICES ASSUME NEW i \in 1 .. Len(r), NEW j \in 1 .. Len(r), i < j PROVE r[i] < r[j]
      BY DEF Increasing
    <2>1. i \in 1 .. Len(q)
      BY <1>2
    <2> QED
      BY <1>2, <1>4, <2>1, ZenonT(30) DEF Increasing
  <1>6. \A i \in 1 .. Len(r) : r[i] <= burst[pos] /\ r[i] <= arrived
    <2> SUFFICES ASSUME NEW i \in 1 .. Len(r) PROVE r[i] <= burst[pos] /\ r[i] <= arrived
      OBVIOUS
    <2>1. CASE i \in 1 .. Len(q)
      <3>1. r[i] \in Nat /\ r[i] < burst[pos]
        BY <1>2, <1>3, <2>1
      <3> QED
        BY <1>1, <3>1
    <2>2. CASE i = Len(q) + 1
      BY <1>1, <1>2, <2>2
    <2> QED
      BY <1>4, <2>1, <2>2
  <1> QED
    BY <1>2, <1>4, <1>5, <1>6 DEF r

\* The packets of a burst are numbered in the order of their arrival.
LEMMA ReceivedInOrder ==
    ASSUME NEW n \in Nat, NEW a \in Nat, NEW q, q = [i \in 1 .. n |-> a + i]
    PROVE  q \in Seq(Nat) /\ Len(q) = n /\ Increasing(q) /\ \A i \in 1 .. n : q[i] = a + i
  <1>1. q \in Seq(Nat) /\ Len(q) = n /\ \A i \in 1 .. n : q[i] = a + i
    OBVIOUS
  <1> QED
    BY <1>1 DEF Increasing

\* The order of the queues.
LEMMA OrderStep ==
    ASSUME Sizes, Shapes, OrderInv, [Next]_vars
    PROVE  OrderInv'
  <1>0. Shapes'
    BY ShapesStep
  <1>a. /\ \A i \in 1 .. Len(ring) : ring[i] \in Nat
        /\ \A i \in 1 .. Len(shaper) : shaper[i] \in Nat
    BY DEF Shapes
  <1>b. wpc = "act" => /\ \A i \in 1 .. Len(ring) : ring[i] < burst[pos]
                       /\ \A i \in 1 .. Len(shaper) : shaper[i] < burst[pos]
    BY DEF OrderInv
  <1> USE DEF OrderInv, Increasing
  <1>1. CASE UNCHANGED vars
    BY <1>1 DEF vars, packets, loop
  <1>2. CASE UpfC
    <2>1. UNCHANGED <<burst, pos, wpc, arrived, shaper>> /\ (ring' = ring \/ ring' = <<>>)
      BY <1>2 DEF UpfC, UpdateFar, UpdateFarDone, SessionReport, RemoveSession,
                  UpfSessBufRingDestroy, packets, loop
    <2> QED
      BY <2>1
  <1>6. ASSUME NEW n \in 0 .. BatchSize, ReceiveBurst(n) PROVE OrderInv'
    <2>1. /\ n \in Nat /\ arrived \in Nat /\ arrived' = arrived + n /\ pos' = 1
          /\ burst' = [i \in 1 .. n |-> arrived + i] /\ (wpc' = "read" => n # 0) /\ wpc' \in {"read", "msg"}
          /\ UNCHANGED <<ring, shaper>> /\ ring \in Seq(Nat) /\ shaper \in Seq(Nat)
      BY <1>6 DEF ReceiveBurst, Sizes, Shapes
    <2>2. /\ burst' \in Seq(Nat) /\ Len(burst') = n /\ Increasing(burst')
          /\ \A i \in 1 .. n : burst'[i] = arrived + i
      BY <2>1, ReceivedInOrder
    <2>3. /\ \A i \in 1 .. Len(ring) : ring[i] \in Nat /\ ring[i] <= arrived
          /\ \A i \in 1 .. Len(shaper) : shaper[i] \in Nat /\ shaper[i] <= arrived
      BY <1>a, ZenonT(30)
    <2> HIDE DEF OrderInv, Increasing
    <2>4. \A i \in 1 .. Len(burst') : burst'[i] <= arrived'
      BY <2>1, <2>2
    <2>5. \A x \in Nat : x <= arrived => x <= arrived'
      BY <2>1
    <2>6. wpc' = "read" => burst'[pos'] = arrived + 1
      BY <2>1, <2>2
    <2>7. \A x \in Nat : x <= arrived => x < arrived + 1
      BY <2>1
    <2>8. Increasing(ring) /\ Increasing(shaper) /\ \A i \in 1 .. Len(ring), j \in 1 .. Len(shaper) : ring[i] # shaper[j]
      BY DEF OrderInv
    <2> QED
      BY <2>1, <2>2, <2>3, <2>4, <2>5, <2>6, <2>7, <2>8, ZenonT(30) DEF OrderInv
  <1>7. ASSUME NEW n \in 0 .. Len(shaper), NEW unfit, HandlePacket(n, unfit) \/ Callback(n, unfit)
        PROVE  OrderInv'
    <2>1. /\ DrainShaper(n, unfit) /\ UNCHANGED <<ring, burst, pos, arrived>>
          /\ wpc' = "rx" \/ (wpc = "read" /\ wpc' = "act")
      BY <1>7 DEF HandlePacket, Callback
    <2>2. /\ shaper' \in Seq(Nat) /\ Len(shaper') = Len(shaper) - n
          /\ \A i \in 1 .. Len(shaper') : shaper'[i] = shaper[n + i]
      BY <2>1, DrainShaperFacts
    <2>3. /\ Increasing(shaper')
          /\ \A i \in 1 .. Len(shaper') : \E j \in 1 .. Len(shaper) : shaper'[i] = shaper[j]
      BY <2>2, RestInOrder, ZenonT(30) DEF Shapes
    <2> QED
      BY <2>1, <2>3
  <1>8. CASE DropPacket \/ NoNeighbour
    <2>1. wpc = "act" /\ Leave("DROP") /\ UNCHANGED <<ring, shaper, burst, arrived>>
      BY <1>8 DEF DropPacket, NoNeighbour
    <2>2. pos' = pos + 1 /\ wpc' \in {"read", "tx"} /\ (wpc' = "read" => pos + 1 <= Len(burst))
      BY <2>1, LeaveFacts
    <2> QED
      BY <2>1, <2>2, WaitingAreOlder
  <1>9. CASE BufferPacket
    <2>1. /\ wpc = "act" /\ Leave("DROP") /\ UNCHANGED <<shaper, burst, arrived>>
          /\ ring' = ring \/ ring' = Append(ring, burst[pos])
      BY <1>9, BufferFacts
    <2>2. pos' = pos + 1 /\ wpc' \in {"read", "tx"} /\ (wpc' = "read" => pos + 1 <= Len(burst))
      BY <2>1, LeaveFacts
    <2>3. CASE ring' = ring
      BY <2>1, <2>2, <2>3, WaitingAreOlder
    <2>4. CASE ring' = Append(ring, burst[pos])
      <3>1. /\ ring' \in Seq(Nat) /\ Increasing(ring')
            /\ \A i \in 1 .. Len(ring') : ring'[i] <= burst[pos] /\ ring'[i] <= arrived
            /\ \A i \in 1 .. Len(ring') : ring'[i] = burst[pos] \/ (i \in 1 .. Len(ring) /\ ring'[i] = ring[i])
        BY <2>1, <2>4, JoinedInOrder, ZenonT(30) DEF Shapes
      <3>2. wpc' \in {"read", "act"} => \A i \in 1 .. Len(ring') : ring'[i] < burst'[pos']
        BY <2>1, <2>2, <3>1, OlderThanNext
      <3>3. wpc' \in {"read", "act"} => \A i \in 1 .. Len(shaper) : shaper[i] < burst'[pos']
        BY <2>1, <2>2, WaitingAreOlder
      <3>4. \A i \in 1 .. Len(ring'), j \in 1 .. Len(shaper) : ring'[i] # shaper[j]
        <4> SUFFICES ASSUME NEW i \in 1 .. Len(ring'), NEW j \in 1 .. Len(shaper)
                     PROVE  ring'[i] # shaper[j]
          OBVIOUS
        <4>1. shaper[j] \in Nat /\ shaper[j] < burst[pos]
          BY <1>a, <1>b, <2>1, ZenonT(30)
        <4>2. ring'[i] = burst[pos] \/ (i \in 1 .. Len(ring) /\ ring'[i] = ring[i])
          BY <3>1
        <4>3. i \in 1 .. Len(ring) => ring[i] # shaper[j]
          OBVIOUS
        <4> HIDE DEF OrderInv
        <4> QED
          BY <4>1, <4>2, <4>3
      <3> QED
        BY <2>1, <3>1, <3>2, <3>3, <3>4
    <2> QED
      BY <2>1, <2>3, <2>4
  <1>10. ASSUME NEW queued \in BOOLEAN, ShapePacket(queued) PROVE OrderInv'
    <2>1. /\ wpc = "act" /\ Leave("DROP") /\ UNCHANGED <<ring, burst, arrived>>
          /\ shaper' = shaper \/ shaper' = Append(shaper, burst[pos])
      BY <1>10, ShapeFacts
    <2>2. pos' = pos + 1 /\ wpc' \in {"read", "tx"} /\ (wpc' = "read" => pos + 1 <= Len(burst))
      BY <2>1, LeaveFacts
    <2>3. CASE shaper' = shaper
      BY <2>1, <2>2, <2>3, WaitingAreOlder
    <2>4. CASE shaper' = Append(shaper, burst[pos])
      <3>1. /\ shaper' \in Seq(Nat) /\ Increasing(shaper')
            /\ \A i \in 1 .. Len(shaper') : shaper'[i] <= burst[pos] /\ shaper'[i] <= arrived
            /\ \A i \in 1 .. Len(shaper') : shaper'[i] = burst[pos] \/ (i \in 1 .. Len(shaper) /\ shaper'[i] = shaper[i])
        BY <2>1, <2>4, JoinedInOrder, ZenonT(30) DEF Shapes
      <3>2. wpc' \in {"read", "act"} => \A i \in 1 .. Len(shaper') : shaper'[i] < burst'[pos']
        BY <2>1, <2>2, <3>1, OlderThanNext
      <3>3. wpc' \in {"read", "act"} => \A i \in 1 .. Len(ring) : ring[i] < burst'[pos']
        BY <2>1, <2>2, WaitingAreOlder
      <3>4. \A i \in 1 .. Len(ring), j \in 1 .. Len(shaper') : ring[i] # shaper'[j]
        <4> SUFFICES ASSUME NEW i \in 1 .. Len(ring), NEW j \in 1 .. Len(shaper')
                     PROVE  ring[i] # shaper'[j]
          OBVIOUS
        <4>1. ring[i] \in Nat /\ ring[i] < burst[pos]
          BY <1>a, <1>b, <2>1, ZenonT(30)
        <4>2. shaper'[j] = burst[pos] \/ (j \in 1 .. Len(shaper) /\ shaper'[j] = shaper[j])
          BY <3>1
        <4>3. j \in 1 .. Len(shaper) => ring[i] # shaper[j]
          OBVIOUS
        <4> HIDE DEF OrderInv
        <4> QED
          BY <4>1, <4>2, <4>3
      <3> QED
        BY <2>1, <3>1, <3>2, <3>3, <3>4
    <2> QED
      BY <2>1, <2>3, <2>4
  <1>11. CASE ForwardPacket
    <2>1. /\ wpc = "act" /\ UNCHANGED <<shaper, burst, arrived>> /\ pos' = pos + 1
          /\ wpc' \in {"read", "tx"} /\ (wpc' = "read" => pos + 1 <= Len(burst))
      BY <1>11, ForwardFacts
    <2>2. PICK n \in 0 .. Len(ring) : /\ ring' \in Seq(Nat) /\ Len(ring') = Len(ring) - n
                                      /\ \A i \in 1 .. Len(ring') : ring'[i] = ring[n + i]
      BY <1>11, ForwardFacts
    <2>3. /\ Increasing(ring')
          /\ \A i \in 1 .. Len(ring') : \E j \in 1 .. Len(ring) : ring'[i] = ring[j]
      BY <2>2, RestInOrder, ZenonT(30) DEF Shapes
    <2>4. wpc' \in {"read", "act"} => /\ \A i \in 1 .. Len(ring) : ring[i] < burst'[pos']
                                      /\ \A i \in 1 .. Len(shaper) : shaper[i] < burst'[pos']
      BY <2>1, WaitingAreOlder
    <2> QED
      BY <2>1, <2>3, <2>4, ZenonT(30)
  <1>12. CASE TransmitBurst
    <2>1. burst' = <<>> /\ wpc' = "msg" /\ UNCHANGED <<ring, shaper, arrived>>
      BY <1>12, ZenonT(30) DEF TransmitBurst
    <2> QED
      BY <2>1
  <1>13. CASE NoMessage
    BY <1>13 DEF NoMessage, packets
  <1>14. CASE ClearAndDrain
    <2>1. ring' = <<>> /\ wpc' = "callback" /\ UNCHANGED <<shaper, burst, arrived>>
      BY <1>14, DrainFacts
    <2> QED
      BY <2>1
  <1>15. CASE FlushShaper
    BY <1>15 DEF FlushShaper
  <1> HIDE DEF OrderInv
  <1> QED
    BY <1>1, <1>2, <1>6, <1>7, <1>8, <1>9, <1>10, <1>11, <1>12, <1>13, <1>14, <1>15
    DEF Next, UpfU, Undefined

\* The end of the session.
LEMMA LifeStep ==
    ASSUME Sizes, Shapes, LifeInv, [Next]_vars
    PROVE  LifeInv'
  <1> USE DEF LifeInv
  <1>1. CASE UNCHANGED vars
    BY <1>1 DEF vars, upfc, packets, loop
  <1>2. ASSUME NEW act \in FarActions, NEW nocp \in BOOLEAN, UpdateFar(act, nocp) PROVE LifeInv'
    BY <1>2 DEF UpdateFar, packets, loop
  <1>3. CASE UpdateFarDone
    <2>1. UNCHANGED <<life, ring, shaper, wpc, seen>>
      BY <1>3 DEF UpdateFarDone, packets, loop
    <2>2. \A i \in 1 .. Len(wq') : wq'[i] = "flush" => i \in 1 .. Len(wq) /\ wq'[i] = wq[i]
      <3>1. CASE SendWorker("drain")
        BY <3>1, SendWorkerFacts, ZenonT(30) DEF Shapes
      <3> QED
        BY <1>3, <3>1 DEF UpdateFarDone
    <2> QED
      BY <2>1, <2>2
  <1>4. ASSUME NEW sent \in BOOLEAN, SessionReport(sent) PROVE LifeInv'
    BY <1>4 DEF SessionReport, packets, loop
  <1>5. CASE RemoveSession
    BY <1>5 DEF RemoveSession, UpfSessBufRingDestroy, loop
  <1>6. ASSUME NEW n \in 0 .. BatchSize, ReceiveBurst(n) PROVE LifeInv'
    <2>1. wpc' \in {"msg", "read"} /\ UNCHANGED <<life, ring, shaper, wq>>
      BY <1>6 DEF ReceiveBurst, upfc
    <2> QED
      BY <2>1
  <1>7. ASSUME NEW n \in 0 .. Len(shaper), NEW unfit, HandlePacket(n, unfit) PROVE LifeInv'
    <2>1. DrainShaper(n, unfit) /\ seen'.ring = (life = "live") /\ UNCHANGED <<life, ring, wq>>
      BY <1>7 DEF HandlePacket, upfc
    <2> QED
      BY <2>1, DrainShaperFacts, ZenonT(30)
  <1>8. ASSUME NEW n \in 0 .. Len(shaper), NEW unfit, Callback(n, unfit) PROVE LifeInv'
    <2>1. DrainShaper(n, unfit) /\ wpc' = "rx" /\ UNCHANGED <<life, ring, wq>>
      BY <1>8 DEF Callback, upfc
    <2> QED
      BY <2>1, DrainShaperFacts
  <1>9. CASE DropPacket \/ NoNeighbour
    <2>1. wpc = "act" /\ Leave("DROP") /\ UNCHANGED <<upfc, ring, shaper, wq>>
      BY <1>9 DEF DropPacket, NoNeighbour
    <2> QED
      BY <2>1, LeaveFacts DEF upfc
  <1>10. CASE BufferPacket
    <2>1. /\ wpc = "act" /\ seen.ring /\ Leave("DROP") /\ UNCHANGED <<life, shaper, seen, wq>>
          /\ ring' = ring \/ life = "live"
      BY <1>10, BufferFacts DEF upfc
    <2>2. wpc' \in {"read", "tx"}
      BY <2>1, LeaveFacts
    <2> QED
      BY <2>1, <2>2
  <1>11. ASSUME NEW queued \in BOOLEAN, ShapePacket(queued) PROVE LifeInv'
    <2>1. wpc = "act" /\ seen.ring /\ UNCHANGED <<life, ring, wq>>
      BY <1>11, ShapeFacts DEF upfc
    <2> QED
      BY <2>1
  <1>12. CASE ForwardPacket
    <2>1. wpc = "act" /\ seen.ring /\ (ring = <<>> => ring' = <<>>) /\ UNCHANGED <<life, wq>>
      BY <1>12, ForwardFacts DEF upfc
    <2> QED
      BY <2>1
  <1>13. CASE TransmitBurst
    <2>1. wpc' = "msg" /\ UNCHANGED <<life, ring, shaper, wq>>
      BY <1>13 DEF TransmitBurst, upfc
    <2> QED
      BY <2>1
  <1>14. CASE NoMessage
    BY <1>14 DEF NoMessage, upfc, packets
  <1>15. CASE ClearAndDrain
    <2>1. ring' = <<>> /\ wpc' = "callback" /\ wq # <<>> /\ wq' = Tail(wq) /\ UNCHANGED <<life, shaper>>
      BY <1>15, DrainFacts DEF upfc
    <2>2. \A i \in 1 .. Len(wq') : i + 1 \in 1 .. Len(wq) /\ wq'[i] = wq[i + 1]
      BY <2>1, TakeFirst DEF Shapes
    <2> QED
      BY <2>1, <2>2
  <1>16. CASE FlushShaper
    <2>1. /\ wpc' = "callback" /\ wq # <<>> /\ Head(wq) = "flush" /\ UNCHANGED ring
          /\ shaper' = <<>> /\ life' = "flushed"
      BY <1>16 DEF FlushShaper
    <2>2. 1 \in 1 .. Len(wq) /\ wq[1] = "flush"
      BY <2>1, TakeFirst DEF Shapes
    <2> QED
      BY <2>1, <2>2
  <1> HIDE DEF LifeInv
  <1> QED
    BY <1>1, <1>2, <1>3, <1>4, <1>5, <1>6, <1>7, <1>8, <1>9, <1>10, <1>11, <1>12, <1>13, <1>14, <1>15, <1>16, ZenonT(30)
    DEF Next, UpfC, UpfU, Undefined

\* Reports and the flag.
LEMMA ReportStep ==
    ASSUME Sizes, Shapes, ReportInv, [Next]_vars
    PROVE  ReportInv'
  <1> USE DEF ReportInv
  <1>0. reports \in Nat /\ clears \in Nat
    BY DEF Shapes
  <1>1. CASE UNCHANGED <<srr, reports, clears>>
    BY <1>1
  <1>2. CASE UpdateFarDone
    <2>1. UNCHANGED <<srr, reports, clears>> \/ (reports' = reports /\ ~srr' /\ clears' = clears + 1)
      BY <1>2 DEF UpdateFarDone
    <2>2. CASE reports' = reports /\ ~srr' /\ clears' = clears + 1
      BY <1>0, <2>2
    <2> QED
      BY <2>1, <2>2, <1>1
  <1>3. ASSUME NEW sent \in BOOLEAN, SessionReport(sent) PROVE ReportInv'
    <2>1. \/ UNCHANGED <<srr, reports, clears>>
          \/ ~srr /\ srr' /\ clears' = clears /\ reports' \in {reports, reports + 1}
      BY <1>3 DEF SessionReport
    <2>2. CASE ~srr /\ srr' /\ clears' = clears /\ reports' \in {reports, reports + 1}
      BY <1>0, <2>2
    <2> QED
      BY <2>1, <2>2, <1>1
  <1>4. CASE UpfU
    <2>1. UNCHANGED <<srr, reports, clears>>
      BY <1>4, ZenonT(30) DEF UpfU, ReceiveBurst, HandlePacket, Callback, DropPacket, NoNeighbour, BufferPacket,
                  ShapePacket, ForwardPacket, TransmitBurst, NoMessage, ClearAndDrain, FlushShaper, upfc
    <2> QED
      BY <2>1, <1>1
  <1>5. CASE UNCHANGED vars
    BY <1>1, <1>5 DEF vars, upfc
  <1>6. ASSUME NEW act, NEW nocp, UpdateFar(act, nocp) PROVE ReportInv'
    BY <1>1, <1>6 DEF UpdateFar
  <1>7. CASE RemoveSession
    BY <1>1, <1>7 DEF RemoveSession
  <1> QED
    BY <1>2, <1>3, <1>4, <1>5, <1>6, <1>7 DEF Next, UpfC, Undefined

\* The drain events, for an SMF that does not use DROP.
LEMMA DrainStep ==
    ASSUME Sizes, FarActions \subseteq {"FORW", "BUFF"}, Shapes, DrainInv, [Next]_vars
    PROVE  DrainInv'
  <1> USE DEF DrainInv, Waiting, Pending
  <1>0. far.act \in {"FORW", "BUFF"} /\ old.act \in {"FORW", "BUFF"} /\ wq \in Seq({"drain", "flush"})
    BY ZenonT(30) DEF Shapes, Far
  <1>1. CASE UNCHANGED vars
    BY <1>1 DEF vars, upfc, packets, loop
  <1>2. ASSUME NEW act \in FarActions, NEW nocp \in BOOLEAN, UpdateFar(act, nocp) PROVE DrainInv'
    <2>1. /\ upc = "idle" /\ upc' = "notify" /\ old' = far /\ far'.act = act
          /\ UNCHANGED <<ring, wpc, seen, wq, lost>>
      BY <1>2 DEF UpdateFar, packets, loop
    <2> QED
      BY <1>0, <2>1
  <1>3. CASE UpdateFarDone
    <2>1. /\ upc = "notify" /\ UNCHANGED <<far, ring, wpc, seen>>
          /\ old.act = "BUFF" /\ far.act = "FORW" => SendWorker("drain")
          /\ ~(old.act = "BUFF" /\ far.act = "FORW") => UNCHANGED <<wq, lost>>
      BY <1>3 DEF UpdateFarDone, packets, loop
    <2>2. CASE old.act = "BUFF" /\ far.act = "FORW"
      BY <1>0, <2>1, <2>2, SendWorkerFacts
    <2>3. CASE ~(old.act = "BUFF" /\ far.act = "FORW")
      BY <1>0, <2>1, <2>3
    <2> QED
      BY <2>2, <2>3
  <1>4. ASSUME NEW sent \in BOOLEAN, SessionReport(sent) PROVE DrainInv'
    BY <1>4 DEF SessionReport, packets, loop
  <1>5. CASE RemoveSession
    <2>1. ring' = <<>> /\ SendWorker("flush") /\ UNCHANGED <<far, old, upc, wpc, seen>>
      BY <1>5 DEF RemoveSession, UpfSessBufRingDestroy, loop
    <2>2. Pending => Pending'
      BY <1>0, <2>1, SendWorkerFacts
    <2> QED
      BY <2>1, <2>2
  <1>6. ASSUME NEW n \in 0 .. BatchSize, ReceiveBurst(n) PROVE DrainInv'
    <2>1. wpc' \in {"msg", "read"} /\ UNCHANGED <<far, old, upc, ring, wq, lost>>
      BY <1>6 DEF ReceiveBurst, upfc
    <2> QED
      BY <2>1
  <1>7. ASSUME NEW n, NEW unfit, HandlePacket(n, unfit) PROVE DrainInv'
    <2>1. seen'.act = far.act /\ UNCHANGED <<far, old, upc, ring, wq, lost>>
      BY <1>7 DEF HandlePacket, upfc
    <2> QED
      BY <2>1
  <1>8. ASSUME NEW n, NEW unfit, Callback(n, unfit) PROVE DrainInv'
    <2>1. wpc' = "rx" /\ UNCHANGED <<far, old, upc, ring, wq, lost>>
      BY <1>8 DEF Callback, upfc
    <2> QED
      BY <2>1
  <1>9. CASE DropPacket \/ NoNeighbour
    <2>1. wpc = "act" /\ Leave("DROP") /\ UNCHANGED <<far, old, upc, ring, wq, lost>>
      BY <1>9 DEF DropPacket, NoNeighbour, upfc
    <2>2. wpc' \in {"read", "tx"}
      BY <2>1, LeaveFacts
    <2> QED
      BY <2>1, <2>2
  <1>10. CASE BufferPacket
    <2>1. wpc = "act" /\ seen.act = "BUFF" /\ UNCHANGED <<far, old, upc, wq, lost>>
      BY <1>10, BufferFacts DEF upfc
    <2> QED
      BY <2>1
  <1>11. ASSUME NEW queued \in BOOLEAN, ShapePacket(queued) PROVE DrainInv'
    <2>1. wpc = "act" /\ Leave("DROP") /\ UNCHANGED <<far, old, upc, ring, wq, lost>>
      BY <1>11, ShapeFacts DEF upfc
    <2>2. wpc' \in {"read", "tx"}
      BY <2>1, LeaveFacts
    <2> QED
      BY <2>1, <2>2
  <1>12. CASE ForwardPacket
    <2>1. wpc' \in {"read", "tx"} /\ (ring = <<>> => ring' = <<>>) /\ UNCHANGED <<far, old, upc, wq, lost>>
      BY <1>12, ForwardFacts DEF upfc
    <2> QED
      BY <2>1
  <1>13. CASE TransmitBurst
    <2>1. wpc' = "msg" /\ UNCHANGED <<far, old, upc, ring, wq, lost>>
      BY <1>13 DEF TransmitBurst, upfc
    <2> QED
      BY <2>1
  <1>14. CASE NoMessage
    <2>1. wpc' = "callback" /\ UNCHANGED <<far, old, upc, ring, wq, lost>>
      BY <1>14 DEF NoMessage, upfc, packets
    <2> QED
      BY <2>1
  <1>15. CASE ClearAndDrain
    <2>1. ring' = <<>> /\ wpc' = "callback"
      BY <1>15, DrainFacts
    <2> QED
      BY <2>1
  <1>16. CASE FlushShaper
    <2>1. /\ wpc' = "callback" /\ wq # <<>> /\ Head(wq) = "flush" /\ wq' = Tail(wq)
          /\ UNCHANGED <<far, old, upc, ring, lost>>
      BY <1>16 DEF FlushShaper
    <2>2. /\ Len(wq) \in Nat /\ wq[1] = "flush" /\ Len(wq') = Len(wq) - 1
          /\ \A i \in 1 .. Len(wq') : wq'[i] = wq[i + 1]
      BY <1>0, <2>1, TakeFirst
    <2>3. \A i \in 1 .. Len(wq) : wq[i] = "drain" => i - 1 \in 1 .. Len(wq') /\ wq'[i - 1] = "drain"
      BY <2>2
    <2> QED
      BY <2>1, <2>3
  <1> HIDE DEF DrainInv
  <1> QED
    BY <1>1, <1>2, <1>3, <1>4, <1>5, <1>6, <1>7, <1>8, <1>9, <1>10, <1>11, <1>12, <1>13, <1>14, <1>15, <1>16, ZenonT(30)
    DEF Next, UpfC, UpfU, Undefined

-----------------------------------------------------------------------------
(* The reference counts.                                                      *)

\* What one queue holds of a packet, when it has no packet twice.
In(q, p) == IF p \in Range(q) THEN 1 ELSE 0

\* A packet's references are those of the places that hold it, and what has not
\* arrived has none; between bursts no burst holds any.
RefInv ==
    /\ refs \in [Pkts -> Nat] /\ out \in [Pkts -> Nat] /\ action \in [Pkts -> {"DROP", "OUT"}]
    /\ \A i \in 1 .. Len(burst) : burst[i] \in Pkts
    /\ wpc \in {"rx", "msg", "callback"} => burst = <<>>
    /\ \A p \in Pkts : p > arrived => out[p] = 0
    /\ \A p \in Pkts : refs[p] = In(burst, p) + In(ring, p) + In(shaper, p) + out[p]

\* A queue in order has no packet twice.
LEMMA OccurrencesIn ==
    ASSUME NEW q \in Seq(Nat), Increasing(q), NEW p
    PROVE  Occurrences(q, p) = In(q, p)
<1> DEFINE E == {i \in 1 .. Len(q) : q[i] = p}
<1>1. Len(q) \in Nat /\ DOMAIN q = 1 .. Len(q) /\ \A i \in 1 .. Len(q) : q[i] \in Nat
  OBVIOUS
<1>2. \A i, j \in E : i = j
  <2> SUFFICES ASSUME NEW i \in 1 .. Len(q), NEW j \in 1 .. Len(q), q[i] = q[j] PROVE i = j
    OBVIOUS
  <2>1. q[i] \in Nat /\ ~(q[i] < q[j]) /\ ~(q[j] < q[i])
    BY <1>1
  <2> QED
    BY <1>1, <2>1 DEF Increasing
<1>3. p \in Range(q) <=> E # {}
  BY <1>1 DEF Range
<1>4. E = {} \/ \E i : E = {i}
  BY <1>2, ZenonT(30)
<1>5. Cardinality({}) = 0 /\ \A i : Cardinality({i}) = 1
  BY FS_EmptySet, FS_Singleton, ZenonT(30)
<1> HIDE DEF E
<1>6. Cardinality(E) = IF E = {} THEN 0 ELSE 1
  BY <1>4, <1>5, ZenonT(30)
<1> QED
  BY <1>3, <1>6 DEF Occurrences, In, E

\* The first packets and the rest share a queue out.
LEMMA PrefixAndRest ==
    ASSUME NEW q \in Seq(Nat), Increasing(q), NEW n \in 0 .. Len(q)
    PROVE  LET a == Range(SubSeq(q, 1, n))
               b == Range(SubSeq(q, n + 1, Len(q)))
           IN a \subseteq Range(q) /\ b = Range(q) \ a
<1> DEFINE x == SubSeq(q, 1, n)
           y == SubSeq(q, n + 1, Len(q))
<1>1. /\ Len(q) \in Nat /\ n \in Nat /\ n <= Len(q) /\ DOMAIN q = 1 .. Len(q)
      /\ \A i \in 1 .. Len(q) : q[i] \in Nat
  OBVIOUS
<1>2. Len(x) = n /\ DOMAIN x = 1 .. n /\ \A i \in 1 .. n : x[i] = q[i]
  OBVIOUS
<1>3. /\ y \in Seq(Nat) /\ Len(y) = Len(q) - n /\ \A i \in 1 .. Len(y) : y[i] = q[n + i]
  BY RestOfQueue
<1>4. DOMAIN y = 1 .. Len(q) - n
  BY <1>3
<1> HIDE DEF x, y
<1>5. Range(x) = {q[i] : i \in 1 .. n}
  BY <1>2, ZenonT(30) DEF Range
<1>6. Range(q) = {q[i] : i \in 1 .. Len(q)}
  BY <1>1 DEF Range
<1>7. Range(y) = {q[i] : i \in n + 1 .. Len(q)}
  <2>1. Range(y) = {q[n + i] : i \in 1 .. Len(q) - n}
    BY <1>3, <1>4, ZenonT(30) DEF Range
  <2>2. \A i \in 1 .. Len(q) - n : n + i \in n + 1 .. Len(q)
    BY <1>1
  <2>3. \A j \in n + 1 .. Len(q) : j - n \in 1 .. Len(q) - n /\ n + (j - n) = j
    BY <1>1
  <2> QED
    BY <2>1, <2>2, <2>3, ZenonT(30)
<1>8. \A i \in 1 .. n, j \in n + 1 .. Len(q) : q[i] # q[j]
  <2> TAKE i \in 1 .. n, j \in n + 1 .. Len(q)
  <2>1. i \in 1 .. Len(q) /\ j \in 1 .. Len(q) /\ i < j
    BY <1>1
  <2> QED
    BY <1>1, <2>1 DEF Increasing
<1>9. \A i \in 1 .. Len(q) : i \in 1 .. n \/ i \in n + 1 .. Len(q)
  BY <1>1
<1>10. \A i \in 1 .. n : i \in 1 .. Len(q)
  BY <1>1
<1>11. \A i \in n + 1 .. Len(q) : i \in 1 .. Len(q)
  BY <1>1
<1>12. Range(x) \subseteq Range(q) /\ Range(y) = Range(q) \ Range(x)
  BY <1>5, <1>6, <1>7, <1>8, <1>9, <1>10, <1>11
<1> QED
  BY <1>12 DEF x, y

\* What a queue holds after one packet joined it (rte_ring_enqueue, TAILQ insertion).
LEMMA ToSetAppend ==
    ASSUME NEW q \in Seq(Nat), NEW e \in Nat
    PROVE  Range(Append(q, e)) = Range(q) \cup {e}
<1>1. /\ Len(q) \in Nat /\ DOMAIN q = 1 .. Len(q) /\ DOMAIN Append(q, e) = 1 .. Len(q) + 1
      /\ \A i \in 1 .. Len(q) : Append(q, e)[i] = q[i]
      /\ Append(q, e)[Len(q) + 1] = e
  OBVIOUS
<1> QED
  BY <1>1 DEF Range

\* Steps that move no packet.
LEMMA RefsKept ==
    ASSUME RefInv, UNCHANGED <<ring, shaper, burst, refs, out, arrived>>,
           action' \in [Pkts -> {"DROP", "OUT"}],
           wpc' \in {"rx", "msg", "callback"} => wpc \in {"rx", "msg", "callback"}
    PROVE  RefInv'
  BY DEF RefInv, In

\* A packet that leaves the handler has one of the two actions.
LEMMA LeaveAction ==
    ASSUME Shapes, RefInv, wpc = "act", NEW a \in {"DROP", "OUT"}, Leave(a)
    PROVE  /\ action' \in [Pkts -> {"DROP", "OUT"}] /\ burst[pos] \in Pkts
           /\ burst[pos] \in Range(burst) /\ pos \in 1 .. Len(burst)
<1>1. pos \in 1 .. Len(burst) /\ DOMAIN burst = 1 .. Len(burst)
  BY DEF Shapes
<1> QED
  BY <1>1, ZenonT(30) DEF RefInv, Leave, Range

\* Some of the first packets of the shaper are sent and the others freed.
LEMMA DrainShaperRefs ==
    ASSUME Shapes, OrderInv, RefInv, NEW n \in 0 .. Len(shaper),
           NEW unfit \in SUBSET Range(SubSeq(shaper, 1, n)), DrainShaper(n, unfit),
           UNCHANGED <<ring, burst, arrived>>,
           wpc' \in {"rx", "msg", "callback"} => wpc \in {"rx", "msg", "callback"}
    PROVE  RefInv'
<1> DEFINE a == Range(SubSeq(shaper, 1, n))
<1>1. /\ shaper' = SubSeq(shaper, n + 1, Len(shaper))
      /\ action' = [p \in Pkts |-> IF p \in a \ unfit THEN "OUT" ELSE action[p]]
      /\ out' = [p \in Pkts |-> IF p \in a \ unfit THEN out[p] + 1 ELSE out[p]]
      /\ refs' = [p \in Pkts |-> IF p \in unfit THEN refs[p] - 1 ELSE refs[p]]
  BY ZenonT(30) DEF DrainShaper, Send
<1>2. a \subseteq Range(shaper) /\ Range(shaper') = Range(shaper) \ a
  BY <1>1, PrefixAndRest DEF Shapes, OrderInv
<1>3. \A p \in Range(shaper) : p <= arrived
  BY DEF Shapes, OrderInv, Range
<1> HIDE DEF a
<1>4. ASSUME NEW p \in Pkts
      PROVE  /\ refs'[p] \in Nat /\ out'[p] \in Nat /\ (p > arrived => out'[p] = 0)
             /\ refs'[p] = In(burst, p) + In(ring, p) + In(shaper', p) + out'[p]
  <2>1. /\ In(burst, p) \in {0, 1} /\ In(ring, p) \in {0, 1}
        /\ out[p] \in Nat /\ refs[p] \in Nat /\ (p > arrived => out[p] = 0)
        /\ refs[p] = In(burst, p) + In(ring, p) + In(shaper, p) + out[p]
    BY DEF RefInv, In
  <2>2. p \in Nat /\ arrived \in Nat
    BY DEF Pkts, Shapes
  <2>3. CASE p \in unfit
    <3>1. In(shaper, p) = 1 /\ In(shaper', p) = 0 /\ out'[p] = out[p] /\ refs'[p] = refs[p] - 1
      BY <1>1, <1>2, <2>3 DEF In, a
    <3> QED
      BY <2>1, <3>1
  <2>4. CASE p \in a /\ p \notin unfit
    <3>1. In(shaper, p) = 1 /\ In(shaper', p) = 0 /\ out'[p] = out[p] + 1 /\ refs'[p] = refs[p]
      BY <1>1, <1>2, <2>4 DEF In
    <3>2. ~(p > arrived)
      BY <1>2, <1>3, <2>2, <2>4
    <3> QED
      BY <2>1, <3>1, <3>2
  <2>5. CASE p \notin a /\ p \notin unfit
    <3>1. In(shaper', p) = In(shaper, p) /\ out'[p] = out[p] /\ refs'[p] = refs[p]
      BY <1>1, <1>2, <2>5 DEF In
    <3> QED
      BY <2>1, <3>1
  <2> QED
    BY <2>3, <2>4, <2>5
<1>5. refs' \in [Pkts -> Nat] /\ out' \in [Pkts -> Nat]
  BY <1>1, <1>4
<1>6. action' \in [Pkts -> {"DROP", "OUT"}]
  BY <1>1 DEF RefInv
<1>7. /\ \A i \in 1 .. Len(burst') : burst'[i] \in Pkts
      /\ wpc' \in {"rx", "msg", "callback"} => burst' = <<>>
  BY DEF RefInv
<1>8. \A p \in Pkts : refs'[p] = (In(burst, p) + In(ring, p) + In(shaper, p) + out[p])'
  BY <1>4 DEF In
<1> QED
  BY <1>4, <1>5, <1>6, <1>7, <1>8 DEF RefInv

\* The first packets of the ring are sent.
LEMMA DrainRefs ==
    ASSUME Shapes, OrderInv, RefInv, NEW n \in 0 .. Len(ring), DrainSession(n),
           UNCHANGED <<shaper, burst, arrived, refs>>, action' \in [Pkts -> {"DROP", "OUT"}],
           wpc' \in {"rx", "msg", "callback"} => wpc \in {"rx", "msg", "callback"}
    PROVE  RefInv'
<1> DEFINE a == Range(SubSeq(ring, 1, n))
<1>1. /\ ring' = SubSeq(ring, n + 1, Len(ring))
      /\ out' = [p \in Pkts |-> IF p \in a THEN out[p] + 1 ELSE out[p]]
  BY DEF DrainSession, Send
<1>2. a \subseteq Range(ring) /\ Range(ring') = Range(ring) \ a
  BY <1>1, PrefixAndRest DEF Shapes, OrderInv
<1>3. \A p \in Range(ring) : p <= arrived
  BY DEF Shapes, OrderInv, Range
<1> HIDE DEF a
<1>4. ASSUME NEW p \in Pkts
      PROVE  /\ out'[p] \in Nat /\ (p > arrived => out'[p] = 0)
             /\ refs'[p] = In(burst, p) + In(ring', p) + In(shaper, p) + out'[p]
  <2>1. /\ In(burst, p) \in {0, 1} /\ In(shaper, p) \in {0, 1}
        /\ out[p] \in Nat /\ refs[p] \in Nat /\ (p > arrived => out[p] = 0)
        /\ refs[p] = In(burst, p) + In(ring, p) + In(shaper, p) + out[p]
    BY DEF RefInv, In
  <2>2. p \in Nat /\ arrived \in Nat
    BY DEF Pkts, Shapes
  <2>3. CASE p \in a
    <3>1. In(ring, p) = 1 /\ In(ring', p) = 0 /\ out'[p] = out[p] + 1
      BY <1>1, <1>2, <2>3 DEF In
    <3>2. ~(p > arrived)
      BY <1>2, <1>3, <2>2, <2>3
    <3> QED
      BY <2>1, <3>1, <3>2
  <2>4. CASE p \notin a
    <3>1. In(ring', p) = In(ring, p) /\ out'[p] = out[p]
      BY <1>1, <1>2, <2>4 DEF In
    <3> QED
      BY <2>1, <3>1
  <2> QED
    BY <2>3, <2>4
<1>5. refs' \in [Pkts -> Nat] /\ out' \in [Pkts -> Nat]
  BY <1>1, <1>4 DEF RefInv
<1>6. /\ \A i \in 1 .. Len(burst') : burst'[i] \in Pkts
      /\ wpc' \in {"rx", "msg", "callback"} => burst' = <<>>
  BY DEF RefInv
<1>7. \A p \in Pkts : refs'[p] = (In(burst, p) + In(ring, p) + In(shaper, p) + out[p])'
  BY <1>4 DEF In
<1> QED
  BY <1>4, <1>5, <1>6, <1>7 DEF RefInv

\* The packet at hand joins one of the two queues with a reference of its own.
LEMMA JoinRefs ==
    ASSUME Shapes, OrderInv, RefInv, wpc = "act", Leave("DROP"), UNCHANGED <<burst, arrived, out>>,
           \/ ring' = Append(ring, burst[pos]) /\ UNCHANGED shaper
           \/ shaper' = Append(shaper, burst[pos]) /\ UNCHANGED ring,
           refs' = [refs EXCEPT ![burst[pos]] = @ + 1]
    PROVE  RefInv'
<1> DEFINE b == burst[pos]
<1>1. /\ action' \in [Pkts -> {"DROP", "OUT"}] /\ b \in Pkts /\ pos \in 1 .. Len(burst)
  BY LeaveAction
<1>2. b \in Nat /\ ring \in Seq(Nat) /\ shaper \in Seq(Nat)
  BY AtHand DEF Shapes
<1>3. b \notin Range(ring) /\ b \notin Range(shaper)
  <2>1. /\ DOMAIN ring = 1 .. Len(ring) /\ DOMAIN shaper = 1 .. Len(shaper)
        /\ \A i \in 1 .. Len(ring) : ring[i] \in Nat /\ ring[i] < b
        /\ \A i \in 1 .. Len(shaper) : shaper[i] \in Nat /\ shaper[i] < b
    BY <1>2 DEF OrderInv
  <2>2. /\ \A i \in 1 .. Len(ring) : ring[i] # b
        /\ \A i \in 1 .. Len(shaper) : shaper[i] # b
    BY <1>2, <2>1
  <2> QED
    BY <2>1, <2>2 DEF Range
<1>4. \/ Range(ring') = Range(ring) \cup {b} /\ Range(shaper') = Range(shaper)
      \/ Range(shaper') = Range(shaper) \cup {b} /\ Range(ring') = Range(ring)
  BY <1>2, ToSetAppend, ZenonT(30)
<1>5. \A p \in Pkts : refs'[p] = IF p = b THEN refs[p] + 1 ELSE refs[p]
  BY <1>1 DEF RefInv
<1> HIDE DEF b
<1>6. ASSUME NEW p \in Pkts
      PROVE  /\ refs'[p] \in Nat
             /\ refs'[p] = In(burst, p) + In(ring', p) + In(shaper', p) + out[p]
  <2>1. /\ In(burst, p) \in {0, 1} /\ In(ring, p) \in {0, 1} /\ In(shaper, p) \in {0, 1}
        /\ out[p] \in Nat /\ refs[p] \in Nat
        /\ refs[p] = In(burst, p) + In(ring, p) + In(shaper, p) + out[p]
    BY ZenonT(30) DEF RefInv, In
  <2>2. CASE p = b
    <3>1. In(ring, p) = 0 /\ In(shaper, p) = 0
      BY <1>3, <2>2 DEF In
    <3>2. In(ring', p) + In(shaper', p) = 1
      BY <1>3, <1>4, <2>2 DEF In
    <3>3. refs'[p] = refs[p] + 1
      BY <1>5, <2>2
    <3>4. In(ring', p) \in {0, 1} /\ In(shaper', p) \in {0, 1}
      BY DEF In
    <3> QED
      BY <2>1, <3>1, <3>2, <3>3, <3>4
  <2>3. CASE p # b
    <3>1. In(ring', p) = In(ring, p) /\ In(shaper', p) = In(shaper, p)
      BY <1>4, <2>3 DEF In
    <3> QED
      BY <1>5, <2>1, <2>3, <3>1
  <2> QED
    BY <2>2, <2>3, ZenonT(30)
<1>7. refs' \in [Pkts -> Nat]
  BY <1>6, ZenonT(30) DEF RefInv
<1>8. /\ \A i \in 1 .. Len(burst') : burst'[i] \in Pkts
      /\ wpc' \in {"rx", "msg", "callback"} => burst' = <<>>
  BY LeaveFacts, ZenonT(30) DEF RefInv
<1>9. \A p \in Pkts : refs'[p] = (In(burst, p) + In(ring, p) + In(shaper, p) + out[p])'
  BY <1>6 DEF In
<1> QED
  BY <1>1, <1>7, <1>8, <1>9 DEF RefInv

\* UpfSessBufRingDestroy and shaper_flush_ue free what a queue holds.
LEMMA EmptyRefs ==
    ASSUME Shapes, OrderInv, RefInv, UNCHANGED <<burst, arrived, out, action>>,
           wpc' \in {"rx", "msg", "callback"} => wpc \in {"rx", "msg", "callback"},
           \/ /\ ring' = <<>> /\ UNCHANGED shaper
              /\ refs' = [p \in Pkts |-> refs[p] - Occurrences(ring, p)]
           \/ /\ shaper' = <<>> /\ UNCHANGED ring
              /\ refs' = [p \in Pkts |-> refs[p] - Occurrences(shaper, p)]
    PROVE  RefInv'
<1>1. \A p : Occurrences(ring, p) = In(ring, p) /\ Occurrences(shaper, p) = In(shaper, p)
  BY OccurrencesIn DEF Shapes, OrderInv
<1>2. \A p : In(<<>>, p) = 0
  BY DEF In, Range
<1>3. ASSUME NEW p \in Pkts
      PROVE  /\ refs'[p] \in Nat
             /\ refs'[p] = In(burst, p) + In(ring', p) + In(shaper', p) + out[p]
  <2>1. /\ In(burst, p) \in {0, 1} /\ In(ring, p) \in {0, 1} /\ In(shaper, p) \in {0, 1}
        /\ out[p] \in Nat /\ refs[p] \in Nat
        /\ refs[p] = In(burst, p) + In(ring, p) + In(shaper, p) + out[p]
    BY DEF RefInv, In
  <2>2. \/ /\ In(ring', p) = 0 /\ In(shaper', p) = In(shaper, p)
           /\ refs'[p] = refs[p] - In(ring, p)
        \/ /\ In(shaper', p) = 0 /\ In(ring', p) = In(ring, p)
           /\ refs'[p] = refs[p] - In(shaper, p)
    <3>1. CASE /\ ring' = <<>> /\ UNCHANGED shaper
               /\ refs' = [x \in Pkts |-> refs[x] - Occurrences(ring, x)]
      BY <1>1, <1>2, <3>1
    <3>2. CASE /\ shaper' = <<>> /\ UNCHANGED ring
               /\ refs' = [x \in Pkts |-> refs[x] - Occurrences(shaper, x)]
      BY <1>1, <1>2, <3>2, ZenonT(30)
    <3> QED
      BY <3>1, <3>2
  <2>3. CASE /\ In(ring', p) = 0 /\ In(shaper', p) = In(shaper, p)
             /\ refs'[p] = refs[p] - In(ring, p)
    BY <2>1, <2>3
  <2>4. CASE /\ In(shaper', p) = 0 /\ In(ring', p) = In(ring, p)
             /\ refs'[p] = refs[p] - In(shaper, p)
    BY <2>1, <2>4
  <2> QED
    BY <2>2, <2>3, <2>4, ZenonT(30)
<1>4. refs' \in [Pkts -> Nat]
  BY <1>3, ZenonT(30)
<1>5. /\ \A i \in 1 .. Len(burst') : burst'[i] \in Pkts
      /\ wpc' \in {"rx", "msg", "callback"} => burst' = <<>>
      /\ \A p \in Pkts : p > arrived' => out'[p] = 0
      /\ out' \in [Pkts -> Nat] /\ action' \in [Pkts -> {"DROP", "OUT"}]
  BY DEF RefInv
<1>6. \A p \in Pkts : refs'[p] = (In(burst, p) + In(ring, p) + In(shaper, p) + out[p])'
  BY <1>3 DEF In
<1> QED
  BY <1>4, <1>5, <1>6 DEF RefInv

\* onvm_nflib_dequeue_packets: each packet of a new burst has one reference.
LEMMA BurstRefs ==
    ASSUME Sizes, Shapes, OrderInv, RefInv, NEW n \in 0 .. BatchSize, ReceiveBurst(n)
    PROVE  RefInv'
<1> DEFINE new == arrived + 1 .. arrived + n
<1>1. /\ wpc = "rx" /\ n \in Nat /\ arrived \in Nat /\ MaxPkts \in Nat /\ arrived + n <= MaxPkts
      /\ burst' = [i \in 1 .. n |-> arrived + i] /\ arrived' = arrived + n
      /\ refs' = [p \in Pkts |-> IF p \in new THEN 1 ELSE refs[p]]
      /\ wpc' = (IF n = 0 THEN "msg" ELSE "read")
      /\ UNCHANGED <<ring, shaper, action, out>>
  BY DEF ReceiveBurst, Sizes, Shapes
<1>2. burst = <<>>
  BY <1>1 DEF RefInv
<1>3. burst' \in Seq(Nat) /\ Len(burst') = n /\ DOMAIN burst' = 1 .. n
      /\ \A i \in 1 .. n : burst'[i] = arrived + i
  BY <1>1
<1>4. Range(burst') = new
  <2>1. Range(burst') = {arrived + i : i \in 1 .. n}
    BY <1>3 DEF Range
  <2>2. \A i \in 1 .. n : arrived + i \in new
    BY <1>1
  <2>3. \A p \in new : p - arrived \in 1 .. n /\ arrived + (p - arrived) = p
    BY <1>1
  <2> QED
    BY <2>1, <2>2, <2>3, ZenonT(30)
<1>5. \A i \in 1 .. Len(burst') : burst'[i] \in Pkts
  BY <1>1, <1>3 DEF Pkts
<1>6. \A p \in Range(ring) \cup Range(shaper) : p \in Nat /\ p <= arrived
  BY DEF Shapes, OrderInv, Range
<1>7. n = 0 => burst' = <<>>
  BY <1>1
<1>8. Range(<<>>) = {}
  BY DEF Range
<1>9. ASSUME NEW p \in Pkts
      PROVE  /\ refs'[p] \in Nat /\ (p > arrived' => out[p] = 0)
             /\ refs'[p] = In(burst', p) + In(ring, p) + In(shaper, p) + out[p]
  <2>1. /\ In(burst, p) = 0 /\ In(ring, p) \in {0, 1} /\ In(shaper, p) \in {0, 1}
        /\ out[p] \in Nat /\ refs[p] \in Nat /\ (p > arrived => out[p] = 0)
        /\ refs[p] = In(burst, p) + In(ring, p) + In(shaper, p) + out[p]
    BY <1>2, <1>8 DEF RefInv, In
  <2>2. p \in Nat
    BY DEF Pkts
  <2>3. p > arrived' => out[p] = 0
    BY <1>1, <2>1, <2>2
  <2>4. CASE p \in new
    <3>1. p > arrived
      BY <1>1, <2>2, <2>4
    <3>2. p \notin Range(ring) /\ p \notin Range(shaper)
      BY <1>1, <1>6, <3>1
    <3>3. In(ring, p) = 0 /\ In(shaper, p) = 0 /\ In(burst', p) = 1
      BY <1>4, <2>4, <3>2 DEF In
    <3>4. refs'[p] = 1
      BY <1>1, <2>4
    <3> QED
      BY <2>1, <2>3, <3>1, <3>3, <3>4
  <2>5. CASE p \notin new
    <3>1. In(burst', p) = 0 /\ refs'[p] = refs[p]
      BY <1>1, <1>4, <2>5 DEF In
    <3> QED
      BY <2>1, <2>3, <3>1
  <2> QED
    BY <2>4, <2>5
<1>10. refs' \in [Pkts -> Nat]
  BY <1>1, <1>9
<1>11. \A p \in Pkts : refs'[p] = (In(burst, p) + In(ring, p) + In(shaper, p) + out[p])'
  BY <1>1, <1>9 DEF In
<1> HIDE DEF new
<1>12. out' \in [Pkts -> Nat] /\ action' \in [Pkts -> {"DROP", "OUT"}]
       /\ \A p \in Pkts : p > arrived' => out'[p] = 0
  BY <1>1, <1>9, ZenonT(30) DEF RefInv
<1>13. wpc' \in {"rx", "msg", "callback"} => burst' = <<>>
  BY <1>1, <1>7
<1> QED
  BY <1>5, <1>10, <1>11, <1>12, <1>13 DEF RefInv

\* onvm_pkt_process_tx_batch: each packet of the burst is sent or freed.
LEMMA TransmitRefs ==
    ASSUME Shapes, OrderInv, RefInv, TransmitBurst
    PROVE  RefInv'
<1> DEFINE b == Range(burst)
<1>1. /\ burst' = <<>> /\ UNCHANGED <<ring, shaper, action, arrived>>
      /\ refs' = [p \in Pkts |-> IF p \in b /\ action[p] = "DROP" THEN refs[p] - 1 ELSE refs[p]]
      /\ out' = [p \in Pkts |-> IF p \in {x \in b : action[x] = "OUT"} THEN out[p] + 1 ELSE out[p]]
  BY ZenonT(30) DEF TransmitBurst, Send
<1>2. \A p \in b : p <= arrived
  <2>1. burst \in Seq(Nat) /\ \A i \in 1 .. Len(burst) : burst[i] <= arrived
    BY DEF Shapes, OrderInv
  <2> QED
    BY <2>1, RangeBelow, ZenonT(30)
<1>3. Range(<<>>) = {}
  BY DEF Range
<1> HIDE DEF b
<1>4. ASSUME NEW p \in Pkts
      PROVE  /\ refs'[p] \in Nat /\ out'[p] \in Nat /\ (p > arrived => out'[p] = 0)
             /\ refs'[p] = In(burst', p) + In(ring, p) + In(shaper, p) + out'[p]
  <2>0. In(burst', p) = 0
    BY <1>1, <1>3 DEF In
  <2>1. /\ In(ring, p) \in {0, 1} /\ In(shaper, p) \in {0, 1}
        /\ out[p] \in Nat /\ refs[p] \in Nat /\ (p > arrived => out[p] = 0)
        /\ refs[p] = In(burst, p) + In(ring, p) + In(shaper, p) + out[p]
    <3>1. In(ring, p) \in {0, 1} /\ In(shaper, p) \in {0, 1}
      BY DEF In
    <3> QED
      BY <3>1 DEF RefInv
  <2>2. action[p] \in {"DROP", "OUT"} /\ p \in Nat /\ arrived \in Nat
    <3>1. action[p] \in {"DROP", "OUT"}
      BY DEF RefInv
    <3> QED
      BY <3>1 DEF Pkts, Shapes
  <2>3. CASE p \in b /\ action[p] = "DROP"
    <3>1. In(burst, p) = 1 /\ refs'[p] = refs[p] - 1 /\ out'[p] = out[p]
      BY <1>1, <2>3 DEF In, b
    <3>2. refs[p] = 1 + In(ring, p) + In(shaper, p) + out[p]
      BY <2>1, <3>1, ZenonT(30)
    <3> QED
      BY <2>0, <2>1, <3>1, <3>2, ReferencesMove
  <2>4. CASE p \in b /\ action[p] = "OUT"
    <3>1. In(burst, p) = 1 /\ refs'[p] = refs[p] /\ out'[p] = out[p] + 1
      BY <1>1, <2>4 DEF In, b
    <3>2. ~(p > arrived)
      BY <1>2, <2>2, <2>4
    <3>3. refs[p] = 1 + In(ring, p) + In(shaper, p) + out[p]
      BY <2>1, <3>1, ZenonT(30)
    <3> QED
      BY <2>0, <2>1, <3>1, <3>2, <3>3, ReferencesMove
  <2>5. CASE p \notin b
    <3>1. In(burst, p) = 0 /\ refs'[p] = refs[p] /\ out'[p] = out[p]
      BY <1>1, <2>5 DEF In, b
    <3> QED
      BY <2>0, <2>1, <3>1, ZenonT(30)
  <2> QED
    BY <2>2, <2>3, <2>4, <2>5
<1>5. refs' \in [Pkts -> Nat] /\ out' \in [Pkts -> Nat]
  BY <1>1, <1>4
<1>6. \A p \in Pkts : refs'[p] = (In(burst, p) + In(ring, p) + In(shaper, p) + out[p])'
  BY <1>1, <1>4 DEF In
<1>7. /\ action' \in [Pkts -> {"DROP", "OUT"}] /\ \A i \in 1 .. Len(burst') : burst'[i] \in Pkts
      /\ \A p \in Pkts : p > arrived' => out'[p] = 0
  BY <1>1, <1>4 DEF RefInv
<1> QED
  BY <1>1, <1>5, <1>6, <1>7, ZenonT(30) DEF RefInv

\* The references, one action at a time.
LEMMA RefStep ==
    ASSUME Sizes, Shapes, OrderInv, RefInv, [Next]_vars
    PROVE  RefInv'
  <1>0. action \in [Pkts -> {"DROP", "OUT"}]
    BY DEF RefInv
  <1>1. CASE UNCHANGED vars
    BY <1>0, <1>1, RefsKept DEF vars, packets, loop
  <1>2. ASSUME NEW act, NEW nocp, UpdateFar(act, nocp) PROVE RefInv'
    BY <1>0, <1>2, RefsKept DEF UpdateFar, packets, loop
  <1>3. CASE UpdateFarDone
    BY <1>0, <1>3, RefsKept DEF UpdateFarDone, packets, loop
  <1>4. ASSUME NEW sent, SessionReport(sent) PROVE RefInv'
    BY <1>0, <1>4, RefsKept DEF SessionReport, packets, loop
  <1>5. CASE RemoveSession
    <2>1. /\ ring' = <<>> /\ refs' = [p \in Pkts |-> refs[p] - Occurrences(ring, p)]
          /\ UNCHANGED <<shaper, burst, arrived, out, action, wpc>>
      BY <1>5 DEF RemoveSession, UpfSessBufRingDestroy, loop
    <2> QED
      BY <2>1, EmptyRefs
  <1>6. ASSUME NEW n \in 0 .. BatchSize, ReceiveBurst(n) PROVE RefInv'
    BY <1>6, BurstRefs
  <1>7. ASSUME NEW n \in 0 .. Len(shaper), NEW unfit \in SUBSET Range(SubSeq(shaper, 1, n)),
               HandlePacket(n, unfit) \/ Callback(n, unfit)
        PROVE  RefInv'
    <2>1. /\ DrainShaper(n, unfit) /\ UNCHANGED <<ring, burst, arrived>>
          /\ wpc' = "act" \/ wpc = "callback"
      BY <1>7 DEF HandlePacket, Callback
    <2> QED
      BY <2>1, DrainShaperRefs
  <1>8. CASE DropPacket \/ NoNeighbour
    <2>1. /\ wpc = "act" /\ Leave("DROP") /\ UNCHANGED <<ring, shaper, burst, refs, out, arrived>>
      BY <1>8 DEF DropPacket, NoNeighbour
    <2>2. wpc' \in {"read", "tx"} /\ action' \in [Pkts -> {"DROP", "OUT"}]
      BY <2>1, LeaveFacts, LeaveAction
    <2> QED
      BY <2>1, <2>2, RefsKept
  <1>9. CASE BufferPacket
    <2>1. /\ wpc = "act" /\ Leave("DROP") /\ UNCHANGED <<shaper, burst, out, arrived>>
          /\ \/ ring' = ring /\ refs' = refs
             \/ /\ ring' = Append(ring, burst[pos])
                /\ refs' = [refs EXCEPT ![burst[pos]] = @ + 1]
      BY <1>9 DEF BufferPacket
    <2>2. wpc' \in {"read", "tx"} /\ action' \in [Pkts -> {"DROP", "OUT"}]
      BY <2>1, LeaveFacts, LeaveAction
    <2> QED
      BY <2>1, <2>2, RefsKept, JoinRefs
  <1>10. ASSUME NEW queued, ShapePacket(queued) PROVE RefInv'
    <2>1. /\ wpc = "act" /\ Leave("DROP") /\ UNCHANGED <<ring, burst, out, arrived>>
          /\ \/ shaper' = shaper /\ refs' = refs
             \/ /\ shaper' = Append(shaper, burst[pos])
                /\ refs' = [refs EXCEPT ![burst[pos]] = @ + 1]
      BY <1>10 DEF ShapePacket
    <2>2. wpc' \in {"read", "tx"} /\ action' \in [Pkts -> {"DROP", "OUT"}]
      BY <2>1, LeaveFacts, LeaveAction
    <2> QED
      BY <2>1, <2>2, RefsKept, JoinRefs
  <1>11. CASE ForwardPacket
    <2> DEFINE n == IF ~touched THEN 0 ELSE IF Len(ring) < InlineDrain THEN Len(ring) ELSE InlineDrain
               d == Range(SubSeq(ring, 1, n)) \cup {burst[pos]}
    <2>1. /\ DrainSession(n) /\ UNCHANGED <<shaper, refs, burst, arrived>>
          /\ action' = [p \in Pkts |-> IF p \in d THEN "OUT" ELSE action[p]]
      BY <1>11 DEF ForwardPacket
    <2>2. Len(ring) \in Nat /\ InlineDrain \in Nat
      BY DEF Shapes, Sizes
    <2>3. n \in 0 .. Len(ring)
      BY <2>2
    <2>4. wpc' \in {"read", "tx"}
      BY <1>11, ForwardFacts
    <2> HIDE DEF n, d
    <2>5. action' \in [Pkts -> {"DROP", "OUT"}]
      BY <1>0, <2>1
    <2>6. PICK k \in 0 .. Len(ring) : k = n
      BY <2>3
    <2> QED
      BY <2>1, <2>4, <2>5, <2>6, DrainRefs, ZenonT(30)
  <1>12. CASE TransmitBurst
    BY <1>12, TransmitRefs
  <1>13. CASE NoMessage
    BY <1>0, <1>13, RefsKept DEF NoMessage, packets
  <1>14. CASE ClearAndDrain
    <2>1. /\ DrainSession(Len(ring)) /\ UNCHANGED <<shaper, refs, burst, arrived>> /\ wpc = "msg"
          /\ action' = [p \in Pkts |-> IF p \in Range(ring) THEN "OUT" ELSE action[p]]
      BY <1>14 DEF ClearAndDrain
    <2>2. action' \in [Pkts -> {"DROP", "OUT"}]
      BY <1>0, <2>1
    <2>3. PICK k \in 0 .. Len(ring) : k = Len(ring)
      BY DEF Shapes
    <2> QED
      BY <2>1, <2>2, <2>3, DrainRefs
  <1>15. CASE FlushShaper
    <2>1. /\ shaper' = <<>> /\ refs' = [p \in Pkts |-> refs[p] - Occurrences(shaper, p)]
          /\ wpc = "msg" /\ UNCHANGED <<ring, burst, arrived, out, action>>
      BY <1>15 DEF FlushShaper
    <2> QED
      BY <2>1, EmptyRefs
  <1> QED
    BY <1>1, <1>2, <1>3, <1>4, <1>5, <1>6, <1>7, <1>8, <1>9, <1>10, <1>11, <1>12, <1>13, <1>14, <1>15, ZenonT(30)
    DEF Next, UpfC, UpfU, Undefined

-----------------------------------------------------------------------------
(* The theorems.                                                              *)

\* The invariants hold at the start.
LEMMA Start ==
    ASSUME Init
    PROVE  Shapes /\ OrderInv /\ LifeInv /\ DrainInv /\ ReportInv
  <1>1. Shapes
    BY DEF Init, Shapes, Far
  <1>2. OrderInv
    BY DEF Init, OrderInv, Increasing
  <1>3. LifeInv
    BY DEF Init, LifeInv
  <1>4. DrainInv
    BY DEF Init, DrainInv, Waiting
  <1>5. ReportInv
    BY DEF Init, ReportInv
  <1> QED
    BY <1>1, <1>2, <1>3, <1>4, <1>5

\* Whatever UPF-C does meanwhile, packets wait in the session ring and in the shaper in
\* the order they arrived, each in one of them only (packet_handler).
THEOREM OrderKept ==
    ASSUME Sizes
    PROVE  Spec => []QueuesKeepOrder
  <1>1. Init => Shapes /\ OrderInv
    BY Start
  <1>2. Shapes /\ OrderInv /\ [Next]_vars => (Shapes /\ OrderInv)'
    BY ShapesStep, OrderStep
  <1>3. Shapes /\ OrderInv => QueuesKeepOrder
    <2> SUFFICES ASSUME Shapes, OrderInv PROVE QueuesKeepOrder
      OBVIOUS
    <2>1. \A q \in {ring, shaper} : \A i, j \in 1 .. Len(q) : i < j => q[i] < q[j]
      BY DEF OrderInv, Increasing
    <2>2. DOMAIN ring = 1 .. Len(ring) /\ DOMAIN shaper = 1 .. Len(shaper)
      BY DEF Shapes
    <2>3. Range(ring) \cap Range(shaper) = {}
      BY <2>2 DEF OrderInv, Range
    <2> QED
      BY <2>1, <2>3 DEF QueuesKeepOrder
  <1> QED
    BY <1>1, <1>2, <1>3, PTL DEF Spec

\* After the worker has handled the removal of a session, nothing of it is queued ever
\* again (UPF_EVENT_SHAPER_SESSION_REMOVE).
THEOREM FlushFinal ==
    ASSUME Sizes
    PROVE  Spec => []FlushIsFinal
  <1>1. Init => Shapes /\ LifeInv
    BY Start
  <1>2. Shapes /\ LifeInv /\ [Next]_vars => (Shapes /\ LifeInv)'
    BY ShapesStep, LifeStep
  <1>3. LifeInv => FlushIsFinal
    BY DEF LifeInv, FlushIsFinal
  <1> QED
    BY <1>1, <1>2, <1>3, PTL DEF Spec

\* An update from BUFF to FORW never strands packets, not even one that a worker decided
\* to buffer before the update and buffers after it: the drain event is on its way or was
\* lost in a full ring.  The SMF must not use DROP (UPF_EVENT_CLEAR_AND_DRAIN).
THEOREM NoneStranded ==
    ASSUME Sizes, FarActions \subseteq {"FORW", "BUFF"}
    PROVE  Spec => []NothingStranded
  <1>1. Init => Shapes /\ DrainInv
    BY Start
  <1>2. Shapes /\ DrainInv /\ [Next]_vars => (Shapes /\ DrainInv)'
    BY ShapesStep, DrainStep
  <1>3. Shapes /\ DrainInv => NothingStranded
    BY DEF Shapes, DrainInv, Waiting, Pending, NothingStranded, Range
  <1> QED
    BY <1>1, <1>2, <1>3, PTL DEF Spec

\* The SMF gets at most one report more than it turned notification off, however many
\* packets arrive and however late their events are handled (srr_flag).
THEOREM ReportsBounded ==
    ASSUME Sizes
    PROVE  Spec => []OneReportPerEpisode
  <1>1. Init => Shapes /\ ReportInv
    BY Start
  <1>2. Shapes /\ ReportInv /\ [Next]_vars => (Shapes /\ ReportInv)'
    BY ShapesStep, ReportStep
  <1>3. Shapes /\ ReportInv => OneReportPerEpisode
    BY DEF Shapes, ReportInv, OneReportPerEpisode
  <1> QED
    BY <1>1, <1>2, <1>3, PTL DEF Spec

\* Every packet has one reference for each place that holds it, over bursts, the session
\* ring, the shaper and the transmit path, so that it is freed when the last lets it go
\* and not before (rte_mbuf_refcnt_update, rte_pktmbuf_free).
THEOREM ReferencesStayExact ==
    ASSUME Sizes
    PROVE  Spec => []ReferencesAreExact
  <1>1. Init => Shapes /\ OrderInv /\ RefInv
    <2> SUFFICES ASSUME Init PROVE Shapes /\ OrderInv /\ RefInv
      OBVIOUS
    <2>1. \A p : In(<<>>, p) = 0
      BY DEF In, Range
    <2>2. refs \in [Pkts -> Nat] /\ out \in [Pkts -> Nat] /\ action \in [Pkts -> {"DROP", "OUT"}]
      BY DEF Init
    <2>3. RefInv
      BY <2>1, <2>2 DEF Init, RefInv
    <2> QED
      BY <2>3, Start
  <1>2. Shapes /\ OrderInv /\ RefInv /\ [Next]_vars => (Shapes /\ OrderInv /\ RefInv)'
    BY ShapesStep, OrderStep, RefStep, ZenonT(30)
  <1>3. Shapes /\ OrderInv /\ RefInv => ReferencesAreExact
    BY OccurrencesIn DEF Shapes, OrderInv, RefInv, ReferencesAreExact
  <1> QED
    BY <1>1, <1>2, <1>3, PTL DEF Spec
=============================================================================
