--------------------------- MODULE QosShaperProofs ---------------------------
(* Proofs about the downlink shaper of a UE (QosShaper): no waiting packet is *)
(* out of the drain's reach, the counters that bound the queues are exact,    *)
(* and the shaper implements one queue per flow (ShaperFifo), for any number  *)
(* of flows and packets, any bounds and any buckets.                          *)
EXTENDS QosShaper, FiniteSetTheorems, TLAPS

\* A leaf is tried with Z3 and then with Zenon.
USE SMTT(20), ZenonT(20)

\* A sequence is a function on 1 .. its length.
LEMMA SeqLength ==
    ASSUME NEW T, NEW q \in Seq(T)
    PROVE  /\ DOMAIN q = 1 .. Len(q) /\ Len(q) \in Nat
           /\ q \in [1 .. Len(q) -> T]
OBVIOUS

\* The empty sequence is the one of length 0.
LEMMA SeqEmpty ==
    ASSUME NEW T
    PROVE  /\ \A q \in Seq(T) : Len(q) = 0 <=> q = <<>>
           /\ <<>> \in Seq(T)
OBVIOUS

\* The elements of a sequence.
LEMMA SeqElement ==
    ASSUME NEW T, NEW q \in Seq(T), NEW n \in 1 .. Len(q)
    PROVE  q[n] \in T
OBVIOUS

\* A sequence with an element put behind it.
LEMMA SeqAppend ==
    ASSUME NEW T, NEW q \in Seq(T), NEW x \in T
    PROVE  /\ Len(Append(q, x)) = Len(q) + 1 /\ Append(q, x)[Len(q) + 1] = x
           /\ \A n \in 1 .. Len(q) : Append(q, x)[n] = q[n]
           /\ Append(q, x) \in Seq(T) /\ Append(q, x) # <<>>
OBVIOUS

\* The first element of a sequence and the rest.
LEMMA SeqHeadTail ==
    ASSUME NEW T, NEW q \in Seq(T), q # <<>>
    PROVE  /\ Tail(q) \in Seq(T) /\ Head(q) \in T
           /\ Len(Tail(q)) = Len(q) - 1
           /\ \A n \in 1 .. Len(Tail(q)) : Tail(q)[n] = q[n + 1]
OBVIOUS

\* The first packet of a flow that waits, and the rest.
LEMMA QueueHead ==
    ASSUME NEW T, NEW q \in Seq(T), q # <<>>
    PROVE  /\ Len(q) \in Nat \ {0} /\ Tail(q) \in Seq(T)
           /\ Len(Tail(q)) = Len(q) - 1 /\ Head(q) \in T
BY SeqEmpty, SeqLength, SeqHeadTail

\* A queue as long as a flow's may be holds a packet.
LEMMA FullIsNotEmpty ==
    ASSUME NEW q, Len(q) >= MaxPktsPerFlow
    PROVE  q # <<>>
BY TablesAssumption

\* A stretch of a sequence.
LEMMA SeqPart ==
    ASSUME NEW T, NEW q, NEW i \in Int, NEW j \in Int, \A n \in i .. j : q[n] \in T
    PROVE  /\ SubSeq(q, i, j) \in Seq(T)
           /\ \A n \in 1 .. j - i + 1 : SubSeq(q, i, j)[n] = q[i + n - 1]
           /\ Len(SubSeq(q, i, j)) = IF i <= j THEN j - i + 1 ELSE 0
OBVIOUS

\* One sequence behind another.
LEMMA SeqConcat ==
    ASSUME NEW T, NEW p \in Seq(T), NEW q \in Seq(T)
    PROVE  /\ Len(p \o q) = Len(p) + Len(q) /\ p \o q \in Seq(T)
           /\ \A n \in 1 .. Len(p) + Len(q) :
                 (p \o q)[n] = IF n <= Len(p) THEN p[n] ELSE q[n - Len(p)]
OBVIOUS

\* Sequences with the same elements are equal.
LEMMA SeqSame ==
    ASSUME NEW T, NEW p \in Seq(T), NEW q \in Seq(T),
           Len(q) = Len(p), \A n \in 1 .. Len(p) : p[n] = q[n]
    PROVE  p = q
OBVIOUS

PktType == [id : Nat, len : Lens]
FlowType == [in_use : BOOLEAN, key : Keys \cup {"none"}, q : Seq(PktType), has_gbr : BOOLEAN,
             list : Lists \cup {"NONE"}]
UeType == [flows : [Slots -> FlowType], active : [Lists -> Seq(Slots)]]
DrainType == [phase : {"idle", "gbr", "excess"}, list : Lists \cup {"NONE"}, budget : Int,
              sent : Int, attempts : Int, tries : Int, any : BOOLEAN]

\* A flow is in the list it names, once, and in no other.
Placed(u) ==
    \A l \in Lists : /\ IsInjective(u.active[l])
                     /\ \A s \in Slots : s \in Range(u.active[l]) <=> u.flows[s].list = l

\* Flows that differ in their list at most.
Same(f, g) ==
    f.in_use = g.in_use /\ f.key = g.key /\ f.q = g.q /\ f.has_gbr = g.has_gbr

\* v is u with another flow s, which is in its list again.
Moved(u, v, s) ==
    /\ v \in UeType /\ Placed(v)
    /\ \A t \in Slots : t # s => v.flows[t] = u.flows[t]

\* A flow between two steps: it has packets or it is free, and it names the
\* list its policy asks for.
FlowSound(f) ==
    /\ f.in_use <=> f.q # <<>>
    /\ f.list = shaper_active_list_for_head(f)
    /\ f.in_use => f.key \in Keys
    /\ ~f.in_use => f.key = "none"
    /\ Len(f.q) <= MaxPktsPerFlow

\* No two flows have the same key.
Rows(u) ==
    /\ \A s \in Slots : FlowSound(u.flows[s])
    /\ \A s, t \in Slots :
          u.flows[s].in_use /\ u.flows[t].in_use /\ u.flows[s].key = u.flows[t].key => s = t

\* Slot s, before and after a step, is the only one that can have key k.
OnlyOne(u, s, k) ==
    /\ u.flows[s].in_use => u.flows[s].key = k
    /\ \A t \in Slots : t # s => ~(u.flows[t].in_use /\ u.flows[t].key = k)

\* The flows keep their keys and queues.
Kept(u, v) ==
    /\ v \in UeType /\ Placed(v)
    /\ \A t \in Slots : /\ v.flows[t].in_use <=> u.flows[t].in_use
                        /\ v.flows[t].key = u.flows[t].key /\ v.flows[t].q = u.flows[t].q
                        /\ v.flows[t].list = shaper_active_list_for_head(v.flows[t])

TableInv == Ue \in UeType /\ Placed(Ue) /\ Rows(Ue)

CountInv ==
    /\ queued = Cardinality(Taken(flows)) /\ queued \in Nat /\ queued <= MaxPktsPerUe
    /\ pool \in Nat /\ pool + queued = PoolSize

RestInv ==
    /\ next_excess_list \in Lists /\ drain \in DrainType
    /\ offered \in Nat /\ sent \in [Keys -> Nat]
    /\ ueActive \in BOOLEAN /\ (drain.phase = "idle" /\ queued > 0 => ueActive)

\* The inductive invariant.
ShaperInv == TableInv /\ CountInv /\ RestInv

\* One pass of the loop of the drain, whatever the buckets say.
Tried(l) ==
    LET s == Head(active[l])
        u == shaper_deactivate_flow(Ue, s)
        p == Head(flows[s].q)
    IN  \/ Install(shaper_activate_flow(u, s)) /\ UNCHANGED <<queued, pool, sent>>
        \/ /\ Install(PopHead(u, s)) /\ queued' = queued - 1 /\ pool' = pool + 1
           /\ sent' \in {sent, [sent EXCEPT ![flows[s].key] = p.id]}

\* A step of the shaper is one of the queues, or none.
FifoStep == Fifo!Next \/ UNCHANGED Fifo!fifoVars

\* The drain's locals after a packet, at a list, and at either half of a round.
AfterSend(d, x, l, y) == [d EXCEPT !.sent = x, !.list = l, !.tries = y]
AtList(d, x, l, y) == [d EXCEPT !.tries = x, !.list = l, !.attempts = y]
GbrHalf(p, b, n) == [Idle EXCEPT !.phase = p, !.budget = b, !.attempts = n]
ExcessHalf(p, b, a) == [Idle EXCEPT !.phase = p, !.budget = b, !.any = a]

-----------------------------------------------------------------------------
(* Lists without repetition.                                                 *)

\* A flow joins a list it is not in.
LEMMA AppendOnce ==
    ASSUME NEW S, NEW q \in Seq(S), NEW e \in S, IsInjective(q), e \notin Range(q)
    PROVE  /\ Append(q, e) \in Seq(S) /\ IsInjective(Append(q, e))
           /\ Range(Append(q, e)) = Range(q) \cup {e}
<1>1. /\ Len(q) \in Nat /\ DOMAIN q = 1 .. Len(q) /\ Append(q, e) \in Seq(S)
      /\ Len(Append(q, e)) = Len(q) + 1
      /\ \A i \in 1 .. Len(q) : Append(q, e)[i] = q[i]
      /\ Append(q, e)[Len(q) + 1] = e
  BY SeqLength, SeqAppend
<1>2. DOMAIN Append(q, e) = 1 .. Len(q) + 1
  BY <1>1, SeqLength
<1>3. IsInjective(Append(q, e))
  BY <1>1, <1>2 DEF IsInjective, Range
<1>4. Range(Append(q, e)) = Range(q) \cup {e}
  BY <1>1, <1>2 DEF Range
<1> QED
  BY <1>1, <1>3, <1>4

\* A flow leaves its list.
LEMMA WithoutOnce ==
    ASSUME NEW S, NEW q \in Seq(S), NEW e, IsInjective(q)
    PROVE  /\ Without(q, e) \in Seq(S) /\ IsInjective(Without(q, e))
           /\ Range(Without(q, e)) = Range(q) \ {e}
<1> DEFINE at == {i \in 1 .. Len(q) : q[i] = e}
<1>1. Len(q) \in Nat /\ DOMAIN q = 1 .. Len(q) /\ q \in [1 .. Len(q) -> S]
  BY SeqLength
<1>2. CASE at = {}
  <2>1. Without(q, e) = q
    BY <1>2 DEF Without
  <2>2. e \notin Range(q)
    BY <1>1, <1>2 DEF Range
  <2> QED
    BY <2>1, <2>2
<1>3. CASE at # {}
  <2> DEFINE k == CHOOSE i \in at : TRUE
             a == SubSeq(q, 1, k - 1)
             b == SubSeq(q, k + 1, Len(q))
             r == a \o b
  <2>1. Without(q, e) = SubSeq(q, 1, k - 1) \o SubSeq(q, k + 1, Len(q))
    BY <1>3, ZenonT(30) DEF Without
  <2>2. k \in at
    BY <1>3
  <2>3. k \in 1 .. Len(q) /\ q[k] = e
    BY <2>2
  <2>4. Without(q, e) = r
    BY <2>1
  <2> HIDE DEF k
  <2>5. a \in Seq(S) /\ Len(a) = k - 1 /\ \A i \in 1 .. k - 1 : a[i] = q[i]
    BY <1>1, <2>3, SeqPart
  <2>6. b \in Seq(S) /\ Len(b) = Len(q) - k /\ \A i \in 1 .. Len(q) - k : b[i] = q[k + i]
    <3>1. /\ b \in Seq(S) /\ Len(b) = IF k + 1 <= Len(q) THEN Len(q) - (k + 1) + 1 ELSE 0
          /\ \A i \in 1 .. Len(q) - (k + 1) + 1 : b[i] = q[(k + 1) + i - 1]
      BY <1>1, <2>3, SeqPart
    <3> HIDE DEF a, b
    <3>2. Len(b) = Len(q) - k
      <4>1. Len(b) = IF k + 1 <= Len(q) THEN Len(q) - (k + 1) + 1 ELSE 0
        BY <3>1
      <4>2. Len(q) \in Nat /\ k \in Nat /\ k <= Len(q)
        BY <1>1, <2>3
      <4> QED
        BY <4>1, <4>2
    <3>3. ASSUME NEW i \in 1 .. Len(q) - k
          PROVE  b[i] = q[k + i]
      <4>1. i \in 1 .. Len(q) - (k + 1) + 1 /\ (k + 1) + i - 1 = k + i
        BY <1>1, <2>3
      <4>2. b[i] = q[(k + 1) + i - 1]
        BY <3>1, <4>1
      <4> QED
        BY <4>1, <4>2
    <3> QED
      BY <3>1, <3>2, <3>3
  <2> HIDE DEF a, b
  <2>7. /\ r \in Seq(S) /\ Len(r) = Len(q) - 1
        /\ \A i \in 1 .. Len(q) - 1 : r[i] = IF i <= k - 1 THEN a[i] ELSE b[i - (k - 1)]
    <3>1. /\ r \in Seq(S) /\ Len(r) = Len(a) + Len(b)
          /\ \A i \in 1 .. Len(a) + Len(b) : r[i] = IF i <= Len(a) THEN a[i] ELSE b[i - Len(a)]
      BY <2>5, <2>6, SeqConcat, ZenonT(30)
    <3>2. Len(a) + Len(b) = Len(q) - 1
      BY <1>1, <2>3, <2>5, <2>6
    <3> QED
      BY <2>5, <3>1, <3>2, ZenonT(30)
  <2>8. DOMAIN r = 1 .. Len(q) - 1
    BY <2>7, SeqLength
  <2> HIDE DEF r
  <2>9. \A i \in 1 .. Len(q) - 1 : r[i] = IF i < k THEN q[i] ELSE q[i + 1]
    <3> TAKE i \in 1 .. Len(q) - 1
    <3>1. CASE i < k
      BY <1>1, <2>3, <2>5, <2>7, <3>1
    <3>2. CASE ~(i < k)
      <4>1. i - (k - 1) \in 1 .. Len(q) - k /\ k + (i - (k - 1)) = i + 1
        BY <1>1, <2>3, <3>2
      <4> QED
        BY <1>1, <2>3, <2>6, <2>7, <3>2, <4>1
    <3> QED
      BY <3>1, <3>2
  <2>10. IsInjective(r)
    <3> SUFFICES ASSUME NEW i \in 1 .. Len(q) - 1, NEW j \in 1 .. Len(q) - 1, r[i] = r[j]
                 PROVE  i = j
      BY <2>8 DEF IsInjective
    <3> DEFINE x == IF i < k THEN i ELSE i + 1
               y == IF j < k THEN j ELSE j + 1
    <3>1. x \in 1 .. Len(q) /\ y \in 1 .. Len(q) /\ q[x] = q[y]
      BY <1>1, <2>3, <2>9
    <3>2. x = y
      BY <1>1, <3>1 DEF IsInjective
    <3> QED
      BY <1>1, <2>3, <3>2
  <2>11. Range(r) \subseteq Range(q) \ {e}
    <3> SUFFICES ASSUME NEW i \in 1 .. Len(q) - 1
                 PROVE  r[i] \in Range(q) /\ r[i] # e
      BY <2>8 DEF Range
    <3> DEFINE x == IF i < k THEN i ELSE i + 1
    <3>1. x \in 1 .. Len(q) /\ x # k /\ r[i] = q[x]
      BY <1>1, <2>3, <2>9
    <3> HIDE DEF x
    <3>2. q[x] # q[k]
      BY <1>1, <2>3, <3>1 DEF IsInjective
    <3> QED
      BY <1>1, <2>3, <3>1, <3>2 DEF Range
  <2>12. ASSUME NEW i \in 1 .. Len(q), q[i] # e
         PROVE  q[i] \in Range(r)
    <3> DEFINE x == IF i < k THEN i ELSE i - 1
    <3>1. x \in 1 .. Len(q) - 1 /\ r[x] = q[i]
      BY <1>1, <2>3, <2>9, <2>12
    <3> QED
      BY <2>8, <3>1 DEF Range
  <2>13. Range(q) = {q[i] : i \in 1 .. Len(q)}
    BY <1>1 DEF Range
  <2>14. Range(q) \ {e} \subseteq Range(r)
    BY <2>12, <2>13
  <2> QED
    BY <2>4, <2>7, <2>10, <2>11, <2>14
<1> QED
  BY <1>2, <1>3

-----------------------------------------------------------------------------
(* The operations on the table and the lists.                                *)

\* flow->active_list is set.
LEMMA ListSet ==
    ASSUME NEW f \in FlowType, NEW l \in Lists \cup {"NONE"}
    PROVE  /\ [f EXCEPT !.list = l] \in FlowType
           /\ [f EXCEPT !.list = l].list = l
           /\ Same([f EXCEPT !.list = l], f)
BY DEF FlowType, Same

\* flow->has_gbr is set.
LEMMA GbrSet ==
    ASSUME NEW f \in FlowType, NEW b \in BOOLEAN
    PROVE  LET g == [f EXCEPT !.has_gbr = b]
           IN  /\ g \in FlowType /\ g.has_gbr = b
               /\ g.in_use = f.in_use /\ g.key = f.key /\ g.q = f.q /\ g.list = f.list
BY DEF FlowType

\* The queue of a flow is changed.
LEMMA QueueSet ==
    ASSUME NEW f \in FlowType, NEW r \in Seq(PktType)
    PROVE  LET g == [f EXCEPT !.q = r]
           IN  /\ g \in FlowType /\ g.q = r
               /\ g.in_use = f.in_use /\ g.key = f.key /\ g.has_gbr = f.has_gbr
               /\ g.list = f.list
BY ZenonT(30) DEF FlowType

\* The two tables of a UE have their types.
LEMMA UeFields ==
    ASSUME NEW u \in UeType
    PROVE  u.flows \in [Slots -> FlowType] /\ u.active \in [Lists -> Seq(Slots)]
BY DEF UeType

\* WithFlow keeps the lists when it keeps the list of the flow.
LEMMA FlowReplaced ==
    ASSUME NEW u \in UeType, Placed(u), NEW s \in Slots, NEW f \in FlowType,
           f.list = u.flows[s].list
    PROVE  Moved(u, WithFlow(u, s, f), s) /\ WithFlow(u, s, f).flows[s] = f
<1> DEFINE v == WithFlow(u, s, f)
<1>1. u.flows \in [Slots -> FlowType] /\ u.active \in [Lists -> Seq(Slots)]
  BY UeFields
<1>2. v.flows = [u.flows EXCEPT ![s] = f] /\ v.active = u.active
  BY DEF WithFlow
<1>3. v.flows \in [Slots -> FlowType]
  BY <1>1, <1>2
<1>4. v \in UeType
  BY <1>1, <1>2, <1>3 DEF WithFlow, UeType
<1>5. v.flows[s] = f /\ \A t \in Slots : t # s => v.flows[t] = u.flows[t]
  BY <1>1, <1>2
<1> HIDE DEF v
<1>6. Placed(v)
  BY <1>2, <1>5 DEF Placed
<1> QED
  BY <1>4, <1>5, <1>6 DEF Moved, v

\* shaper_deactivate_flow takes the flow out of its list and changes nothing else.
LEMMA Deactivated ==
    ASSUME NEW u \in UeType, Placed(u), NEW s \in Slots
    PROVE  LET v == shaper_deactivate_flow(u, s)
           IN  Moved(u, v, s) /\ Same(v.flows[s], u.flows[s]) /\ v.flows[s].list = "NONE"
<1> DEFINE l == u.flows[s].list
           v == shaper_deactivate_flow(u, s)
<1>1. u.flows \in [Slots -> FlowType] /\ u.active \in [Lists -> Seq(Slots)]
  BY UeFields
<1>2. u.flows[s] \in FlowType /\ l \in Lists \cup {"NONE"}
  BY <1>1 DEF FlowType
<1>3. CASE l = "NONE"
  <2>1. v = u
    BY <1>3 DEF shaper_deactivate_flow
  <2> QED
    BY <1>3, <2>1 DEF Moved, Same
<1>4. CASE l # "NONE"
  <2> DEFINE f == [u.flows[s] EXCEPT !.list = "NONE"]
  <2>1. v.flows = [u.flows EXCEPT ![s] = f] /\ v.active = [u.active EXCEPT ![l] = Without(@, s)]
    BY <1>1, <1>4 DEF shaper_deactivate_flow
  <2>2. v = [flows |-> v.flows, active |-> v.active]
    BY <1>4 DEF shaper_deactivate_flow
  <2>3. f \in FlowType /\ f.list = "NONE" /\ Same(f, u.flows[s])
    BY <1>2, ListSet
  <2> HIDE DEF v, f
  <2>4. l \in Lists
    BY <1>2, <1>4
  <2>5. /\ Without(u.active[l], s) \in Seq(Slots) /\ IsInjective(Without(u.active[l], s))
        /\ Range(Without(u.active[l], s)) = Range(u.active[l]) \ {s}
    BY <1>1, <2>4, WithoutOnce DEF Placed
  <2> HIDE DEF l
  <2>6. v.flows \in [Slots -> FlowType] /\ v.active \in [Lists -> Seq(Slots)]
    BY <1>1, <2>1, <2>3, <2>4, <2>5
  <2>7. v \in UeType
    BY <2>2, <2>6 DEF UeType
  <2>8. v.flows[s] = f /\ \A t \in Slots : t # s => v.flows[t] = u.flows[t]
    BY <1>1, <2>1
  <2>9. /\ v.active[l] = Without(u.active[l], s)
        /\ \A m \in Lists : m # l => v.active[m] = u.active[m]
    BY <1>1, <2>1, <2>4
  <2>10. Placed(v)
    <3> SUFFICES ASSUME NEW m \in Lists
                 PROVE  /\ IsInjective(v.active[m])
                        /\ \A t \in Slots : t \in Range(v.active[m]) <=> v.flows[t].list = m
      BY DEF Placed
    <3>1. IsInjective(v.active[m])
      BY <2>5, <2>9 DEF Placed
    <3>2. ASSUME NEW t \in Slots
          PROVE  t \in Range(v.active[m]) <=> v.flows[t].list = m
      <4>1. t \in Range(u.active[m]) <=> u.flows[t].list = m
        BY DEF Placed
      <4>2. "NONE" # m
        BY DEF Lists
      <4> QED
        BY <2>3, <2>5, <2>8, <2>9, <4>1, <4>2 DEF l
    <3> QED
      BY <3>1, <3>2
  <2> QED
    BY <2>3, <2>7, <2>8, <2>10 DEF Moved, v
<1> QED
  BY <1>3, <1>4

\* The list of a flow: none without packets, and one that depends on the
\* policy and the key only.
LEMMA HeadList ==
    ASSUME NEW f \in FlowType
    PROVE  /\ f.q = <<>> => shaper_active_list_for_head(f) = "NONE"
           /\ f.q # <<>> => shaper_active_list_for_head(f) \in Lists
<1>1. f.has_gbr \in BOOLEAN
  BY DEF FlowType
<1> QED
  BY <1>1 DEF shaper_active_list_for_head, Lists

\* The list of a flow depends on its key, its queue and its policy only.
LEMMA HeadSame ==
    ASSUME NEW f, NEW g, f.key = g.key, f.q = g.q, f.has_gbr = g.has_gbr
    PROVE  shaper_active_list_for_head(f) = shaper_active_list_for_head(g)
BY DEF shaper_active_list_for_head

\* Flows with packets that agree in key and policy belong to the same list.
LEMMA HeadPolicy ==
    ASSUME NEW f \in FlowType, NEW g \in FlowType, f.key = g.key, f.q # <<>>, g.q # <<>>,
           f.has_gbr = g.has_gbr
    PROVE  shaper_active_list_for_head(f) = shaper_active_list_for_head(g)
<1>1. f.has_gbr \in BOOLEAN
  BY DEF FlowType
<1> QED
  BY <1>1 DEF shaper_active_list_for_head

\* shaper_activate_flow puts the flow once into the list its policy asks for.
LEMMA Activated ==
    ASSUME NEW u \in UeType, Placed(u), NEW s \in Slots, u.flows[s].q # <<>>
    PROVE  LET v == shaper_activate_flow(u, s)
           IN  /\ Moved(u, v, s) /\ Same(v.flows[s], u.flows[s])
               /\ v.flows[s].list = shaper_active_list_for_head(u.flows[s])
<1> DEFINE l == shaper_active_list_for_head(u.flows[s])
           d == shaper_deactivate_flow(u, s)
           v == shaper_activate_flow(u, s)
           f == [d.flows[s] EXCEPT !.list = l]
<1>1. u.flows[s] \in FlowType
  BY UeFields
<1>2. l \in Lists /\ l # "NONE"
  BY <1>1, HeadList DEF Lists
<1>3. Moved(u, d, s) /\ Same(d.flows[s], u.flows[s]) /\ d.flows[s].list = "NONE"
  BY Deactivated
<1>4. /\ d \in UeType /\ Placed(d)
      /\ \A t \in Slots : t # s => d.flows[t] = u.flows[t]
  BY <1>3 DEF Moved
<1>5. d.flows \in [Slots -> FlowType] /\ d.active \in [Lists -> Seq(Slots)]
  BY <1>4, UeFields
<1>6. /\ v.flows = [d.flows EXCEPT ![s] = f]
      /\ v.active = [d.active EXCEPT ![l] = Append(@, s)]
      /\ v = [flows |-> v.flows, active |-> v.active]
  <2> HIDE DEF l, d
  <2>1. v = [flows |-> [d.flows EXCEPT ![s] = [@ EXCEPT !.list = l]],
             active |-> [d.active EXCEPT ![l] = Append(@, s)]]
    BY <1>2 DEF shaper_activate_flow, l, d
  <2> HIDE DEF v
  <2> QED
    BY <1>5, <2>1
<1>7. d.flows[s] \in FlowType
  BY <1>5
<1> HIDE DEF l, d, v
<1>8. f \in FlowType /\ f.list = l /\ Same(f, d.flows[s])
  BY <1>2, <1>7, ListSet
<1> HIDE DEF f
<1>9. s \notin Range(d.active[l])
  BY <1>2, <1>3, <1>4 DEF Placed
<1>10. /\ Append(d.active[l], s) \in Seq(Slots) /\ IsInjective(Append(d.active[l], s))
       /\ Range(Append(d.active[l], s)) = Range(d.active[l]) \cup {s}
  BY <1>2, <1>4, <1>5, <1>9, AppendOnce DEF Placed
<1>11. v.flows \in [Slots -> FlowType] /\ v.active \in [Lists -> Seq(Slots)]
  BY <1>2, <1>5, <1>6, <1>8, <1>10
<1>12. v \in UeType
  BY <1>6, <1>11, ZenonT(30) DEF UeType
<1>13. v.flows[s] = f /\ \A t \in Slots : t # s => v.flows[t] = d.flows[t]
  BY <1>5, <1>6
<1>14. /\ v.active[l] = Append(d.active[l], s)
       /\ \A m \in Lists : m # l => v.active[m] = d.active[m]
  BY <1>2, <1>5, <1>6
<1>15. Placed(v)
  <2> SUFFICES ASSUME NEW m \in Lists
               PROVE  /\ IsInjective(v.active[m])
                      /\ \A t \in Slots : t \in Range(v.active[m]) <=> v.flows[t].list = m
    BY DEF Placed
  <2>1. IsInjective(v.active[m])
    BY <1>4, <1>10, <1>14, ZenonT(30) DEF Placed
  <2>2. ASSUME NEW t \in Slots
        PROVE  t \in Range(v.active[m]) <=> v.flows[t].list = m
    <3>1. t \in Range(d.active[m]) <=> d.flows[t].list = m
      BY <1>4 DEF Placed
    <3>2. "NONE" # m
      BY DEF Lists
    <3>3. Range(v.active[m]) = IF m = l THEN Range(d.active[m]) \cup {s} ELSE Range(d.active[m])
      BY <1>10, <1>14, ZenonT(30)
    <3>4. CASE t = s
      BY <1>3, <1>8, <1>13, <3>1, <3>2, <3>3, <3>4
    <3>5. CASE t # s
      BY <1>13, <3>1, <3>3, <3>5
    <3> QED
      BY <3>4, <3>5
  <2> QED
    BY <2>1, <2>2
<1>16. Same(f, u.flows[s])
  BY <1>3, <1>8 DEF Same
<1>17. Moved(u, v, s)
  BY <1>4, <1>12, <1>13, <1>15 DEF Moved
<1> QED
  BY <1>8, <1>13, <1>16, <1>17 DEF v, l

\* A flow entry that is given back is like a fresh one.
LEMMA NoFlowFields ==
    /\ NoFlow \in FlowType /\ ~NoFlow.in_use /\ NoFlow.key = "none" /\ NoFlow.q = <<>>
    /\ NoFlow.list = "NONE"
BY DEF NoFlow, FlowType

\* shaper_release_empty_flow leaves a free slot that is in no list.
LEMMA Released ==
    ASSUME NEW u \in UeType, Placed(u), NEW s \in Slots
    PROVE  LET v == shaper_release_empty_flow(u, s)
           IN  Moved(u, v, s) /\ v.flows[s] = NoFlow
<1> DEFINE d == shaper_deactivate_flow(u, s)
           v == WithFlow(d, s, NoFlow)
<1>1. Moved(u, d, s) /\ d.flows[s].list = "NONE"
  BY Deactivated
<1>2. /\ d \in UeType /\ Placed(d)
      /\ \A t \in Slots : t # s => d.flows[t] = u.flows[t]
  BY <1>1 DEF Moved
<1>3. NoFlow \in FlowType /\ NoFlow.list = "NONE"
  BY NoFlowFields, ZenonT(30)
<1> HIDE DEF d
<1>4. Moved(d, v, s) /\ v.flows[s] = NoFlow
  BY <1>1, <1>2, <1>3, FlowReplaced
<1> HIDE DEF v
<1>5. Moved(u, v, s)
  BY <1>2, <1>4 DEF Moved
<1> QED
  BY <1>4, <1>5 DEF shaper_release_empty_flow, d, v

\* A change of policy moves a flow that waits to its new list.
LEMMA PolicySet ==
    ASSUME NEW u \in UeType, Placed(u), NEW s \in Slots, NEW gbr \in BOOLEAN,
           u.flows[s].list = shaper_active_list_for_head(u.flows[s])
    PROVE  LET v == shaper_update_flow_policy(u, s, gbr)
           IN  /\ Moved(u, v, s)
               /\ v.flows[s].in_use = u.flows[s].in_use /\ v.flows[s].key = u.flows[s].key
               /\ v.flows[s].q = u.flows[s].q
               /\ v.flows[s].list = shaper_active_list_for_head(v.flows[s])
<1> DEFINE f == u.flows[s]
           d == shaper_deactivate_flow(u, s)
           g == [d.flows[s] EXCEPT !.has_gbr = gbr]
           w == WithFlow(d, s, g)
           v == shaper_update_flow_policy(u, s, gbr)
<1>1. f \in FlowType /\ f.has_gbr \in BOOLEAN
  <2>1. f \in FlowType
    BY UeFields
  <2> QED
    BY <2>1 DEF FlowType
<1>2. CASE f.has_gbr = gbr
  <2>1. v = u
    BY <1>2 DEF shaper_update_flow_policy
  <2> QED
    BY <2>1 DEF Moved
<1>3. CASE f.has_gbr # gbr
  <2>1. Moved(u, d, s) /\ Same(d.flows[s], f) /\ d.flows[s].list = "NONE"
    BY Deactivated
  <2>2. /\ d \in UeType /\ Placed(d)
        /\ \A t \in Slots : t # s => d.flows[t] = u.flows[t]
    BY <2>1 DEF Moved
  <2>3. v = IF f.list = "NONE" THEN w ELSE shaper_activate_flow(w, s)
    BY <1>3 DEF shaper_update_flow_policy
  <2> HIDE DEF v, d
  <2>4. d.flows[s] \in FlowType
    BY <2>2, UeFields
  <2>5. /\ g \in FlowType /\ g.list = "NONE"
        /\ g.in_use = f.in_use /\ g.key = f.key /\ g.q = f.q
    BY <2>1, <2>4, GbrSet DEF Same
  <2> HIDE DEF g
  <2>6. Moved(d, w, s) /\ w.flows[s] = g
    BY <2>1, <2>2, <2>5, FlowReplaced
  <2> HIDE DEF w
  <2>7. Moved(u, w, s)
    BY <2>2, <2>6 DEF Moved
  <2>8. CASE f.list = "NONE"
    <3>1. f.q = <<>>
      BY <1>1, <2>8, HeadList, ZenonT(30) DEF Lists
    <3>2. shaper_active_list_for_head(g) = "NONE"
      BY <2>5, <3>1, HeadList
    <3> QED
      BY <2>3, <2>5, <2>6, <2>7, <2>8, <3>2 DEF v
  <2>9. CASE f.list # "NONE"
    <3> DEFINE a == shaper_activate_flow(w, s)
    <3>1. f.q # <<>>
      BY <1>1, <2>9, HeadList
    <3>2. w \in UeType /\ Placed(w) /\ w.flows[s].q # <<>>
      BY <2>5, <2>6, <3>1 DEF Moved
    <3>3. /\ Moved(w, a, s) /\ Same(a.flows[s], g)
          /\ a.flows[s].list = shaper_active_list_for_head(g)
      BY <2>6, <3>2, Activated
    <3> HIDE DEF a
    <3>4. Moved(u, a, s)
      BY <2>7, <3>3 DEF Moved
    <3>5. shaper_active_list_for_head(a.flows[s]) = shaper_active_list_for_head(g)
      BY <3>3, HeadSame DEF Same
    <3>6. v = a
      BY <2>3, <2>9 DEF a
    <3> QED
      BY <2>5, <3>3, <3>4, <3>5, <3>6 DEF v, Same
  <2> QED
    BY <2>8, <2>9
<1> QED
  BY <1>2, <1>3

-----------------------------------------------------------------------------
(* The number of waiting packets.                                            *)

\* The places of the queues can be counted.
LEMMA TakenFinite == \A fl : IsFiniteSet(Taken(fl))
<1>1. IsFiniteSet(Slots) /\ IsFiniteSet(1..MaxPktsPerFlow)
  BY TablesAssumption, FS_Interval DEF Slots
<1>2. IsFiniteSet(Slots \X (1..MaxPktsPerFlow))
  BY <1>1, FS_Product, ZenonT(30)
<1> QED
  BY <1>2, FS_Subset DEF Taken

\* A packet more at the end of the queue of flow s.
LEMMA OneMore ==
    ASSUME NEW fl \in [Slots -> FlowType], NEW gl \in [Slots -> FlowType], NEW s \in Slots,
           \A t \in Slots : t # s => gl[t] = fl[t],
           Len(gl[s].q) = Len(fl[s].q) + 1, Len(gl[s].q) <= MaxPktsPerFlow
    PROVE  Cardinality(Taken(gl)) = Cardinality(Taken(fl)) + 1
<1> DEFINE n == Len(gl[s].q)
           e == <<s, n>>
<1>1. \A t \in Slots : Len(fl[t].q) \in Nat /\ Len(gl[t].q) \in Nat
  BY SeqLength DEF FlowType
<1>2. n \in 1..MaxPktsPerFlow /\ Len(fl[s].q) = n - 1
  BY <1>1, TablesAssumption
<1> HIDE DEF n
<1>3. e \in Taken(gl) /\ e \notin Taken(fl)
  <2>1. e \in Slots \X (1..MaxPktsPerFlow) /\ e[1] = s /\ e[2] = n
    BY <1>2
  <2> QED
    BY <1>2, <2>1, TablesAssumption DEF Taken, n
<1>4. ASSUME NEW t \in Slots, NEW i \in 1..MaxPktsPerFlow
      PROVE  <<t, i>> \in Taken(gl) <=> <<t, i>> \in Taken(fl) \/ <<t, i>> = e
  <2>1. /\ <<t, i>> \in Taken(gl) <=> i <= Len(gl[t].q)
        /\ <<t, i>> \in Taken(fl) <=> i <= Len(fl[t].q)
    BY DEF Taken
  <2>2. CASE t # s
    BY <2>1, <2>2
  <2>3. CASE t = s
    BY <1>2, <2>1, <2>3, TablesAssumption DEF n
  <2> QED
    BY <2>2, <2>3
<1>5. \A p \in Slots \X (1..MaxPktsPerFlow) : p = <<p[1], p[2]>> /\ p[1] \in Slots /\ p[2] \in 1..MaxPktsPerFlow
  OBVIOUS
<1>6. \A p \in Slots \X (1..MaxPktsPerFlow) : p \in Taken(gl) <=> p \in Taken(fl) \/ p = e
  BY <1>4, <1>5
<1>7. Taken(gl) \subseteq Slots \X (1..MaxPktsPerFlow) /\ Taken(fl) \subseteq Slots \X (1..MaxPktsPerFlow)
  BY DEF Taken
<1>8. Taken(gl) = Taken(fl) \cup {e}
  BY <1>3, <1>6, <1>7
<1> QED
  BY <1>3, <1>8, TakenFinite, FS_AddElement, ZenonT(30)

\* A table of free slots has no packets.
LEMMA NoneTaken ==
    ASSUME NEW fl, \A t \in Slots : fl[t].q = <<>>
    PROVE  Cardinality(Taken(fl)) = 0
<1>1. Taken(fl) = {}
  BY SeqEmpty DEF Taken
<1> QED
  BY <1>1, FS_EmptySet

\* The places that are taken depend on the queues only.
LEMMA SameTaken ==
    ASSUME NEW fl, NEW gl, \A t \in Slots : gl[t].q = fl[t].q
    PROVE  Taken(gl) = Taken(fl)
BY DEF Taken

-----------------------------------------------------------------------------
(* The refinement mapping.                                                   *)

\* s is the only slot that can have a flow with key k.
LEMMA OwnQueue ==
    ASSUME NEW fl, NEW k, NEW s \in Slots, fl[s].in_use \in BOOLEAN,
           fl[s].in_use => fl[s].key = k,
           \A t \in Slots : t # s => ~(fl[t].in_use /\ fl[t].key = k)
    PROVE  Queue(fl, k) = IF fl[s].in_use THEN Numbers(fl[s].q) ELSE <<>>
<1> DEFINE at == {t \in Slots : fl[t].in_use /\ fl[t].key = k}
<1>1. Queue(fl, k) = IF at = {} THEN <<>> ELSE Numbers(fl[CHOOSE t \in at : TRUE].q)
  BY DEF Queue
<1>2. CASE fl[s].in_use
  <2>1. at = {s}
    BY <1>2
  <2>2. (CHOOSE t \in at : TRUE) = s
    BY <2>1
  <2> HIDE DEF at
  <2> QED
    BY <1>1, <1>2, <2>1, <2>2
<1>3. CASE ~fl[s].in_use
  <2>1. at = {}
    BY <1>3
  <2> QED
    BY <1>1, <1>3, <2>1
<1> QED
  BY <1>2, <1>3

\* The queue of a key that slot s has nothing to do with.
LEMMA OtherQueue ==
    ASSUME NEW fl, NEW gl, NEW k, NEW s \in Slots,
           \A t \in Slots : t # s => gl[t] = fl[t],
           ~(fl[s].in_use /\ fl[s].key = k), ~(gl[s].in_use /\ gl[s].key = k)
    PROVE  Queue(gl, k) = Queue(fl, k)
<1> DEFINE at == {t \in Slots : fl[t].in_use /\ fl[t].key = k}
           bt == {t \in Slots : gl[t].in_use /\ gl[t].key = k}
           Pick(S) == CHOOSE t \in S : TRUE
<1>1. /\ Queue(fl, k) = IF at = {} THEN <<>> ELSE Numbers(fl[Pick(at)].q)
      /\ Queue(gl, k) = IF bt = {} THEN <<>> ELSE Numbers(gl[Pick(bt)].q)
  BY DEF Queue
<1>2. at = bt /\ \A t \in at : t \in Slots /\ t # s
  OBVIOUS
<1>3. at # {} => Pick(at) \in at
  OBVIOUS
<1>4. at # {} => gl[Pick(at)] = fl[Pick(at)]
  BY <1>2, <1>3
<1> HIDE DEF Pick, at, bt
<1> QED
  BY <1>1, <1>2, <1>4

\* Flows that keep their keys and queues.
LEMMA SameQueue ==
    ASSUME NEW fl, NEW gl, NEW k,
           \A t \in Slots : /\ gl[t].in_use <=> fl[t].in_use
                            /\ gl[t].key = fl[t].key /\ gl[t].q = fl[t].q
    PROVE  Queue(gl, k) = Queue(fl, k)
<1> DEFINE at == {t \in Slots : fl[t].in_use /\ fl[t].key = k}
           bt == {t \in Slots : gl[t].in_use /\ gl[t].key = k}
           Pick(S) == CHOOSE t \in S : TRUE
<1>1. /\ Queue(fl, k) = IF at = {} THEN <<>> ELSE Numbers(fl[Pick(at)].q)
      /\ Queue(gl, k) = IF bt = {} THEN <<>> ELSE Numbers(gl[Pick(bt)].q)
  BY DEF Queue
<1>2. at = bt
  OBVIOUS
<1>3. at # {} => Pick(at) \in Slots
  OBVIOUS
<1>4. at # {} => gl[Pick(at)].q = fl[Pick(at)].q
  BY <1>3
<1> HIDE DEF Pick, at, bt
<1> QED
  BY <1>1, <1>2, <1>4

\* The packet numbers of a queue are a sequence of numbers.
LEMMA NumbersType ==
    ASSUME NEW q \in Seq(PktType)
    PROVE  /\ Numbers(q) \in Seq(Nat) /\ Len(Numbers(q)) = Len(q)
           /\ \A i \in 1 .. Len(q) : Numbers(q)[i] = q[i].id
<1>1. Len(q) \in Nat /\ \A i \in 1 .. Len(q) : q[i] \in PktType
  BY SeqLength, SeqElement
<1>2. \A i \in 1 .. Len(q) : q[i].id \in Nat
  BY <1>1 DEF PktType
<1>3. Numbers(q) \in [1 .. Len(q) -> Nat]
  BY <1>2 DEF Numbers
<1>4. Numbers(q) \in Seq(Nat)
  <2> DEFINE x == Numbers(q)
             n == Len(q)
  <2> HIDE DEF x, n
  <2>1. x \in [1 .. n -> Nat] /\ n \in Nat
    BY <1>1, <1>3 DEF x, n
  <2>2. x \in Seq(Nat)
    BY <2>1
  <2> QED
    BY <2>2 DEF x
<1>5. Len(Numbers(q)) = Len(q)
  BY <1>1, <1>3, <1>4, SeqLength
<1> QED
  BY <1>4, <1>5 DEF Numbers

\* A packet that joins a queue joins its numbers.
LEMMA NumbersAppend ==
    ASSUME NEW q \in Seq(PktType), NEW p \in PktType
    PROVE  Numbers(Append(q, p)) = Append(Numbers(q), p.id)
<1> DEFINE a == Numbers(Append(q, p))
           b == Append(Numbers(q), p.id)
<1>1. /\ Append(q, p) \in Seq(PktType) /\ Len(q) \in Nat /\ Len(Append(q, p)) = Len(q) + 1
      /\ \A i \in 1 .. Len(q) : Append(q, p)[i] = q[i]
      /\ Append(q, p)[Len(q) + 1] = p
  BY SeqLength, SeqAppend
<1>2. p.id \in Nat
  BY DEF PktType
<1>3. /\ a \in Seq(Nat) /\ Len(a) = Len(q) + 1
      /\ \A i \in 1 .. Len(q) + 1 : a[i] = Append(q, p)[i].id
  BY <1>1, NumbersType, ZenonT(30)
<1>4. /\ Numbers(q) \in Seq(Nat) /\ Len(Numbers(q)) = Len(q)
      /\ \A i \in 1 .. Len(q) : Numbers(q)[i] = q[i].id
  BY NumbersType
<1>5. /\ b \in Seq(Nat) /\ Len(b) = Len(q) + 1
      /\ \A i \in 1 .. Len(q) : b[i] = q[i].id
      /\ b[Len(q) + 1] = p.id
  BY <1>1, <1>2, <1>4, SeqAppend
<1> HIDE DEF a, b
<1>6. \A i \in 1 .. Len(q) + 1 : a[i] = b[i]
  <2> TAKE i \in 1 .. Len(q) + 1
  <2>1. i = Len(q) + 1 \/ i \in 1 .. Len(q)
    BY <1>1
  <2> QED
    BY <1>1, <1>3, <1>5, <2>1, ZenonT(30)
<1>7. a = b
  BY <1>3, <1>5, <1>6, SeqSame
<1> QED
  BY <1>7 DEF a, b

\* A packet that leaves the queue at the front is the first of its numbers.
LEMMA NumbersTail ==
    ASSUME NEW q \in Seq(PktType), q # <<>>
    PROVE  /\ Numbers(q) # <<>> /\ Head(Numbers(q)) = Head(q).id
           /\ Numbers(Tail(q)) = Tail(Numbers(q))
<1> DEFINE a == Numbers(Tail(q))
           n == Numbers(q)
           b == Tail(n)
<1>1. /\ Len(q) \in Nat \ {0} /\ Tail(q) \in Seq(PktType) /\ Len(Tail(q)) = Len(q) - 1
      /\ Head(q) = q[1] /\ \A i \in 1 .. Len(q) - 1 : Tail(q)[i] = q[i + 1]
  BY SeqEmpty, SeqLength, SeqHeadTail
<1>2. /\ n \in Seq(Nat) /\ Len(n) = Len(q)
      /\ \A i \in 1 .. Len(q) : n[i] = q[i].id
  BY NumbersType
<1>3. /\ a \in Seq(Nat) /\ Len(a) = Len(q) - 1
      /\ \A i \in 1 .. Len(q) - 1 : a[i] = Tail(q)[i].id
  BY <1>1, NumbersType, ZenonT(30)
<1> HIDE DEF a, n
<1>4. n # <<>>
  BY <1>1, <1>2, SeqEmpty
<1>5. /\ b \in Seq(Nat) /\ Len(b) = Len(q) - 1 /\ Head(n) = n[1]
      /\ \A i \in 1 .. Len(q) - 1 : b[i] = n[i + 1]
  BY <1>1, <1>2, <1>4, SeqHeadTail
<1> HIDE DEF b
<1>6. \A i \in 1 .. Len(q) - 1 : a[i] = b[i]
  <2> TAKE i \in 1 .. Len(q) - 1
  <2>1. i + 1 \in 1 .. Len(q)
    BY <1>1
  <2> QED
    BY <1>1, <1>2, <1>3, <1>5, <2>1
<1>7. a = b
  BY <1>3, <1>5, <1>6, SeqSame, ZenonT(30)
<1>8. Head(n) = Head(q).id
  BY <1>1, <1>2, <1>5
<1> QED
  BY <1>4, <1>7, <1>8 DEF a, b, n

-----------------------------------------------------------------------------
(* What a step makes of the table.                                           *)

\* A sound record of both tables makes the next state of the tables sound.
LEMMA Installed ==
    ASSUME NEW v \in UeType, Placed(v), Rows(v), Install(v)
    PROVE  TableInv' /\ flows' = v.flows
<1>1. flows' = v.flows /\ active' = v.active
  BY DEF Install
<1>2. v.flows \in [Slots -> FlowType] /\ v.active \in [Lists -> Seq(Slots)]
  BY UeFields
<1>3. /\ Ue' = [flows |-> v.flows, active |-> v.active]
  BY <1>1 DEF Ue
<1>4. Ue' \in UeType
  BY <1>2, <1>3 DEF UeType
<1>5. Placed(Ue')
  BY <1>3 DEF Placed
<1>6. Rows(Ue')
  BY <1>3 DEF Rows
<1> QED
  BY <1>1, <1>4, <1>5, <1>6 DEF TableInv, Placed, Rows, UeType

\* Flows that keep their keys and queues stay sound, and the queues stay.
LEMMA KeptRows ==
    ASSUME NEW u \in UeType, Rows(u), NEW v, Kept(u, v)
    PROVE  Rows(v) /\ Taken(v.flows) = Taken(u.flows)
           /\ \A k : Queue(v.flows, k) = Queue(u.flows, k)
<1>1. \A t \in Slots : /\ v.flows[t].in_use <=> u.flows[t].in_use
                       /\ v.flows[t].key = u.flows[t].key /\ v.flows[t].q = u.flows[t].q
                       /\ v.flows[t].list = shaper_active_list_for_head(v.flows[t])
  BY DEF Kept
<1>2. \A s \in Slots : FlowSound(v.flows[s])
  BY <1>1 DEF Rows, FlowSound
<1>3. Rows(v)
  BY <1>1, <1>2 DEF Rows
<1>4. Taken(v.flows) = Taken(u.flows)
  BY <1>1, SameTaken
<1>5. \A k : Queue(v.flows, k) = Queue(u.flows, k)
  BY <1>1, SameQueue
<1> QED
  BY <1>3, <1>4, <1>5

\* What a change of the flow in slot s, of key k, leaves of the others and makes of its own.
RowChange(u, v, s, k) ==
    /\ Rows(v) /\ OnlyOne(v, s, k)
    /\ \A j : j # k => Queue(v.flows, j) = Queue(u.flows, j)
    /\ Queue(u.flows, k) = IF u.flows[s].in_use THEN Numbers(u.flows[s].q) ELSE <<>>
    /\ Queue(v.flows, k) = IF v.flows[s].in_use THEN Numbers(v.flows[s].q) ELSE <<>>

\* One flow changed and stays sound.
LEMMA ChangedRows ==
    ASSUME NEW u \in UeType, Rows(u), NEW v, NEW s \in Slots, NEW k, Moved(u, v, s),
           OnlyOne(u, s, k), FlowSound(v.flows[s]), v.flows[s].in_use => v.flows[s].key = k
    PROVE  RowChange(u, v, s, k)
<1>1. v \in UeType /\ \A t \in Slots : t # s => v.flows[t] = u.flows[t]
  BY DEF Moved
<1>2. u.flows \in [Slots -> FlowType] /\ v.flows \in [Slots -> FlowType]
  BY <1>1, UeFields
<1>3. u.flows[s].in_use \in BOOLEAN /\ v.flows[s].in_use \in BOOLEAN
  BY <1>2 DEF FlowType
<1>4. OnlyOne(v, s, k)
  BY <1>1 DEF OnlyOne
<1>5. \A t \in Slots : FlowSound(v.flows[t])
  BY <1>1 DEF Rows
<1>6. ASSUME NEW t \in Slots, NEW r \in Slots, v.flows[t].in_use, v.flows[r].in_use,
             v.flows[t].key = v.flows[r].key
      PROVE  t = r
  <2>1. CASE t # s /\ r # s
    BY <1>1, <1>6, <2>1 DEF Rows
  <2>2. CASE t = s \/ r = s
    BY <1>4, <1>6, <2>2 DEF OnlyOne
  <2> QED
    BY <2>1, <2>2
<1>7. Rows(v)
  BY <1>5, <1>6 DEF Rows
<1>8. ASSUME NEW j, j # k
      PROVE  Queue(v.flows, j) = Queue(u.flows, j)
  <2>1. ~(u.flows[s].in_use /\ u.flows[s].key = j) /\ ~(v.flows[s].in_use /\ v.flows[s].key = j)
    BY <1>8 DEF OnlyOne
  <2> QED
    BY <1>1, <2>1, OtherQueue
<1>9. Queue(u.flows, k) = IF u.flows[s].in_use THEN Numbers(u.flows[s].q) ELSE <<>>
  BY <1>3, OwnQueue DEF OnlyOne
<1>10. Queue(v.flows, k) = IF v.flows[s].in_use THEN Numbers(v.flows[s].q) ELSE <<>>
  BY <1>3, <1>4, OwnQueue, ZenonT(30) DEF OnlyOne
<1> QED
  BY <1>4, <1>7, <1>8, <1>9, <1>10 DEF RowChange

\* The flow a packet belongs to, after its policy was brought up to date.
LEMMA FoundFlow ==
    ASSUME TableInv, NEW k \in Keys, NEW gbr \in BOOLEAN, NEW found \in Found(k, gbr)
    PROVE  LET s == found[1]
               u == found[2]
           IN  /\ s \in Slots /\ Moved(Ue, u, s) /\ OnlyOne(Ue, s, k)
               /\ u.flows[s].in_use /\ u.flows[s].key = k /\ u.flows[s].q = flows[s].q
               /\ u.flows[s].list = shaper_active_list_for_head(u.flows[s])
<1> DEFINE old == shaper_lookup_flow(Ue, k)
<1>1. Ue \in UeType /\ Placed(Ue) /\ Rows(Ue) /\ Ue.flows = flows
  BY DEF TableInv, Ue
<1>2. old = {s \in Slots : flows[s].in_use /\ flows[s].key = k}
  BY <1>1 DEF shaper_lookup_flow
<1>3. flows \in [Slots -> FlowType]
  BY <1>1, UeFields
<1> HIDE DEF old
<1>4. CASE old # {}
  <2>1. PICK s \in old : found = <<s, shaper_update_flow_policy(Ue, s, gbr)>>
    BY <1>4 DEF Found, old
  <2> DEFINE u == shaper_update_flow_policy(Ue, s, gbr)
  <2>2. s \in Slots /\ flows[s].in_use /\ flows[s].key = k
    BY <1>2, <2>1
  <2>3. flows[s].list = shaper_active_list_for_head(flows[s])
    BY <1>1, <2>2 DEF Rows, FlowSound
  <2>4. /\ Moved(Ue, u, s)
        /\ u.flows[s].in_use = flows[s].in_use /\ u.flows[s].key = flows[s].key
        /\ u.flows[s].q = flows[s].q
        /\ u.flows[s].list = shaper_active_list_for_head(u.flows[s])
    BY <1>1, <2>2, <2>3, PolicySet, ZenonT(30)
  <2>5. OnlyOne(Ue, s, k)
    BY <1>1, <2>2 DEF OnlyOne, Rows
  <2>6. found[1] = s /\ found[2] = u
    BY <2>1
  <2> HIDE DEF u
  <2> QED
    BY <2>2, <2>4, <2>5, <2>6, ZenonT(30)
<1>5. CASE old = {}
  <2>1. PICK s \in FreeSlots(Ue) :
            found = <<s, shaper_update_flow_policy(WithFlow(Ue, s, NewFlow(k)), s, gbr)>>
    BY <1>5 DEF Found, old
  <2> DEFINE n == NewFlow(k)
             w == WithFlow(Ue, s, n)
             u == shaper_update_flow_policy(w, s, gbr)
  <2>2. s \in Slots /\ ~flows[s].in_use
    BY <1>1, <2>1 DEF FreeSlots
  <2>3. flows[s] \in FlowType /\ FlowSound(flows[s])
    BY <1>1, <1>3, <2>2 DEF Rows
  <2>4. flows[s].q = <<>>
    BY <2>2, <2>3 DEF FlowSound
  <2>5. flows[s].list = "NONE"
    BY <2>3, <2>4, HeadList DEF FlowSound
  <2>6. /\ n \in FlowType /\ n.in_use /\ n.key = k /\ n.q = <<>> /\ n.list = "NONE"
    BY DEF NewFlow, FlowType
  <2> HIDE DEF n
  <2>7. Moved(Ue, w, s) /\ w.flows[s] = n
    BY <1>1, <2>2, <2>5, <2>6, FlowReplaced
  <2> HIDE DEF w
  <2>8. n.list = shaper_active_list_for_head(n)
    BY <2>6, HeadList
  <2>9. w \in UeType /\ Placed(w) /\ \A t \in Slots : t # s => w.flows[t] = Ue.flows[t]
    BY <2>7 DEF Moved
  <2>10. /\ Moved(w, u, s)
         /\ u.flows[s].in_use = n.in_use /\ u.flows[s].key = n.key
         /\ u.flows[s].q = n.q
         /\ u.flows[s].list = shaper_active_list_for_head(u.flows[s])
    BY <2>2, <2>7, <2>8, <2>9, PolicySet
  <2>11. found[1] = s /\ found[2] = u
    BY <2>1 DEF w, n
  <2> HIDE DEF u
  <2>12. Moved(Ue, u, s)
    BY <2>9, <2>10 DEF Moved
  <2>13. OnlyOne(Ue, s, k)
    BY <1>1, <1>2, <1>5, <2>2 DEF OnlyOne
  <2> QED
    BY <2>2, <2>4, <2>6, <2>10, <2>11, <2>12, <2>13, ZenonT(30)
<1> QED
  BY <1>4, <1>5

\* A step that keeps keys and queues keeps the invariant and the abstract queues.
LEMMA KeptStep ==
    ASSUME TableInv, NEW v, Kept(Ue, v), Install(v)
    PROVE  TableInv' /\ Taken(flows') = Taken(flows) /\ Waiting' = Waiting
<1>1. Ue \in UeType /\ Rows(Ue) /\ Ue.flows = flows
  BY DEF TableInv, Ue
<1>2. /\ Rows(v) /\ Taken(v.flows) = Taken(flows)
      /\ \A k : Queue(v.flows, k) = Queue(flows, k)
  BY <1>1, KeptRows
<1>3. v \in UeType /\ Placed(v)
  BY DEF Kept
<1>4. TableInv' /\ flows' = v.flows
  BY <1>2, <1>3, Installed
<1>5. Waiting' = Waiting
  BY <1>2, <1>4 DEF Waiting
<1> QED
  BY <1>2, <1>4, <1>5

\* Changing nothing keeps keys and queues.
LEMMA KeptSelf == TableInv => Kept(Ue, Ue)
BY DEF TableInv, Kept, Rows, FlowSound

\* A packet that is dropped: nothing that counts has changed.
LEMMA RefusedStep ==
    ASSUME ShaperInv, NEW v, Kept(Ue, v), Drop(v), offered < MaxOffered, offered' = offered + 1,
           UNCHANGED <<next_excess_list, depth, drain>>
    PROVE  ShaperInv' /\ Fifo!Next
<1>1. TableInv' /\ Taken(flows') = Taken(flows) /\ Waiting' = Waiting
  BY KeptStep DEF ShaperInv, Drop
<1>2. UNCHANGED <<queued, ueActive, pool, sent>>
  BY DEF Drop
<1>3. CountInv'
  BY <1>1, <1>2 DEF ShaperInv, CountInv
<1>4. RestInv'
  BY <1>2 DEF ShaperInv, RestInv
<1>5. Fifo!Refuse
  BY <1>1, <1>2 DEF Fifo!Refuse, Fifo!Arrive
<1> QED
  BY <1>1, <1>3, <1>4, <1>5 DEF ShaperInv, Fifo!Next

\* A packet that passes at once: no flow with its key waits.
LEMMA PassStep ==
    ASSUME ShaperInv, NEW k \in Keys, NEW gbr, NEW len, FastPath(k, gbr, len),
           offered < MaxOffered, offered' = offered + 1,
           UNCHANGED <<next_excess_list, depth, drain>>
    PROVE  ShaperInv' /\ Fifo!Next
<1>1. /\ shaper_lookup_flow(Ue, k) = {} /\ sent' = [sent EXCEPT ![k] = offered']
      /\ UNCHANGED <<flows, active, queued, ueActive, pool>>
  BY ZenonT(30) DEF FastPath
<1>2. TableInv' /\ Waiting' = Waiting
  <2>1. Ue' = Ue
    BY <1>1 DEF Ue
  <2> QED
    BY <1>1, <2>1 DEF ShaperInv, TableInv, Placed, Rows, UeType, Waiting
<1>3. CountInv'
  BY <1>1 DEF ShaperInv, CountInv
<1>4. RestInv'
  BY <1>1 DEF ShaperInv, RestInv
<1>5. Waiting[k] = <<>>
  <2>1. {s \in Slots : flows[s].in_use /\ flows[s].key = k} = {}
    BY <1>1 DEF shaper_lookup_flow, Ue
  <2>2. Queue(flows, k) = <<>>
    BY <2>1 DEF Queue
  <2> QED
    BY <2>2 DEF Waiting
<1>6. Fifo!Pass(k)
  BY <1>1, <1>2, <1>5 DEF Fifo!Pass, Fifo!Arrive
<1> QED
  BY <1>2, <1>3, <1>4, <1>6 DEF ShaperInv, Fifo!Next

\* A packet that is refused by a bound on the queues: the flow keeps its
\* packets, and one that was made for this packet is given back.
LEMMA BoundStep ==
    ASSUME TableInv, NEW k \in Keys, NEW s \in Slots, NEW u, Moved(Ue, u, s), OnlyOne(Ue, s, k),
           u.flows[s].in_use, u.flows[s].key = k, u.flows[s].q = flows[s].q,
           u.flows[s].list = shaper_active_list_for_head(u.flows[s])
    PROVE  /\ flows[s].q # <<>> => Kept(Ue, u)
           /\ Kept(Ue, GiveBack(u, s))
<1>1. Ue \in UeType /\ Rows(Ue) /\ Ue.flows = flows
  BY DEF TableInv, Ue
<1>2. u \in UeType /\ Placed(u) /\ \A t \in Slots : t # s => u.flows[t] = flows[t]
  BY <1>1 DEF Moved
<1>3. \A t \in Slots : FlowSound(flows[t])
  BY <1>1 DEF Rows
<1>4. flows[s].q # <<>> => Kept(Ue, u)
  <2> SUFFICES ASSUME flows[s].q # <<>> PROVE Kept(Ue, u)
    OBVIOUS
  <2>1. flows[s].in_use /\ flows[s].key = k
    BY <1>1, <1>3 DEF FlowSound, OnlyOne
  <2>2. \A t \in Slots : /\ u.flows[t].in_use <=> flows[t].in_use
                         /\ u.flows[t].key = flows[t].key /\ u.flows[t].q = flows[t].q
    BY <1>2, <2>1
  <2>3. \A t \in Slots : u.flows[t].list = shaper_active_list_for_head(u.flows[t])
    BY <1>2, <1>3 DEF FlowSound
  <2> QED
    BY <1>1, <1>2, <2>2, <2>3 DEF Kept
<1>5. CASE flows[s].q # <<>>
  BY <1>4, <1>5 DEF GiveBack
<1>6. CASE flows[s].q = <<>>
  <2> DEFINE v == shaper_release_empty_flow(u, s)
  <2>1. GiveBack(u, s) = v
    BY <1>6 DEF GiveBack
  <2>2. Moved(u, v, s) /\ v.flows[s] = NoFlow
    BY <1>2, Released
  <2> HIDE DEF v
  <2>3. v \in UeType /\ Placed(v) /\ \A t \in Slots : t # s => v.flows[t] = flows[t]
    BY <1>2, <2>2 DEF Moved
  <2>4. ~flows[s].in_use /\ flows[s].key = "none"
    BY <1>3, <1>6 DEF FlowSound
  <2>5. /\ ~NoFlow.in_use /\ NoFlow.key = "none" /\ NoFlow.q = <<>> /\ NoFlow.list = "NONE"
        /\ NoFlow \in FlowType
    BY NoFlowFields, ZenonT(30)
  <2>6. NoFlow.list = shaper_active_list_for_head(NoFlow)
    BY <2>5, HeadList
  <2>7. \A t \in Slots : /\ v.flows[t].in_use <=> flows[t].in_use
                         /\ v.flows[t].key = flows[t].key /\ v.flows[t].q = flows[t].q
    BY <1>6, <2>2, <2>3, <2>4, <2>5
  <2>8. \A t \in Slots : v.flows[t].list = shaper_active_list_for_head(v.flows[t])
    BY <1>3, <2>2, <2>3, <2>6, ZenonT(30) DEF FlowSound
  <2>9. Kept(Ue, v)
    BY <1>1, <2>3, <2>7, <2>8 DEF Kept
  <2> QED
    BY <1>6, <2>1, <2>9
<1> QED
  BY <1>4, <1>5, <1>6

\* A packet joins the queue of its flow, and the flow a list if it was empty.
LEMMA Joined ==
    ASSUME NEW u \in UeType, Placed(u), NEW s \in Slots, NEW p \in PktType,
           u.flows[s].in_use, u.flows[s].list = shaper_active_list_for_head(u.flows[s])
    PROVE  LET v == WithFlow(u, s, [u.flows[s] EXCEPT !.q = Append(@, p)])
               w == IF Len(v.flows[s].q) = 1 THEN shaper_activate_flow(v, s) ELSE v
           IN  /\ Moved(u, w, s) /\ w.flows[s].in_use /\ w.flows[s].key = u.flows[s].key
               /\ w.flows[s].q = Append(u.flows[s].q, p)
               /\ w.flows[s].list = shaper_active_list_for_head(w.flows[s])
<1> DEFINE f == u.flows[s]
           r == Append(f.q, p)
           g == [f EXCEPT !.q = r]
           v == WithFlow(u, s, g)
           a == shaper_activate_flow(v, s)
           w == IF Len(v.flows[s].q) = 1 THEN a ELSE v
<1>1. f \in FlowType
  BY UeFields
<1>2. f.q \in Seq(PktType)
  BY <1>1 DEF FlowType
<1>3. r \in Seq(PktType) /\ Len(f.q) \in Nat /\ Len(r) = Len(f.q) + 1 /\ r # <<>>
  BY <1>2, SeqAppend, SeqLength, SeqEmpty
<1>4. [f EXCEPT !.q = Append(@, p)] = g
  BY <1>1
<1> HIDE DEF r
<1>5. /\ g \in FlowType /\ g.q = r /\ g.in_use = f.in_use /\ g.key = f.key
      /\ g.has_gbr = f.has_gbr /\ g.list = f.list
  BY <1>1, <1>3, QueueSet, ZenonT(30)
<1> HIDE DEF g
<1>6. Moved(u, v, s) /\ v.flows[s] = g
  BY <1>5, FlowReplaced
<1> HIDE DEF v
<1>7. /\ Moved(u, w, s) /\ w.flows[s].in_use /\ w.flows[s].key = f.key
      /\ w.flows[s].q = r /\ w.flows[s].list = shaper_active_list_for_head(w.flows[s])
  <2>1. CASE Len(v.flows[s].q) = 1
    <3>1. v \in UeType /\ Placed(v) /\ v.flows[s].q # <<>>
      BY <1>3, <1>5, <1>6 DEF Moved
    <3>2. /\ Moved(v, a, s) /\ Same(a.flows[s], g)
          /\ a.flows[s].list = shaper_active_list_for_head(g)
      BY <1>6, <3>1, Activated
    <3> HIDE DEF a
    <3>3. Moved(u, a, s)
      BY <1>6, <3>2 DEF Moved
    <3>4. shaper_active_list_for_head(a.flows[s]) = shaper_active_list_for_head(g)
      BY <3>2, HeadSame DEF Same
    <3> QED
      BY <1>5, <2>1, <3>2, <3>3, <3>4, ZenonT(30) DEF Same
  <2>2. CASE Len(v.flows[s].q) # 1
    <3>1. f.q # <<>>
      <4>1. Len(f.q) # 0
        <5>1. Len(r) # 1
          BY <1>5, <1>6, <2>2
        <5>2. Len(r) = Len(f.q) + 1
          BY <1>3
        <5> QED
          BY <5>1, <5>2
      <4> QED
        BY <1>2, <4>1, SeqEmpty
    <3>2. shaper_active_list_for_head(f) = shaper_active_list_for_head(g)
      BY <1>1, <1>3, <1>5, <3>1, HeadPolicy
    <3> QED
      BY <1>5, <1>6, <2>2, <3>2, ZenonT(30)
  <2> QED
    BY <2>1, <2>2, ZenonT(30)
<1> QED
  BY <1>4, <1>7, ZenonT(30) DEF v, r

\* One packet more, in the queues and in the counters.
LEMMA CountUp ==
    ASSUME CountInv, Cardinality(Taken(flows')) = Cardinality(Taken(flows)) + 1,
           queued' = queued + 1, pool' = pool - 1, queued < MaxPktsPerUe, pool > 0
    PROVE  CountInv'
BY TablesAssumption DEF CountInv

\* shape_or_enqueue_packet when the packet has to wait: it is the last of the
\* queue of its key.
LEMMA WaitStep ==
    ASSUME ShaperInv, NEW k \in Keys, NEW s \in Slots, NEW u, NEW p \in PktType,
           Moved(Ue, u, s), OnlyOne(Ue, s, k),
           u.flows[s].in_use, u.flows[s].key = k, u.flows[s].q = flows[s].q,
           u.flows[s].list = shaper_active_list_for_head(u.flows[s]),
           Len(flows[s].q) < MaxPktsPerFlow, queued < MaxPktsPerUe, pool > 0,
           NEW v, v = WithFlow(u, s, [u.flows[s] EXCEPT !.q = Append(@, p)]),
           Install(IF Len(v.flows[s].q) = 1 THEN shaper_activate_flow(v, s) ELSE v),
           queued' = queued + 1, pool' = pool - 1, ueActive' = TRUE, UNCHANGED sent,
           offered < MaxOffered, offered' = offered + 1, p.id = offered + 1,
           UNCHANGED <<next_excess_list, depth, drain>>
    PROVE  ShaperInv' /\ Fifo!Next
<1>1. Ue \in UeType /\ Placed(Ue) /\ Rows(Ue) /\ Ue.flows = flows
  BY DEF ShaperInv, TableInv, Ue
<1>2. u \in UeType /\ Placed(u) /\ \A t \in Slots : t # s => u.flows[t] = flows[t]
  BY <1>1 DEF Moved
<1>3. PICK w : w = IF Len(v.flows[s].q) = 1 THEN shaper_activate_flow(v, s) ELSE v
  OBVIOUS
<1>4. /\ Moved(u, w, s) /\ w.flows[s].in_use /\ w.flows[s].key = k
      /\ w.flows[s].q = Append(flows[s].q, p)
      /\ w.flows[s].list = shaper_active_list_for_head(w.flows[s])
  <2>1. LET x == WithFlow(u, s, [u.flows[s] EXCEPT !.q = Append(@, p)])
            w2 == IF Len(x.flows[s].q) = 1 THEN shaper_activate_flow(x, s) ELSE x
        IN  /\ Moved(u, w2, s) /\ w2.flows[s].in_use /\ w2.flows[s].key = u.flows[s].key
            /\ w2.flows[s].q = Append(u.flows[s].q, p)
            /\ w2.flows[s].list = shaper_active_list_for_head(w2.flows[s])
    BY <1>2, Joined, ZenonT(30)
  <2> QED
    BY <1>3, <2>1, ZenonT(30)
<1>5. Install(w)
  BY <1>3
<1>6. Moved(Ue, w, s)
  BY <1>1, <1>2, <1>4 DEF Moved
<1>7. flows[s] \in FlowType /\ FlowSound(flows[s])
  BY <1>1, UeFields DEF Rows
<1>8. /\ flows[s].q \in Seq(PktType) /\ Len(flows[s].q) \in Nat
      /\ Len(w.flows[s].q) = Len(flows[s].q) + 1 /\ w.flows[s].q # <<>>
  <2>1. flows[s].q \in Seq(PktType)
    BY <1>7 DEF FlowType
  <2> QED
    BY <1>4, <2>1, SeqAppend, SeqLength, SeqEmpty
<1>9. FlowSound(w.flows[s])
  BY <1>4, <1>8, TablesAssumption DEF FlowSound
<1>10. /\ Rows(w)
       /\ \A j : j # k => Queue(w.flows, j) = Queue(flows, j)
       /\ Queue(flows, k) = IF flows[s].in_use THEN Numbers(flows[s].q) ELSE <<>>
       /\ Queue(w.flows, k) = IF w.flows[s].in_use THEN Numbers(w.flows[s].q) ELSE <<>>
  <2>1. w.flows[s].in_use => w.flows[s].key = k
    BY <1>4
  <2>2. RowChange(Ue, w, s, k)
    BY <1>1, <1>6, <1>9, <2>1, ChangedRows, ZenonT(30)
  <2> QED
    BY <1>1, <2>2 DEF RowChange
<1>11. w \in UeType /\ Placed(w) /\ \A t \in Slots : t # s => w.flows[t] = flows[t]
  BY <1>1, <1>6 DEF Moved
<1>12. TableInv' /\ flows' = w.flows
  BY <1>5, <1>10, <1>11, Installed
<1>13. CountInv'
  <2>1. w.flows \in [Slots -> FlowType] /\ flows \in [Slots -> FlowType]
    BY <1>1, <1>11, UeFields
  <2>2. Len(w.flows[s].q) <= MaxPktsPerFlow
    BY <1>8, TablesAssumption
  <2>3. Cardinality(Taken(w.flows)) = Cardinality(Taken(flows)) + 1
    BY <1>8, <1>11, <2>1, <2>2, OneMore
  <2>4. Cardinality(Taken(flows')) = Cardinality(Taken(flows)) + 1
    BY <1>12, <2>3
  <2>5. CountInv
    BY DEF ShaperInv
  <2> QED
    BY <2>4, <2>5, CountUp
<1>14. RestInv'
  BY DEF ShaperInv, RestInv
<1>15. Queue(flows, k) = Numbers(flows[s].q)
  <2>1. CASE flows[s].in_use
    BY <1>10, <2>1
  <2>2. CASE ~flows[s].in_use
    <3>1. flows[s].q = <<>>
      BY <1>7, <2>2 DEF FlowSound
    <3>2. Numbers(flows[s].q) = <<>>
      BY <1>8, <3>1, NumbersType, SeqEmpty, ZenonT(30)
    <3> QED
      BY <1>10, <2>2, <3>2
  <2> QED
    BY <2>1, <2>2
<1>16. Queue(flows', k) = Append(Queue(flows, k), offered')
  BY <1>4, <1>8, <1>10, <1>12, <1>15, NumbersAppend
<1>17. Waiting' = [Waiting EXCEPT ![k] = Append(@, offered')]
  BY <1>10, <1>12, <1>16, ZenonT(30) DEF Waiting
<1>18. Fifo!Wait(k)
  BY <1>17 DEF Fifo!Wait, Fifo!Arrive
<1> QED
  BY <1>12, <1>13, <1>14, <1>18 DEF ShaperInv, Fifo!Next

\* shape_or_enqueue_packet as a whole.
LEMMA ArrivalStep ==
    ASSUME ShaperInv, NEW k \in Keys, NEW gbr \in BOOLEAN, NEW len \in Lens,
           shape_or_enqueue_packet(k, gbr, len)
    PROVE  ShaperInv' /\ Fifo!Next
<1>1. /\ offered < MaxOffered /\ offered' = offered + 1
      /\ UNCHANGED <<next_excess_list, depth, drain>>
  BY DEF shape_or_enqueue_packet
<1>2. Kept(Ue, Ue)
  BY KeptSelf DEF ShaperInv
<1>3. CASE TooLong(gbr, len)
  BY <1>1, <1>2, <1>3, RefusedStep DEF TooLong
<1>4. CASE FastPath(k, gbr, len)
  BY <1>1, <1>4, PassStep
<1>5. CASE TableFull(k, gbr, len)
  BY <1>1, <1>2, <1>5, RefusedStep DEF TableFull
<1>6. CASE Enqueue(k, gbr, len)
  <2>1. PICK p : p = [id |-> offered + 1, len |-> len]
    BY ZenonT(30)
  <2>2. p \in PktType /\ p.id = offered + 1
    BY <2>1 DEF PktType, ShaperInv, RestInv
  <2>3. PICK found \in Found(k, gbr) :
          LET s == found[1]
              u == found[2]
              v == WithFlow(u, s, [u.flows[s] EXCEPT !.q = Append(@, p)])
          IN  \/ /\ Len(u.flows[s].q) >= MaxPktsPerFlow
                 /\ Drop(u)
              \/ Drop(GiveBack(u, s))
              \/ /\ Len(u.flows[s].q) < MaxPktsPerFlow /\ queued < MaxPktsPerUe /\ pool > 0
                 /\ Install(IF Len(v.flows[s].q) = 1 THEN shaper_activate_flow(v, s) ELSE v)
                 /\ queued' = queued + 1
                 /\ pool' = pool - 1
                 /\ ueActive' = TRUE
                 /\ UNCHANGED sent
    BY <1>1, <1>6, <2>1, ZenonT(30) DEF Enqueue
  <2>4. PICK s, u : s = found[1] /\ u = found[2]
    BY ZenonT(30)
  <2>5. /\ s \in Slots /\ Moved(Ue, u, s) /\ OnlyOne(Ue, s, k)
        /\ u.flows[s].in_use /\ u.flows[s].key = k /\ u.flows[s].q = flows[s].q
        /\ u.flows[s].list = shaper_active_list_for_head(u.flows[s])
    BY <2>4, FoundFlow DEF ShaperInv
  <2>6. PICK v : v = WithFlow(u, s, [u.flows[s] EXCEPT !.q = Append(@, p)])
    BY ZenonT(30)
  <2>7. /\ flows[s].q # <<>> => Kept(Ue, u)
        /\ Kept(Ue, GiveBack(u, s))
    BY <2>5, BoundStep, ZenonT(30) DEF ShaperInv
  <2>8. CASE Len(u.flows[s].q) >= MaxPktsPerFlow /\ Drop(u)
    <3>1. flows[s].q # <<>>
      BY <2>5, <2>8, FullIsNotEmpty, ZenonT(30)
    <3> QED
      BY <1>1, <2>7, <2>8, <3>1, RefusedStep, ZenonT(30)
  <2>9. CASE Drop(GiveBack(u, s))
    <3>1. PICK w : w = GiveBack(u, s)
      OBVIOUS
    <3> QED
      BY <1>1, <2>7, <2>9, <3>1, RefusedStep
  <2>10. CASE /\ Len(u.flows[s].q) < MaxPktsPerFlow /\ queued < MaxPktsPerUe /\ pool > 0
              /\ Install(IF Len(v.flows[s].q) = 1 THEN shaper_activate_flow(v, s) ELSE v)
              /\ queued' = queued + 1
              /\ pool' = pool - 1
              /\ ueActive' = TRUE
              /\ UNCHANGED sent
    BY <1>1, <2>2, <2>5, <2>6, <2>10, WaitStep, ZenonT(30)
  <2> QED
    BY <2>3, <2>4, <2>6, <2>8, <2>9, <2>10, ZenonT(30)
<1> QED
  BY <1>3, <1>4, <1>5, <1>6 DEF shape_or_enqueue_packet

-----------------------------------------------------------------------------
(* The drain.                                                                *)

\* The head of a flow leaves; the flow goes to a list again or is given up.
LEMMA Popped ==
    ASSUME NEW u \in UeType, Placed(u), NEW s \in Slots, u.flows[s].q # <<>>
    PROVE  LET w == PopHead(u, s)
               f == u.flows[s]
           IN  /\ Moved(u, w, s)
               /\ Tail(f.q) # <<>> =>
                     /\ w.flows[s].in_use = f.in_use /\ w.flows[s].key = f.key
                     /\ w.flows[s].q = Tail(f.q)
                     /\ w.flows[s].list = shaper_active_list_for_head(w.flows[s])
               /\ Tail(f.q) = <<>> => w.flows[s] = NoFlow
<1> DEFINE f == u.flows[s]
           r == Tail(f.q)
           g == [f EXCEPT !.q = r]
           v == WithFlow(u, s, g)
           a == shaper_activate_flow(v, s)
           e == shaper_release_empty_flow(v, s)
           w == PopHead(u, s)
<1>1. f \in FlowType
  BY UeFields, ZenonT(30)
<1>2. f.q \in Seq(PktType)
  BY <1>1, ZenonT(30) DEF FlowType
<1>3. r \in Seq(PktType)
  BY <1>2, SeqHeadTail
<1>4. w = IF v.flows[s].q # <<>> THEN a ELSE e
  BY DEF PopHead
<1> HIDE DEF r, w
<1>5. /\ g \in FlowType /\ g.q = r /\ g.in_use = f.in_use /\ g.key = f.key
      /\ g.has_gbr = f.has_gbr /\ g.list = f.list
  BY <1>1, <1>3, QueueSet
<1> HIDE DEF g
<1>6. Moved(u, v, s) /\ v.flows[s] = g
  BY <1>5, FlowReplaced
<1> HIDE DEF v
<1>7. v \in UeType /\ Placed(v)
  BY <1>6, ZenonT(30) DEF Moved
<1>8. CASE r # <<>>
  <2>1. w = a
    BY <1>4, <1>5, <1>6, <1>8, ZenonT(30)
  <2>2. /\ Moved(v, a, s) /\ Same(a.flows[s], g)
        /\ a.flows[s].list = shaper_active_list_for_head(g)
    BY <1>5, <1>6, <1>7, <1>8, Activated
  <2> HIDE DEF a
  <2>3. Moved(u, a, s)
    BY <1>6, <2>2 DEF Moved
  <2>4. shaper_active_list_for_head(a.flows[s]) = shaper_active_list_for_head(g)
    BY <2>2, HeadSame DEF Same
  <2> QED
    BY <1>5, <1>8, <2>1, <2>2, <2>3, <2>4, ZenonT(30) DEF Same, w, r
<1>9. CASE r = <<>>
  <2>1. w = e
    BY <1>4, <1>5, <1>6, <1>9
  <2>2. Moved(v, e, s) /\ e.flows[s] = NoFlow
    BY <1>7, Released
  <2> HIDE DEF e
  <2>3. Moved(u, e, s)
    BY <1>6, <2>2, ZenonT(30) DEF Moved
  <2> QED
    BY <1>9, <2>1, <2>2, <2>3 DEF w, r
<1> QED
  BY <1>8, <1>9, ZenonT(30)

\* The first flow of a list waits, and taking it out of the list keeps it.
LEMMA FirstFlow ==
    ASSUME TableInv, NEW l \in Lists, active[l] # <<>>, NEW s, s = Head(active[l])
    PROVE  LET u == shaper_deactivate_flow(Ue, s)
           IN  /\ s \in Slots /\ flows[s] \in FlowType
               /\ flows[s].in_use /\ flows[s].key \in Keys /\ flows[s].q # <<>>
               /\ flows[s].q \in Seq(PktType)
               /\ Moved(Ue, u, s) /\ Same(u.flows[s], flows[s])
<1>1. Ue \in UeType /\ Placed(Ue) /\ Rows(Ue) /\ Ue.flows = flows /\ Ue.active = active
  BY DEF TableInv, Ue
<1>2. active[l] \in Seq(Slots) /\ flows \in [Slots -> FlowType]
  BY <1>1, UeFields
<1>3. /\ Len(active[l]) \in Nat \ {0} /\ s = active[l][1]
      /\ DOMAIN active[l] = 1 .. Len(active[l]) /\ active[l] \in [1 .. Len(active[l]) -> Slots]
  BY <1>2, SeqEmpty, SeqLength, SeqHeadTail
<1>4. s \in Slots /\ s \in Range(active[l])
  BY <1>3 DEF Range
<1>5. flows[s].list = l /\ FlowSound(flows[s])
  BY <1>1, <1>4 DEF Placed, Rows
<1>6. flows[s] \in FlowType
  BY <1>2, <1>4
<1>7. flows[s].q # <<>>
  <2>1. l # "NONE"
    BY DEF Lists
  <2> QED
    BY <1>5, <1>6, <2>1, HeadList, ZenonT(30) DEF FlowSound
<1>8. flows[s].in_use /\ flows[s].key \in Keys
  BY <1>5, <1>7, ZenonT(30) DEF FlowSound
<1>9. flows[s].q \in Seq(PktType)
  BY <1>6 DEF FlowType
<1> DEFINE u == shaper_deactivate_flow(Ue, s)
<1>10. Moved(Ue, u, s) /\ Same(u.flows[s], flows[s])
  BY <1>1, <1>4, Deactivated
<1> QED
  BY <1>4, <1>6, <1>7, <1>8, <1>9, <1>10, ZenonT(30)

\* The flow goes to the end of its list.
LEMMA PutBack ==
    ASSUME TableInv, NEW s \in Slots, NEW u, flows[s].q # <<>>,
           Moved(Ue, u, s), Same(u.flows[s], flows[s])
    PROVE  Kept(Ue, shaper_activate_flow(u, s))
<1> DEFINE a == shaper_activate_flow(u, s)
<1>2. Ue.flows = flows /\ \A t \in Slots : FlowSound(flows[t])
  BY DEF TableInv, Ue, Rows
<1>3. u \in UeType /\ Placed(u) /\ u.flows[s].q # <<>>
  BY DEF Moved, Same
<1>4. /\ Moved(u, a, s) /\ Same(a.flows[s], u.flows[s])
      /\ a.flows[s].list = shaper_active_list_for_head(u.flows[s])
  BY <1>3, Activated
<1> HIDE DEF a
<1>5. a \in UeType /\ Placed(a) /\ \A t \in Slots : t # s => a.flows[t] = flows[t]
  BY <1>2, <1>4 DEF Moved
<1>6. Same(a.flows[s], flows[s])
  BY <1>4 DEF Same
<1>7. a.flows[s].list = shaper_active_list_for_head(a.flows[s])
  BY <1>4, HeadSame, ZenonT(30) DEF Same
<1>8. \A t \in Slots : /\ a.flows[t].in_use <=> flows[t].in_use
                       /\ a.flows[t].key = flows[t].key /\ a.flows[t].q = flows[t].q
  BY <1>5, <1>6, ZenonT(30) DEF Same
<1>9. \A t \in Slots : a.flows[t].list = shaper_active_list_for_head(a.flows[t])
  BY <1>2, <1>5, <1>7, ZenonT(30) DEF FlowSound
<1>10. Kept(Ue, a)
  BY <1>2, <1>5, <1>8, <1>9 DEF Kept
<1> QED
  BY <1>10, ZenonT(30) DEF a

\* The head of a flow that was taken out of its list leaves the shaper.
LEMMA TakenOut ==
    ASSUME TableInv, CountInv, NEW s \in Slots, NEW k \in Keys, NEW u,
           flows[s].in_use, flows[s].key = k, flows[s].q # <<>>,
           Moved(Ue, u, s), Same(u.flows[s], flows[s]),
           Install(PopHead(u, s)), queued' = queued - 1, pool' = pool + 1
    PROVE  /\ TableInv' /\ CountInv'
           /\ Waiting[k] # <<>> /\ Head(Waiting[k]) = Head(flows[s].q).id
           /\ Head(flows[s].q).id \in Nat
           /\ Waiting' = [Waiting EXCEPT ![k] = Tail(@)]
<1>1. flows[s] \in FlowType /\ flows[s].q \in Seq(PktType)
  <2>1. flows[s] \in FlowType
    BY UeFields DEF TableInv, Ue
  <2> QED
    BY <2>1 DEF FlowType
<1>2. Ue \in UeType /\ Ue.flows = flows /\ Rows(Ue) /\ \A t \in Slots : FlowSound(flows[t])
  BY ZenonT(30) DEF TableInv, Ue, Rows
<1>3. u \in UeType /\ Placed(u) /\ u.flows[s].q # <<>>
  BY <1>1 DEF Moved, Same
<1>4. PICK w : w = PopHead(u, s)
  BY ZenonT(30)
<1>5. /\ Moved(u, w, s)
      /\ Tail(u.flows[s].q) # <<>> =>
            /\ w.flows[s].in_use = u.flows[s].in_use /\ w.flows[s].key = u.flows[s].key
            /\ w.flows[s].q = Tail(u.flows[s].q)
            /\ w.flows[s].list = shaper_active_list_for_head(w.flows[s])
      /\ Tail(u.flows[s].q) = <<>> => w.flows[s] = NoFlow
  BY <1>1, <1>3, <1>4, Popped
<1>6. /\ Tail(flows[s].q) # <<>> =>
            /\ w.flows[s].in_use /\ w.flows[s].key = k
            /\ w.flows[s].q = Tail(flows[s].q)
            /\ w.flows[s].list = shaper_active_list_for_head(w.flows[s])
      /\ Tail(flows[s].q) = <<>> => w.flows[s] = NoFlow
  BY <1>1, <1>5, ZenonT(30) DEF Same
<1>7. /\ ~NoFlow.in_use /\ NoFlow.key = "none" /\ NoFlow.q = <<>> /\ NoFlow.list = "NONE"
      /\ NoFlow \in FlowType
  BY NoFlowFields, ZenonT(30)
<1>8. /\ Len(flows[s].q) \in Nat \ {0} /\ Tail(flows[s].q) \in Seq(PktType)
      /\ Len(Tail(flows[s].q)) = Len(flows[s].q) - 1 /\ Head(flows[s].q) \in PktType
  BY <1>1, QueueHead, ZenonT(30)
<1>9. w.flows[s].q = Tail(flows[s].q)
  BY <1>6, <1>7, ZenonT(30)
<1>10. FlowSound(w.flows[s]) /\ (w.flows[s].in_use => w.flows[s].key = k)
  <2>1. Len(flows[s].q) <= MaxPktsPerFlow
    BY <1>1, <1>2 DEF FlowSound
  <2>2. Len(w.flows[s].q) <= MaxPktsPerFlow
    BY <1>8, <1>9, <2>1, TablesAssumption
  <2>3. CASE Tail(flows[s].q) # <<>>
    BY <1>1, <1>6, <2>2, <2>3, ZenonT(30) DEF FlowSound
  <2>4. CASE Tail(flows[s].q) = <<>>
    <3>1. shaper_active_list_for_head(NoFlow) = "NONE"
      BY <1>7, HeadList, ZenonT(30)
    <3> QED
      BY <1>6, <1>7, <2>2, <2>4, <3>1, ZenonT(30) DEF FlowSound
  <2> QED
    BY <2>3, <2>4, ZenonT(30)
<1>11. Moved(Ue, w, s)
  BY <1>1, <1>5, ZenonT(30) DEF Moved
<1>12. OnlyOne(Ue, s, k)
  BY <1>1, <1>2 DEF OnlyOne, Rows
<1>13. /\ Rows(w)
       /\ \A j : j # k => Queue(w.flows, j) = Queue(flows, j)
       /\ Queue(flows, k) = IF flows[s].in_use THEN Numbers(flows[s].q) ELSE <<>>
       /\ Queue(w.flows, k) = IF w.flows[s].in_use THEN Numbers(w.flows[s].q) ELSE <<>>
  <2>0. s \in Slots /\ Ue \in UeType /\ Rows(Ue)
    BY <1>1, <1>2
  <2>1. RowChange(Ue, w, s, k)
    BY <1>10, <1>11, <1>12, <2>0, ChangedRows, ZenonT(30)
  <2> QED
    BY <1>2, <2>1, ZenonT(30) DEF RowChange
<1>14. w \in UeType /\ Placed(w) /\ \A t \in Slots : t # s => w.flows[t] = flows[t]
  BY <1>2, <1>11, ZenonT(30) DEF Moved
<1>15. TableInv' /\ flows' = w.flows
  BY <1>4, <1>13, <1>14, Installed, ZenonT(30)
<1>16. CountInv'
  <2>1. w.flows \in [Slots -> FlowType] /\ flows \in [Slots -> FlowType]
    BY <1>2, <1>14, UeFields, ZenonT(30)
  <2>2. Len(flows[s].q) <= MaxPktsPerFlow /\ Len(flows[s].q) = Len(w.flows[s].q) + 1
    BY <1>1, <1>2, <1>8, <1>9 DEF FlowSound
  <2>3. Cardinality(Taken(flows)) = Cardinality(Taken(w.flows)) + 1
    BY <1>1, <1>14, <2>1, <2>2, OneMore, ZenonT(30)
  <2>4. Cardinality(Taken(w.flows)) \in Nat
    BY TakenFinite, FS_CardinalityType, ZenonT(30)
  <2>5. Cardinality(Taken(flows')) \in Nat /\ queued = Cardinality(Taken(flows')) + 1
    BY <1>15, <2>3, <2>4, ZenonT(30) DEF CountInv
  <2> QED
    BY <2>5, TablesAssumption DEF CountInv
<1>17. Queue(flows, k) = Numbers(flows[s].q)
  BY <1>1, <1>13, ZenonT(30)
<1>18. /\ Queue(flows, k) # <<>> /\ Head(Queue(flows, k)) = Head(flows[s].q).id
       /\ Numbers(Tail(flows[s].q)) = Tail(Queue(flows, k))
  BY <1>1, <1>17, NumbersTail, ZenonT(30)
<1>19. Queue(w.flows, k) = Numbers(Tail(flows[s].q))
  <2>1. CASE Tail(flows[s].q) # <<>>
    BY <1>6, <1>13, <2>1
  <2>2. CASE Tail(flows[s].q) = <<>>
    <3>1. Numbers(Tail(flows[s].q)) = <<>>
      BY <1>8, <2>2, NumbersType, SeqEmpty, ZenonT(30)
    <3> QED
      BY <1>6, <1>7, <1>13, <2>2, <3>1, ZenonT(30)
  <2> QED
    BY <2>1, <2>2, ZenonT(30)
<1>20. Waiting' = [Waiting EXCEPT ![k] = Tail(@)]
  <2>1. /\ Queue(flows', k) = Tail(Queue(flows, k))
        /\ \A j : j # k => Queue(flows', j) = Queue(flows, j)
    BY <1>13, <1>15, <1>18, <1>19, ZenonT(30)
  <2> QED
    BY <2>1, ZenonT(30) DEF Waiting
<1>21. Head(flows[s].q).id \in Nat
  BY <1>8, ZenonT(30) DEF PktType
<1>22. Waiting[k] = Queue(flows, k)
  BY <1>1 DEF Waiting
<1> QED
  BY <1>1, <1>15, <1>16, <1>18, <1>20, <1>21, <1>22, ZenonT(30)

\* One turn of shaper_drain_one_from_list_locked: the first packet of the first
\* flow is sent, is dropped, or stays and the flow goes to the end of its list.
LEMMA TryStep ==
    ASSUME ShaperInv, NEW l \in Lists, active[l] # <<>>, Tried(l), UNCHANGED offered
    PROVE  TableInv' /\ CountInv' /\ sent' \in [Keys -> Nat] /\ FifoStep
<1>1. TableInv /\ CountInv /\ sent \in [Keys -> Nat]
  BY DEF ShaperInv, RestInv
<1>2. PICK s : s = Head(active[l])
  OBVIOUS
<1>3. PICK u : u = shaper_deactivate_flow(Ue, s)
  OBVIOUS
<1>4. PICK k : k = flows[s].key
  BY ZenonT(30)
<1>5. /\ s \in Slots /\ flows[s].in_use /\ flows[s].key \in Keys /\ flows[s].q # <<>>
      /\ Moved(Ue, u, s) /\ Same(u.flows[s], flows[s])
  BY <1>1, <1>2, <1>3, FirstFlow, ZenonT(30)
<1>6. \/ Install(shaper_activate_flow(u, s)) /\ UNCHANGED <<queued, pool, sent>>
      \/ /\ Install(PopHead(u, s)) /\ queued' = queued - 1 /\ pool' = pool + 1
         /\ sent' \in {sent, [sent EXCEPT ![k] = Head(flows[s].q).id]}
  BY <1>2, <1>3, <1>4 DEF Tried
<1>7. CASE Install(shaper_activate_flow(u, s)) /\ UNCHANGED <<queued, pool, sent>>
  <2>1. Kept(Ue, shaper_activate_flow(u, s))
    BY <1>1, <1>5, PutBack
  <2>2. PICK v : v = shaper_activate_flow(u, s)
    OBVIOUS
  <2>3. TableInv' /\ Taken(flows') = Taken(flows) /\ Waiting' = Waiting
    BY <1>1, <1>7, <2>1, <2>2, KeptStep
  <2>4. CountInv'
    BY <1>1, <1>7, <2>3 DEF CountInv
  <2>5. UNCHANGED Fifo!fifoVars
    BY <1>7, <2>3 DEF Fifo!fifoVars
  <2> QED
    BY <1>1, <1>7, <2>3, <2>4, <2>5, ZenonT(30) DEF FifoStep
<1>8. CASE /\ Install(PopHead(u, s)) /\ queued' = queued - 1 /\ pool' = pool + 1
           /\ sent' \in {sent, [sent EXCEPT ![k] = Head(flows[s].q).id]}
  <2>1. /\ TableInv' /\ CountInv'
        /\ Waiting[k] # <<>> /\ Head(Waiting[k]) = Head(flows[s].q).id
        /\ Head(flows[s].q).id \in Nat
        /\ Waiting' = [Waiting EXCEPT ![k] = Tail(@)]
    BY <1>1, <1>4, <1>5, <1>8, TakenOut, ZenonT(30)
  <2>2. k \in Keys
    BY <1>4, <1>5
  <2>3. sent' \in [Keys -> Nat]
    BY <1>1, <1>8, <2>1, <2>2, ZenonT(30)
  <2>4. Fifo!Leave(k)
    BY <1>8, <2>1 DEF Fifo!Leave
  <2> QED
    BY <2>1, <2>2, <2>3, <2>4 DEF FifoStep, Fifo!Next
<1> QED
  BY <1>6, <1>7, <1>8, ZenonT(30)

\* A step that leaves the table and the counters alone.
LEMMA SameTable ==
    ASSUME ShaperInv, UNCHANGED <<flows, active, queued, pool, offered, sent>>
    PROVE  TableInv' /\ CountInv' /\ FifoStep
<1>1. Ue' = Ue
  BY ZenonT(30) DEF Ue
<1>2. TableInv'
  BY <1>1 DEF ShaperInv, TableInv, Placed, Rows, UeType
<1>3. CountInv'
  BY DEF ShaperInv, CountInv
<1>4. Waiting' = Waiting
  BY DEF Waiting
<1> QED
  BY <1>2, <1>3, <1>4 DEF FifoStep, Fifo!fifoVars

\* The fields of the drain.
LEMMA DrainFields ==
    ASSUME NEW d \in DrainType, NEW x \in Int, NEW y \in Int, NEW l \in Lists \cup {"NONE"}
    PROVE  /\ [d EXCEPT !.sent = x] \in DrainType /\ [d EXCEPT !.sent = x].phase = d.phase
           /\ [d EXCEPT !.attempts = y] \in DrainType /\ [d EXCEPT !.attempts = y].phase = d.phase
           /\ [d EXCEPT !.tries = y] \in DrainType /\ [d EXCEPT !.tries = y].phase = d.phase
           /\ [d EXCEPT !.list = l] \in DrainType /\ [d EXCEPT !.list = l].phase = d.phase
BY DEF DrainType

\* The locals of the drain after a packet with guaranteed rate.
LEMMA GbrDrain ==
    ASSUME NEW d \in DrainType, NEW x \in Int, NEW y \in Int
    PROVE  LET e == [d EXCEPT !.sent = x, !.attempts = y]
           IN  e \in DrainType /\ e.phase = d.phase
<1> DEFINE e == [d EXCEPT !.sent = x]
<1>1. e \in DrainType /\ e.phase = d.phase
  BY DrainFields, ZenonT(30)
<1> HIDE DEF e
<1>2. [e EXCEPT !.attempts = y] \in DrainType /\ [e EXCEPT !.attempts = y].phase = e.phase
  BY <1>1, DrainFields, ZenonT(30)
<1> QED
  BY <1>1, <1>2 DEF e

\* The locals of the drain after a packet out of a list.
LEMMA SentDrain ==
    ASSUME NEW d \in DrainType, NEW x \in Int, NEW l \in Lists \cup {"NONE"}, NEW y \in Int
    PROVE  LET e == [d EXCEPT !.sent = x, !.list = l, !.tries = y]
           IN  e \in DrainType /\ e.phase = d.phase
<1> DEFINE e == [d EXCEPT !.sent = x]
           f == [e EXCEPT !.list = l]
<1>1. e \in DrainType /\ e.phase = d.phase
  BY DrainFields, ZenonT(30)
<1> HIDE DEF e
<1>2. f \in DrainType /\ f.phase = e.phase
  BY <1>1, DrainFields, ZenonT(30)
<1> HIDE DEF f
<1>3. [f EXCEPT !.tries = y] \in DrainType /\ [f EXCEPT !.tries = y].phase = f.phase
  BY <1>2, DrainFields, ZenonT(30)
<1> QED
  BY <1>1, <1>2, <1>3 DEF e, f

\* The locals of the drain at the next list.
LEMMA ListDrain ==
    ASSUME NEW d \in DrainType, NEW x \in Int, NEW l \in Lists \cup {"NONE"}, NEW y \in Int
    PROVE  LET e == [d EXCEPT !.tries = x, !.list = l, !.attempts = y]
           IN  e \in DrainType /\ e.phase = d.phase
<1> DEFINE e == [d EXCEPT !.tries = x]
           f == [e EXCEPT !.list = l]
<1>1. e \in DrainType /\ e.phase = d.phase
  BY DrainFields, ZenonT(30)
<1> HIDE DEF e
<1>2. f \in DrainType /\ f.phase = e.phase
  BY <1>1, DrainFields, ZenonT(30)
<1> HIDE DEF f
<1>3. [f EXCEPT !.attempts = y] \in DrainType /\ [f EXCEPT !.attempts = y].phase = f.phase
  BY <1>2, DrainFields, ZenonT(30)
<1> QED
  BY <1>1, <1>2, <1>3 DEF e, f

\* The locals of the drain have their types.
LEMMA DrainTypes ==
    ASSUME NEW d \in DrainType
    PROVE  /\ d.phase \in {"idle", "gbr", "excess"} /\ d.list \in Lists \cup {"NONE"}
           /\ d.budget \in Int /\ d.sent \in Int /\ d.attempts \in Int /\ d.tries \in Int
           /\ d.any \in BOOLEAN
BY DEF DrainType

\* The same for the abbreviation AfterSend.
LEMMA AfterSendType ==
    ASSUME NEW d \in DrainType, NEW x \in Int, NEW l \in Lists \cup {"NONE"}, NEW y \in Int
    PROVE  AfterSend(d, x, l, y) \in DrainType /\ AfterSend(d, x, l, y).phase = d.phase
BY SentDrain DEF AfterSend

\* The same for the abbreviation AtList.
LEMMA AtListType ==
    ASSUME NEW d \in DrainType, NEW x \in Int, NEW l \in Lists \cup {"NONE"}, NEW y \in Int
    PROVE  AtList(d, x, l, y) \in DrainType /\ AtList(d, x, l, y).phase = d.phase
BY ListDrain DEF AtList

\* A drain starts, or turns to the excess traffic or back.
LEMMA HalfType ==
    ASSUME NEW p \in {"gbr", "excess"}, NEW b \in Int, NEW n \in Int, NEW a \in BOOLEAN
    PROVE  /\ GbrHalf(p, b, n) \in DrainType /\ GbrHalf(p, b, n).phase = p
           /\ ExcessHalf(p, b, a) \in DrainType /\ ExcessHalf(p, b, a).phase = p
<1>1. Idle \in DrainType /\ Idle.phase = "idle"
  BY DEF Idle, DrainType
<1>2. ASSUME NEW d \in DrainType
      PROVE  /\ [d EXCEPT !.phase = p] \in DrainType /\ [d EXCEPT !.phase = p].phase = p
             /\ [d EXCEPT !.budget = b] \in DrainType /\ [d EXCEPT !.budget = b].phase = d.phase
             /\ [d EXCEPT !.attempts = n] \in DrainType
             /\ [d EXCEPT !.attempts = n].phase = d.phase
             /\ [d EXCEPT !.any = a] \in DrainType /\ [d EXCEPT !.any = a].phase = d.phase
  BY DEF DrainType
<1> DEFINE x == [Idle EXCEPT !.phase = p]
           y == [x EXCEPT !.budget = b]
<1>3. x \in DrainType /\ x.phase = p
  BY <1>1, <1>2, ZenonT(30)
<1> HIDE DEF x
<1>4. y \in DrainType /\ y.phase = p
  BY <1>2, <1>3, ZenonT(30)
<1> HIDE DEF y
<1>5. /\ [y EXCEPT !.attempts = n] \in DrainType /\ [y EXCEPT !.attempts = n].phase = p
      /\ [y EXCEPT !.any = a] \in DrainType /\ [y EXCEPT !.any = a].phase = p
  BY <1>2, <1>4, ZenonT(30)
<1> QED
  BY <1>1, <1>5 DEF x, y, GbrHalf, ExcessHalf

\* active_count of a list is a number.
LEMMA ListLengths ==
    ASSUME NEW u \in UeType, NEW l \in Lists
    PROVE  Len(u.active[l]) \in Int
BY UeFields, SeqLength

\* A turn of shaper_drain_gbr_locked.
LEMMA GbrStep ==
    ASSUME ShaperInv, shaper_drain_gbr_locked
    PROVE  ShaperInv' /\ FifoStep
<1>1. drain \in DrainType /\ drain.phase = "gbr" /\ "GBR_QOS" \in Lists
  BY DEF ShaperInv, RestInv, shaper_drain_gbr_locked, Lists
<1>2. /\ active["GBR_QOS"] # <<>> /\ Tried("GBR_QOS")
      /\ UNCHANGED <<next_excess_list, ueActive, depth, offered>>
      /\ \/ drain' = [drain EXCEPT !.sent = @ + 1, !.attempts = Len(active'["GBR_QOS"])]
         \/ drain' = [drain EXCEPT !.attempts = @ - 1]
  BY ZenonT(30) DEF shaper_drain_gbr_locked, TryFirst, Tried
<1>3. TableInv' /\ CountInv' /\ sent' \in [Keys -> Nat] /\ FifoStep
  BY <1>1, <1>2, TryStep
<1>4. Len(active'["GBR_QOS"]) \in Int
  <2>1. Ue' \in UeType /\ Ue'.active = active'
    BY <1>3 DEF TableInv, Ue
  <2> QED
    BY <1>1, <2>1, ListLengths
<1>5. drain' \in DrainType /\ drain'.phase = "gbr"
  <2>1. drain.sent + 1 \in Int /\ drain.attempts - 1 \in Int
    BY <1>1, DrainTypes
  <2>2. CASE drain' = [drain EXCEPT !.sent = @ + 1, !.attempts = Len(active'["GBR_QOS"])]
    <3>1. PICK n \in Int : n = Len(active'["GBR_QOS"])
      BY <1>4, ZenonT(30)
    <3>2. drain' = [drain EXCEPT !.sent = drain.sent + 1, !.attempts = n]
      BY <2>2, <3>1
    <3> QED
      BY <1>1, <2>1, <3>2, GbrDrain, ZenonT(30)
  <2>3. CASE drain' = [drain EXCEPT !.attempts = @ - 1]
    <3>1. drain' = [drain EXCEPT !.attempts = drain.attempts - 1]
      BY <2>3
    <3> QED
      BY <1>1, <2>1, <3>1, DrainFields, ZenonT(30)
  <2> QED
    BY <1>2, <2>2, <2>3
<1>6. RestInv'
  BY <1>2, <1>3, <1>5 DEF ShaperInv, RestInv
<1> QED
  BY <1>3, <1>6 DEF ShaperInv

\* A turn of shaper_drain_excess_locked.
LEMMA ExcessStep ==
    ASSUME ShaperInv, shaper_drain_excess_locked
    PROVE  ShaperInv' /\ FifoStep
<1>1. drain \in DrainType /\ drain.phase = "excess" /\ drain.list # "NONE"
  BY DEF ShaperInv, RestInv, shaper_drain_excess_locked
<1>2. PICK l : l = drain.list
  OBVIOUS
<1>3. l \in Lists
  BY <1>1, <1>2, DrainTypes
<1>4. /\ active[l] # <<>> /\ Tried(l)
      /\ UNCHANGED <<next_excess_list, ueActive, depth, offered>>
      /\ \/ drain' = [drain EXCEPT !.sent = @ + 1, !.list = "NONE", !.tries = 0]
         \/ drain' = [drain EXCEPT !.attempts = @ - 1]
  BY <1>2, ZenonT(30) DEF shaper_drain_excess_locked, TryFirst, Tried
<1>5. TableInv' /\ CountInv' /\ sent' \in [Keys -> Nat] /\ FifoStep
  BY <1>3, <1>4, TryStep
<1>6. drain' \in DrainType /\ drain'.phase = "excess"
  <2>1. drain.sent + 1 \in Int /\ drain.attempts - 1 \in Int
    BY <1>1, DrainTypes
  <2>2. CASE drain' = [drain EXCEPT !.sent = @ + 1, !.list = "NONE", !.tries = 0]
    <3>1. PICK m \in Lists \cup {"NONE"}, n \in Int : m = "NONE" /\ n = 0
      OBVIOUS
    <3>2. drain' = [drain EXCEPT !.sent = drain.sent + 1, !.list = m, !.tries = n]
      BY <2>2, <3>1
    <3>3. drain' = AfterSend(drain, drain.sent + 1, m, n)
      BY <3>2 DEF AfterSend
    <3> QED
      BY <1>1, <2>1, <3>3, AfterSendType, ZenonT(30)
  <2>3. CASE drain' = [drain EXCEPT !.attempts = @ - 1]
    <3>1. drain' = [drain EXCEPT !.attempts = drain.attempts - 1]
      BY <2>3
    <3> QED
      BY <1>1, <2>1, <3>1, DrainFields, ZenonT(30)
  <2> QED
    BY <1>4, <2>2, <2>3
<1>7. RestInv'
  BY <1>4, <1>5, <1>6 DEF ShaperInv, RestInv
<1> QED
  BY <1>5, <1>7 DEF ShaperInv

\* The steps of the drain between two packets.
LEMMA TurnStep ==
    ASSUME ShaperInv,
           drain_ue_shaper(DrainBudget) \/ GbrDone \/ ExcessList \/ ExcessListDone \/ ExcessDone
    PROVE  ShaperInv' /\ FifoStep
<1>1. UNCHANGED <<flows, active, queued, pool, depth, offered, sent>>
  BY DEF drain_ue_shaper, GbrDone, ExcessList, ExcessListDone, ExcessDone
<1>2. TableInv' /\ CountInv' /\ FifoStep
  BY <1>1, SameTable
<1>3. /\ next_excess_list \in Lists /\ drain \in DrainType /\ offered \in Nat
      /\ sent \in [Keys -> Nat] /\ ueActive \in BOOLEAN /\ queued \in Nat
  BY DEF ShaperInv, RestInv, CountInv
<1>4. /\ drain.phase \in {"idle", "gbr", "excess"} /\ drain.list \in Lists \cup {"NONE"}
      /\ drain.budget \in Int /\ drain.sent \in Int /\ drain.attempts \in Int
      /\ drain.tries \in Int /\ drain.any \in BOOLEAN
  BY <1>3, DrainTypes
<1>5. \A l \in Lists : Len(active[l]) \in Int
  <2>1. Ue \in UeType /\ Ue.active = active
    BY DEF ShaperInv, TableInv, Ue
  <2> QED
    BY <2>1, ListLengths
<1>6. "GBR_QOS" \in Lists
  BY DEF Lists
<1>7. ASSUME Finish
      PROVE  drain' \in DrainType /\ ueActive' \in BOOLEAN
             /\ (drain'.phase = "idle" /\ queued > 0 => ueActive')
  <2>1. drain' = Idle /\ ueActive' = (queued > 0)
    BY <1>7 DEF Finish
  <2>2. Idle \in DrainType
    BY DEF Idle, DrainType
  <2>3. ueActive' \in BOOLEAN
    <3>1. (queued > 0) \in BOOLEAN
      BY <1>3
    <3> QED
      BY <2>1, <3>1, ZenonT(30)
  <2>4. queued > 0 => ueActive'
    BY <2>1, ZenonT(30)
  <2> QED
    BY <2>1, <2>2, <2>3, <2>4, ZenonT(30)
<1>8. ASSUME NEW p \in {"gbr", "excess"}, drain' \in DrainType, drain'.phase = p, UNCHANGED ueActive
      PROVE  drain' \in DrainType /\ ueActive' \in BOOLEAN
             /\ (drain'.phase = "idle" /\ queued > 0 => ueActive')
  BY <1>3, <1>8
<1>9. /\ drain' \in DrainType /\ ueActive' \in BOOLEAN
      /\ (drain'.phase = "idle" /\ queued > 0 => ueActive')
      /\ next_excess_list' \in Lists
  <2>1. CASE drain_ue_shaper(DrainBudget)
    <3>1. CASE queued = 0
      <4>1. ~(queued > 0)
        BY <3>1
      <4>2. drain' = drain /\ ueActive' = FALSE /\ next_excess_list' = next_excess_list
        BY <2>1, <3>1 DEF drain_ue_shaper
      <4> QED
        BY <1>3, <4>1, <4>2, ZenonT(30)
    <3>2. CASE queued # 0
      <4>1. PICK n \in Int : n = Len(active["GBR_QOS"])
        BY <1>5, <1>6, ZenonT(30)
      <4>2. /\ drain' = [Idle EXCEPT !.phase = "gbr", !.budget = DrainBudget, !.attempts = n]
            /\ UNCHANGED <<ueActive, next_excess_list>>
        BY <2>1, <3>2, <4>1 DEF drain_ue_shaper
      <4>3. DrainBudget \in Int
        BY TablesAssumption
      <4>4. drain' \in DrainType /\ drain'.phase = "gbr"
        <5>1. drain' = GbrHalf("gbr", DrainBudget, n)
          BY <4>2 DEF GbrHalf
        <5> QED
          BY <4>3, <5>1, HalfType, ZenonT(30)
      <4> QED
        BY <1>3, <1>8, <4>2, <4>4
    <3> QED
      BY <3>1, <3>2
  <2>2. CASE GbrDone
    <3>1. CASE drain.budget = drain.sent
      BY <1>3, <1>7, <2>2, <3>1 DEF GbrDone
    <3>2. CASE drain.budget # drain.sent
      <4>a. drain.budget - drain.sent \in Int
        BY <1>4
      <4>b. PICK a \in BOOLEAN : a = (drain.sent > 0)
        <5>1. (drain.sent > 0) \in BOOLEAN
          BY <1>4
        <5> QED
          BY <5>1, ZenonT(30)
      <4>1. PICK b \in Int : b = drain.budget - drain.sent
        BY <4>a
      <4>2. /\ drain' = [Idle EXCEPT !.phase = "excess", !.budget = b, !.any = a]
            /\ UNCHANGED <<ueActive, next_excess_list>>
        BY <2>2, <3>2, <4>1, <4>b DEF GbrDone
      <4>3. drain' \in DrainType /\ drain'.phase = "excess"
        <5>1. drain' = ExcessHalf("excess", b, a)
          BY <4>2 DEF ExcessHalf
        <5> QED
          BY <5>1, HalfType
      <4> QED
        BY <1>3, <1>8, <4>2, <4>3
    <3> QED
      BY <3>1, <3>2
  <2>3. CASE ExcessList
    <3>1. PICK l \in Lists \cup {"NONE"}, n \in Int :
             /\ l = IF active[next_excess_list] = <<>> THEN "NONE" ELSE next_excess_list
             /\ n = Len(active[next_excess_list])
      BY <1>3, <1>5, ZenonT(30)
    <3>2. /\ drain' = [drain EXCEPT !.tries = drain.tries + 1, !.list = l, !.attempts = n]
          /\ next_excess_list' = shaper_next_excess_list(next_excess_list)
          /\ UNCHANGED ueActive /\ drain.phase = "excess"
      BY <2>3, <3>1 DEF ExcessList
    <3>3. drain.tries + 1 \in Int
      BY <1>4
    <3>4. drain' \in DrainType /\ drain'.phase = "excess"
      <4>1. drain' = AtList(drain, drain.tries + 1, l, n) /\ drain.phase = "excess"
        BY <3>2 DEF AtList
      <4> QED
        BY <1>3, <3>3, <4>1, AtListType, ZenonT(30)
    <3>5. next_excess_list' \in Lists
      BY <1>3, <3>2 DEF shaper_next_excess_list, Lists
    <3> QED
      BY <1>8, <3>2, <3>4, <3>5
  <2>4. CASE ExcessListDone
    <3>1. PICK l \in Lists \cup {"NONE"}, n \in Int : l = "NONE" /\ n = 0
      OBVIOUS
    <3>2. /\ drain' = [drain EXCEPT !.list = l] /\ drain.phase = "excess"
          /\ UNCHANGED <<ueActive, next_excess_list>>
      BY <2>4, <3>1 DEF ExcessListDone
    <3>3. drain' \in DrainType /\ drain'.phase = "excess"
      BY <1>3, <3>2, DrainFields, ZenonT(30)
    <3> QED
      BY <1>3, <1>8, <3>2, <3>3
  <2>5. CASE ExcessDone
    <3>1. CASE Finish
      BY <1>3, <1>7, <2>5, <3>1 DEF ExcessDone
    <3>2. CASE ~Finish
      <4>a. drain.budget - drain.sent \in Int /\ Len(active["GBR_QOS"]) \in Int
        BY <1>4, <1>5, <1>6
      <4>1. PICK b \in Int, n \in Int : b = drain.budget - drain.sent /\ n = Len(active["GBR_QOS"])
        BY <4>a, ZenonT(30)
      <4>2. /\ drain' = [Idle EXCEPT !.phase = "gbr", !.budget = b, !.attempts = n]
            /\ UNCHANGED <<ueActive, next_excess_list>>
        BY <2>5, <3>2, <4>1 DEF ExcessDone
      <4>3. drain' \in DrainType /\ drain'.phase = "gbr"
        <5>1. drain' = GbrHalf("gbr", b, n)
          BY <4>2 DEF GbrHalf
        <5> QED
          BY <5>1, HalfType, ZenonT(30)
      <4> QED
        BY <1>3, <1>8, <4>2, <4>3
    <3> QED
      BY <3>1, <3>2
  <2> QED
    BY <2>1, <2>2, <2>3, <2>4, <2>5
<1>10. RestInv'
  BY <1>1, <1>3, <1>9 DEF RestInv
<1> QED
  BY <1>2, <1>10 DEF ShaperInv

-----------------------------------------------------------------------------
(* The start, the flush, and the theorems.                                   *)

\* A table of free slots with empty lists is sound and has no packets
\* (shaper_init_state, shaper_flush_ue).
LEMMA EmptyTable ==
    ASSUME NEW v, v = [flows |-> [s \in Slots |-> NoFlow], active |-> [l \in Lists |-> <<>>]]
    PROVE  /\ v \in UeType /\ Placed(v) /\ Rows(v)
           /\ Cardinality(Taken(v.flows)) = 0 /\ \A k : Queue(v.flows, k) = <<>>
<1>1. /\ NoFlow \in FlowType /\ ~NoFlow.in_use /\ NoFlow.key = "none" /\ NoFlow.q = <<>>
      /\ NoFlow.list = "NONE"
  BY NoFlowFields, ZenonT(30)
<1>2. /\ v.flows = [s \in Slots |-> NoFlow] /\ v.active = [l \in Lists |-> <<>>]
      /\ v = [flows |-> v.flows, active |-> v.active]
  OBVIOUS
<1>3. /\ \A s \in Slots : v.flows[s] = NoFlow
      /\ \A l \in Lists : v.active[l] = <<>>
  BY <1>2
<1>4. v.flows \in [Slots -> FlowType] /\ v.active \in [Lists -> Seq(Slots)]
  BY <1>1, <1>2, SeqEmpty, ZenonT(30)
<1>5. v \in UeType
  BY <1>2, <1>4 DEF UeType
<1>6. Placed(v)
  <2>1. IsInjective(<<>>) /\ Range(<<>>) = {}
    BY DEF IsInjective, Range
  <2>2. "NONE" \notin Lists
    BY DEF Lists
  <2> QED
    BY <1>1, <1>3, <2>1, <2>2 DEF Placed
<1>7. FlowSound(NoFlow)
  <2>1. shaper_active_list_for_head(NoFlow) = "NONE"
    BY <1>1, HeadList
  <2>2. Len(NoFlow.q) = 0
    BY <1>1, SeqEmpty, ZenonT(30)
  <2> QED
    BY <1>1, <2>1, <2>2, TablesAssumption DEF FlowSound
<1>8. Rows(v)
  BY <1>1, <1>3, <1>7, ZenonT(30) DEF Rows
<1>9. Cardinality(Taken(v.flows)) = 0
  BY <1>1, <1>3, NoneTaken
<1>10. ASSUME NEW k PROVE Queue(v.flows, k) = <<>>
  <2>1. {s \in Slots : v.flows[s].in_use /\ v.flows[s].key = k} = {}
    BY <1>1, <1>3
  <2> QED
    BY <2>1 DEF Queue
<1> QED
  BY <1>5, <1>6, <1>8, <1>9, <1>10

\* shaper_init_state leaves a sound shaper with empty queues.
LEMMA ShaperStart == ShaperInit => ShaperInv /\ Fifo!Init
<1> SUFFICES ASSUME ShaperInit PROVE ShaperInv /\ Fifo!Init
  OBVIOUS
<1>1. Ue = [flows |-> [s \in Slots |-> NoFlow], active |-> [l \in Lists |-> <<>>]]
  BY DEF ShaperInit, Ue
<1>2. /\ Ue \in UeType /\ Placed(Ue) /\ Rows(Ue)
      /\ Cardinality(Taken(Ue.flows)) = 0 /\ \A k : Queue(Ue.flows, k) = <<>>
  BY <1>1, EmptyTable
<1>3. Ue.flows = flows
  BY ZenonT(30) DEF Ue
<1>4. CountInv
  BY <1>2, <1>3, TablesAssumption DEF ShaperInit, CountInv
<1>5. RestInv
  <2>1. Idle \in DrainType
    BY DEF Idle, DrainType
  <2> QED
    <3>1. "GBR_QOS" \in Lists /\ ~(queued > 0) /\ sent \in [Keys -> Nat] /\ offered \in Nat
      BY DEF ShaperInit, Lists
    <3> QED
      BY <2>1, <3>1, ZenonT(30) DEF ShaperInit, RestInv
<1>6. Waiting = [k \in Keys |-> <<>>]
  BY <1>2, <1>3 DEF Waiting
<1>7. Fifo!Init
  BY <1>6 DEF Fifo!Init, ShaperInit
<1> QED
  BY <1>2, <1>4, <1>5, <1>7 DEF ShaperInv, TableInv

\* shaper_flush_ue: all queues are empty and all entries are back in the pool.
LEMMA FlushStep ==
    ASSUME ShaperInv, shaper_flush_ue
    PROVE  ShaperInv' /\ FifoStep
<1>1. /\ drain.phase = "idle" /\ pool' = pool + Cardinality(Taken(flows)) /\ queued' = 0
      /\ next_excess_list' = "GBR_QOS" /\ ueActive' = FALSE
      /\ UNCHANGED <<depth, drain, offered, sent>>
  BY DEF shaper_flush_ue
<1>2. PICK v : v = [flows |-> [s \in Slots |-> NoFlow], active |-> [l \in Lists |-> <<>>]]
  BY ZenonT(30)
<1>3. /\ v \in UeType /\ Placed(v) /\ Rows(v)
      /\ Cardinality(Taken(v.flows)) = 0 /\ \A k : Queue(v.flows, k) = <<>>
  BY <1>2, EmptyTable
<1>4. Install(v)
  BY <1>2 DEF Install, shaper_flush_ue
<1>5. TableInv' /\ flows' = v.flows
  BY <1>3, <1>4, Installed
<1>6. CountInv'
  <2>1. Cardinality(Taken(flows')) = 0
    BY <1>3, <1>5
  <2> QED
    BY <1>1, <2>1, TablesAssumption DEF ShaperInv, CountInv
<1>7. RestInv'
  <2>1. "GBR_QOS" \in Lists /\ ~(queued' > 0)
    BY <1>1 DEF Lists
  <2>2. drain \in DrainType /\ offered \in Nat /\ sent \in [Keys -> Nat]
    BY DEF ShaperInv, RestInv
  <2>3. drain' = drain /\ offered' = offered /\ sent' = sent
    BY <1>1
  <2> QED
    BY <1>1, <2>1, <2>2, <2>3, ZenonT(30) DEF RestInv
<1>8. Waiting' = [k \in Keys |-> <<>>]
  BY <1>3, <1>5 DEF Waiting
<1>9. Fifo!Flush
  BY <1>1, <1>8 DEF Fifo!Flush
<1> QED
  BY <1>5, <1>6, <1>7, <1>9 DEF ShaperInv, FifoStep, Fifo!Next

\* Every step of the shaper keeps the invariant and is a step of the queues, or
\* none.
LEMMA ShaperStep ==
    ShaperInv /\ [ShaperNext]_shaperVars => ShaperInv' /\ FifoStep
<1> SUFFICES ASSUME ShaperInv, [ShaperNext]_shaperVars PROVE ShaperInv' /\ FifoStep
  OBVIOUS
<1>1. ASSUME NEW k \in Keys, NEW gbr \in BOOLEAN, NEW len \in Lens,
             shape_or_enqueue_packet(k, gbr, len)
      PROVE  ShaperInv' /\ FifoStep
  BY <1>1, ArrivalStep DEF FifoStep
<1>2. ASSUME UNCHANGED <<flows, active, queued, next_excess_list, ueActive, pool, drain, offered, sent>>
      PROVE  ShaperInv' /\ FifoStep
  <2>1. TableInv' /\ CountInv' /\ FifoStep
    BY <1>2, SameTable
  <2>2. RestInv'
    BY <1>2 DEF ShaperInv, RestInv
  <2> QED
    BY <2>1, <2>2 DEF ShaperInv
<1>3. CASE \E b \in DOMAIN depth, d \in Depths : ConfigureDlShaperForPdr(b, d)
  BY <1>2, <1>3 DEF ConfigureDlShaperForPdr
<1>4. CASE UNCHANGED shaperVars
  BY <1>2, <1>4 DEF shaperVars
<1>5. CASE shaper_flush_ue
  BY <1>5, FlushStep
<1>6. CASE drain_ue_shaper(DrainBudget) \/ GbrDone \/ ExcessList \/ ExcessListDone \/ ExcessDone
  BY <1>6, TurnStep
<1>7. CASE shaper_drain_gbr_locked
  BY <1>7, GbrStep
<1>8. CASE shaper_drain_excess_locked
  BY <1>8, ExcessStep
<1> QED
  BY <1>1, <1>3, <1>4, <1>5, <1>6, <1>7, <1>8 DEF ShaperNext

\* The inductive invariant of the shaper: flows, lists and counters agree
\* (shape_or_enqueue_packet, drain_ue_shaper, shaper_flush_ue).
THEOREM ShaperIsSound == ShaperSpec => []ShaperInv
BY ShaperStart, ShaperStep, PTL DEF ShaperSpec

\* No waiting packet is out of the drain's reach (shaper_activate_flow,
\* shaper_deactivate_flow, shaper_release_empty_flow), for any number of flows,
\* packets and policy changes.
THEOREM NoneOutOfReach == ShaperSpec => []WaitingFlowsAreActive
<1>1. ShaperInv => WaitingFlowsAreActive
  <2> SUFFICES ASSUME ShaperInv PROVE WaitingFlowsAreActive
    OBVIOUS
  <2>1. Ue.flows = flows /\ Ue.active = active /\ Placed(Ue) /\ Rows(Ue)
    BY DEF ShaperInv, TableInv, Ue
  <2>2. \A s \in Slots : /\ flows[s].in_use <=> flows[s].q # <<>>
                         /\ flows[s].list = shaper_active_list_for_head(flows[s])
    BY <2>1 DEF Rows, FlowSound
  <2>3. \A l \in Lists : /\ IsInjective(active[l])
                         /\ \A s \in Slots : s \in Range(active[l]) <=> l = flows[s].list
    BY <2>1 DEF Placed
  <2>4. drain.phase = "idle" /\ queued > 0 => ueActive
    BY DEF ShaperInv, RestInv
  <2> QED
    BY <2>2, <2>3, <2>4 DEF WaitingFlowsAreActive
<1> QED
  BY <1>1, ShaperIsSound, PTL

\* The counters that bound the queues are exact (queued_pkts of the UE, the
\* entry pool), and no bound is exceeded, for any bounds.
THEOREM CountsStayExact == ShaperSpec => []QueuesAreCounted
<1>1. ShaperInv => QueuesAreCounted
  <2> SUFFICES ASSUME ShaperInv PROVE QueuesAreCounted
    OBVIOUS
  <2>1. Ue.flows = flows /\ Rows(Ue)
    BY DEF ShaperInv, TableInv, Ue
  <2>2. \A k \in Keys : \A s, t \in shaper_lookup_flow(Ue, k) : s = t
    BY <2>1 DEF Rows, shaper_lookup_flow
  <2>3. \A s \in Slots : Len(flows[s].q) <= MaxPktsPerFlow
    BY <2>1 DEF Rows, FlowSound
  <2> QED
    BY <2>2, <2>3 DEF QueuesAreCounted, ShaperInv, CountInv
<1> QED
  BY <1>1, ShaperIsSound, PTL

\* The shaper implements one first-in first-out queue per flow: every step of
\* the table, the lists and the drain is a step of the queues or none.
THEOREM ShaperImplementsFifo == ShaperSpec => ShaperIsFifo
<1>1. ShaperInv /\ [ShaperNext]_shaperVars => [Fifo!Next]_(Fifo!fifoVars)
  BY ShaperStep DEF FifoStep
<1> QED
  BY <1>1, ShaperStart, ShaperIsSound, PTL DEF ShaperSpec, ShaperIsFifo, Fifo!Spec
=============================================================================
