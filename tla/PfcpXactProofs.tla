--------------------------- MODULE PfcpXactProofs ----------------------------
(* Proofs about the transactions of UPF-C (PfcpXact) with an SMF that neither *)
(* sends a request again while it is held nor leaves two reports open, and    *)
(* with a timer thread that finishes with a timer before UPF-C handles its    *)
(* message: no transaction and no timer is lost, used twice or freed twice,   *)
(* for any number of transactions, timers and messages.                       *)
EXTENDS PfcpXact, FiniteSetTheorems, TLAPS

\* A leaf is tried with Z3 and then with Zenon.
USE SMTT(20), ZenonT(20)

\* A sequence is a function on 1 .. its length.
LEMMA SeqLength ==
    ASSUME NEW T, NEW q \in Seq(T)
    PROVE  /\ DOMAIN q = 1 .. Len(q) /\ Len(q) \in Nat
           /\ q \in [1 .. Len(q) -> T]
OBVIOUS

\* What a sequence holds.
LEMMA SeqRange ==
    ASSUME NEW T, NEW q \in Seq(T)
    PROVE  Range(q) \subseteq T
BY SeqLength DEF Range

\* The empty sequence is the one of length 0.
LEMMA SeqEmpty ==
    ASSUME NEW T
    PROVE  /\ \A q \in Seq(T) : Len(q) = 0 <=> q = <<>>
           /\ <<>> \in Seq(T)
OBVIOUS

\* A sequence with an element put behind it.
LEMMA SeqAppend ==
    ASSUME NEW T, NEW q \in Seq(T), NEW x \in T
    PROVE  /\ Len(Append(q, x)) = Len(q) + 1 /\ Append(q, x)[Len(q) + 1] = x
           /\ \A n \in 1 .. Len(q) : Append(q, x)[n] = q[n]
           /\ Append(q, x) \in Seq(T) /\ Append(q, x) # <<>>
OBVIOUS

\* The first element of a sequence and the rest.
LEMMA SeqHeadTail ==
    ASSUME NEW T, NEW q \in Seq(T), q # <<>>
    PROVE  /\ Tail(q) \in Seq(T) /\ Head(q) \in T
           /\ Len(Tail(q)) = Len(q) - 1
           /\ \A n \in 1 .. Len(Tail(q)) : Tail(q)[n] = q[n + 1]
OBVIOUS

\* A stretch of a sequence.
LEMMA SeqPart ==
    ASSUME NEW T, NEW q, NEW i \in Int, NEW j \in Int, \A n \in i .. j : q[n] \in T
    PROVE  /\ SubSeq(q, i, j) \in Seq(T)
           /\ \A n \in 1 .. j - i + 1 : SubSeq(q, i, j)[n] = q[i + n - 1]
           /\ Len(SubSeq(q, i, j)) = IF i <= j THEN j - i + 1 ELSE 0
OBVIOUS

\* One sequence behind another.
LEMMA SeqConcat ==
    ASSUME NEW T, NEW p \in Seq(T), NEW q \in Seq(T)
    PROVE  /\ Len(p \o q) = Len(p) + Len(q) /\ p \o q \in Seq(T)
           /\ \A n \in 1 .. Len(p) + Len(q) :
                 (p \o q)[n] = IF n <= Len(p) THEN p[n] ELSE q[n - Len(p)]
OBVIOUS

OrderlyNetwork ==
    ~NetDuplicates /\ PromptTimers /\ MaxOutstanding <= 1 /\ MaxReports < MaxXactId

Busy(s) == xact[s].step > 0
Remote(s) == Busy(s) /\ xact[s].origin = "remote"

XactType == [origin : Lists, id : Nat, step : 0 .. 3, answered : BOOLEAN, count : Uint8,
             timer : Timers \cup {NoTimer}, link : Lists \cup {NoList}]
TimerType == [list : {"none", "idle", "active"}, running : BOOLEAN, slot : Slots \cup {NoSlot}]

\* The types, without the bounds that follow from the rest.
Types ==
    /\ pool \in Seq(Slots) /\ xact \in [Slots -> XactType]
    /\ newest \in [Lists -> Slots \cup {NoSlot}]
    /\ timerPool \in Seq(Timers) /\ timer \in [Timers -> TimerType]
    /\ active \in Seq(Timers) /\ firing \in Timers \cup {NoTimer}
    /\ events \in Seq(Slots) /\ Len(events) <= RingSize
    /\ xactId \in 0 .. MaxXactId /\ reports \in SUBSET (1 .. MaxXactId)
    /\ overfull \in BOOLEAN /\ evtLost \in BOOLEAN /\ fault \in BOOLEAN

\* A timer is in the pool, in the active list or idle, and in no two of them.
TimerInv ==
    /\ IsInjective(timerPool) /\ IsInjective(active)
    /\ \A t \in Timers : /\ t \in Range(timerPool) <=> timer[t].list = "none"
                         /\ t \in Range(active) <=> timer[t].list = "active"
                         /\ timer[t].list = "active" => timer[t].running

\* A transaction of the SMF and its timer name each other; one of UPF-C has none.
OwnerInv ==
    /\ \A s \in Slots :
          /\ Remote(s) => /\ xact[s].link = "remote" /\ xact[s].count = 1
                          /\ xact[s].timer \in Timers /\ timer[xact[s].timer].slot = s
                          /\ timer[xact[s].timer].list # "none"
          /\ Busy(s) /\ ~Remote(s) => xact[s].link = "local" /\ xact[s].timer = NoTimer
          /\ ~Busy(s) => xact[s].origin = "local"
    /\ \A t \in Timers : timer[t].list # "none" =>
          timer[t].slot \in Slots /\ Remote(timer[t].slot) /\ xact[timer[t].slot].timer = t

\* The entry of a list is a transaction of that list.
ListInv ==
    \A l \in Lists : newest[l] # NoSlot =>
        Busy(newest[l]) /\ xact[newest[l]].origin = l /\ xact[newest[l]].link = l

\* An event in the ring is for a transaction whose timer has expired, and every
\* timer that has expired has its event in the ring unless events were lost.
EventInv ==
    /\ IsInjective(events)
    /\ \A s \in Range(events) :
          Remote(s) /\ (xact[s].timer = firing \/ timer[xact[s].timer].list = "idle")
    /\ firing # NoTimer => timer[firing].list = "active"
    /\ ~evtLost => \A s \in Slots :
          Remote(s) /\ (xact[s].timer = firing \/ timer[xact[s].timer].list = "idle")
             => s \in Range(events)

\* One report is out at most, and its transaction is the entry of its list.
ReportInv ==
    /\ xactId <= MaxReports /\ reports \subseteq 1 .. MaxReports
    /\ \A a, b \in reports : a = b
    /\ \A id \in reports : /\ newest["local"] # NoSlot
                           /\ xact[newest["local"]].id = id /\ xact[newest["local"]].step = 1

\* The inductive invariant.
XactInv ==
    Types /\ PoolIsExact /\ ~fault /\ TimerInv /\ OwnerInv /\ ListInv /\ EventInv /\ ReportInv

-----------------------------------------------------------------------------
(* Queues without repetition.                                                *)

\* IndexAlloc on a pool.
LEMMA TailOnce ==
    ASSUME NEW S, NEW q \in Seq(S), q # <<>>, IsInjective(q)
    PROVE  /\ Head(q) \in Range(q) /\ Tail(q) \in Seq(S) /\ IsInjective(Tail(q))
           /\ Range(Tail(q)) = Range(q) \ {Head(q)}
<1>1. /\ Len(q) \in Nat \ {0} /\ q \in [1 .. Len(q) -> S] /\ DOMAIN q = 1 .. Len(q)
      /\ Head(q) = q[1] /\ Tail(q) \in Seq(S) /\ Len(Tail(q)) = Len(q) - 1
      /\ \A i \in 1 .. Len(q) - 1 : Tail(q)[i] = q[i + 1]
  BY SeqEmpty, SeqLength, SeqHeadTail
<1>2. DOMAIN Tail(q) = 1 .. Len(q) - 1
  BY <1>1, SeqLength
<1>3. IsInjective(Tail(q))
  BY <1>1, <1>2 DEF IsInjective
<1>4. Range(Tail(q)) \subseteq Range(q) \ {Head(q)}
  BY <1>1, <1>2 DEF IsInjective, Range
<1>5. ASSUME NEW i \in 1 .. Len(q), q[i] # Head(q)
      PROVE  q[i] \in Range(Tail(q))
  <2>1. i - 1 \in 1 .. Len(q) - 1 /\ Tail(q)[i - 1] = q[i]
    BY <1>1, <1>5
  <2> QED
    BY <1>2, <2>1, ZenonT(30) DEF Range
<1>6. Range(q) = {q[i] : i \in 1 .. Len(q)}
  BY <1>1 DEF Range
<1>7. Range(q) \ {Head(q)} \subseteq Range(Tail(q))
  BY <1>5, <1>6
<1>8. Head(q) \in Range(q)
  BY <1>1, <1>6
<1> QED
  BY <1>1, <1>3, <1>4, <1>7, <1>8

\* IndexFree on a pool.
LEMMA AppendOnce ==
    ASSUME NEW S, NEW q \in Seq(S), NEW e \in S, IsInjective(q), e \notin Range(q)
    PROVE  /\ Append(q, e) \in Seq(S) /\ IsInjective(Append(q, e))
           /\ Range(Append(q, e)) = Range(q) \cup {e}
<1>1. /\ Len(q) \in Nat /\ DOMAIN q = 1 .. Len(q) /\ Append(q, e) \in Seq(S)
      /\ Len(Append(q, e)) = Len(q) + 1
      /\ \A i \in 1 .. Len(q) : Append(q, e)[i] = q[i]
      /\ Append(q, e)[Len(q) + 1] = e
  BY SeqLength, SeqAppend
<1>2. DOMAIN Append(q, e) = 1 .. Len(q) + 1
  BY <1>1, SeqLength
<1>3. IsInjective(Append(q, e))
  BY <1>1, <1>2 DEF IsInjective, Range
<1>4. Range(Append(q, e)) = Range(q) \cup {e}
  BY <1>1, <1>2 DEF Range
<1> QED
  BY <1>1, <1>3, <1>4

\* ListRemove on the list of active timers.
LEMMA WithoutOnce ==
    ASSUME NEW S, NEW q \in Seq(S), NEW e, IsInjective(q)
    PROVE  /\ Without(q, e) \in Seq(S) /\ IsInjective(Without(q, e))
           /\ Range(Without(q, e)) = Range(q) \ {e}
<1> DEFINE at == {i \in 1 .. Len(q) : q[i] = e}
<1>1. Len(q) \in Nat /\ DOMAIN q = 1 .. Len(q) /\ q \in [1 .. Len(q) -> S]
  BY SeqLength
<1>2. CASE at = {}
  <2>1. Without(q, e) = q
    BY <1>2 DEF Without
  <2>2. e \notin Range(q)
    BY <1>1, <1>2 DEF Range
  <2> QED
    BY <2>1, <2>2
<1>3. CASE at # {}
  <2> DEFINE k == CHOOSE i \in at : TRUE
             a == SubSeq(q, 1, k - 1)
             b == SubSeq(q, k + 1, Len(q))
             r == a \o b
  <2>1. Without(q, e) = SubSeq(q, 1, k - 1) \o SubSeq(q, k + 1, Len(q))
    BY <1>3, ZenonT(30) DEF Without
  <2>2. k \in at
    BY <1>3
  <2>3. k \in 1 .. Len(q) /\ q[k] = e
    BY <2>2
  <2>4. Without(q, e) = r
    BY <2>1
  <2> HIDE DEF k
  <2>5. a \in Seq(S) /\ Len(a) = k - 1 /\ \A i \in 1 .. k - 1 : a[i] = q[i]
    BY <1>1, <2>3, SeqPart
  <2>6. b \in Seq(S) /\ Len(b) = Len(q) - k /\ \A i \in 1 .. Len(q) - k : b[i] = q[k + i]
    <3>1. /\ b \in Seq(S) /\ Len(b) = IF k + 1 <= Len(q) THEN Len(q) - (k + 1) + 1 ELSE 0
          /\ \A i \in 1 .. Len(q) - (k + 1) + 1 : b[i] = q[(k + 1) + i - 1]
      BY <1>1, <2>3, SeqPart
    <3> HIDE DEF a, b
    <3>2. Len(b) = Len(q) - k
      <4>1. Len(b) = IF k + 1 <= Len(q) THEN Len(q) - (k + 1) + 1 ELSE 0
        BY <3>1
      <4>2. Len(q) \in Nat /\ k \in Nat /\ k <= Len(q)
        BY <1>1, <2>3
      <4> QED
        BY <4>1, <4>2
    <3>3. ASSUME NEW i \in 1 .. Len(q) - k
          PROVE  b[i] = q[k + i]
      <4>1. i \in 1 .. Len(q) - (k + 1) + 1 /\ (k + 1) + i - 1 = k + i
        BY <1>1, <2>3
      <4>2. b[i] = q[(k + 1) + i - 1]
        BY <3>1, <4>1
      <4> QED
        BY <4>1, <4>2
    <3> QED
      BY <3>1, <3>2, <3>3
  <2> HIDE DEF a, b
  <2>7. /\ r \in Seq(S) /\ Len(r) = Len(q) - 1
        /\ \A i \in 1 .. Len(q) - 1 : r[i] = IF i <= k - 1 THEN a[i] ELSE b[i - (k - 1)]
    <3>1. /\ r \in Seq(S) /\ Len(r) = Len(a) + Len(b)
          /\ \A i \in 1 .. Len(a) + Len(b) : r[i] = IF i <= Len(a) THEN a[i] ELSE b[i - Len(a)]
      BY <2>5, <2>6, SeqConcat, ZenonT(30)
    <3>2. Len(a) + Len(b) = Len(q) - 1
      BY <1>1, <2>3, <2>5, <2>6
    <3> QED
      BY <2>5, <3>1, <3>2, ZenonT(30)
  <2>8. DOMAIN r = 1 .. Len(q) - 1
    BY <2>7, SeqLength
  <2> HIDE DEF r
  <2>9. \A i \in 1 .. Len(q) - 1 : r[i] = IF i < k THEN q[i] ELSE q[i + 1]
    <3> TAKE i \in 1 .. Len(q) - 1
    <3>1. CASE i < k
      BY <1>1, <2>3, <2>5, <2>7, <3>1
    <3>2. CASE ~(i < k)
      <4>1. i - (k - 1) \in 1 .. Len(q) - k /\ k + (i - (k - 1)) = i + 1
        BY <1>1, <2>3, <3>2
      <4> QED
        BY <1>1, <2>3, <2>6, <2>7, <3>2, <4>1
    <3> QED
      BY <3>1, <3>2
  <2>10. IsInjective(r)
    <3> SUFFICES ASSUME NEW i \in 1 .. Len(q) - 1, NEW j \in 1 .. Len(q) - 1, r[i] = r[j]
                 PROVE  i = j
      BY <2>8 DEF IsInjective
    <3> DEFINE x == IF i < k THEN i ELSE i + 1
               y == IF j < k THEN j ELSE j + 1
    <3>1. x \in 1 .. Len(q) /\ y \in 1 .. Len(q) /\ q[x] = q[y]
      BY <1>1, <2>3, <2>9
    <3>2. x = y
      BY <1>1, <3>1 DEF IsInjective
    <3> QED
      BY <1>1, <2>3, <3>2
  <2>11. Range(r) \subseteq Range(q) \ {e}
    <3> SUFFICES ASSUME NEW i \in 1 .. Len(q) - 1
                 PROVE  r[i] \in Range(q) /\ r[i] # e
      BY <2>8 DEF Range
    <3> DEFINE x == IF i < k THEN i ELSE i + 1
    <3>1. x \in 1 .. Len(q) /\ x # k /\ r[i] = q[x]
      BY <1>1, <2>3, <2>9
    <3> HIDE DEF x
    <3>2. q[x] # q[k]
      BY <1>1, <2>3, <3>1 DEF IsInjective
    <3> QED
      BY <1>1, <2>3, <3>1, <3>2 DEF Range
  <2>12. ASSUME NEW i \in 1 .. Len(q), q[i] # e
         PROVE  q[i] \in Range(r)
    <3> DEFINE x == IF i < k THEN i ELSE i - 1
    <3>1. x \in 1 .. Len(q) - 1 /\ r[x] = q[i]
      BY <1>1, <2>3, <2>9, <2>12
    <3> QED
      BY <2>8, <3>1 DEF Range
  <2>13. Range(q) = {q[i] : i \in 1 .. Len(q)}
    BY <1>1 DEF Range
  <2>14. Range(q) \ {e} \subseteq Range(r)
    BY <2>12, <2>13
  <2> QED
    BY <2>4, <2>7, <2>10, <2>11, <2>14
<1> QED
  BY <1>2, <1>3

\* A pool is no longer than the set it is for, and shorter when one is out.
LEMMA OnceLen ==
    ASSUME NEW S, IsFiniteSet(S), NEW q \in Seq(S), IsInjective(q)
    PROVE  /\ Len(q) <= Cardinality(S)
           /\ \A e \in S : e \notin Range(q) => Len(q) < Cardinality(S)
<1>1. Len(q) \in Nat /\ DOMAIN q = 1 .. Len(q) /\ q \in [1 .. Len(q) -> S]
  BY SeqLength
<1>2. IsFiniteSet(1 .. Len(q)) /\ Cardinality(1 .. Len(q)) = Len(q)
  BY <1>1, FS_Interval
<1>3. ASSUME NEW T, IsFiniteSet(T), q \in [1 .. Len(q) -> T]
      PROVE  Len(q) <= Cardinality(T)
  <2>1. q \in Injection(1 .. Len(q), T)
    BY <1>1, <1>3 DEF Injection, IsInjective
  <2> QED
    BY <1>2, <1>3, <2>1, FS_Injection
<1>4. Len(q) <= Cardinality(S)
  BY <1>1, <1>3
<1>5. ASSUME NEW e \in S, e \notin Range(q)
      PROVE  Len(q) < Cardinality(S)
  <2>1. q \in [1 .. Len(q) -> S \ {e}]
    BY <1>1, <1>5 DEF Range
  <2>2. /\ IsFiniteSet(S \ {e}) /\ Cardinality(S \ {e}) = Cardinality(S) - 1
        /\ Cardinality(S) \in Nat
    BY FS_RemoveElement, FS_CardinalityType
  <2>3. Len(q) <= Cardinality(S \ {e})
    BY <1>3, <2>1, <2>2
  <2> QED
    BY <1>1, <2>2, <2>3
<1> QED
  BY <1>4, <1>5

\* IndexInit: a full pool has every entry once.
LEMMA FullPool ==
    ASSUME NEW S, IsFiniteSet(S)
    PROVE  /\ InARow(S) \in Seq(S) /\ IsInjective(InARow(S))
           /\ Range(InARow(S)) = S
<1> DEFINE n == Cardinality(S)
<1>1. n \in Nat /\ ExistsBijection(1 .. n, S)
  BY FS_CardinalityType
<1>2. \E f \in [1 .. n -> S] : IsInjective(f)
  BY <1>1 DEF ExistsBijection, Bijection, Injection
<1> DEFINE f == InARow(S)
<1>3. f \in [1 .. n -> S] /\ IsInjective(f)
  BY <1>2 DEF InARow
<1> HIDE DEF f
<1>4. IsFiniteSet(1 .. n) /\ Cardinality(1 .. n) = n
  BY <1>1, FS_Interval
<1>5. f \in Injection(1 .. n, S)
  BY <1>3 DEF Injection
<1>6. f \in Surjection(1 .. n, S)
  BY <1>4, <1>5, FS_Injection
<1>7. f \in Seq(S)
  BY <1>1, <1>3
<1>8. Range(f) = S
  BY <1>3, <1>6 DEF Surjection, Range
<1> QED
  BY <1>3, <1>7, <1>8 DEF f

-----------------------------------------------------------------------------
(* What the invariant says of one transaction, one timer and one list.       *)

\* The fields of a transaction have their types.
LEMMA XactFacts ==
    ASSUME XactInv, NEW s \in Slots
    PROVE  /\ xact[s] \in XactType /\ xact[s].step \in 0 .. 3 /\ xact[s].origin \in Lists
           /\ xact[s].count \in Uint8 /\ xact[s].id \in Nat
           /\ s # NoSlot /\ s # Stray
           /\ Busy(s) <=> s \notin Range(pool)
<1>1. xact[s] \in XactType
  BY DEF XactInv, Types
<1>2. /\ xact[s].step \in 0 .. 3 /\ xact[s].origin \in Lists
      /\ xact[s].count \in Uint8 /\ xact[s].id \in Nat
  BY <1>1 DEF XactType
<1>3. Busy(s) <=> s \notin Range(pool)
  BY <1>2 DEF XactInv, PoolIsExact, Busy
<1> QED
  BY <1>1, <1>2, <1>3, PoolsAssumption

\* The transactions of the messages that wait are transactions.
LEMMA EventsAreSlots ==
    ASSUME XactInv
    PROVE  Range(events) \subseteq Slots
<1>1. events \in Seq(Slots)
  BY DEF XactInv, Types
<1> QED
  BY <1>1, SeqRange

\* A transaction of the SMF has its timer, and one of UPF-C has none.
LEMMA OwnerFacts ==
    ASSUME XactInv, NEW s \in Slots
    PROVE  /\ Remote(s) => /\ xact[s].link = "remote" /\ xact[s].count = 1
                           /\ xact[s].timer \in Timers /\ timer[xact[s].timer].slot = s
                           /\ timer[xact[s].timer].list # "none" /\ xact[s].timer # NoTimer
           /\ Busy(s) /\ ~Remote(s) => xact[s].link = "local" /\ xact[s].timer = NoTimer
           /\ ~Busy(s) => xact[s].origin = "local"
<1>1. OwnerInv /\ NoTimer \notin Timers
  BY PoolsAssumption DEF XactInv
<1> QED
  BY <1>1 DEF OwnerInv

\* A step that leaves the transactions, the timers and their lists alone.
LEMMA SameMemory ==
    ASSUME XactInv, UNCHANGED <<pool, xact, newest, timerPool, timer, active, overfull, fault>>
    PROVE  PoolIsExact' /\ ~fault' /\ TimerInv' /\ OwnerInv' /\ ListInv'
<1>1. PoolIsExact /\ ~fault /\ TimerInv /\ OwnerInv /\ ListInv
  BY DEF XactInv
<1>2. PoolIsExact' /\ ~fault' /\ TimerInv'
  BY <1>1 DEF PoolIsExact, TimerInv
<1>3. OwnerInv'
  BY <1>1 DEF OwnerInv, Busy, Remote
<1>4. ListInv'
  BY <1>1 DEF ListInv, Busy
<1> QED
  BY <1>2, <1>3, <1>4

\* And one that leaves the timer thread and its events alone, too.
LEMMA SameEvents ==
    ASSUME XactInv, UNCHANGED <<xact, timer, firing, events, evtLost>>
    PROVE  EventInv'
<1>1. EventInv
  BY DEF XactInv
<1> QED
  BY <1>1 DEF EventInv, Busy, Remote

\* At the start the pools are full and everything else is empty.
LEMMA XactInit == Init => XactInv
<1> SUFFICES ASSUME Init PROVE XactInv
  OBVIOUS
<1> USE PoolsAssumption, NumbersAssumption DEF Init
<1>1. /\ pool \in Seq(Slots) /\ IsInjective(pool) /\ Range(pool) = Slots
      /\ timerPool \in Seq(Timers) /\ IsInjective(timerPool) /\ Range(timerPool) = Timers
  BY FullPool
<1>2. /\ <<>> \in Seq(Timers) /\ <<>> \in Seq(Slots) /\ Len(<<>>) = 0
      /\ Range(<<>>) = {} /\ IsInjective(<<>>)
  BY DEF Range, IsInjective
<1>3. Blank \in XactType /\ Blank.step = 0 /\ Blank.origin = "local"
  BY DEF Blank, XactType, Lists, Uint8
<1>4. [list |-> "none", running |-> FALSE, slot |-> NoSlot] \in TimerType
  BY DEF TimerType
<1>5. Types
  <2>1. xact \in [Slots -> XactType] /\ timer \in [Timers -> TimerType]
    BY <1>3, <1>4
  <2>2. newest \in [Lists -> Slots \cup {NoSlot}]
    OBVIOUS
  <2>3. active \in Seq(Timers) /\ events \in Seq(Slots) /\ Len(events) <= RingSize
    BY <1>2
  <2>4. /\ xactId \in 0 .. MaxXactId /\ reports \in SUBSET (1 .. MaxXactId)
        /\ firing \in Timers \cup {NoTimer}
    OBVIOUS
  <2> QED
    BY <1>1, <2>1, <2>2, <2>3, <2>4, ZenonT(30) DEF Types
<1>6. \A s \in Slots : xact[s].step = 0 /\ ~Busy(s) /\ ~Remote(s) /\ xact[s].origin = "local"
  BY <1>3 DEF Busy, Remote
<1>7. PoolIsExact /\ ~fault
  BY <1>1, <1>6 DEF PoolIsExact
<1>8. TimerInv
  BY <1>1, <1>2 DEF TimerInv
<1>9. OwnerInv /\ ListInv
  BY <1>6 DEF OwnerInv, ListInv
<1>10. EventInv /\ ReportInv
  BY <1>2, <1>6 DEF EventInv, ReportInv
<1> QED
  BY <1>5, <1>7, <1>8, <1>9, <1>10 DEF XactInv

\* While a transaction is free there is a timer for it.
LEMMA TimerLeft ==
    ASSUME XactInv, pool # <<>>
    PROVE  timerPool # <<>>
<1> SUFFICES ASSUME timerPool = <<>> PROVE FALSE
  OBVIOUS
<1> DEFINE h == Head(pool)
           f == [t \in Timers |-> timer[t].slot]
<1>1. pool \in Seq(Slots) /\ IsInjective(pool)
  BY DEF XactInv, Types, PoolIsExact
<1>2. h \in Range(pool) /\ h \in Slots
  <2>1. h \in Range(pool)
    BY <1>1, TailOnce
  <2>2. pool \in [1 .. Len(pool) -> Slots]
    BY <1>1, SeqLength
  <2> QED
    BY <2>1, <2>2 DEF Range
<1>3. ~Busy(h)
  BY <1>2, XactFacts
<1>4. Range(timerPool) = {}
  BY DEF Range
<1>5. \A t \in Timers : /\ timer[t].slot \in Slots /\ Remote(timer[t].slot)
                        /\ xact[timer[t].slot].timer = t
  BY <1>4 DEF XactInv, TimerInv, OwnerInv
<1>6. \A t \in Timers : f[t] \in Slots \ {h} /\ xact[f[t]].timer = t
  BY <1>3, <1>5 DEF Remote
<1>7. f \in [Timers -> Slots \ {h}]
  BY <1>6
<1> HIDE DEF f
<1>8. f \in Injection(Timers, Slots \ {h})
  BY <1>6, <1>7 DEF Injection, IsInjective
<1>9. /\ IsFiniteSet(Slots \ {h}) /\ Cardinality(Slots \ {h}) = Cardinality(Slots) - 1
      /\ Cardinality(Slots) \in Nat
  BY <1>2, PoolsAssumption, FS_RemoveElement, FS_CardinalityType
<1>10. Cardinality(Timers) <= Cardinality(Slots \ {h})
  BY <1>8, <1>9, FS_Injection
<1>11. Cardinality(Timers) \in Nat
  BY PoolsAssumption, FS_CardinalityType
<1> QED
  BY <1>9, <1>10, <1>11, PoolsAssumption

\* A request that is not held is not found.
LEMMA NoRepeatedRequest ==
    ASSUME XactInv, OrderlyNetwork, NEW q \in Sqns, RepeatedRequest(q)
    PROVE  FALSE
<1> DEFINE n == newest["remote"]
<1>1. q \notin HeldIds
  BY DEF RepeatedRequest, OrderlyNetwork
<1>2. n \in Slots \cup {NoSlot} /\ Slots \cap {NoSlot, Stray} = {} /\ NoSlot # Stray
  BY PoolsAssumption DEF XactInv, Types, Lists, NoSlot, Stray
<1>3. n # NoSlot => n \in Slots /\ xact[n].origin = "remote" /\ xact[n].link = "remote"
  BY <1>2 DEF XactInv, ListInv, Lists
<1>4. n # NoSlot => xact[n].id \in HeldIds
  BY <1>3 DEF HeldIds
<1>5. Find("remote", q) = NoSlot
  BY <1>1, <1>3, <1>4 DEF Find
<1> QED
  BY <1>2, <1>5 DEF RepeatedRequest

-----------------------------------------------------------------------------
(* The steps.                                                                *)

\* The head of a pool.
LEMMA HeadOfPool ==
    ASSUME NEW S, NEW q \in Seq(S), q # <<>>, IsInjective(q)
    PROVE  Head(q) \in S /\ Head(q) \in Range(q)
<1>1. Head(q) \in Range(q)
  BY TailOnce
<1>2. q \in [1 .. Len(q) -> S] /\ DOMAIN q = 1 .. Len(q)
  BY SeqLength
<1> QED
  BY <1>1, <1>2 DEF Range

\* The handler of a request changes the step and the answer of its transaction.
LEMMA AnsweredXact ==
    ASSUME NEW w \in XactType, NEW answered \in BOOLEAN
    PROVE  LET x == Answered([w EXCEPT !.step = 1], answered)
           IN /\ x \in XactType /\ x.step > 0 /\ x.origin = w.origin /\ x.link = w.link
              /\ x.count = w.count /\ x.timer = w.timer
<1> DEFINE y == [w EXCEPT !.step = 1]
           a == [y EXCEPT !.step = 2]
           z == [a EXCEPT !.answered = TRUE]
<1>1. Answered(y, answered) = IF answered THEN z ELSE y
  BY DEF Answered
<1>2. /\ y \in XactType /\ y.step = 1 /\ y.origin = w.origin /\ y.link = w.link
      /\ y.count = w.count /\ y.timer = w.timer
  BY DEF XactType
<1> HIDE DEF y
<1>3. /\ a \in XactType /\ a.step = 2 /\ a.origin = y.origin /\ a.link = y.link
      /\ a.count = y.count /\ a.timer = y.timer
  BY <1>2 DEF XactType
<1> HIDE DEF a
<1>4. /\ z \in XactType /\ z.step = a.step /\ z.origin = a.origin /\ z.link = a.link
      /\ z.count = a.count /\ z.timer = a.timer
  BY <1>3, ZenonT(30) DEF XactType
<1> HIDE DEF z
<1>5. Answered(y, answered) \in {y, z}
  BY <1>1
<1> QED
  <2> DEFINE x == Answered(y, answered)
  <2>1. /\ x \in XactType /\ x.step > 0 /\ x.origin = w.origin /\ x.link = w.link
        /\ x.count = w.count /\ x.timer = w.timer
    <3> HIDE DEF x
    <3> QED
      BY <1>2, <1>3, <1>4, <1>5 DEF x
  <2> QED
    BY ONLY <2>1 DEF y

\* PfcpXactRemoteCreate and the start of the timer: a free transaction and a free
\* timer are bound to each other.
LEMMA RequestStep ==
    ASSUME XactInv, OrderlyNetwork, NEW q \in Sqns, NewRequest(q)
    PROVE  XactInv'
<1>1. CASE pool = <<>>
  <2>1. UNCHANGED <<pool, xact, newest, timerPool, timer, active, overfull, fault,
                    firing, events, xactId, reports, evtLost>>
    BY <1>1 DEF NewRequest, mem
  <2>2. Types' /\ ReportInv'
    BY <2>1 DEF XactInv, Types, ReportInv
  <2> QED
    BY <2>1, <2>2, SameMemory, SameEvents DEF XactInv
<1>2. CASE pool # <<>>
  <2>1. timerPool # <<>>
    BY <1>2, TimerLeft
  <2>2. PICK s \in Slots, t \in Timers, answered \in BOOLEAN :
           /\ PfcpXactRemoteCreate(s, t)
           /\ pool' = Tail(pool)
           /\ TimerStart(t, IdleTimer(s))
           /\ xact' = [xact EXCEPT ![s] = Answered([RemoteXact(q, t) EXCEPT !.step = 1], answered)]
    BY <1>2, <2>1 DEF NewRequest
  <2> DEFINE x == Answered([RemoteXact(q, t) EXCEPT !.step = 1], answered)
             tm == [IdleTimer(s) EXCEPT !.list = "active", !.running = TRUE]
  <2>3. /\ x \in XactType /\ x.step > 0 /\ x.origin = "remote" /\ x.link = "remote"
        /\ x.count = 1 /\ x.timer = t
    <3>1. q \in Nat
      BY NumbersAssumption
    <3>2. RemoteXact(q, t) \in XactType
      BY <3>1 DEF RemoteXact, DUPLICATED_RETRY_COUNT, XactType, Lists, Uint8
    <3>3. /\ RemoteXact(q, t).origin = "remote" /\ RemoteXact(q, t).link = "remote"
          /\ RemoteXact(q, t).count = 1 /\ RemoteXact(q, t).timer = t
      BY DEF RemoteXact, DUPLICATED_RETRY_COUNT
    <3> QED
      BY <3>2, <3>3, AnsweredXact
  <2>4. tm \in TimerType /\ tm.list = "active" /\ tm.running /\ tm.slot = s
    BY ZenonT(30) DEF IdleTimer, TimerType
  <2>5. /\ s = Head(pool) /\ t = Head(timerPool) /\ timerPool' = Tail(timerPool)
        /\ newest' = [newest EXCEPT !["remote"] = s]
        /\ active' = Append(Without(active, t), t)
        /\ timer' = [timer EXCEPT ![t] = tm] /\ xact' = [xact EXCEPT ![s] = x]
        /\ UNCHANGED <<overfull, fault, firing, events, xactId, reports, evtLost>>
    BY <2>2, ZenonT(30) DEF NewRequest, PfcpXactRemoteCreate, TimerStart
  <2> HIDE DEF x, tm
  <2>6. /\ pool \in Seq(Slots) /\ IsInjective(pool)
        /\ timerPool \in Seq(Timers) /\ IsInjective(timerPool)
        /\ active \in Seq(Timers) /\ IsInjective(active)
        /\ xact \in [Slots -> XactType] /\ timer \in [Timers -> TimerType]
        /\ newest \in [Lists -> Slots \cup {NoSlot}]
    BY DEF XactInv, Types, PoolIsExact, TimerInv
  <2>7. s \in Range(pool) /\ t \in Range(timerPool)
    BY <1>2, <2>1, <2>5, <2>6, HeadOfPool
  <2>8. ~Busy(s) /\ timer[t].list = "none" /\ t \notin Range(active)
    BY <2>7, XactFacts DEF XactInv, TimerInv
  <2>9. /\ pool' \in Seq(Slots) /\ IsInjective(pool') /\ Range(pool') = Range(pool) \ {s}
    BY <1>2, <2>2, <2>5, <2>6, TailOnce
  <2>10. /\ timerPool' \in Seq(Timers) /\ IsInjective(timerPool')
         /\ Range(timerPool') = Range(timerPool) \ {t}
    BY <2>1, <2>5, <2>6, TailOnce
  <2>11. /\ active' \in Seq(Timers) /\ IsInjective(active')
         /\ Range(active') = Range(active) \cup {t}
    <3>1. /\ Without(active, t) \in Seq(Timers) /\ IsInjective(Without(active, t))
          /\ Range(Without(active, t)) = Range(active) \ {t}
      BY <2>6, WithoutOnce
    <3>2. t \notin Range(Without(active, t))
      BY <3>1
    <3> QED
      BY <2>5, <2>8, <3>1, <3>2, AppendOnce
  <2>12. /\ \A r \in Slots : xact'[r] = IF r = s THEN x ELSE xact[r]
         /\ \A u \in Timers : timer'[u] = IF u = t THEN tm ELSE timer[u]
         /\ newest'["remote"] = s /\ newest'["local"] = newest["local"]
    BY <2>5, <2>6 DEF Lists
  <2>13. \A r \in Slots : /\ Busy(r)' <=> r = s \/ Busy(r)
                          /\ Remote(r)' <=> r = s \/ Remote(r)
    BY <2>3, <2>8, <2>12 DEF Busy, Remote
  <2>14. Types'
    <3>1. xact' \in [Slots -> XactType] /\ timer' \in [Timers -> TimerType]
      BY <2>3, <2>4, <2>5, <2>6
    <3>2. newest' \in [Lists -> Slots \cup {NoSlot}]
      BY <2>5, <2>6, ZenonT(30)
    <3> QED
      BY <2>5, <2>9, <2>10, <2>11, <3>1, <3>2 DEF XactInv, Types
  <2>15. PoolIsExact' /\ ~fault'
    <3>1. \A r \in Slots : r \in Range(pool') <=> xact'[r].step = 0
      BY <2>3, <2>9, <2>12 DEF XactInv, PoolIsExact
    <3> QED
      BY <2>5, <2>9, <3>1 DEF XactInv, PoolIsExact
  <2>16. TimerInv'
    BY <2>4, <2>8, <2>10, <2>11, <2>12 DEF XactInv, TimerInv
  <2>17. OwnerInv'
    <3>1. \A r \in Slots : Remote(r) => xact[r].timer # t
      BY <2>8 DEF XactInv, OwnerInv
    <3>2. \A u \in Timers : u # t /\ timer[u].list # "none" => timer[u].slot # s
      BY <2>8 DEF XactInv, OwnerInv, Remote
    <3>3. ASSUME NEW r \in Slots
          PROVE  /\ Remote(r)' => /\ xact'[r].link = "remote" /\ xact'[r].count = 1
                                  /\ xact'[r].timer \in Timers
                                  /\ timer'[xact'[r].timer].slot = r
                                  /\ timer'[xact'[r].timer].list # "none"
                 /\ Busy(r)' /\ ~Remote(r)' => xact'[r].link = "local" /\ xact'[r].timer = NoTimer
                 /\ ~Busy(r)' => xact'[r].origin = "local"
      <4>1. CASE r = s
        BY <2>3, <2>4, <2>12, <2>13, <4>1
      <4>2. CASE r # s
        BY <2>12, <2>13, <3>1, <4>2 DEF XactInv, OwnerInv
      <4> QED
        BY <4>1, <4>2
    <3>4. ASSUME NEW u \in Timers, timer'[u].list # "none"
          PROVE  (timer[u].slot \in Slots /\ Remote(timer[u].slot) /\ xact[timer[u].slot].timer = u)'
      <4>1. CASE u = t
        BY <2>3, <2>4, <2>12, <4>1 DEF Busy, Remote
      <4>2. CASE u # t
        BY <2>12, <3>2, <3>4, <4>2 DEF XactInv, OwnerInv, Busy, Remote
      <4> QED
        BY <4>1, <4>2
    <3> QED
      BY <3>3, <3>4 DEF OwnerInv, Busy, Remote
  <2>18. ListInv'
    <3>1. newest["local"] # NoSlot => newest["local"] \in Slots /\ newest["local"] # s
      BY <2>6, <2>8 DEF XactInv, ListInv, Lists
    <3> QED
      BY <2>3, <2>12, <2>13, <3>1 DEF XactInv, ListInv, Lists
  <2>19. EventInv'
    <3>1. \A r \in Slots : Remote(r) => r # s /\ xact[r].timer # t
      BY <2>8 DEF XactInv, OwnerInv, Remote
    <3>2. Range(events) \subseteq Slots
      BY EventsAreSlots, ZenonT(30)
    <3>3. firing # t
      BY <2>8, PoolsAssumption DEF XactInv, EventInv
    <3>4. \A r \in Slots : r # s /\ Remote(r) => /\ xact'[r].timer = xact[r].timer
                                               /\ timer'[xact[r].timer] = timer[xact[r].timer]
      BY <2>12, <3>1 DEF XactInv, OwnerInv
    <3>5. xact'[s].timer = t /\ timer'[t].list = "active"
      BY <2>3, <2>4, <2>12
    <3>6. \A r \in Range(events') :
             Remote(r)' /\ (xact'[r].timer = firing' \/ timer'[xact'[r].timer].list = "idle")
      BY <2>5, <2>13, <3>1, <3>2, <3>4 DEF XactInv, EventInv
    <3>7. firing' # NoTimer => timer'[firing'].list = "active"
      BY <2>5, <2>12, <3>3 DEF XactInv, EventInv, Types
    <3>8. ~evtLost' => \A r \in Slots :
             Remote(r)' /\ (xact'[r].timer = firing' \/ timer'[xact'[r].timer].list = "idle")
                => r \in Range(events')
      BY <2>5, <2>13, <3>3, <3>4, <3>5 DEF XactInv, EventInv
    <3> QED
      BY <2>5, <3>6, <3>7, <3>8 DEF XactInv, EventInv, Busy, Remote
  <2>20. ReportInv'
    <3>1. newest["local"] # NoSlot => newest["local"] \in Slots /\ newest["local"] # s
      BY <2>6, <2>8 DEF XactInv, ListInv, Lists
    <3> QED
      BY <2>5, <2>12, <3>1 DEF XactInv, ReportInv
  <2> QED
    BY <2>14, <2>15, <2>16, <2>17, <2>18, <2>19, <2>20 DEF XactInv
<1> QED
  BY <1>1, <1>2

\* PfcpXactLocalCreate makes a transaction of UPF-C, without timers.
LEMMA LocalXact ==
    ASSUME NextXactId \in Nat
    PROVE  /\ PfcpXactLocalCreate \in XactType /\ PfcpXactLocalCreate.step = 1
           /\ PfcpXactLocalCreate.origin = "local" /\ PfcpXactLocalCreate.link = "local"
           /\ PfcpXactLocalCreate.timer = NoTimer /\ PfcpXactLocalCreate.id = NextXactId
<1> DEFINE a == [Blank EXCEPT !.id = NextXactId]
           b == [a EXCEPT !.step = 1]
           c == [b EXCEPT !.link = "local"]
<1>1. Blank \in XactType /\ Blank.origin = "local" /\ Blank.timer = NoTimer
  BY DEF Blank, XactType, Lists, Uint8
<1>2. PfcpXactLocalCreate = c
  BY DEF PfcpXactLocalCreate
<1>3. /\ a \in XactType /\ a.origin = Blank.origin /\ a.timer = Blank.timer
      /\ a.id = NextXactId
  BY <1>1 DEF XactType
<1> HIDE DEF a
<1>4. b \in XactType /\ b.origin = a.origin /\ b.timer = a.timer /\ b.id = a.id /\ b.step = 1
  BY <1>3 DEF XactType
<1> HIDE DEF b
<1>5. /\ c \in XactType /\ c.origin = b.origin /\ c.timer = b.timer /\ c.id = b.id
      /\ c.step = b.step /\ c.link = "local"
  BY <1>4 DEF XactType, Lists
<1> HIDE DEF c
<1> QED
  BY <1>1, <1>2, <1>3, <1>4, <1>5

\* PfcpXactDelete wipes a transaction.
LEMMA WipedXact ==
    ASSUME NEW w \in XactType, NEW count \in Uint8
    PROVE  LET x == [w EXCEPT !.origin = "local", !.id = 0, !.step = 0, !.link = NoList,
                              !.count = count]
           IN x \in XactType /\ x.step = 0 /\ x.origin = "local"
<1> DEFINE a == [w EXCEPT !.origin = "local"]
           b == [a EXCEPT !.id = 0]
           c == [b EXCEPT !.step = 0]
           d == [c EXCEPT !.link = NoList]
           e == [d EXCEPT !.count = count]
<1>1. a \in XactType /\ a.origin = "local"
  BY DEF XactType, Lists
<1>2. ASSUME NEW y \in XactType
      PROVE  [y EXCEPT !.id = 0] \in XactType /\ [y EXCEPT !.id = 0].origin = y.origin
  BY DEF XactType
<1>3. ASSUME NEW y \in XactType
      PROVE  /\ [y EXCEPT !.step = 0] \in XactType /\ [y EXCEPT !.step = 0].origin = y.origin
             /\ [y EXCEPT !.step = 0].step = 0
  BY DEF XactType
<1>4. ASSUME NEW y \in XactType
      PROVE  /\ [y EXCEPT !.link = NoList] \in XactType
             /\ [y EXCEPT !.link = NoList].origin = y.origin
             /\ [y EXCEPT !.link = NoList].step = y.step
  BY DEF XactType
<1>5. ASSUME NEW y \in XactType
      PROVE  /\ [y EXCEPT !.count = count] \in XactType
             /\ [y EXCEPT !.count = count].origin = y.origin
             /\ [y EXCEPT !.count = count].step = y.step
  BY DEF XactType
<1> HIDE DEF a
<1>6. b \in XactType /\ b.origin = "local"
  BY <1>1, <1>2
<1> HIDE DEF b
<1>7. c \in XactType /\ c.origin = "local" /\ c.step = 0
  BY <1>6, <1>3
<1> HIDE DEF c
<1>8. d \in XactType /\ d.origin = "local" /\ d.step = 0
  BY <1>7, <1>4
<1> HIDE DEF d
<1>9. e \in XactType /\ e.origin = "local" /\ e.step = 0
  BY <1>8, <1>5
<1> QED
  BY ONLY <1>9 DEF a, b, c, d

\* One report at a time: when one may be sent, none is out.
LEMMA NoReportOut ==
    ASSUME XactInv, OrderlyNetwork, Cardinality(reports) < MaxOutstanding
    PROVE  reports = {}
<1>1. reports \subseteq 1 .. MaxXactId
  BY DEF XactInv, Types
<1>2. IsFiniteSet(reports)
  <2>1. IsFiniteSet(1 .. MaxXactId)
    BY FS_Interval, NumbersAssumption
  <2> QED
    BY <1>1, <2>1, FS_Subset, ZenonT(30)
<1>3. Cardinality(reports) \in Nat
  BY <1>2, FS_CardinalityType
<1>4. Cardinality(reports) = 0
  BY <1>3, NumbersAssumption DEF OrderlyNetwork
<1> QED
  BY <1>2, <1>4, FS_EmptySet

\* PfcpXactLocalCreate: a free transaction becomes the entry of the local list.
LEMMA ReportStep ==
    ASSUME XactInv, OrderlyNetwork, SendReport
    PROVE  XactInv'
<1> DEFINE s == Head(pool)
           x == PfcpXactLocalCreate
<1>1. /\ pool # <<>> /\ pool' = Tail(pool) /\ xact' = [xact EXCEPT ![s] = x]
      /\ newest' = [newest EXCEPT !["local"] = s]
      /\ NextXactId <= MaxReports /\ xactId' = NextXactId /\ reports' = reports \cup {NextXactId}
      /\ UNCHANGED <<timerPool, timer, active, overfull, fault, firing, events, evtLost>>
  BY DEF SendReport
<1>2. /\ pool \in Seq(Slots) /\ IsInjective(pool) /\ xact \in [Slots -> XactType]
      /\ newest \in [Lists -> Slots \cup {NoSlot}] /\ xactId \in 0 .. MaxXactId
  BY DEF XactInv, Types, PoolIsExact
<1>3. s \in Slots /\ s \in Range(pool)
  BY <1>1, <1>2, HeadOfPool
<1>4. ~Busy(s) /\ s # NoSlot
  BY <1>3, XactFacts
<1>5. NextXactId \in 1 .. MaxXactId /\ NextXactId \in Nat
  BY <1>2, NumbersAssumption DEF NextXactId
<1>6. /\ x \in XactType /\ x.step = 1 /\ x.origin = "local" /\ x.link = "local"
      /\ x.timer = NoTimer /\ x.id = NextXactId
  BY <1>5, LocalXact
<1>7. reports = {}
  BY NoReportOut DEF SendReport
<1> HIDE DEF s, x
<1>8. /\ pool' \in Seq(Slots) /\ IsInjective(pool') /\ Range(pool') = Range(pool) \ {s}
  BY <1>1, <1>2, TailOnce DEF s
<1>9. /\ \A r \in Slots : xact'[r] = IF r = s THEN x ELSE xact[r]
      /\ newest'["local"] = s /\ newest'["remote"] = newest["remote"]
  BY <1>1, <1>2 DEF Lists
<1>10. \A r \in Slots : /\ Busy(r)' <=> r = s \/ Busy(r)
                        /\ Remote(r)' <=> Remote(r)
                        /\ Remote(r) => r # s
  BY <1>4, <1>6, <1>9 DEF Busy, Remote
<1>11. Types'
  <2>1. xact' \in [Slots -> XactType] /\ newest' \in [Lists -> Slots \cup {NoSlot}]
    BY <1>1, <1>2, <1>3, <1>6, ZenonT(30)
  <2>2. xactId' \in 0 .. MaxXactId /\ reports' \in SUBSET (1 .. MaxXactId)
    BY <1>1, <1>5, <1>7, NumbersAssumption
  <2> QED
    BY <1>1, <1>8, <2>1, <2>2 DEF XactInv, Types
<1>12. PoolIsExact' /\ ~fault'
  <2>1. \A r \in Slots : r \in Range(pool') <=> xact'[r].step = 0
    BY <1>6, <1>8, <1>9 DEF XactInv, PoolIsExact
  <2> QED
    BY <1>1, <1>8, <2>1 DEF XactInv, PoolIsExact
<1>13. TimerInv'
  BY <1>1 DEF XactInv, TimerInv
<1>14. OwnerInv'
  <2>1. ASSUME NEW r \in Slots
        PROVE  /\ Remote(r)' => /\ xact'[r].link = "remote" /\ xact'[r].count = 1
                                /\ xact'[r].timer \in Timers
                                /\ timer'[xact'[r].timer].slot = r
                                /\ timer'[xact'[r].timer].list # "none"
               /\ Busy(r)' /\ ~Remote(r)' => xact'[r].link = "local" /\ xact'[r].timer = NoTimer
               /\ ~Busy(r)' => xact'[r].origin = "local"
    <3>1. CASE r = s
      BY <1>6, <1>9, <1>10, <3>1, ZenonT(30)
    <3>2. CASE r # s
      BY <1>1, <1>9, <1>10, <3>2 DEF XactInv, OwnerInv
    <3> QED
      BY <3>1, <3>2
  <2>2. ASSUME NEW u \in Timers, timer'[u].list # "none"
        PROVE  (timer[u].slot \in Slots /\ Remote(timer[u].slot) /\ xact[timer[u].slot].timer = u)'
    <3>1. /\ timer[u].slot \in Slots /\ Remote(timer[u].slot)
          /\ xact[timer[u].slot].timer = u
      BY <1>1, <2>2 DEF XactInv, OwnerInv
    <3>2. timer[u].slot # s
      BY <1>10, <3>1
    <3> QED
      BY <1>1, <1>9, <3>1, <3>2 DEF Busy, Remote
  <2> QED
    BY <2>1, <2>2 DEF OwnerInv, Busy, Remote
<1>15. ListInv'
  <2>1. newest["remote"] # NoSlot => newest["remote"] \in Slots /\ newest["remote"] # s
    BY <1>2, <1>4, ZenonT(30) DEF XactInv, ListInv, Lists
  <2> QED
    BY <1>3, <1>6, <1>9, <1>10, <2>1 DEF XactInv, ListInv, Lists
<1>16. EventInv'
  <2>1. Range(events) \subseteq Slots
    BY EventsAreSlots, ZenonT(30)
  <2>2. \A r \in Slots : Remote(r) => xact'[r] = xact[r]
    BY <1>9, <1>10
  <2> QED
    BY <1>1, <1>10, <2>1, <2>2 DEF XactInv, EventInv
<1>17. ReportInv'
  <2>1. xactId' <= MaxReports /\ reports' \subseteq 1 .. MaxReports
    BY <1>1, <1>5, <1>7, NumbersAssumption
  <2>2. \A a, b \in reports' : a = b
    BY <1>1, <1>7
  <2>3. \A id \in reports' : /\ newest'["local"] # NoSlot
                             /\ xact'[newest'["local"]].id = id
                             /\ xact'[newest'["local"]].step = 1
    BY <1>1, <1>3, <1>4, <1>6, <1>7, <1>9, ZenonT(30)
  <2> QED
    BY <2>1, <2>2, <2>3 DEF ReportInv
<1> QED
  BY <1>11, <1>12, <1>13, <1>14, <1>15, <1>16, <1>17 DEF XactInv

\* PfcpXactDelete of a transaction that is held, and whose timer is not expiring:
\* the transaction and its timer are free again, and nothing else is touched
\* but the entry of its list.
LEMMA DeleteStep ==
    ASSUME XactInv, NEW s \in Slots, Busy(s), NEW count \in Uint8, PfcpXactDelete(s, count)
    PROVE  /\ pool' \in Seq(Slots) /\ xact' \in [Slots -> XactType]
           /\ newest' \in [Lists -> Slots \cup {NoSlot}]
           /\ timerPool' \in Seq(Timers) /\ timer' \in [Timers -> TimerType]
           /\ active' \in Seq(Timers) /\ overfull' \in BOOLEAN /\ fault' \in BOOLEAN
           /\ PoolIsExact' /\ ~fault' /\ TimerInv' /\ OwnerInv' /\ ListInv'
           /\ ~Busy(s)' /\ \A r \in Slots : r # s => xact'[r] = xact[r]
           /\ \A u \in Timers : u # xact[s].timer => timer'[u] = timer[u]
           /\ newest'["local"] = IF Remote(s) THEN newest["local"] ELSE NoSlot
<1> DEFINE t == xact[s].timer
           x == [xact[s] EXCEPT !.origin = "local", !.id = 0, !.step = 0,
                                !.link = NoList, !.count = count]
<1>1. /\ pool \in Seq(Slots) /\ IsInjective(pool) /\ fault \in BOOLEAN /\ ~fault
      /\ overfull \in BOOLEAN /\ ~overfull
      /\ timerPool \in Seq(Timers) /\ IsInjective(timerPool)
      /\ active \in Seq(Timers) /\ IsInjective(active)
      /\ xact \in [Slots -> XactType] /\ timer \in [Timers -> TimerType]
      /\ newest \in [Lists -> Slots \cup {NoSlot}]
  BY ZenonT(30) DEF XactInv, Types, PoolIsExact, TimerInv
<1>2. /\ xact[s].link = IF Remote(s) THEN "remote" ELSE "local"
      /\ Remote(s) => t \in Timers /\ timer[t].slot = s /\ timer[t].list # "none"
      /\ ~Remote(s) => t = NoTimer
  BY DEF XactInv, OwnerInv
<1>3. xact[s].link # NoList /\ NoTimer \notin Timers
  BY <1>2, PoolsAssumption DEF NoList
<1>4. Linked(s)
  BY <1>2, <1>3 DEF Linked
<1>5. /\ newest' = [newest EXCEPT ![xact[s].link] = NoSlot]
      /\ xact' = [xact EXCEPT ![s] = x]
      /\ IF t = NoTimer THEN UNCHANGED <<timerPool, timer, active>> ELSE TimerDelete(t)
      /\ IndexFree(s) /\ UNCHANGED fault
  BY <1>4 DEF PfcpXactDelete, Unlink
<1>6. x \in XactType /\ x.step = 0 /\ x.origin = "local"
  BY <1>1, WipedXact, ZenonT(30)
<1> HIDE DEF x
<1>7. /\ \A r \in Slots : xact'[r] = IF r = s THEN x ELSE xact[r]
      /\ xact' \in [Slots -> XactType]
  BY <1>1, <1>5, <1>6
<1>8. \A r \in Slots : /\ Busy(r)' <=> r # s /\ Busy(r)
                       /\ Remote(r)' <=> r # s /\ Remote(r)
  BY <1>6, <1>7 DEF Busy, Remote
<1>9. s \notin Range(pool)
  BY XactFacts
<1>10. pool' = Append(pool, s) /\ UNCHANGED overfull
  <2>1. Len(pool) < Cardinality(Slots)
    BY <1>1, <1>9, PoolsAssumption, OnceLen
  <2> QED
    BY <1>5, <2>1 DEF IndexFree
<1>11. pool' \in Seq(Slots) /\ IsInjective(pool') /\ Range(pool') = Range(pool) \cup {s}
  BY <1>1, <1>9, <1>10, AppendOnce
<1>12. PoolIsExact' /\ ~fault' /\ overfull' \in BOOLEAN /\ fault' \in BOOLEAN
  <2>1. \A r \in Slots : r \in Range(pool') <=> xact'[r].step = 0
    BY <1>6, <1>7, <1>11, ZenonT(30) DEF XactInv, PoolIsExact
  <2> QED
    BY <1>1, <1>5, <1>10, <1>11, <2>1, ZenonT(30) DEF PoolIsExact
<1>13. /\ timerPool' \in Seq(Timers) /\ IsInjective(timerPool')
       /\ timer' \in [Timers -> TimerType]
       /\ active' \in Seq(Timers) /\ IsInjective(active')
       /\ \A u \in Timers : u # t => timer'[u] = timer[u]
       /\ TimerInv' /\ (Remote(s) => timer'[t].list = "none")
  <2>1. CASE ~Remote(s)
    BY <1>1, <1>2, <1>5, <2>1, ZenonT(30) DEF XactInv, TimerInv
  <2>2. CASE Remote(s)
    <3> DEFINE tm == [timer[t] EXCEPT !.list = "none"]
    <3>1. t # NoTimer /\ t \notin Range(timerPool) /\ t \in Timers
      BY <1>2, <1>3, <2>2 DEF XactInv, TimerInv
    <3>2. Len(timerPool) < Cardinality(Timers)
      BY <1>1, <3>1, PoolsAssumption, OnceLen
    <3>3. /\ timer' = [timer EXCEPT ![t] = tm]
          /\ active' = Without(active, t) /\ timerPool' = Append(timerPool, t)
      BY <1>5, <3>1, <3>2 DEF TimerDelete
    <3>4. tm \in TimerType /\ tm.list = "none"
      <4>1. ASSUME NEW y \in TimerType
            PROVE  [y EXCEPT !.list = "none"] \in TimerType /\ [y EXCEPT !.list = "none"].list = "none"
        BY DEF TimerType
      <4>2. timer[t] \in TimerType
        BY <1>1, <3>1
      <4> QED
        BY <4>1, <4>2
    <3> HIDE DEF tm
    <3>5. /\ timer' \in [Timers -> TimerType]
          /\ \A u \in Timers : timer'[u] = IF u = t THEN tm ELSE timer[u]
      BY <1>1, <3>1, <3>3, <3>4
    <3>6. /\ active' \in Seq(Timers) /\ IsInjective(active')
          /\ Range(active') = Range(active) \ {t}
      BY <1>1, <3>3, WithoutOnce
    <3>7. /\ timerPool' \in Seq(Timers) /\ IsInjective(timerPool')
          /\ Range(timerPool') = Range(timerPool) \cup {t}
      BY <1>1, <3>1, <3>3, AppendOnce
    <3>8. TimerInv'
      BY <3>1, <3>4, <3>5, <3>6, <3>7, ZenonT(30) DEF XactInv, TimerInv
    <3> QED
      BY <3>1, <3>4, <3>5, <3>6, <3>7, <3>8, ZenonT(30)
  <2> QED
    BY <2>1, <2>2
<1>14. OwnerInv'
  <2>1. \A r \in Slots : r # s /\ Remote(r) => xact[r].timer \in Timers /\ xact[r].timer # t
    BY <1>2, <1>3, OwnerFacts
  <2>2. ASSUME NEW r \in Slots
        PROVE  /\ Remote(r)' => /\ xact'[r].link = "remote" /\ xact'[r].count = 1
                                /\ xact'[r].timer \in Timers
                                /\ timer'[xact'[r].timer].slot = r
                                /\ timer'[xact'[r].timer].list # "none"
               /\ Busy(r)' /\ ~Remote(r)' => xact'[r].link = "local" /\ xact'[r].timer = NoTimer
               /\ ~Busy(r)' => xact'[r].origin = "local"
    <3>1. CASE r = s
      BY <1>6, <1>7, <1>8, <3>1, ZenonT(30)
    <3>2. CASE r # s
      <4>1. xact'[r] = xact[r] /\ (Remote(r)' <=> Remote(r)) /\ (Busy(r)' <=> Busy(r))
        BY <1>7, <1>8, <3>2
      <4>2. Remote(r) => timer'[xact[r].timer] = timer[xact[r].timer]
        BY <1>13, <2>1, <3>2
      <4> QED
        BY <4>1, <4>2, OwnerFacts
    <3> QED
      BY <3>1, <3>2, ZenonT(30)
  <2>3. ASSUME NEW u \in Timers, timer'[u].list # "none"
        PROVE  (timer[u].slot \in Slots /\ Remote(timer[u].slot) /\ xact[timer[u].slot].timer = u)'
    <3>1. u # t
      BY <1>2, <1>3, <1>13, <2>3
    <3>2. timer'[u] = timer[u]
      BY <1>13, <3>1
    <3>3. /\ timer[u].slot \in Slots /\ Remote(timer[u].slot)
          /\ xact[timer[u].slot].timer = u
      BY <2>3, <3>2 DEF XactInv, OwnerInv
    <3>4. timer[u].slot # s
      BY <3>1, <3>3
    <3> QED
      BY <1>7, <3>2, <3>3, <3>4, ZenonT(30) DEF Busy, Remote
  <2> QED
    BY <2>2, <2>3, ZenonT(30) DEF OwnerInv, Busy, Remote
<1>15. newest' \in [Lists -> Slots \cup {NoSlot}]
  BY <1>1, <1>5, ZenonT(30)
<1>16. \A l \in Lists : newest'[l] = IF l = xact[s].link THEN NoSlot ELSE newest[l]
  BY <1>1, <1>5, ZenonT(30)
<1>17. ListInv'
  <2> SUFFICES ASSUME NEW l \in Lists, newest'[l] # NoSlot
               PROVE  (Busy(newest[l]) /\ xact[newest[l]].origin = l /\ xact[newest[l]].link = l)'
    BY ZenonT(30) DEF ListInv
  <2>1. l # xact[s].link /\ newest'[l] = newest[l]
    BY <1>16, ZenonT(30)
  <2>2. /\ newest[l] \in Slots /\ Busy(newest[l])
        /\ xact[newest[l]].origin = l /\ xact[newest[l]].link = l
    BY <1>1, <2>1 DEF XactInv, ListInv
  <2>3. newest[l] # s
    BY <2>1, <2>2
  <2> QED
    BY <1>7, <2>1, <2>2, <2>3, ZenonT(30) DEF Busy
<1>18. newest'["local"] = IF Remote(s) THEN newest["local"] ELSE NoSlot
  BY <1>2, <1>16 DEF Lists
<1> QED
  BY <1>7, <1>8, <1>11, <1>12, <1>13, <1>14, <1>15, <1>17, <1>18

\* A Session Report Response finds the transaction of its report.
LEMMA ReportFound ==
    ASSUME XactInv, OrderlyNetwork, NEW id \in reports
    PROVE  LET s == Find(ResponseList(id), id)
           IN /\ s = newest["local"] /\ s \in Slots /\ s # NoSlot /\ s # Stray
              /\ Busy(s) /\ ~Remote(s) /\ xact[s].origin = "local" /\ xact[s].step = 1
<1> DEFINE n == newest["local"]
<1>1. id \in 1 .. MaxReports /\ n # NoSlot /\ xact[n].id = id /\ xact[n].step = 1
  BY ZenonT(30) DEF XactInv, ReportInv
<1>2. ResponseList(id) = "local"
  BY <1>1, NumbersAssumption DEF ResponseList, OrderlyNetwork
<1>3. n \in Slots /\ xact[n].origin = "local"
  BY <1>1 DEF XactInv, Types, ListInv, Lists
<1>4. Find(ResponseList(id), id) = n
  BY <1>1, <1>2 DEF Find
<1> QED
  BY <1>1, <1>3, <1>4, PoolsAssumption DEF Busy, Remote

\* The SMF's answer, or its loss, leaves no report out.
LEMMA LoseStep ==
    ASSUME XactInv, NEW id \in reports, LoseResponse(id)
    PROVE  XactInv'
<1>1. /\ reports' \subseteq reports
      /\ UNCHANGED <<pool, xact, newest, timerPool, timer, active, overfull, fault,
                     firing, events, xactId, evtLost>>
  BY DEF LoseResponse, mem
<1>2. ReportInv'
  BY <1>1, ZenonT(30) DEF XactInv, ReportInv
<1>3. Types'
  BY <1>1 DEF XactInv, Types
<1> QED
  BY <1>1, <1>2, <1>3, SameMemory, SameEvents DEF XactInv

\* PfcpXactCommit of the response: the transaction of the report is deleted.
LEMMA ResponseStep ==
    ASSUME XactInv, OrderlyNetwork, NEW id \in reports, ReceiveResponse(id)
    PROVE  XactInv'
<1> PICK s \in Slots, count \in Uint8 :
      s = Find(ResponseList(id), id) /\ count = xact[s].count
  <2>1. Find(ResponseList(id), id) \in Slots
    BY ReportFound, ZenonT(30)
  <2> QED
    BY <2>1, XactFacts, ZenonT(30)
<1>1. /\ s = newest["local"] /\ s \in Slots /\ s # NoSlot /\ s # Stray
      /\ Busy(s) /\ ~Remote(s) /\ xact[s].origin = "local" /\ xact[s].step = 1
  BY ReportFound, ZenonT(30)
<1>2. TakesResponse(s)
  BY <1>1 DEF TakesResponse
<1>3. /\ reports' = reports \ {id} /\ UNCHANGED <<firing, events, xactId, evtLost>>
      /\ HandleReportResponse(s)
  BY <1>1, <1>2 DEF ReceiveResponse
<1>4. reports' = {}
  BY <1>3, ZenonT(30) DEF XactInv, ReportInv
<1>5. ReportInv'
  BY <1>3, <1>4 DEF XactInv, ReportInv
<1>6. xact[s] \in XactType /\ xact[s].count \in Uint8 /\ xact \in [Slots -> XactType]
  BY <1>1, XactFacts DEF XactInv, Types
<1>7. Range(events) \subseteq Slots
  BY EventsAreSlots, ZenonT(30)
<1>8. reports' \in SUBSET (1 .. MaxXactId)
  BY <1>4
<1>9. CASE PfcpXactDelete(s, count)
  <2>1. /\ pool' \in Seq(Slots) /\ xact' \in [Slots -> XactType]
        /\ newest' \in [Lists -> Slots \cup {NoSlot}]
        /\ timerPool' \in Seq(Timers) /\ timer' \in [Timers -> TimerType]
        /\ active' \in Seq(Timers) /\ overfull' \in BOOLEAN /\ fault' \in BOOLEAN
        /\ PoolIsExact' /\ ~fault' /\ TimerInv' /\ OwnerInv' /\ ListInv'
        /\ ~Busy(s)' /\ \A r \in Slots : r # s => xact'[r] = xact[r]
        /\ \A u \in Timers : u # xact[s].timer => timer'[u] = timer[u]
    BY <1>1, <1>6, <1>9, DeleteStep, ZenonT(30)
  <2>2. Types'
    BY <1>3, <1>8, <2>1 DEF XactInv, Types
  <2>3. xact[s].timer \notin Timers
    BY <1>1, PoolsAssumption, ZenonT(30) DEF XactInv, OwnerInv
  <2>4. \A u \in Timers : timer'[u] = timer[u]
    BY <2>1, <2>3, ZenonT(30)
  <2>5. \A r \in Slots : /\ Remote(r)' <=> Remote(r)
                         /\ Remote(r) => xact'[r] = xact[r] /\ xact[r].timer \in Timers
    <3> TAKE r \in Slots
    <3>1. Remote(r)' <=> Remote(r)
      BY <1>1, <2>1 DEF Busy, Remote
    <3> QED
      BY <1>1, <2>1, <3>1, OwnerFacts, ZenonT(30)
  <2>6. EventInv'
    <3>1. firing' # NoTimer => timer'[firing'].list = "active"
      BY <1>3, <2>4, ZenonT(30) DEF XactInv, EventInv, Types
    <3>2. \A r \in Range(events') :
             Remote(r)' /\ (xact'[r].timer = firing' \/ timer'[xact'[r].timer].list = "idle")
      BY <1>3, <1>7, <2>4, <2>5, ZenonT(30) DEF XactInv, EventInv
    <3>3. ~evtLost' => \A r \in Slots :
             Remote(r)' /\ (xact'[r].timer = firing' \/ timer'[xact'[r].timer].list = "idle")
                => r \in Range(events')
      BY <1>3, <2>4, <2>5, ZenonT(30) DEF XactInv, EventInv
    <3> QED
      BY <1>3, <3>1, <3>2, <3>3, ZenonT(30) DEF XactInv, EventInv, Busy, Remote
  <2> QED
    BY <1>5, <2>1, <2>2, <2>6, ZenonT(30) DEF XactInv
<1>10. CASE /\ xact' = [xact EXCEPT ![s].step = @ + 1]
            /\ UNCHANGED <<pool, newest, timerPool, timer, active, overfull, fault>>
  <2> DEFINE x == [xact[s] EXCEPT !.step = 2]
  <2>1. xact' = [xact EXCEPT ![s] = x]
    BY <1>1, <1>6, <1>10
  <2>2. /\ x \in XactType /\ x.step = 2 /\ x.origin = xact[s].origin /\ x.id = xact[s].id
        /\ x.link = xact[s].link /\ x.timer = xact[s].timer /\ x.count = xact[s].count
    BY <1>6 DEF XactType
  <2> HIDE DEF x
  <2>3. /\ xact' \in [Slots -> XactType]
        /\ \A r \in Slots : xact'[r] = IF r = s THEN x ELSE xact[r]
    BY <1>1, <1>6, <2>1, <2>2
  <2>4. \A r \in Slots : /\ (Busy(r)' <=> Busy(r)) /\ (Remote(r)' <=> Remote(r))
                         /\ xact'[r].origin = xact[r].origin
                         /\ xact'[r].link = xact[r].link /\ xact'[r].timer = xact[r].timer
                         /\ xact'[r].count = xact[r].count
                         /\ xact'[r].step = 0 <=> xact[r].step = 0
    BY <1>1, <2>2, <2>3 DEF Busy, Remote
  <2>5. Types'
    BY <1>3, <1>8, <1>10, <2>3 DEF XactInv, Types
  <2>6. PoolIsExact' /\ ~fault' /\ TimerInv'
    BY <1>10, <2>4 DEF XactInv, PoolIsExact, TimerInv
  <2>7. OwnerInv'
    <3>1. \A r \in Slots :
             /\ Remote(r)' => /\ xact'[r].link = "remote" /\ xact'[r].count = 1
                              /\ xact'[r].timer \in Timers
                              /\ timer'[xact'[r].timer].slot = r
                              /\ timer'[xact'[r].timer].list # "none"
             /\ Busy(r)' /\ ~Remote(r)' => xact'[r].link = "local" /\ xact'[r].timer = NoTimer
             /\ ~Busy(r)' => xact'[r].origin = "local"
      BY <1>10, <2>4 DEF XactInv, OwnerInv
    <3>2. ASSUME NEW u \in Timers, timer'[u].list # "none"
          PROVE  (timer[u].slot \in Slots /\ Remote(timer[u].slot) /\ xact[timer[u].slot].timer = u)'
      <4>1. /\ timer[u].slot \in Slots /\ Remote(timer[u].slot)
            /\ xact[timer[u].slot].timer = u /\ timer'[u] = timer[u]
        BY <1>10, <3>2, ZenonT(30) DEF XactInv, OwnerInv
      <4> QED
        BY <2>2, <2>3, <4>1, <1>1, ZenonT(30) DEF Busy, Remote
    <3> QED
      BY <3>1, <3>2, ZenonT(30) DEF OwnerInv, Busy, Remote
  <2>8. ListInv'
    <3> SUFFICES ASSUME NEW l \in Lists, newest'[l] # NoSlot
                 PROVE  (Busy(newest[l]) /\ xact[newest[l]].origin = l /\ xact[newest[l]].link = l)'
      BY DEF ListInv
    <3>1. newest'[l] = newest[l] /\ newest[l] \in Slots
      BY <1>10 DEF XactInv, Types
    <3> QED
      BY <2>2, <2>3, <3>1 DEF XactInv, ListInv, Busy
  <2>9. EventInv'
    <3>1. firing' # NoTimer => timer'[firing'].list = "active"
      BY <1>3, <1>10 DEF XactInv, EventInv
    <3>2. \A r \in Range(events') :
             Remote(r)' /\ (xact'[r].timer = firing' \/ timer'[xact'[r].timer].list = "idle")
      BY <1>3, <1>7, <1>10, <2>4 DEF XactInv, EventInv
    <3>3. ~evtLost' => \A r \in Slots :
             Remote(r)' /\ (xact'[r].timer = firing' \/ timer'[xact'[r].timer].list = "idle")
                => r \in Range(events')
      BY <1>3, <1>10, <2>4 DEF XactInv, EventInv
    <3> QED
      BY <1>3, <3>1, <3>2, <3>3, ZenonT(30) DEF XactInv, EventInv, Busy, Remote
  <2> QED
    BY <1>5, <2>5, <2>6, <2>7, <2>8, <2>9 DEF XactInv
<1> QED
  BY <1>3, <1>9, <1>10, ZenonT(30) DEF HandleReportResponse

\* UPF_EVENT_N4_T3_HOLDING: the transaction is held, its retries are used up, and
\* PfcpXactTimeout deletes it.
LEMMA HoldingStep ==
    ASSUME XactInv, OrderlyNetwork, HoldingTimeout
    PROVE  XactInv'
<1>1. /\ events # <<>> /\ firing = NoTimer /\ events' = Tail(events)
      /\ UNCHANGED <<firing, xactId, reports, evtLost>>
  BY DEF HoldingTimeout, OrderlyNetwork
<1>2. events \in Seq(Slots) /\ IsInjective(events)
  BY DEF XactInv, Types, EventInv
<1> PICK s \in Slots : s = Head(events) /\ s \in Range(events)
  BY <1>1, <1>2, HeadOfPool
<1>3. /\ events' \in Seq(Slots) /\ IsInjective(events')
      /\ Range(events') = Range(events) \ {s}
  BY <1>1, <1>2, TailOnce
<1>4. Len(events') <= RingSize
  <2>1. Len(events') = Len(events) - 1 /\ Len(events) \in Nat
    BY <1>1, <1>2, SeqHeadTail, SeqLength
  <2>2. Len(events) <= RingSize
    BY ZenonT(30) DEF XactInv, Types
  <2> QED
    BY <2>1, <2>2, NumbersAssumption
<1>5. /\ Remote(s) /\ Busy(s) /\ xact[s].timer \in Timers /\ xact[s].count = 1
      /\ timer[xact[s].timer].slot = s
  BY DEF XactInv, EventInv, OwnerInv, Remote
<1>6. (xact[s].count - 1) % 256 = 0
  BY <1>5
<1>7. PfcpXactDelete(s, 0) /\ 0 \in Uint8
  BY <1>6 DEF HoldingTimeout, Uint8
<1>8. /\ pool' \in Seq(Slots) /\ xact' \in [Slots -> XactType]
      /\ newest' \in [Lists -> Slots \cup {NoSlot}]
      /\ timerPool' \in Seq(Timers) /\ timer' \in [Timers -> TimerType]
      /\ active' \in Seq(Timers) /\ overfull' \in BOOLEAN /\ fault' \in BOOLEAN
      /\ PoolIsExact' /\ ~fault' /\ TimerInv' /\ OwnerInv' /\ ListInv'
      /\ ~Busy(s)' /\ \A r \in Slots : r # s => xact'[r] = xact[r]
      /\ \A u \in Timers : u # xact[s].timer => timer'[u] = timer[u]
      /\ newest'["local"] = newest["local"]
  BY <1>5, <1>7, DeleteStep, ZenonT(30)
<1>9. Types'
  BY <1>1, <1>3, <1>4, <1>8 DEF XactInv, Types
<1>10. Range(events) \subseteq Slots
  BY EventsAreSlots, ZenonT(30)
<1>11. \A r \in Slots : /\ Remote(r)' <=> r # s /\ Remote(r)
                        /\ r # s /\ Remote(r) => /\ xact'[r] = xact[r]
                                                 /\ xact[r].timer \in Timers
                                                 /\ timer'[xact[r].timer] = timer[xact[r].timer]
  <2> TAKE r \in Slots
  <2>1. Remote(r)' <=> r # s /\ Remote(r)
    BY <1>8, ZenonT(30) DEF Busy, Remote
  <2>2. r # s /\ Remote(r) => xact[r].timer \in Timers /\ xact[r].timer # xact[s].timer
    BY <1>5, OwnerFacts
  <2> QED
    BY <1>8, <2>1, <2>2, ZenonT(30)
<1>12. EventInv'
  <2>1. \A r \in Range(events') :
           Remote(r)' /\ (xact'[r].timer = firing' \/ timer'[xact'[r].timer].list = "idle")
    BY <1>1, <1>3, <1>10, <1>11, ZenonT(30) DEF XactInv, EventInv
  <2>2. ~evtLost' => \A r \in Slots :
           Remote(r)' /\ (xact'[r].timer = firing' \/ timer'[xact'[r].timer].list = "idle")
              => r \in Range(events')
    BY <1>1, <1>3, <1>11, ZenonT(30) DEF XactInv, EventInv
  <2> QED
    BY <1>1, <1>3, <2>1, <2>2 DEF EventInv, Busy, Remote
<1>13. ReportInv'
  <2>1. newest["local"] # NoSlot => newest["local"] \in Slots /\ newest["local"] # s
    BY <1>5 DEF XactInv, Types, ListInv, Lists, Remote
  <2> QED
    BY <1>1, <1>8, <2>1, ZenonT(30) DEF XactInv, ReportInv
<1> QED
  BY <1>8, <1>9, <1>12, <1>13, ZenonT(30) DEF XactInv

\* EventTimerExpire: the event of an expired timer is for the transaction that
\* owns it, which has no other event.
LEMMA ExpireStep ==
    ASSUME XactInv, TimerExpire
    PROVE  XactInv'
<1>1. /\ firing = NoTimer /\ active # <<>> /\ firing' = Head(active)
      /\ UNCHANGED <<pool, xact, newest, timerPool, timer, active, overfull, fault,
                     xactId, reports>>
  BY DEF TimerExpire, mem
<1>2. active \in Seq(Timers) /\ IsInjective(active)
  BY DEF XactInv, Types, TimerInv
<1> PICK t \in Timers : t = Head(active) /\ t \in Range(active)
  BY <1>1, <1>2, HeadOfPool
<1>3. /\ timer[t].list = "active" /\ timer[t].slot \in Slots /\ Remote(timer[t].slot)
      /\ xact[timer[t].slot].timer = t
  BY DEF XactInv, TimerInv, OwnerInv
<1> PICK s \in Slots : s = timer[t].slot
  BY <1>3, ZenonT(30)
<1>4. events \in Seq(Slots) /\ IsInjective(events) /\ Len(events) \in Nat
  BY SeqLength, ZenonT(30) DEF XactInv, Types, EventInv
<1>5. s \notin Range(events)
  BY <1>1, <1>3, PoolsAssumption DEF XactInv, EventInv
<1>6. /\ \/ /\ Len(events) < RingSize /\ events' = Append(events, s) /\ evtLost' = evtLost
         \/ evtLost' = TRUE /\ events' = events
  BY DEF TimerExpire
<1>7. /\ events' \in Seq(Slots) /\ IsInjective(events') /\ Len(events') <= RingSize
      /\ Range(events) \subseteq Range(events') /\ Range(events') \subseteq Range(events) \cup {s}
      /\ evtLost' \in BOOLEAN
      /\ ~evtLost' => ~evtLost /\ s \in Range(events')
  <2>1. CASE Len(events) < RingSize /\ events' = Append(events, s) /\ evtLost' = evtLost
    <3>1. /\ events' \in Seq(Slots) /\ IsInjective(events')
          /\ Range(events') = Range(events) \cup {s}
      BY <1>4, <1>5, <2>1, AppendOnce
    <3>2. Len(events') = Len(events) + 1
      BY <1>4, <2>1, SeqAppend
    <3> QED
      BY <1>4, <2>1, <3>1, <3>2, NumbersAssumption DEF XactInv, Types
  <2>2. CASE evtLost' = TRUE /\ events' = events
    BY <1>4, <2>2 DEF XactInv, Types
  <2> QED
    BY <1>6, <2>1, <2>2, ZenonT(30)
<1>8. Types'
  BY <1>1, <1>7 DEF XactInv, Types
<1>9. PoolIsExact' /\ ~fault' /\ TimerInv' /\ OwnerInv' /\ ListInv' /\ ReportInv'
  <2>1. ReportInv'
    BY <1>1, ZenonT(30) DEF XactInv, ReportInv
  <2> QED
    BY <1>1, <2>1, SameMemory
<1>10. \A r \in Slots : /\ Remote(r)' <=> Remote(r)
                        /\ Remote(r) => xact[r].timer # NoTimer
                        /\ Remote(r) /\ xact[r].timer = t => r = s
  <2> TAKE r \in Slots
  <2>1. Remote(r)' <=> Remote(r)
    BY <1>1 DEF Busy, Remote
  <2> QED
    BY <2>1, OwnerFacts, ZenonT(30)
<1>11. Range(events) \subseteq Slots
  BY EventsAreSlots, ZenonT(30)
<1>12. EventInv'
  <2>1. \A r \in Range(events') :
           Remote(r)' /\ (xact'[r].timer = firing' \/ timer'[xact'[r].timer].list = "idle")
    BY <1>1, <1>3, <1>7, <1>10, <1>11, ZenonT(30) DEF XactInv, EventInv
  <2>2. ~evtLost' => \A r \in Slots :
           Remote(r)' /\ (xact'[r].timer = firing' \/ timer'[xact'[r].timer].list = "idle")
              => r \in Range(events')
    BY <1>1, <1>7, <1>10, ZenonT(30) DEF XactInv, EventInv
  <2>3. firing' # NoTimer => timer'[firing'].list = "active"
    BY <1>1, <1>3
  <2> QED
    BY <1>7, <2>1, <2>2, <2>3, ZenonT(30) DEF EventInv, Busy, Remote
<1> QED
  BY <1>8, <1>9, <1>12 DEF XactInv

\* TimerExpireCheck goes on: the expired timer, which nothing deleted meanwhile,
\* moves to the idle list.
LEMMA ExpireDoneStep ==
    ASSUME XactInv, TimerExpireDone
    PROVE  XactInv'
<1>1. firing # NoTimer /\ firing' = NoTimer /\ UNCHANGED <<events, xactId, reports, evtLost>>
  BY DEF TimerExpireDone
<1> PICK t \in Timers : t = firing
  BY <1>1 DEF XactInv, Types
<1>2. /\ timer[t].list = "active" /\ timer[t].running
  BY <1>1 DEF XactInv, EventInv, TimerInv
<1> DEFINE a == [timer[t] EXCEPT !.list = "idle"]
           tm == [a EXCEPT !.running = FALSE]
<1>3. /\ timer' = [timer EXCEPT ![t].list = "idle", ![t].running = FALSE]
      /\ active' = Without(active, t)
      /\ UNCHANGED <<pool, xact, newest, timerPool, overfull, fault>>
  BY <1>2 DEF TimerExpireDone
<1>4. timer \in [Timers -> TimerType] /\ active \in Seq(Timers) /\ IsInjective(active)
  BY DEF XactInv, Types, TimerInv
<1>5. timer' = [timer EXCEPT ![t] = tm]
  BY <1>3, <1>4, ZenonT(30)
<1>6. tm \in TimerType /\ tm.list = "idle" /\ tm.slot = timer[t].slot
  <2>1. ASSUME NEW y \in TimerType
        PROVE  /\ [y EXCEPT !.list = "idle"] \in TimerType
               /\ [y EXCEPT !.list = "idle"].list = "idle"
               /\ [y EXCEPT !.list = "idle"].slot = y.slot
    BY DEF TimerType
  <2>2. ASSUME NEW y \in TimerType
        PROVE  /\ [y EXCEPT !.running = FALSE] \in TimerType
               /\ [y EXCEPT !.running = FALSE].list = y.list
               /\ [y EXCEPT !.running = FALSE].slot = y.slot
    BY ZenonT(30) DEF TimerType
  <2>3. a \in TimerType /\ a.list = "idle" /\ a.slot = timer[t].slot
    BY <1>4, <2>1
  <2> HIDE DEF a
  <2> QED
    BY <2>2, <2>3
<1> HIDE DEF tm
<1>7. /\ timer' \in [Timers -> TimerType]
      /\ \A u \in Timers : timer'[u] = IF u = t THEN tm ELSE timer[u]
  BY <1>4, <1>5, <1>6
<1>8. /\ active' \in Seq(Timers) /\ IsInjective(active')
      /\ Range(active') = Range(active) \ {t}
  BY <1>3, <1>4, WithoutOnce
<1>9. Types'
  BY <1>1, <1>3, <1>7, <1>8 DEF XactInv, Types
<1>10. PoolIsExact' /\ ~fault' /\ ListInv' /\ ReportInv'
  BY <1>1, <1>3 DEF XactInv, PoolIsExact, ListInv, ReportInv, Busy
<1>11. TimerInv'
  BY <1>2, <1>3, <1>6, <1>7, <1>8 DEF XactInv, TimerInv
<1>12. \A u \in Timers : /\ timer'[u].slot = timer[u].slot
                         /\ timer'[u].list = "none" <=> timer[u].list = "none"
                         /\ timer'[u].list = "idle" <=> u = t \/ timer[u].list = "idle"
  BY <1>2, <1>6, <1>7
<1>13. \A r \in Slots : (Remote(r)' <=> Remote(r)) /\ (Busy(r)' <=> Busy(r))
  BY <1>3 DEF Busy, Remote
<1>14. OwnerInv'
  <2>1. \A r \in Slots :
           /\ Remote(r)' => /\ xact'[r].link = "remote" /\ xact'[r].count = 1
                            /\ xact'[r].timer \in Timers
                            /\ timer'[xact'[r].timer].slot = r
                            /\ timer'[xact'[r].timer].list # "none"
           /\ Busy(r)' /\ ~Remote(r)' => xact'[r].link = "local" /\ xact'[r].timer = NoTimer
           /\ ~Busy(r)' => xact'[r].origin = "local"
    <3> TAKE r \in Slots
    <3>1. ASSUME Remote(r)
          PROVE  /\ xact[r].link = "remote" /\ xact[r].count = 1 /\ xact[r].timer \in Timers
                 /\ timer'[xact[r].timer].slot = r /\ timer'[xact[r].timer].list # "none"
      <4>1. /\ xact[r].link = "remote" /\ xact[r].count = 1 /\ xact[r].timer \in Timers
            /\ timer[xact[r].timer].slot = r /\ timer[xact[r].timer].list # "none"
        BY <3>1 DEF XactInv, OwnerInv
      <4> QED
        BY <1>12, <4>1, ZenonT(30)
    <3>2. /\ Busy(r) /\ ~Remote(r) => xact[r].link = "local" /\ xact[r].timer = NoTimer
          /\ ~Busy(r) => xact[r].origin = "local"
      BY DEF XactInv, OwnerInv
    <3> QED
      BY <1>3, <1>13, <3>1, <3>2, ZenonT(30)
  <2>2. ASSUME NEW u \in Timers, timer'[u].list # "none"
        PROVE  (timer[u].slot \in Slots /\ Remote(timer[u].slot) /\ xact[timer[u].slot].timer = u)'
    <3>1. /\ timer[u].slot \in Slots /\ Remote(timer[u].slot)
          /\ xact[timer[u].slot].timer = u /\ timer'[u].slot = timer[u].slot
      BY <1>12, <2>2, ZenonT(30) DEF XactInv, OwnerInv
    <3> QED
      BY <1>3, <3>1, ZenonT(30) DEF Busy, Remote
  <2> QED
    BY <2>1, <2>2 DEF OwnerInv, Busy, Remote
<1>15. EventInv'
  <2>1. Range(events) \subseteq Slots
    BY EventsAreSlots, ZenonT(30)
  <2>2. \A r \in Slots : Remote(r) => xact[r].timer \in Timers /\ xact[r].timer # NoTimer
    BY PoolsAssumption, ZenonT(30) DEF XactInv, OwnerInv
  <2>3. \A r \in Range(events') :
           Remote(r)' /\ (xact'[r].timer = firing' \/ timer'[xact'[r].timer].list = "idle")
    <3> TAKE r \in Range(events')
    <3>1. /\ r \in Slots /\ Remote(r)
          /\ xact[r].timer = t \/ timer[xact[r].timer].list = "idle"
      BY <1>1, <2>1, ZenonT(30) DEF XactInv, EventInv
    <3>2. timer'[xact[r].timer].list = "idle"
      BY <1>12, <2>2, <3>1
    <3> QED
      BY <1>3, <1>13, <3>1, <3>2
  <2>4. ~evtLost' => \A r \in Slots :
           Remote(r)' /\ (xact'[r].timer = firing' \/ timer'[xact'[r].timer].list = "idle")
              => r \in Range(events')
    BY <1>1, <1>3, <1>12, <1>13, <2>2 DEF XactInv, EventInv
  <2> QED
    BY <1>1, <2>3, <2>4 DEF XactInv, EventInv, Busy, Remote
<1> QED
  BY <1>9, <1>10, <1>11, <1>14, <1>15 DEF XactInv

-----------------------------------------------------------------------------
(* The theorems.                                                             *)

\* Every step keeps the inductive invariant.
LEMMA XactStep == XactInv /\ OrderlyNetwork /\ [Next]_vars => XactInv'
<1> SUFFICES ASSUME XactInv, OrderlyNetwork, [Next]_vars PROVE XactInv'
  OBVIOUS
<1>1. ASSUME NEW q \in Sqns, NewRequest(q) PROVE XactInv'
  BY <1>1, RequestStep
<1>2. ASSUME NEW q \in Sqns, RepeatedRequest(q) PROVE XactInv'
  BY <1>2, NoRepeatedRequest
<1>3. ASSUME SendReport PROVE XactInv'
  BY <1>3, ReportStep
<1>4. ASSUME NEW id \in reports, ReceiveResponse(id) PROVE XactInv'
  BY <1>4, ResponseStep
<1>5. ASSUME NEW id \in reports, LoseResponse(id) PROVE XactInv'
  BY <1>5, LoseStep
<1>6. ASSUME HoldingTimeout PROVE XactInv'
  BY <1>6, HoldingStep
<1>7. ASSUME TimerExpire PROVE XactInv'
  BY <1>7, ExpireStep
<1>8. ASSUME TimerExpireDone PROVE XactInv'
  BY <1>8, ExpireDoneStep
<1>9. CASE UNCHANGED vars
  <2>1. UNCHANGED <<pool, xact, newest, timerPool, timer, active, overfull, fault,
                    firing, events, xactId, reports, evtLost>>
    BY <1>9 DEF vars, mem
  <2>2. Types' /\ ReportInv'
    BY <2>1 DEF XactInv, Types, ReportInv
  <2> QED
    BY <2>1, <2>2, SameMemory, SameEvents DEF XactInv
<1> QED
  BY <1>1, <1>2, <1>3, <1>4, <1>5, <1>6, <1>7, <1>8, <1>9 DEF Next

\* The invariant gives the bounds the types state.
LEMMA XactTypes == XactInv => TypeOK
<1> SUFFICES ASSUME XactInv PROVE TypeOK
  OBVIOUS
<1>1. Types /\ IsInjective(pool) /\ IsInjective(timerPool) /\ IsInjective(active)
  BY DEF XactInv, PoolIsExact, TimerInv
<1>2. Len(pool) <= Cardinality(Slots) /\ Len(timerPool) <= Cardinality(Timers)
  BY <1>1, PoolsAssumption, OnceLen DEF Types
<1> QED
  BY <1>1, <1>2 DEF Types, TypeOK, XactType, TimerType

\* What OwnerInv and TimerInv say of the pool of timers.
LEMMA OwnersAreExact == XactInv => TimersBelongToTransactions
<1> SUFFICES ASSUME XactInv PROVE TimersBelongToTransactions
  OBVIOUS
<1> SUFFICES ASSUME NEW t \in Timers
             PROVE  t \notin Range(timerPool) <=> \E s \in Slots : Busy(s) /\ xact[s].timer = t
  BY DEF TimersBelongToTransactions, XactInv, TimerInv, Busy
<1>1. t \notin Range(timerPool) <=> timer[t].list # "none"
  BY DEF XactInv, TimerInv
<1>2. ASSUME timer[t].list # "none"
      PROVE  \E s \in Slots : Busy(s) /\ xact[s].timer = t
  BY <1>2 DEF XactInv, OwnerInv, Remote
<1>3. ASSUME NEW s \in Slots, Busy(s), xact[s].timer = t
      PROVE  timer[t].list # "none"
  BY <1>3, PoolsAssumption DEF XactInv, OwnerInv
<1> QED
  BY <1>1, <1>2, <1>3

\* What EventInv and TimerInv say of the release of a request.
LEMMA ReleasesAreExact == XactInv => OneReleaseAhead
<1> SUFFICES ASSUME XactInv, NEW s \in Slots
             PROVE  LET due == Cardinality({t \in Timers : /\ t \in Range(active) /\ t # firing
                                                           /\ timer[t].slot = s})
                        told == Cardinality({i \in 1 .. Len(events) : events[i] = s})
                        held == xact[s].step > 0 /\ xact[s].origin = "remote"
                    IN /\ due + told <= IF held THEN 1 ELSE 0
                       /\ held /\ ~evtLost => due + told = 1
  BY ZenonT(30) DEF OneReleaseAhead
<1> DEFINE D == {t \in Timers : t \in Range(active) /\ t # firing /\ timer[t].slot = s}
           E == {i \in 1 .. Len(events) : events[i] = s}
           t == xact[s].timer
<1>1. \A u \in D : Remote(s) /\ u = t /\ timer[t].list = "active" /\ t # firing
  BY DEF XactInv, TimerInv, OwnerInv
<1>2. s \in Range(events) => Remote(s) /\ (t = firing \/ timer[t].list = "idle")
  BY DEF XactInv, EventInv
<1>3. /\ Cardinality({}) = 0
      /\ Cardinality({t}) = 1 /\ \A i \in 1 .. Len(events) : Cardinality({i}) = 1
  BY FS_EmptySet, FS_Singleton, ZenonT(30)
<1>4. DOMAIN events = 1 .. Len(events) /\ IsInjective(events)
  BY SeqLength DEF XactInv, Types, EventInv
<1>5. /\ s \in Range(events) => \E i \in 1 .. Len(events) : E = {i}
      /\ s \notin Range(events) => E = {}
  BY <1>4 DEF IsInjective, Range
<1>6. Cardinality(E) = IF s \in Range(events) THEN 1 ELSE 0
  BY <1>3, <1>5, ZenonT(30)
<1>7. D \subseteq {t}
  BY <1>1
<1>8. Cardinality(D) = IF D = {} THEN 0 ELSE 1
  <2>1. D = {} \/ D = {t}
    BY <1>7
  <2> QED
    BY <1>3, <2>1, ZenonT(30)
<1>9. D # {} => s \notin Range(events)
  BY <1>1, <1>2
<1>10. ASSUME Remote(s), ~evtLost, s \notin Range(events)
       PROVE  t \in D
  <2>1. t \in Timers /\ timer[t].slot = s /\ timer[t].list # "none"
    BY <1>10 DEF XactInv, OwnerInv
  <2>2. t # firing /\ timer[t].list # "idle"
    BY <1>10 DEF XactInv, EventInv
  <2>3. timer[t] \in TimerType
    BY <2>1 DEF XactInv, Types
  <2>4. timer[t].list = "active"
    BY <2>1, <2>2, <2>3 DEF TimerType
  <2> QED
    BY <2>1, <2>2, <2>4, ZenonT(30) DEF XactInv, TimerInv
<1>11. ~Remote(s) => D = {} /\ s \notin Range(events)
  BY <1>1, <1>2
<1> HIDE DEF D, E
<1>12. Cardinality(D) + Cardinality(E) <= IF Remote(s) THEN 1 ELSE 0
  BY <1>6, <1>8, <1>9, <1>11
<1>13. Remote(s) /\ ~evtLost => Cardinality(D) + Cardinality(E) = 1
  BY <1>6, <1>8, <1>9, <1>10
<1> QED
  BY <1>12, <1>13 DEF D, E, Remote, Busy

\* The pools, the lists and the timers of the transactions stay consistent with
\* each other whatever happens, with an SMF and a timer thread that keep to
\* OrderlyNetwork: the inductive invariant the theorems below are read off.
THEOREM TransactionsAreSound ==
    ASSUME OrderlyNetwork
    PROVE  Spec => []XactInv
<1>1. Init => XactInv
  BY XactInit
<1>2. XactInv /\ [Next]_vars => XactInv'
  BY XactStep
<1> QED
  BY <1>1, <1>2, PTL DEF Spec

\* The variables keep their types and the pools their bounds (IndexAlloc,
\* IndexFree, the ring of UPF-C).
THEOREM TransactionTypes ==
    ASSUME OrderlyNetwork
    PROVE  Spec => []TypeOK
<1> QED
  BY TransactionsAreSound, XactTypes, PTL

\* A transaction is free exactly when it carries nothing, and waits in the pool
\* once: IndexFree never meets a full pool (PfcpXactDelete).
THEOREM PoolStaysExact ==
    ASSUME OrderlyNetwork
    PROVE  Spec => []PoolIsExact
<1>1. XactInv => PoolIsExact
  BY DEF XactInv
<1> QED
  BY <1>1, TransactionsAreSound, PTL

\* Each timer is in the pool or owned by one transaction (PfcpXactRemoteCreate,
\* PfcpXactDelete).
THEOREM TimersStayOwned ==
    ASSUME OrderlyNetwork
    PROVE  Spec => []TimersBelongToTransactions
<1> QED
  BY TransactionsAreSound, OwnersAreExact, PTL

\* No list operation follows a NULL pointer (ListRemove in PfcpXactDelete,
\* TimerStart and TimerExpireCheck).
THEOREM NoNullIsFollowed ==
    ASSUME OrderlyNetwork
    PROVE  Spec => []NoFault
<1>1. XactInv => NoFault
  BY DEF XactInv, NoFault
<1> QED
  BY <1>1, TransactionsAreSound, PTL

\* A request that is held is released once: its timer is due or its event is in
\* the ring, never both and, while no event was lost, never neither
\* (TimerExpireCheck, EventTimerExpire, PfcpXactTimeout).
THEOREM ReleasedOnce ==
    ASSUME OrderlyNetwork
    PROVE  Spec => []OneReleaseAhead
<1> QED
  BY TransactionsAreSound, ReleasesAreExact, PTL

\* The response to the report that is out finds its transaction
\* (PfcpXactLocalCreate, PfcpXactFindByTransactionId).
THEOREM ReportsAreAnswered ==
    ASSUME OrderlyNetwork
    PROVE  Spec => []ReportsCanBeAnswered
<1>1. XactInv => ReportsCanBeAnswered
  BY ReportFound, ZenonT(30) DEF ReportsCanBeAnswered
<1> QED
  BY <1>1, TransactionsAreSound, PTL
=============================================================================
