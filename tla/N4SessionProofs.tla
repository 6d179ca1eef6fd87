--------------------------- MODULE N4SessionProofs ---------------------------
(* Proofs about the sessions of UPF-C (N4Session): what the maps, the rings,  *)
(* the two lists of PDRs and the list QERs are borrowed from satisfy for any  *)
(* number of sessions, keys, rules and messages.                              *)
EXTENDS N4Session, TLAPS

\* A sequence is a function on 1 .. its length.
LEMMA SeqLength ==
    ASSUME NEW T, NEW q \in Seq(T)
    PROVE  /\ DOMAIN q = 1 .. Len(q) /\ Len(q) \in Nat
           /\ q \in [1 .. Len(q) -> T]
OBVIOUS

\* The empty sequence is the one of length 0.
LEMMA SeqEmpty ==
    ASSUME NEW T
    PROVE  /\ \A q \in Seq(T) : Len(q) = 0 <=> q = <<>>
           /\ <<>> \in Seq(T)
OBVIOUS

\* A sequence with an element put behind it.
LEMMA SeqAppend ==
    ASSUME NEW T, NEW q \in Seq(T), NEW x \in T
    PROVE  /\ Len(Append(q, x)) = Len(q) + 1 /\ Append(q, x)[Len(q) + 1] = x
           /\ \A n \in 1 .. Len(q) : Append(q, x)[n] = q[n]
           /\ Append(q, x) \in Seq(T) /\ Append(q, x) # <<>>
OBVIOUS

\* A stretch of a sequence.
LEMMA SeqPart ==
    ASSUME NEW T, NEW q, NEW i \in Int, NEW j \in Int, \A n \in i .. j : q[n] \in T
    PROVE  /\ SubSeq(q, i, j) \in Seq(T)
           /\ \A n \in 1 .. j - i + 1 : SubSeq(q, i, j)[n] = q[i + n - 1]
           /\ Len(SubSeq(q, i, j)) = IF i <= j THEN j - i + 1 ELSE 0
OBVIOUS

\* One sequence behind another.
LEMMA SeqConcat ==
    ASSUME NEW T, NEW p \in Seq(T), NEW q \in Seq(T)
    PROVE  /\ Len(p \o q) = Len(p) + Len(q) /\ p \o q \in Seq(T)
           /\ \A n \in 1 .. Len(p) + Len(q) :
                 (p \o q)[n] = IF n <= Len(p) THEN p[n] ELSE q[n - Len(p)]
OBVIOUS

\* A sequence over a set is one over a larger set.
LEMMA SeqWider ==
    ASSUME NEW T, NEW U, T \subseteq U, NEW q \in Seq(T)
    PROVE  q \in Seq(U)
OBVIOUS

\* Where the handler can be: it works on a session that exists, and an
\* establishment has no elements after createPDR.
HandlerInv ==
    /\ phase = "idle" <=> message = "none"
    /\ phase # "idle" => cur \in live
    /\ message = "establish" => phase \in {"createFar", "createQer", "createPdr"}

\* A session that exists has both keys, and an SEID given out once.
SeidsInv ==
    /\ \A s \in live : /\ table[s].seid \in 1 .. sessionIdPool - 1
                       /\ table[s].teid \in Teids /\ table[s].ue \in UeIps
    /\ \A s, r \in live : table[s].seid = table[r].seid => s = r

\* No PDR is in the global list under an SEID that is still to be given out, and
\* the PDRs of a session point to it.
PdrInv ==
    /\ \A p \in allPdr : p.seid < sessionIdPool
    /\ \A p \in allPdr : \A s \in live : table[s].seid = p.seid => p.slot = s
    /\ PdrListsAgree

\* The inductive invariant of the sessions.
SessionInv == TypeOK /\ HandlerInv /\ SeidsInv /\ NoRingOutlives /\ PdrInv /\ LenderIsSound

\* With what an SMF that sends nothing twice gets.
KeysInv == SessionInv /\ MapsAreExact

-----------------------------------------------------------------------------
(* What the handler does.                                                    *)

HandlerType ==
    /\ phase \in Phases /\ cur \in Slots \cup {None} /\ qerNo \in 0 .. QerElements
    /\ message \in {"none", "establish", "modify"}

\* After the elements of one kind come those of the next kind in the code.
LEMMA NextKind ==
    ASSUME phase \in Phases, phase \notin {"idle", "removePdr"}
    PROVE  LET next == Order[CHOOSE i \in 2 .. Len(Order) : Order[i - 1] = phase]
           IN  /\ next \in Phases \ {"idle"}
               /\ phase = "createFar" => next = "createQer"
               /\ phase = "createQer" => next = "createPdr"
<1> DEFINE i == CHOOSE j \in 2 .. Len(Order) : Order[j - 1] = phase
<1>1. Len(Order) = 9
  BY DEF Order
<1>2. \E j \in 2 .. Len(Order) : Order[j - 1] = phase
  <2>1. /\ Order[1] = "createFar" /\ Order[2] = "createQer" /\ Order[3] = "createPdr"
        /\ Order[4] = "updateFar" /\ Order[5] = "updateQer" /\ Order[6] = "updatePdr"
        /\ Order[7] = "removeFar" /\ Order[8] = "removeQer" /\ Order[9] = "removePdr"
    BY DEF Order
  <2>2. phase \in {"createFar", "createQer", "createPdr", "updateFar", "updateQer",
                   "updatePdr", "removeFar", "removeQer"}
    BY DEF Phases
  <2> QED
    BY <1>1, <2>1, <2>2
<1>3. i \in 2 .. 9 /\ Order[i - 1] = phase
  BY <1>1, <1>2, ZenonT(30)
<1> HIDE DEF i
<1>4. i \in {2, 3, 4, 5, 6, 7, 8, 9}
  BY <1>3
<1>5. Order[i] \in Phases \ {"idle"}
  BY <1>4 DEF Order, Phases
<1>6. phase = "createFar" => i = 2
  BY <1>3, <1>4 DEF Order
<1>7. phase = "createQer" => i = 3
  BY <1>3, <1>4 DEF Order
<1>8. Order[2] = "createQer" /\ Order[3] = "createPdr"
  BY DEF Order
<1>9. /\ Order[i] \in Phases \ {"idle"}
      /\ phase = "createFar" => Order[i] = "createQer"
      /\ phase = "createQer" => Order[i] = "createPdr"
  BY <1>5, <1>6, <1>7, <1>8
<1> QED
  BY <1>9 DEF i

\* However an element ends, the handler is in a legal place afterwards.
LEMMA WalkIsLegal ==
    ASSUME TypeOK, HandlerInv, phase # "idle", live' = live,
           Done \/ Advance \/ UNCHANGED handler
    PROVE  HandlerType' /\ HandlerInv'
<1>1. HandlerType /\ cur \in live
  BY DEF TypeOK, HandlerType, HandlerInv
<1>2. ASSUME Done
      PROVE  HandlerType' /\ HandlerInv'
  BY <1>2, BoundsAssumption DEF Done, HandlerType, HandlerInv, Phases
<1>3. CASE UNCHANGED handler
  BY <1>1, <1>3 DEF handler, HandlerType, HandlerInv
<1>4. CASE Advance /\ phase # LastElements
  <2> DEFINE next == Order[CHOOSE i \in 2 .. Len(Order) : Order[i - 1] = phase]
  <2>1. phase' = next /\ cur' = cur /\ qerNo' = qerNo /\ message' = message
    BY <1>4 DEF Advance
  <2>2. message \in {"establish", "modify"}
    BY <1>1 DEF HandlerInv, HandlerType
  <2>3. phase # "removePdr" /\ (message = "establish" => phase \in {"createFar", "createQer"})
    BY <1>4, <2>2 DEF LastElements, HandlerInv
  <2>4. /\ next \in Phases \ {"idle"}
        /\ phase = "createFar" => next = "createQer"
        /\ phase = "createQer" => next = "createPdr"
    BY <1>1, <2>3, NextKind DEF HandlerType
  <2> HIDE DEF next
  <2> QED
    BY <1>1, <2>1, <2>2, <2>3, <2>4 DEF HandlerType, HandlerInv
<1> QED
  BY <1>2, <1>3, <1>4 DEF Advance

-----------------------------------------------------------------------------
(* Every element is an edit of the session in hand: its QERs, its FARs, its  *)
(* keys with the maps, or its PDRs with the global list.                     *)

QersEdit(x) == me.seid = 1 /\ Null \notin Range(me.qers) => Null \notin Range(x.qers)

KeysEdit(x) ==
    /\ \/ x.teid = me.teid /\ teidMap' = teidMap
       \/ /\ x.teid # me.teid /\ teidMap[x.teid] = None
          /\ teidMap' = [Free(teidMap, me.teid) EXCEPT ![x.teid] = cur]
    /\ \/ x.ue = me.ue /\ ueMap' = ueMap
       \/ /\ x.ue # me.ue /\ ueMap[x.ue] = None
          /\ ueMap' = [Free(ueMap, me.ue) EXCEPT ![x.ue] = cur]

PdrOf(id) == [seid |-> me.seid, slot |-> cur, id |-> id]

PdrsEdit(x) ==
    \/ x.pdrs = me.pdrs /\ allPdr' = allPdr
    \/ \E id \in PdrIds : x.pdrs = me.pdrs \cup {id} /\ allPdr' = allPdr \cup {PdrOf(id)}
    \/ \E id \in PdrIds : x.pdrs = me.pdrs \ {id} /\ allPdr' = allPdr \ {PdrOf(id)}

Edit(x) ==
    /\ table' = [table EXCEPT ![cur] = x]
    /\ x.seid = me.seid /\ x.teid \in Teids /\ x.ue \in UeIps
    /\ QersEdit(x) /\ KeysEdit(x) /\ PdrsEdit(x)

\* What no element changes.
Frame == UNCHANGED <<sessionIdPool, live, rings>> /\ fault' \in BOOLEAN

\* The session in hand.
LEMMA InHand ==
    ASSUME SessionInv, phase # "idle"
    PROVE  /\ cur \in live /\ cur \in Slots /\ me \in Session
           /\ me.seid \in 1 .. MaxSeid /\ me.teid \in Teids /\ me.ue \in UeIps
           /\ me.fars \in SUBSET FarIds /\ me.qers \in Seq(QerIds \cup {Null})
           /\ me.pdrs \in SUBSET PdrIds
<1>1. cur \in live /\ cur \in Slots /\ me \in Session
  BY DEF SessionInv, TypeOK, HandlerInv, me
<1>2. /\ me.seid \in 0 .. MaxSeid /\ me.fars \in SUBSET FarIds
      /\ me.qers \in Seq(QerIds \cup {Null}) /\ me.pdrs \in SUBSET PdrIds
  BY <1>1 DEF Session
<1>3. me.seid \in 1 .. sessionIdPool - 1 /\ me.teid \in Teids /\ me.ue \in UeIps
  BY <1>1 DEF SessionInv, SeidsInv, me
<1> QED
  BY <1>1, <1>2, <1>3, BoundsAssumption

\* An element that changes nothing of the session is an edit.
LEMMA NoEdit ==
    ASSUME SessionInv, phase # "idle", UNCHANGED <<table, maps, allPdr>>
    PROVE  \E x \in Session : Edit(x)
<1>1. me \in Session /\ me.teid \in Teids /\ me.ue \in UeIps
  BY InHand
<1>2. table' = [table EXCEPT ![cur] = me]
  BY InHand DEF me, SessionInv, TypeOK
<1>3. QersEdit(me) /\ KeysEdit(me) /\ PdrsEdit(me)
  BY DEF QersEdit, KeysEdit, PdrsEdit, maps
<1> QED
  BY <1>1, <1>2, <1>3, ZenonT(30) DEF Edit

\* An edit of the FARs.
LEMMA FarEdit ==
    ASSUME SessionInv, phase # "idle", UNCHANGED <<maps, allPdr>>,
           NEW F \in SUBSET FarIds, table' = [table EXCEPT ![cur].fars = F]
    PROVE  \E x \in Session : Edit(x)
<1> DEFINE x == [me EXCEPT !.fars = F]
<1>1. table' = [table EXCEPT ![cur] = x]
  BY DEF me
<1>2. /\ x \in Session /\ x.seid = me.seid /\ x.teid = me.teid /\ x.ue = me.ue
      /\ x.qers = me.qers /\ x.pdrs = me.pdrs
  BY InHand DEF Session
<1> HIDE DEF x
<1>3. QersEdit(x) /\ KeysEdit(x) /\ PdrsEdit(x)
  BY <1>2 DEF QersEdit, KeysEdit, PdrsEdit, maps
<1> QED
  BY <1>1, <1>2, <1>3, InHand, ZenonT(30) DEF Edit

\* An edit of the QERs that puts no NULL into the list of session 1.
LEMMA QerEdit ==
    ASSUME SessionInv, phase # "idle", UNCHANGED <<maps, allPdr>>,
           NEW Q \in Seq(QerIds \cup {Null}), table' = [table EXCEPT ![cur].qers = Q],
           me.seid = 1 /\ Null \notin Range(me.qers) => Null \notin Range(Q)
    PROVE  \E x \in Session : Edit(x)
<1> DEFINE x == [me EXCEPT !.qers = Q]
<1>1. table' = [table EXCEPT ![cur] = x]
  BY DEF me
<1>2. /\ x \in Session /\ x.seid = me.seid /\ x.teid = me.teid /\ x.ue = me.ue
      /\ x.qers = Q /\ x.pdrs = me.pdrs
  BY InHand DEF Session
<1> HIDE DEF x
<1>3. QersEdit(x) /\ KeysEdit(x) /\ PdrsEdit(x)
  BY <1>2 DEF QersEdit, KeysEdit, PdrsEdit, maps
<1> QED
  BY <1>1, <1>2, <1>3, InHand, ZenonT(30) DEF Edit

\* UpfN4SyncSessionPacketKeysFromPdi, with or without a PDR put into both lists.
LEMMA SyncEdit ==
    ASSUME SessionInv, phase # "idle",
           NEW t \in Teids \cup {None}, NEW u \in UeIps \cup {None}, SyncMaps(t, u),
           NEW P \in SUBSET PdrIds,
           table' = [table EXCEPT ![cur] = [Synced(t, u) EXCEPT !.pdrs = P]],
           \/ P = me.pdrs /\ allPdr' = allPdr
           \/ \E id \in PdrIds : P = me.pdrs \cup {id} /\ allPdr' = allPdr \cup {PdrOf(id)}
    PROVE  \E x \in Session : Edit(x)
<1> DEFINE x == [Synced(t, u) EXCEPT !.pdrs = P]
           nt == IF NewTeid(t) /\ ~TeidTaken(t) THEN t ELSE me.teid
           nu == IF NewUeIp(u) /\ ~SyncFails(t, u) THEN u ELSE me.ue
<1>1. nt \in Teids /\ nu \in UeIps
  BY InHand DEF NewTeid, NewUeIp
<1>2. /\ x \in Session /\ x.seid = me.seid /\ x.teid = nt /\ x.ue = nu
      /\ x.qers = me.qers /\ x.pdrs = P
  BY <1>1, InHand, ZenonT(30) DEF Session, Synced
<1> HIDE DEF x
<1>3. PdrsEdit(x) /\ QersEdit(x)
  BY <1>2 DEF PdrsEdit, QersEdit
<1>4. KeysEdit(x)
  <2>1. \/ nt = me.teid /\ teidMap' = teidMap
        \/ /\ nt # me.teid /\ teidMap[nt] = None
           /\ teidMap' = [Free(teidMap, me.teid) EXCEPT ![nt] = cur]
    BY DEF SyncMaps, NewTeid, TeidTaken
  <2>2. \/ nu = me.ue /\ ueMap' = ueMap
        \/ /\ nu # me.ue /\ ueMap[nu] = None
           /\ ueMap' = [Free(ueMap, me.ue) EXCEPT ![nu] = cur]
    BY DEF SyncMaps, NewUeIp, UeIpTaken, SyncFails
  <2> QED
    BY <1>2, <2>1, <2>2 DEF KeysEdit
<1> QED
  BY <1>1, <1>2, <1>3, <1>4, ZenonT(30) DEF Edit, x

\* Taking an element out of a list adds none to it.
LEMMA WithoutAtElements ==
    ASSUME NEW S, NEW q \in Seq(S), NEW i \in 1 .. Len(q)
    PROVE  WithoutAt(q, i) \in Seq(S) /\ Range(WithoutAt(q, i)) \subseteq Range(q)
<1> DEFINE a == SubSeq(q, 1, i - 1)
           b == SubSeq(q, i + 1, Len(q))
<1>1. Len(q) \in Nat /\ i \in Nat /\ \A j \in 1 .. Len(q) : q[j] \in Range(q)
  BY SeqLength DEF Range
<1>2. a \in Seq(Range(q))
  BY <1>1, SeqPart
<1>3. b \in Seq(Range(q))
  BY <1>1, SeqPart
<1> HIDE DEF a, b
<1>4. a \o b \in Seq(Range(q))
  BY <1>2, <1>3, SeqConcat
<1>5. WithoutAt(q, i) \in Seq(Range(q))
  BY <1>4 DEF WithoutAt, a, b
<1>6. Range(WithoutAt(q, i)) \subseteq Range(q)
  BY <1>5, SeqLength DEF Range
<1>7. Range(q) \subseteq S
  BY SeqLength DEF Range
<1> QED
  BY <1>5, <1>6, <1>7, SeqWider

\* What a list holds after an entry was added at its end.
LEMMA AppendElements ==
    ASSUME NEW S, NEW q \in Seq(S), NEW e \in S
    PROVE  Append(q, e) \in Seq(S) /\ Range(Append(q, e)) = Range(q) \cup {e}
  BY SeqAppend DEF Range

\* The elements about QERs.
LEMMA QerElementsEdit ==
    ASSUME SessionInv, (\E id \in QerIds : CreateQer(id) \/ UpdateQer(id) \/ RemoveQer(id)) \/ MissingQer
    PROVE  /\ Frame /\ phase # "idle" /\ HandlerType' /\ HandlerInv'
           /\ \E x \in Session : Edit(x)
<1> USE IdsAssumption
<1>1. ASSUME NEW id \in QerIds, CreateQer(id)
      PROVE  /\ Frame /\ phase # "idle" /\ HandlerType' /\ HandlerInv'
             /\ \E x \in Session : Edit(x)
  <2>1. Frame /\ phase = "createQer" /\ UNCHANGED <<maps, allPdr>>
    BY <1>1, ZenonT(30) DEF CreateQer, FindQer, Frame, SessionInv, TypeOK
  <2>2. \/ UNCHANGED table
        \/ table' = [table EXCEPT ![cur].qers = Append(me.qers, id)]
    BY <1>1 DEF CreateQer, FindQer, me
  <2>3. \E x \in Session : Edit(x)
    <3>1. CASE UNCHANGED table
      BY <2>1, <3>1, NoEdit
    <3>2. CASE table' = [table EXCEPT ![cur].qers = Append(me.qers, id)]
      <4>1. me.qers \in Seq(QerIds \cup {Null})
        BY <2>1, InHand
      <4>2. /\ Append(me.qers, id) \in Seq(QerIds \cup {Null})
            /\ Range(Append(me.qers, id)) = Range(me.qers) \cup {id}
        BY <4>1, AppendElements
      <4> QED
        BY <2>1, <3>2, <4>2, QerEdit, ZenonT(30)
    <3> QED
      BY <2>2, <3>1, <3>2
  <2>4. \/ Done \/ Advance \/ UNCHANGED handler
        \/ /\ message = "establish" /\ qerNo < QerElements
           /\ qerNo' = qerNo + 1 /\ UNCHANGED <<phase, cur, message>>
    BY <1>1 DEF CreateQer, FindQer, Succeeded
  <2>5. HandlerType' /\ HandlerInv'
    <3>1. CASE Done \/ Advance \/ UNCHANGED handler
      BY <2>1, <3>1, WalkIsLegal DEF SessionInv, Frame
    <3>2. CASE /\ message = "establish" /\ qerNo < QerElements
               /\ qerNo' = qerNo + 1 /\ UNCHANGED <<phase, cur, message>>
      BY <2>1, <3>2, BoundsAssumption DEF SessionInv, TypeOK, HandlerInv, HandlerType, Frame
    <3> QED
      BY <2>4, <3>1, <3>2
  <2> QED
    BY <2>1, <2>3, <2>5
<1>2. ASSUME NEW id \in QerIds, UpdateQer(id)
      PROVE  /\ Frame /\ phase # "idle" /\ HandlerType' /\ HandlerInv'
             /\ \E x \in Session : Edit(x)
  <2>1. Frame /\ phase # "idle" /\ UNCHANGED <<table, maps, allPdr>>
    BY <1>2, ZenonT(30) DEF UpdateQer, FindQer, Frame, SessionInv, TypeOK
  <2>2. Done \/ Advance \/ UNCHANGED handler
    BY <1>2 DEF UpdateQer, FindQer, Succeeded, Failed
  <2> QED
    BY <2>1, <2>2, NoEdit, WalkIsLegal DEF SessionInv, Frame
<1>3. ASSUME NEW id \in QerIds, RemoveQer(id)
      PROVE  /\ Frame /\ phase # "idle" /\ HandlerType' /\ HandlerInv'
             /\ \E x \in Session : Edit(x)
  <2>1. Frame /\ phase # "idle" /\ UNCHANGED <<maps, allPdr>>
    BY <1>3, ZenonT(30) DEF RemoveQer, FindQer, Frame, SessionInv, TypeOK
  <2>2. Done \/ Advance \/ UNCHANGED handler
    BY <1>3 DEF RemoveQer, FindQer, Succeeded, Failed
  <2>3. \/ UNCHANGED table
        \/ \E first \in Match(me.qers, id) :
              table' = [table EXCEPT ![cur].qers = WithoutAt(me.qers, first)]
    BY <1>3 DEF RemoveQer, FindQer, me
  <2>4. \E x \in Session : Edit(x)
    <3>1. CASE UNCHANGED table
      BY <2>1, <3>1, NoEdit
    <3>2. ASSUME NEW first \in Match(me.qers, id),
                 table' = [table EXCEPT ![cur].qers = WithoutAt(me.qers, first)]
          PROVE  \E x \in Session : Edit(x)
      <4>1. me.qers \in Seq(QerIds \cup {Null})
        BY <2>1, InHand
      <4>2. first \in 1 .. Len(me.qers)
        BY DEF Match
      <4>3. /\ WithoutAt(me.qers, first) \in Seq(QerIds \cup {Null})
            /\ Range(WithoutAt(me.qers, first)) \subseteq Range(me.qers)
        BY <4>1, <4>2, WithoutAtElements
      <4> QED
        BY <2>1, <3>2, <4>3, QerEdit, ZenonT(30)
    <3> QED
      BY <2>3, <3>1, <3>2
  <2> QED
    BY <2>1, <2>2, <2>4, WalkIsLegal DEF SessionInv, Frame
<1>4. ASSUME MissingQer
      PROVE  /\ Frame /\ phase # "idle" /\ HandlerType' /\ HandlerInv'
             /\ \E x \in Session : Edit(x)
  <2>1. Frame /\ phase # "idle" /\ UNCHANGED <<maps, allPdr>>
    BY <1>4 DEF MissingQer, Frame, SessionInv, TypeOK
  <2>2. HandlerType' /\ HandlerInv'
    BY <1>4, BoundsAssumption DEF MissingQer, SessionInv, TypeOK, HandlerInv, HandlerType
  <2>3. \E x \in Session : Edit(x)
    <3>1. CASE me.seid > 1
      <4>1. table' = [table EXCEPT ![cur].qers = Append(me.qers, SharedQer)]
        BY <1>4, <3>1 DEF MissingQer, me
      <4>2. SharedQer \in QerIds \cup {Null}
        BY DEF SharedQer
      <4>3. Append(me.qers, SharedQer) \in Seq(QerIds \cup {Null})
        BY <2>1, <4>2, InHand, AppendElements
      <4>4. me.seid # 1
        BY <2>1, <3>1, InHand
      <4> QED
        BY <2>1, <4>1, <4>3, <4>4, QerEdit, ZenonT(30)
    <3>2. CASE ~(me.seid > 1)
      BY <1>4, <2>1, <3>2, NoEdit DEF MissingQer
    <3> QED
      BY <3>1, <3>2
  <2> QED
    BY <2>1, <2>2, <2>3
<1> QED
  BY <1>1, <1>2, <1>3, <1>4

\* Moving the keys of a session leaves its lists as they are.
LEMMA SyncedPdrs ==
    ASSUME SessionInv, phase # "idle", NEW t, NEW u
    PROVE  Synced(t, u) = [Synced(t, u) EXCEPT !.pdrs = me.pdrs]
  BY InHand, ZenonT(30) DEF Synced, Session

\* Every element.
LEMMA ElementIsEdit ==
    ASSUME SessionInv, Elements
    PROVE  /\ Frame /\ phase # "idle" /\ HandlerType' /\ HandlerInv'
           /\ \E x \in Session : Edit(x)
<1>1. ASSUME NEW id \in FarIds, CreateFar(id)
      PROVE  /\ Frame /\ phase # "idle" /\ HandlerType' /\ HandlerInv'
             /\ \E x \in Session : Edit(x)
  <2>1. Frame /\ phase # "idle" /\ UNCHANGED <<maps, allPdr>>
    BY <1>1 DEF CreateFar, Frame, SessionInv, TypeOK
  <2>2. Done \/ Advance \/ UNCHANGED handler
    BY <1>1 DEF CreateFar, Succeeded, Failed
  <2>3. UNCHANGED table \/ table' = [table EXCEPT ![cur].fars = me.fars \cup {id}]
    BY <1>1 DEF CreateFar, me
  <2>4. me.fars \cup {id} \in SUBSET FarIds
    BY <2>1, InHand
  <2>5. \E x \in Session : Edit(x)
    BY <2>1, <2>3, <2>4, NoEdit, FarEdit
  <2> QED
    BY <2>1, <2>2, <2>5, WalkIsLegal DEF SessionInv, Frame
<1>2. ASSUME NEW id \in FarIds, UpdateFar(id)
      PROVE  /\ Frame /\ phase # "idle" /\ HandlerType' /\ HandlerInv'
             /\ \E x \in Session : Edit(x)
  <2>1. Frame /\ phase # "idle" /\ UNCHANGED <<table, maps, allPdr>>
    BY <1>2 DEF UpdateFar, Frame, SessionInv, TypeOK
  <2>2. Done \/ Advance \/ UNCHANGED handler
    BY <1>2 DEF UpdateFar, Succeeded, Failed
  <2> QED
    BY <2>1, <2>2, NoEdit, WalkIsLegal DEF SessionInv, Frame
<1>3. ASSUME NEW id \in FarIds, RemoveFar(id)
      PROVE  /\ Frame /\ phase # "idle" /\ HandlerType' /\ HandlerInv'
             /\ \E x \in Session : Edit(x)
  <2>1. Frame /\ phase # "idle" /\ UNCHANGED <<maps, allPdr>>
    BY <1>3 DEF RemoveFar, Frame, SessionInv, TypeOK
  <2>2. Done \/ Advance \/ UNCHANGED handler
    BY <1>3 DEF RemoveFar, Succeeded, Failed
  <2>3. UNCHANGED table \/ table' = [table EXCEPT ![cur].fars = me.fars \ {id}]
    BY <1>3 DEF RemoveFar, me
  <2>4. me.fars \ {id} \in SUBSET FarIds
    BY <2>1, InHand
  <2>5. \E x \in Session : Edit(x)
    BY <2>1, <2>3, <2>4, NoEdit, FarEdit
  <2> QED
    BY <2>1, <2>2, <2>5, WalkIsLegal DEF SessionInv, Frame
<1>4. ASSUME NEW id \in PdrIds, NEW far \in FarIds \cup {None}, NEW qer \in QerIds \cup {None},
             NEW t \in Teids \cup {None}, NEW u \in UeIps \cup {None}, NEW published \in BOOLEAN,
             CreatePdr(id, far, qer, t, u, published)
      PROVE  /\ Frame /\ phase # "idle" /\ HandlerType' /\ HandlerInv'
             /\ \E x \in Session : Edit(x)
  <2>1. Frame /\ phase # "idle"
    BY <1>4, ZenonT(30) DEF CreatePdr, Frame, SessionInv, TypeOK
  <2>2. Done \/ Advance \/ UNCHANGED handler
    BY <1>4 DEF CreatePdr, Succeeded, Failed
  <2>3. \/ UNCHANGED <<table, maps, allPdr>>
        \/ /\ SyncMaps(t, u) /\ table' = [table EXCEPT ![cur] = Synced(t, u)]
           /\ allPdr' = allPdr
        \/ /\ SyncMaps(t, u)
           /\ table' = [table EXCEPT ![cur] = [Synced(t, u) EXCEPT !.pdrs = me.pdrs \cup {id}]]
           /\ allPdr' = allPdr \cup {PdrOf(id)}
    <3>1. Synced(t, u).pdrs = me.pdrs
      BY <2>1, InHand DEF Synced, Session
    <3> QED
      BY <1>4, <3>1 DEF CreatePdr, PdrOf
  <2>4. me.pdrs \in SUBSET PdrIds /\ me.pdrs \cup {id} \in SUBSET PdrIds
    BY <2>1, InHand
  <2>5. Synced(t, u) = [Synced(t, u) EXCEPT !.pdrs = me.pdrs]
    BY <2>1, SyncedPdrs
  <2>6. \E x \in Session : Edit(x)
    <3>1. CASE UNCHANGED <<table, maps, allPdr>>
      BY <2>1, <3>1, NoEdit
    <3>2. CASE /\ SyncMaps(t, u) /\ table' = [table EXCEPT ![cur] = Synced(t, u)]
               /\ allPdr' = allPdr
      <4>1. table' = [table EXCEPT ![cur] = [Synced(t, u) EXCEPT !.pdrs = me.pdrs]]
        BY <2>5, <3>2, ZenonT(30)
      <4> QED
        BY <2>1, <2>4, <3>2, <4>1, SyncEdit, ZenonT(30)
    <3>3. CASE /\ SyncMaps(t, u)
               /\ table' = [table EXCEPT ![cur] = [Synced(t, u) EXCEPT !.pdrs = me.pdrs \cup {id}]]
               /\ allPdr' = allPdr \cup {PdrOf(id)}
      BY <2>1, <2>4, <3>3, SyncEdit, ZenonT(30)
    <3> QED
      BY <2>3, <3>1, <3>2, <3>3
  <2> QED
    BY <2>1, <2>2, <2>6, WalkIsLegal DEF SessionInv, Frame
<1>5. ASSUME NEW id \in PdrIds, NEW far \in FarIds \cup {None}, NEW qer \in QerIds \cup {None},
             NEW t \in Teids \cup {None}, NEW u \in UeIps \cup {None}, NEW published \in BOOLEAN,
             UpdatePdr(id, far, qer, t, u, published)
      PROVE  /\ Frame /\ phase # "idle" /\ HandlerType' /\ HandlerInv'
             /\ \E x \in Session : Edit(x)
  <2>1. Frame /\ phase # "idle" /\ allPdr' = allPdr
    BY <1>5, ZenonT(30) DEF UpdatePdr, Frame, SessionInv, TypeOK
  <2>2. Done \/ Advance \/ UNCHANGED handler
    BY <1>5 DEF UpdatePdr, Succeeded, Failed
  <2>3. \/ UNCHANGED <<table, maps, allPdr>>
        \/ SyncMaps(t, u) /\ table' = [table EXCEPT ![cur] = Synced(t, u)]
    BY <1>5 DEF UpdatePdr
  <2>4. me.pdrs \in SUBSET PdrIds
    BY <2>1, InHand
  <2>5. Synced(t, u) = [Synced(t, u) EXCEPT !.pdrs = me.pdrs]
    BY <2>1, SyncedPdrs
  <2>6. \E x \in Session : Edit(x)
    <3>1. CASE UNCHANGED <<table, maps, allPdr>>
      BY <2>1, <3>1, NoEdit
    <3>2. CASE SyncMaps(t, u) /\ table' = [table EXCEPT ![cur] = Synced(t, u)]
      <4>1. table' = [table EXCEPT ![cur] = [Synced(t, u) EXCEPT !.pdrs = me.pdrs]]
        BY <2>5, <3>2, ZenonT(30)
      <4> QED
        BY <2>1, <2>4, <3>2, <4>1, SyncEdit, ZenonT(30)
    <3> QED
      BY <2>3, <3>1, <3>2
  <2> QED
    BY <2>1, <2>2, <2>6, WalkIsLegal DEF SessionInv, Frame
<1>6. ASSUME NEW id \in PdrIds, NEW published \in BOOLEAN, RemovePdr(id, published)
      PROVE  /\ Frame /\ phase # "idle" /\ HandlerType' /\ HandlerInv'
             /\ \E x \in Session : Edit(x)
  <2>1. Frame /\ phase # "idle" /\ UNCHANGED maps
    BY <1>6 DEF RemovePdr, Frame, SessionInv, TypeOK
  <2>2. Done \/ Advance \/ UNCHANGED handler
    BY <1>6 DEF RemovePdr, Succeeded, Failed
  <2>3. \/ UNCHANGED <<table, allPdr>>
        \/ /\ table' = [table EXCEPT ![cur].pdrs = me.pdrs \ {id}]
           /\ allPdr' = allPdr \ {PdrOf(id)}
    BY <1>6 DEF RemovePdr, PdrOf, me
  <2>4. ASSUME table' = [table EXCEPT ![cur].pdrs = me.pdrs \ {id}],
               allPdr' = allPdr \ {PdrOf(id)}
        PROVE  \E x \in Session : Edit(x)
    <3> DEFINE x == [me EXCEPT !.pdrs = me.pdrs \ {id}]
    <3>1. table' = [table EXCEPT ![cur] = x]
      BY <2>4 DEF me
    <3>2. /\ x \in Session /\ x.seid = me.seid /\ x.teid = me.teid /\ x.ue = me.ue
          /\ x.qers = me.qers /\ x.pdrs = me.pdrs \ {id}
      BY <2>1, InHand DEF Session
    <3> HIDE DEF x
    <3>3. QersEdit(x) /\ KeysEdit(x) /\ PdrsEdit(x)
      BY <2>1, <2>4, <3>2 DEF QersEdit, KeysEdit, PdrsEdit, maps
    <3> QED
      BY <2>1, <3>1, <3>2, <3>3, InHand, ZenonT(30) DEF Edit
  <2>5. \E x \in Session : Edit(x)
    BY <2>1, <2>3, <2>4, NoEdit
  <2> QED
    BY <2>1, <2>2, <2>5, WalkIsLegal DEF SessionInv, Frame
<1>7. ASSUME NextElements \/ BadElement
      PROVE  /\ Frame /\ phase # "idle" /\ HandlerType' /\ HandlerInv'
             /\ \E x \in Session : Edit(x)
  <2>1. Frame /\ phase # "idle" /\ UNCHANGED <<table, maps, allPdr>>
    BY <1>7 DEF NextElements, BadElement, Frame, SessionInv, TypeOK, HandlerInv
  <2>2. Done \/ Advance
    BY <1>7 DEF NextElements, BadElement
  <2> QED
    BY <2>1, <2>2, NoEdit, WalkIsLegal DEF SessionInv, Frame
<1>8. CASE (\E id \in QerIds : CreateQer(id) \/ UpdateQer(id) \/ RemoveQer(id)) \/ MissingQer
  BY <1>8, QerElementsEdit
<1> QED
  BY <1>1, <1>2, <1>3, <1>4, <1>5, <1>6, <1>7, <1>8, ZenonT(30) DEF Elements

-----------------------------------------------------------------------------
(* An edit keeps the invariants.                                             *)

\* An edit of the session in hand keeps the inductive invariant.
LEMMA EditKeepsSessions ==
    ASSUME SessionInv, phase # "idle", Frame, HandlerType', HandlerInv',
           NEW x \in Session, Edit(x)
    PROVE  SessionInv'
<1> USE InHand
<1>1. \A s \in Slots : table'[s] = IF s = cur THEN x ELSE table[s]
  BY DEF Edit, SessionInv, TypeOK
<1>2. cur \in live /\ table[cur] = me
  BY DEF me
<1>3. TypeOK'
  <2>1. table' \in [Slots -> Session]
    BY DEF Edit, SessionInv, TypeOK
  <2>2. teidMap' \in [Teids -> Slots \cup {None}] /\ ueMap' \in [UeIps -> Slots \cup {None}]
    BY ZenonT(30) DEF Edit, KeysEdit, Free, SessionInv, TypeOK
  <2>3. allPdr' \subseteq Pdr
    <3>1. \A id \in PdrIds : PdrOf(id) \in Pdr
      BY DEF PdrOf, Pdr
    <3> QED
      BY <3>1 DEF Edit, PdrsEdit, SessionInv, TypeOK
  <2> QED
    BY <2>1, <2>2, <2>3 DEF SessionInv, TypeOK, HandlerType, Frame
<1>4. SeidsInv'
  BY <1>1, <1>2 DEF Edit, SessionInv, TypeOK, SeidsInv, Frame
<1>5. NoRingOutlives'
  BY DEF SessionInv, NoRingOutlives, Frame
<1>6. PdrInv'
  <2>1. /\ live' = live /\ sessionIdPool' = sessionIdPool
        /\ \A s \in live : s \in Slots /\ table'[s].seid = table[s].seid
    BY <1>1, <1>2 DEF Edit, Frame, SessionInv, TypeOK
  <2>2. \A id \in PdrIds : /\ PdrOf(id).seid = me.seid /\ PdrOf(id).slot = cur
                           /\ PdrOf(id).id = id
    BY DEF PdrOf
  <2>3. allPdr' \subseteq allPdr \cup {PdrOf(id) : id \in PdrIds}
    BY DEF Edit, PdrsEdit
  <2>4. me.seid < sessionIdPool
    BY <1>2 DEF SessionInv, SeidsInv, TypeOK
  <2>5. \A p \in allPdr' : p.seid < sessionIdPool'
    BY <2>1, <2>2, <2>3, <2>4 DEF SessionInv, PdrInv
  <2>6. \A p \in allPdr' : \A s \in live' : table'[s].seid = p.seid => p.slot = s
    <3> SUFFICES ASSUME NEW p \in allPdr', NEW s \in live, table[s].seid = p.seid
                 PROVE  p.slot = s
      BY <2>1
    <3>1. CASE p \in allPdr
      BY <3>1 DEF SessionInv, PdrInv
    <3>2. ASSUME NEW id \in PdrIds, p = PdrOf(id)
          PROVE  p.slot = s
      BY <1>2, <2>2, <3>2 DEF SessionInv, SeidsInv
    <3> QED
      BY <2>3, <3>1, <3>2
  <2>7. ASSUME NEW s \in live
        PROVE  {p.id : p \in {q \in allPdr' : q.seid = table'[s].seid}} = table'[s].pdrs
    <3>1. {p.id : p \in {q \in allPdr : q.seid = table[s].seid}} = table[s].pdrs
      BY DEF SessionInv, PdrInv, PdrListsAgree
    <3>2. CASE s # cur
      <4>1. \A id \in PdrIds : PdrOf(id).seid # table[s].seid
        BY <1>2, <2>2, <3>2 DEF SessionInv, SeidsInv
      <4>2. {q \in allPdr' : q.seid = table[s].seid} = {q \in allPdr : q.seid = table[s].seid}
        BY <4>1 DEF Edit, PdrsEdit
      <4>3. table'[s] = table[s]
        BY <1>1, <2>1, <3>2
      <4> QED
        BY <3>1, <4>2, <4>3
    <3>3. CASE s = cur
      <4>1. table'[s].seid = me.seid /\ table'[s].pdrs = x.pdrs
        BY <1>1, <1>2, <2>1, <3>3
      <4>2. {p.id : p \in {q \in allPdr : q.seid = me.seid}} = me.pdrs
        BY <1>2, <3>1, <3>3
      <4>3. CASE x.pdrs = me.pdrs /\ allPdr' = allPdr
        BY <4>1, <4>2, <4>3
      <4>4. ASSUME NEW id \in PdrIds, x.pdrs = me.pdrs \cup {id},
                   allPdr' = allPdr \cup {PdrOf(id)}
            PROVE  {p.id : p \in {q \in allPdr' : q.seid = me.seid}} = x.pdrs
        <5>1. {q \in allPdr' : q.seid = me.seid}
                  = {q \in allPdr : q.seid = me.seid} \cup {PdrOf(id)}
          BY <2>2, <4>4
        <5>2. {p.id : p \in {q \in allPdr : q.seid = me.seid} \cup {PdrOf(id)}}
                  = {p.id : p \in {q \in allPdr : q.seid = me.seid}} \cup {PdrOf(id).id}
          OBVIOUS
        <5> QED
          BY <2>2, <4>2, <4>4, <5>1, <5>2
      <4>5. ASSUME NEW id \in PdrIds, x.pdrs = me.pdrs \ {id},
                   allPdr' = allPdr \ {PdrOf(id)}
            PROVE  {p.id : p \in {q \in allPdr' : q.seid = me.seid}} = x.pdrs
        <5>1. ASSUME NEW q \in allPdr, q.seid = me.seid, q.id = id
              PROVE  q = PdrOf(id)
          <6>1. q.slot = cur
            BY <1>2, <5>1 DEF SessionInv, PdrInv
          <6>2. q \in Pdr
            BY DEF SessionInv, TypeOK
          <6> QED
            BY <5>1, <6>1, <6>2 DEF Pdr, PdrOf
        <5>2. {q \in allPdr' : q.seid = me.seid}
                  = {q \in {r \in allPdr : r.seid = me.seid} : q.id # id}
          BY <2>2, <4>5, <5>1
        <5>3. {p.id : p \in {q \in {r \in allPdr : r.seid = me.seid} : q.id # id}}
                  = {p.id : p \in {r \in allPdr : r.seid = me.seid}} \ {id}
          OBVIOUS
        <5> QED
          BY <4>2, <4>5, <5>2, <5>3
      <4> QED
        BY <4>1, <4>3, <4>4, <4>5 DEF Edit, PdrsEdit
    <3> QED
      BY <3>2, <3>3
  <2> QED
    BY <2>1, <2>5, <2>6, <2>7 DEF PdrInv, PdrListsAgree
<1>7. LenderIsSound'
  BY <1>1, <1>2 DEF Edit, QersEdit, SessionInv, TypeOK, LenderIsSound, Frame
<1> QED
  BY <1>3, <1>4, <1>5, <1>6, <1>7 DEF SessionInv

\* A map from keys in K to the sessions L is exact when key[s] is the key of s,
\* and how SyncMaps takes one key of session c for another.
Exact(map, K, L, key) == \A k \in K : \A s \in Slots : map[k] = s <=> s \in L /\ key[s] = k
Rekeyed(map, map2, c, k, k2) ==
    \/ k2 = k /\ map2 = map
    \/ k2 # k /\ map[k2] = None /\ map2 = [Free(map, k) EXCEPT ![k2] = c]

\* The new key in and the old one out keep a map exact.
LEMMA MapEdit ==
    ASSUME NEW K, NEW L, L \subseteq Slots, NEW c \in L,
           NEW map \in [K -> Slots \cup {None}], NEW map2,
           NEW key, NEW key2,
           key[c] \in K, key2[c] \in K, \A s \in L : s # c => key2[s] = key[s],
           Exact(map, K, L, key), Rekeyed(map, map2, c, key[c], key2[c])
    PROVE  Exact(map2, K, L, key2)
<1> USE DEF Exact
<1>1. CASE key2[c] = key[c] /\ map2 = map
  BY <1>1
<1>2. CASE /\ key2[c] # key[c] /\ map[key2[c]] = None
           /\ map2 = [Free(map, key[c]) EXCEPT ![key2[c]] = c]
  <2>1. \A k \in K : map2[k] = IF k = key2[c] THEN c ELSE IF k = key[c] THEN None ELSE map[k]
    BY <1>2, ZenonT(30) DEF Free
  <2> SUFFICES ASSUME NEW k \in K, NEW s \in Slots
               PROVE  map2[k] = s <=> s \in L /\ key2[s] = k
    OBVIOUS
  <2>2. None # s
    BY NoneAssumption
  <2>3. CASE k = key2[c]
    BY <1>2, <2>1, <2>2, <2>3
  <2>4. CASE k # key2[c] /\ k = key[c]
    BY <1>2, <2>1, <2>2, <2>4
  <2>5. CASE k # key2[c] /\ k # key[c]
    BY <1>2, <2>1, <2>2, <2>5
  <2> QED
    BY <2>3, <2>4, <2>5
<1> QED
  BY <1>1, <1>2 DEF Rekeyed

\* And, when the maps are exact, it keeps them exact.
LEMMA EditKeepsMaps ==
    ASSUME SessionInv, MapsAreExact, phase # "idle", Frame,
           NEW x \in Session, Edit(x)
    PROVE  MapsAreExact'
<1> DEFINE tk == [s \in Slots |-> table[s].teid]
           tk2 == [s \in Slots |-> table'[s].teid]
           uk == [s \in Slots |-> table[s].ue]
           uk2 == [s \in Slots |-> table'[s].ue]
<1>1. \A s \in Slots : table'[s] = IF s = cur THEN x ELSE table[s]
  BY DEF Edit, SessionInv, TypeOK
<1>2. /\ cur \in live /\ cur \in Slots /\ table[cur] = me
      /\ live \in SUBSET Slots /\ live' = live
      /\ teidMap \in [Teids -> Slots \cup {None}] /\ ueMap \in [UeIps -> Slots \cup {None}]
  BY InHand DEF me, SessionInv, TypeOK, Frame
<1>3. /\ tk[cur] = me.teid /\ tk2[cur] = x.teid /\ uk[cur] = me.ue /\ uk2[cur] = x.ue
      /\ \A s \in live : s # cur => tk2[s] = tk[s] /\ uk2[s] = uk[s]
  BY <1>1, <1>2
<1>4. me.teid \in Teids /\ x.teid \in Teids /\ me.ue \in UeIps /\ x.ue \in UeIps
  BY InHand DEF Edit
<1>5. Exact(teidMap, Teids, live, tk) /\ Exact(ueMap, UeIps, live, uk)
  BY DEF MapsAreExact, Exact
<1>6. /\ Rekeyed(teidMap, teidMap', cur, tk[cur], tk2[cur])
      /\ Rekeyed(ueMap, ueMap', cur, uk[cur], uk2[cur])
  BY <1>3 DEF Edit, KeysEdit, Rekeyed
<1>7. \A s \in Slots : tk2[s] = table'[s].teid /\ uk2[s] = table'[s].ue
  OBVIOUS
<1> HIDE DEF tk, tk2, uk, uk2
<1>8. Exact(teidMap', Teids, live, tk2)
  BY <1>2, <1>3, <1>4, <1>5, <1>6, MapEdit
<1>9. Exact(ueMap', UeIps, live, uk2)
  BY <1>2, <1>3, <1>4, <1>5, <1>6, MapEdit
<1> QED
  BY <1>2, <1>7, <1>8, <1>9 DEF MapsAreExact, Exact

-----------------------------------------------------------------------------
(* Messages that add, remove or open a session.                              *)

\* A slot that is free gets a session with an SEID that no PDR has.
LEMMA AddKeepsSessions ==
    ASSUME SessionInv, NEW s \in Slots, NEW t \in Teids, NEW u \in UeIps,
           phase = "idle", s \notin live,
           NEW ringMade \in BOOLEAN, NEW received \in BOOLEAN,
           UpfSessionAdd(s, t, u, ringMade, received)
    PROVE  SessionInv'
<1> USE BoundsAssumption DEF UpfSessionAdd
<1> DEFINE x == [Blank EXCEPT !.seid = sessionIdPool, !.teid = t, !.ue = u]
<1>1. /\ x \in Session /\ x.seid = sessionIdPool /\ x.teid = t /\ x.ue = u
      /\ x.qers = <<>> /\ x.pdrs = {}
  <2>1. sessionIdPool \in 0 .. MaxSeid
    BY DEF SessionInv, TypeOK
  <2>2. <<>> \in Seq(QerIds \cup {Null})
    BY SeqEmpty
  <2> QED
    BY <2>1, <2>2, ZenonT(30) DEF Blank, Session
<1>2. table' = [table EXCEPT ![s] = x]
  OBVIOUS
<1> HIDE DEF x
<1>3. \A r \in Slots : table'[r] = IF r = s THEN x ELSE table[r]
  BY <1>2 DEF SessionInv, TypeOK
<1>4. TypeOK'
  <2>1. table' \in [Slots -> Session]
    BY <1>1, <1>2 DEF SessionInv, TypeOK
  <2>2. teidMap' \in [Teids -> Slots \cup {None}] /\ ueMap' \in [UeIps -> Slots \cup {None}]
    BY DEF SessionInv, TypeOK
  <2>3. sessionIdPool' \in 1 .. MaxSeid + 1
    BY DEF SessionInv, TypeOK
  <2>4. HandlerType'
    BY DEF SessionInv, TypeOK, HandlerType, Phases, handler
  <2> QED
    BY <2>1, <2>2, <2>3, <2>4 DEF SessionInv, TypeOK, HandlerType
<1>5. HandlerInv'
  BY DEF SessionInv, HandlerInv, handler
<1>6. SeidsInv'
  <2>1. \A r \in live : r \in Slots /\ r # s /\ table'[r] = table[r]
                        /\ table[r].seid \in 1 .. sessionIdPool - 1
    BY <1>3 DEF SessionInv, TypeOK, SeidsInv
  <2>2. table'[s] = x
    BY <1>3
  <2>3. sessionIdPool \in Nat \ {0}
    BY DEF SessionInv, TypeOK
  <2> QED
    BY <1>1, <2>1, <2>2, <2>3 DEF SessionInv, SeidsInv
<1>7. NoRingOutlives'
  BY DEF SessionInv, NoRingOutlives
<1>8. PdrInv'
  <2>1. \A r \in live : r \in Slots /\ r # s /\ table'[r] = table[r]
    BY <1>3 DEF SessionInv, TypeOK
  <2>2. table'[s].seid = sessionIdPool /\ table'[s].pdrs = {}
    BY <1>1, <1>3, ZenonT(30)
  <2>3. \A p \in allPdr : p.seid \in Nat /\ p.seid < sessionIdPool /\ p.seid # sessionIdPool
    BY DEF SessionInv, TypeOK, Pdr, PdrInv
  <2>4. {q \in allPdr : q.seid = sessionIdPool} = {}
    BY <2>3
  <2>5. \A p \in allPdr' : p.seid < sessionIdPool'
    BY <2>3 DEF SessionInv, TypeOK
  <2>6. \A p \in allPdr' : \A r \in live' : table'[r].seid = p.seid => p.slot = r
    BY <2>1, <2>2, <2>3 DEF SessionInv, PdrInv
  <2>7. PdrListsAgree'
    <3> SUFFICES ASSUME NEW r \in live'
                 PROVE  {p.id : p \in {q \in allPdr : q.seid = table'[r].seid}} = table'[r].pdrs
      BY DEF PdrListsAgree
    <3>1. CASE r = s
      BY <2>2, <2>4, <3>1
    <3>2. CASE r \in live
      BY <2>1, <3>2 DEF SessionInv, PdrInv, PdrListsAgree
    <3> QED
      BY <3>1, <3>2
  <2> QED
    BY <2>5, <2>6, <2>7 DEF PdrInv
<1>9. LenderIsSound'
  <2>1. \A r \in live : r \in Slots /\ r # s /\ table'[r] = table[r]
    BY <1>3 DEF SessionInv, TypeOK
  <2>2. table'[s].qers = <<>>
    BY <1>1, <1>3, ZenonT(30)
  <2>3. Range(<<>>) = {}
    BY DEF Range
  <2> QED
    BY <2>1, <2>2, <2>3 DEF SessionInv, LenderIsSound
<1> QED
  BY <1>4, <1>5, <1>6, <1>7, <1>8, <1>9 DEF SessionInv

\* Clearing a key leaves a map of its type.
LEMMA FreeType ==
    ASSUME NEW K, NEW map \in [K -> Slots \cup {None}], NEW k
    PROVE  Free(map, k) \in [K -> Slots \cup {None}]
  BY DEF Free

\* The start of a message, whichever it is, keeps the inductive invariant.
LEMMA MessageKeepsSessions ==
    ASSUME SessionInv, Messages
    PROVE  SessionInv'
<1>1. ASSUME NEW s \in Slots, NEW t \in Teids, NEW u \in UeIps, SessionEstablishment(s, t, u)
      PROVE  SessionInv'
  <2>1. ASSUME NEW ipv4 \in BOOLEAN, UpfSessionAddFails(s, t, u, ipv4)
        PROVE  SessionInv'
    <3> DEFINE v == IF ipv4 THEN u ELSE None
    <3>1. /\ rings' = rings \ {s} /\ teidMap' = Free(teidMap, t) /\ ueMap' = Free(ueMap, v)
          /\ UNCHANGED <<sessionIdPool, live, table, allPdr, handler, fault>>
      BY <2>1 DEF UpfSessionAddFails, UpfSessionRemove
    <3>2. teidMap' \in [Teids -> Slots \cup {None}] /\ ueMap' \in [UeIps -> Slots \cup {None}]
      BY <3>1, FreeType DEF SessionInv, TypeOK
    <3>3. TypeOK'
      BY <3>1, <3>2 DEF SessionInv, TypeOK, handler
    <3>4. HandlerInv' /\ SeidsInv' /\ NoRingOutlives'
      <4>1. s \notin live
        BY <1>1 DEF SessionEstablishment
      <4> QED
        BY <3>1, <4>1 DEF SessionInv, HandlerInv, SeidsInv, NoRingOutlives, handler
    <3>5. PdrInv' /\ LenderIsSound'
      BY <3>1 DEF SessionInv, PdrInv, PdrListsAgree, LenderIsSound
    <3> QED
      BY <3>3, <3>4, <3>5 DEF SessionInv
  <2> QED
    BY <1>1, <2>1, AddKeepsSessions DEF SessionEstablishment
<1>2. ASSUME NEW s \in Slots, SessionModification(s)
      PROVE  SessionInv'
  <2> USE <1>2 DEF SessionModification
  <2>1. TypeOK' /\ HandlerInv'
    BY BoundsAssumption DEF SessionInv, TypeOK, HandlerInv, Phases, maps
  <2>2. SeidsInv' /\ NoRingOutlives'
    BY DEF SessionInv, SeidsInv, NoRingOutlives
  <2>3. PdrInv' /\ LenderIsSound'
    BY DEF SessionInv, PdrInv, PdrListsAgree, LenderIsSound
  <2> QED
    BY <2>1, <2>2, <2>3 DEF SessionInv
<1>3. ASSUME NEW s \in Slots, SessionDeletion(s)
      PROVE  SessionInv'
  <2>1. /\ rings' = rings \ {s} /\ live' = live \ {s} /\ phase = "idle"
        /\ teidMap' = Free(teidMap, table[s].teid) /\ ueMap' = Free(ueMap, table[s].ue)
        /\ table' = [table EXCEPT ![s] = Blank]
        /\ UNCHANGED <<sessionIdPool, allPdr, handler, fault>>
    BY <1>3 DEF SessionDeletion, UpfSessionRemove
  <2>2. teidMap' \in [Teids -> Slots \cup {None}] /\ ueMap' \in [UeIps -> Slots \cup {None}]
    BY <2>1, FreeType DEF SessionInv, TypeOK
  <2>3. Blank \in Session
    BY BoundsAssumption DEF Blank, Session
  <2>4. TypeOK'
    BY <2>1, <2>2, <2>3 DEF SessionInv, TypeOK, handler
  <2>5. \A r \in live' : r \in live /\ r \in Slots /\ table'[r] = table[r]
    BY <2>1 DEF SessionInv, TypeOK
  <2>6. HandlerInv' /\ SeidsInv' /\ NoRingOutlives'
    BY <2>1, <2>5 DEF SessionInv, HandlerInv, SeidsInv, NoRingOutlives, handler
  <2>7. PdrInv' /\ LenderIsSound'
    BY <2>1, <2>5 DEF SessionInv, PdrInv, PdrListsAgree, LenderIsSound
  <2> QED
    BY <2>4, <2>6, <2>7 DEF SessionInv
<1> QED
  BY <1>1, <1>2, <1>3 DEF Messages

\* A session removed, or refused with keys that no session has, leaves the maps
\* exact.
LEMMA MapFree ==
    ASSUME NEW K, NEW L, L \subseteq Slots, NEW c,
           NEW map \in [K -> Slots \cup {None}], NEW key, NEW key2, NEW k,
           \A s \in L : s # c => key2[s] = key[s],
           Exact(map, K, L, key), \A s \in L : key[s] = k <=> s = c
    PROVE  Exact(Free(map, k), K, L \ {c}, key2)
<1> SUFFICES ASSUME NEW j \in K, NEW s \in Slots
             PROVE  Free(map, k)[j] = s <=> s \in L \ {c} /\ key2[s] = j
  BY DEF Exact
<1>1. Free(map, k)[j] = IF j = k THEN None ELSE map[j]
  BY DEF Free
<1>2. None # s
  BY NoneAssumption
<1>3. map[j] = s <=> s \in L /\ key[s] = j
  BY DEF Exact
<1>4. CASE j = k
  BY <1>1, <1>2, <1>4
<1>5. CASE j # k
  BY <1>1, <1>3, <1>5
<1> QED
  BY <1>4, <1>5

\* A session with a key that no session has.
LEMMA MapAdd ==
    ASSUME NEW K, NEW L, L \subseteq Slots, NEW c \in Slots, c \notin L,
           NEW map \in [K -> Slots \cup {None}], NEW key, NEW key2, NEW k \in K,
           \A s \in L : key2[s] = key[s], key2[c] = k, map[k] = None,
           Exact(map, K, L, key)
    PROVE  Exact([map EXCEPT ![k] = c], K, L \cup {c}, key2)
<1> SUFFICES ASSUME NEW j \in K, NEW s \in Slots
             PROVE  [map EXCEPT ![k] = c][j] = s <=> s \in L \cup {c} /\ key2[s] = j
  BY DEF Exact
<1>1. [map EXCEPT ![k] = c][j] = IF j = k THEN c ELSE map[j]
  OBVIOUS
<1>2. None # s
  BY NoneAssumption
<1>3. (map[j] = s <=> s \in L /\ key[s] = j) /\ (map[k] = s <=> s \in L /\ key[s] = k)
  BY DEF Exact
<1>4. CASE j = k
  BY <1>1, <1>2, <1>3, <1>4
<1>5. CASE j # k
  BY <1>1, <1>3, <1>5
<1> QED
  BY <1>4, <1>5

\* And it keeps exact maps, unless an establishment comes again.
LEMMA MessageKeepsMaps ==
    ASSUME SessionInv, MapsAreExact, ~Retransmits, Messages
    PROVE  MapsAreExact'
<1> DEFINE tk == [s \in Slots |-> table[s].teid]
           tk2 == [s \in Slots |-> table'[s].teid]
           uk == [s \in Slots |-> table[s].ue]
           uk2 == [s \in Slots |-> table'[s].ue]
<1>1. /\ live \subseteq Slots /\ table \in [Slots -> Session]
      /\ teidMap \in [Teids -> Slots \cup {None}] /\ ueMap \in [UeIps -> Slots \cup {None}]
  BY DEF SessionInv, TypeOK
<1>2. \A s \in Slots : /\ tk[s] = table[s].teid /\ tk2[s] = table'[s].teid
                       /\ uk[s] = table[s].ue /\ uk2[s] = table'[s].ue
  OBVIOUS
<1>3. Exact(teidMap, Teids, live, tk) /\ Exact(ueMap, UeIps, live, uk)
  BY DEF MapsAreExact, Exact
<1> SUFFICES /\ Exact(teidMap', Teids, live', tk2)
             /\ Exact(ueMap', UeIps, live', uk2)
  BY DEF MapsAreExact, Exact
<1> HIDE DEF tk, tk2, uk, uk2
<1>4. ASSUME NEW s \in Slots, NEW t \in Teids, NEW u \in UeIps, SessionEstablishment(s, t, u)
      PROVE  Exact(teidMap', Teids, live', tk2) /\ Exact(ueMap', UeIps, live', uk2)
  <2>1. s \notin live /\ teidMap[t] = None /\ ueMap[u] = None
    BY <1>4 DEF SessionEstablishment
  <2>2. ASSUME NEW ringMade \in BOOLEAN, NEW received \in BOOLEAN,
               UpfSessionAdd(s, t, u, ringMade, received)
        PROVE  Exact(teidMap', Teids, live', tk2) /\ Exact(ueMap', UeIps, live', uk2)
    <3> DEFINE x == [Blank EXCEPT !.seid = sessionIdPool, !.teid = t, !.ue = u]
    <3>1. x.teid = t /\ x.ue = u
      BY DEF Blank
    <3>2. table' = [table EXCEPT ![s] = x]
      BY <2>2 DEF UpfSessionAdd
    <3> HIDE DEF x
    <3>3. \A r \in Slots : table'[r] = IF r = s THEN x ELSE table[r]
      BY <1>1, <3>2
    <3>4. /\ tk2[s] = t /\ uk2[s] = u
          /\ \A r \in live : tk2[r] = tk[r] /\ uk2[r] = uk[r]
      BY <1>1, <1>2, <2>1, <3>1, <3>3
    <3>5. /\ teidMap' = [teidMap EXCEPT ![t] = s] /\ ueMap' = [ueMap EXCEPT ![u] = s]
          /\ live' = live \cup {s}
      BY <2>2 DEF UpfSessionAdd
    <3>6. Exact([teidMap EXCEPT ![t] = s], Teids, live \cup {s}, tk2)
      <4>1. tk2[s] = t /\ \A r \in live : tk2[r] = tk[r]
        BY <3>4
      <4> QED
        BY <1>1, <1>3, <2>1, <4>1, MapAdd, ZenonT(30)
    <3>7. Exact([ueMap EXCEPT ![u] = s], UeIps, live \cup {s}, uk2)
      <4>1. uk2[s] = u /\ \A r \in live : uk2[r] = uk[r]
        BY <3>4
      <4> QED
        BY <1>1, <1>3, <2>1, <4>1, MapAdd, ZenonT(30)
    <3> QED
      BY <3>5, <3>6, <3>7
  <2>3. ASSUME NEW ipv4 \in BOOLEAN, UpfSessionAddFails(s, t, u, ipv4)
        PROVE  Exact(teidMap', Teids, live', tk2) /\ Exact(ueMap', UeIps, live', uk2)
    <3>1. ~ipv4
      BY <2>1, <2>3 DEF UpfSessionAddFails
    <3>2. /\ teidMap' = Free(teidMap, t) /\ ueMap' = Free(ueMap, None)
          /\ live' = live /\ table' = table
      BY <2>3, <3>1 DEF UpfSessionAddFails, UpfSessionRemove
    <3>3. teidMap' = teidMap
      BY <1>1, <2>1, <3>2 DEF Free
    <3>4. ueMap' = ueMap
      BY <1>1, <3>2, NoneAssumption DEF Free
    <3> QED
      BY <1>2, <1>3, <3>2, <3>3, <3>4 DEF Exact
  <2> QED
    BY <1>4, <2>2, <2>3 DEF SessionEstablishment
<1>5. ASSUME NEW s \in Slots, SessionModification(s)
      PROVE  Exact(teidMap', Teids, live', tk2) /\ Exact(ueMap', UeIps, live', uk2)
  <2>1. UNCHANGED <<teidMap, ueMap, live, table>>
    BY <1>5 DEF SessionModification, maps
  <2> QED
    BY <1>2, <1>3, <2>1 DEF Exact
<1>6. ASSUME NEW s \in Slots, SessionDeletion(s)
      PROVE  Exact(teidMap', Teids, live', tk2) /\ Exact(ueMap', UeIps, live', uk2)
  <2>1. /\ s \in live /\ live' = live \ {s}
        /\ teidMap' = Free(teidMap, tk[s]) /\ ueMap' = Free(ueMap, uk[s])
        /\ table' = [table EXCEPT ![s] = Blank]
    BY <1>2, <1>6 DEF SessionDeletion, UpfSessionRemove
  <2>2. \A r \in live : r # s => tk2[r] = tk[r] /\ uk2[r] = uk[r]
    BY <1>1, <1>2, <2>1
  <2>3. tk[s] \in Teids /\ uk[s] \in UeIps
    BY <1>2, <2>1 DEF SessionInv, SeidsInv
  <2>4. \A r \in live : (tk[r] = tk[s] <=> r = s) /\ (uk[r] = uk[s] <=> r = s)
    BY <1>1, <1>3, <2>1, <2>3 DEF Exact
  <2>5. Exact(Free(teidMap, tk[s]), Teids, live \ {s}, tk2)
    BY <1>1, <1>3, <2>2, <2>4, MapFree, ZenonT(30)
  <2>6. Exact(Free(ueMap, uk[s]), UeIps, live \ {s}, uk2)
    BY <1>1, <1>3, <2>2, <2>4, MapFree, ZenonT(30)
  <2> QED
    BY <2>1, <2>5, <2>6
<1> QED
  BY <1>4, <1>5, <1>6 DEF Messages

-----------------------------------------------------------------------------
\* The tables start empty.
LEMMA SessionInit == Init => SessionInv /\ MapsAreExact
<1> SUFFICES ASSUME Init PROVE SessionInv /\ MapsAreExact
  OBVIOUS
<1> USE BoundsAssumption DEF Init
<1>1. TypeOK
  <2>1. <<>> \in Seq(QerIds \cup {Null})
    BY SeqEmpty
  <2>2. Blank \in Session
    BY <2>1 DEF Blank, Session
  <2> QED
    <3>1. 1 \in 1 .. MaxSeid + 1 /\ 0 \in 0 .. QerElements
      OBVIOUS
    <3>2. table \in [Slots -> Session]
      BY <2>2
    <3>3. /\ teidMap \in [Teids -> Slots \cup {None}] /\ ueMap \in [UeIps -> Slots \cup {None}]
          /\ phase \in Phases /\ cur \in Slots \cup {None}
      BY DEF Phases
    <3> QED
      BY <3>1, <3>2, <3>3, ZenonT(30) DEF TypeOK
<1>2. HandlerInv /\ SeidsInv /\ NoRingOutlives
  BY DEF HandlerInv, SeidsInv, NoRingOutlives
<1>3. PdrInv /\ LenderIsSound
  BY DEF PdrInv, PdrListsAgree, LenderIsSound
<1>4. MapsAreExact
  BY NoneAssumption DEF MapsAreExact
<1> QED
  BY <1>1, <1>2, <1>3, <1>4 DEF SessionInv

\* Every step of UPF-C keeps the inductive invariant.
LEMMA SessionStep == SessionInv /\ [Next]_vars => SessionInv'
<1> SUFFICES ASSUME SessionInv, [Next]_vars PROVE SessionInv'
  OBVIOUS
<1>1. CASE Messages
  BY <1>1, MessageKeepsSessions
<1>2. CASE Elements
  BY <1>2, ElementIsEdit, EditKeepsSessions
<1>3. CASE UNCHANGED vars
  <2>1. UNCHANGED <<sessionIdPool, live, table, teidMap, ueMap, rings, allPdr, phase, cur,
                    qerNo, message, fault>>
    BY <1>3 DEF vars, maps, handler
  <2>2. TypeOK' /\ HandlerInv' /\ SeidsInv'
    BY <2>1 DEF SessionInv, TypeOK, HandlerInv, SeidsInv
  <2>3. NoRingOutlives' /\ PdrInv' /\ LenderIsSound'
    BY <2>1 DEF SessionInv, NoRingOutlives, PdrInv, PdrListsAgree, LenderIsSound
  <2> QED
    BY <2>2, <2>3 DEF SessionInv
<1> QED
  BY <1>1, <1>2, <1>3 DEF Next, Crashed

\* Every step keeps exact maps when the SMF sends no establishment again.
LEMMA MapsStep ==
    ASSUME ~Retransmits
    PROVE  SessionInv /\ MapsAreExact /\ [Next]_vars => MapsAreExact'
<1> SUFFICES ASSUME SessionInv, MapsAreExact, [Next]_vars PROVE MapsAreExact'
  OBVIOUS
<1>1. CASE Messages
  BY <1>1, MessageKeepsMaps
<1>2. CASE Elements
  BY <1>2, ElementIsEdit, EditKeepsMaps
<1>3. CASE UNCHANGED vars
  BY <1>3 DEF vars, maps, MapsAreExact
<1> QED
  BY <1>1, <1>2, <1>3 DEF Next, Crashed

\* The inductive invariant, for every SMF: SEIDs are given out once, the handler
\* works on a session that exists, and what the theorems below take from it.
THEOREM SessionsAreSound == Spec => []SessionInv
<1>1. Init => SessionInv
  BY SessionInit
<1> QED
  BY <1>1, SessionStep, PTL DEF Spec

\* Every variable has its type, for any number of sessions and rules.
THEOREM SessionTypes == Spec => []TypeOK
<1>1. SessionInv => TypeOK
  BY DEF SessionInv
<1> QED
  BY <1>1, SessionsAreSound, PTL

\* No ring of UpfSessBufRingCreate outlives its session, even when an
\* establishment arrives again.
THEOREM RingsEndWithSessions == Spec => []NoRingOutlives
<1>1. SessionInv => NoRingOutlives
  BY DEF SessionInv
<1> QED
  BY <1>1, SessionsAreSound, PTL

\* UpfPDRGlobalAdd, UpfPDRGlobalRemove and their undoing keep the list of the
\* classifier equal to what the sessions list.
THEOREM PdrListsStayEqual == Spec => []PdrListsAgree
<1>1. SessionInv => PdrListsAgree
  BY DEF SessionInv, PdrInv
<1> QED
  BY <1>1, SessionsAreSound, PTL

\* The list QERs are borrowed from never has a NULL entry.
THEOREM LenderStaysSound == Spec => []LenderIsSound
<1>1. SessionInv => LenderIsSound
  BY DEF SessionInv
<1> QED
  BY <1>1, SessionsAreSound, PTL

\* When the SMF sends no establishment again the maps lead to the sessions, and
\* to nothing else, by exactly their keys.
THEOREM MapsStayExact ==
    ASSUME ~Retransmits
    PROVE  Spec => []MapsAreExact
<1>1. Init => SessionInv /\ MapsAreExact
  BY SessionInit
<1>2. SessionInv /\ MapsAreExact /\ [Next]_vars => SessionInv' /\ MapsAreExact'
  BY SessionStep, MapsStep
<1> QED
  BY <1>1, <1>2, PTL DEF Spec
=============================================================================
