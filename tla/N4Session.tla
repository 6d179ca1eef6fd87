------------------------------ MODULE N4Session ------------------------------
(* The sessions of UPF-C and the rules in them: the session table, the maps   *)
(* from TEID and UE address to a session, the lists of FARs, QERs and PDRs,   *)
(* and the global list the classifier is built from (upf_context.c, upf.c and *)
(* the session handlers of n4_onvm_pfcp_handler.c).                           *)
(*                                                                            *)
(* UPF-C handles one message at a time.  A handler is a walk over the         *)
(* elements of its message in the fixed order of the code; every element is   *)
(* one step, and the elements a message has are chosen when they are reached. *)
(* Responses, and what FARs and QERs contain, are left out.                   *)
EXTENDS Naturals, Sequences, FiniteSets, Functions, TLC

CONSTANTS
    Slots,          \* indexes of upf_session_table
    Teids, UeIps,   \* keys of the two maps
    FarIds, PdrIds, \* rule ids
    QerIds,         \* rule ids, 1 among them (all ids are below 2^16)
    None,           \* no slot, no key
    Null,           \* a NULL entry of a list
    QerElements,    \* createQER elements of an establishment (4)
    MaxSeid,        \* bound on g_sessionIdPool
    Retransmits     \* whether the SMF sends an establishment again

ASSUME IdsAssumption == QerIds \subseteq Nat /\ 1 \in QerIds /\ Null \notin QerIds
ASSUME NoneAssumption == None \notin Slots \cup Teids \cup UeIps \cup FarIds \cup QerIds
ASSUME BoundsAssumption == QerElements \in Nat /\ MaxSeid \in Nat
ASSUME SmfAssumption == Retransmits \in BOOLEAN

VARIABLES
    sessionIdPool,      \* g_sessionIdPool
    live,               \* slots in use
    table,              \* upf_session_table
    teidMap, ueMap,     \* TEID and UE address to slot
    rings,              \* slots with a ring in g_sess_buf
    allPdr,             \* g_all_pdr_list
    phase, cur, qerNo,  \* handler: elements it is at, its slot, QER elements seen
    message,            \* the message in hand
    fault               \* a NULL entry was followed

handler == <<phase, cur, qerNo, message>>
maps == <<teidMap, ueMap>>
vars == <<sessionIdPool, live, table, maps, rings, allPdr, handler, fault>>

Session == [seid : 0 .. MaxSeid, teid : Teids \cup {None}, ue : UeIps \cup {None},
            fars : SUBSET FarIds, qers : Seq(QerIds \cup {Null}), pdrs : SUBSET PdrIds]
Pdr == [seid : 1 .. MaxSeid, slot : Slots, id : PdrIds]
Phases == {"idle", "createFar", "createQer", "createPdr", "updateFar", "updateQer",
           "updatePdr", "removeFar", "removeQer", "removePdr"}

TypeOK ==
    /\ sessionIdPool \in 1 .. MaxSeid + 1
    /\ live \subseteq Slots /\ rings \subseteq Slots
    /\ table \in [Slots -> Session]
    /\ teidMap \in [Teids -> Slots \cup {None}]
    /\ ueMap \in [UeIps -> Slots \cup {None}]
    /\ allPdr \subseteq Pdr
    /\ phase \in Phases /\ cur \in Slots \cup {None} /\ qerNo \in 0 .. QerElements
    /\ message \in {"none", "establish", "modify"}
    /\ fault \in BOOLEAN

Blank == [seid |-> 0, teid |-> None, ue |-> None, fars |-> {}, qers |-> <<>>, pdrs |-> {}]

Init ==
    /\ sessionIdPool = 1
    /\ live = {} /\ rings = {} /\ allPdr = {}
    /\ table = [s \in Slots |-> Blank]
    /\ teidMap = [t \in Teids |-> None]
    /\ ueMap = [u \in UeIps |-> None]
    /\ phase = "idle" /\ cur = None /\ qerNo = 0 /\ message = "none"
    /\ fault = FALSE

-----------------------------------------------------------------------------
(* Adding and removing a session.                                            *)

\* A map without a key, which need not be in it.
Free(map, k) == [x \in DOMAIN map |-> IF x = k THEN None ELSE map[x]]

\* A mutant that leaves the ring of the session.
UpfSessionRemoveKeepsRing(s, t, u) ==
    /\ teidMap' = Free(teidMap, t)
    /\ ueMap' = Free(ueMap, u)
    /\ UNCHANGED rings

\* UpfSessionRemove, but for the entry of the table: u is None when the session
\* has no UE address yet.
UpfSessionRemove(s, t, u) ==
    /\ rings' = rings \ {s}
    /\ teidMap' = Free(teidMap, t)
    /\ ueMap' = Free(ueMap, u)

\* UpfSessionAdd: both keys must be new.  The ring may not be made, and the
\* session stays when PfcpXactReceive then refuses the request.
UpfSessionAdd(s, t, u, ringMade, received) ==
    /\ sessionIdPool <= MaxSeid
    /\ teidMap[t] = None /\ ueMap[u] = None
    /\ table' = [table EXCEPT ![s] = [Blank EXCEPT !.seid = sessionIdPool, !.teid = t, !.ue = u]]
    /\ live' = live \cup {s}
    /\ teidMap' = [teidMap EXCEPT ![t] = s]
    /\ ueMap' = [ueMap EXCEPT ![u] = s]
    /\ rings' = IF ringMade THEN rings \cup {s} ELSE rings
    /\ sessionIdPool' = sessionIdPool + 1
    /\ IF received
       THEN phase' = "createFar" /\ cur' = s /\ qerNo' = 0 /\ message' = "establish"
       ELSE UNCHANGED handler
    /\ UNCHANGED <<allPdr, fault>>

\* UpfSessionAdd that finds a key in use, or cannot use the PDN type and has not
\* stored the UE address: UpfSessionRemove on the new session, and no answer.
UpfSessionAddFails(s, t, u, ipv4) ==
    /\ ipv4 => teidMap[t] # None \/ ueMap[u] # None
    /\ UpfSessionRemove(s, t, IF ipv4 THEN u ELSE None)
    /\ UNCHANGED <<sessionIdPool, live, table, allPdr, handler, fault>>

\* A Session Establishment Request without SEID: a new one, or one that comes
\* again with both keys of its session and its PDN type, which is IPv4.
SessionEstablishment(s, t, u) ==
    /\ ~fault /\ phase = "idle"
    /\ s \notin live
    /\ teidMap[t] = ueMap[u]
    /\ teidMap[t] = None \/ Retransmits
    /\ \/ \E ringMade, received \in BOOLEAN : UpfSessionAdd(s, t, u, ringMade, received)
       \/ \E ipv4 \in BOOLEAN :
             (ipv4 \/ teidMap[t] = None) /\ UpfSessionAddFails(s, t, u, ipv4)

\* A Session Deletion Request.  The entry of the table is cleared here and not
\* when it is next used: nothing reads it in between.
SessionDeletion(s) ==
    /\ ~fault /\ phase = "idle"
    /\ s \in live
    /\ UpfSessionRemove(s, table[s].teid, table[s].ue)
    /\ live' = live \ {s}
    /\ table' = [table EXCEPT ![s] = Blank]
    /\ UNCHANGED <<sessionIdPool, allPdr, handler, fault>>

\* A Session Modification Request for a session that exists.
SessionModification(s) ==
    /\ ~fault /\ phase = "idle"
    /\ s \in live
    /\ phase' = "createFar" /\ cur' = s /\ qerNo' = 0 /\ message' = "modify"
    /\ UNCHANGED <<sessionIdPool, live, table, maps, rings, allPdr, fault>>

-----------------------------------------------------------------------------
(* The elements of a message.                                                *)

me == table[cur]
Done == phase' = "idle" /\ cur' = None /\ qerNo' = 0 /\ message' = "none"

\* An element that fails: an establishment goes on to the next one, to be
\* rejected in the end, and a modification is given up.
Failed == IF message = "establish" THEN UNCHANGED handler ELSE Done

Order == <<"createFar", "createQer", "createPdr", "updateFar", "updateQer", "updatePdr",
           "removeFar", "removeQer", "removePdr">>
LastElements == IF message = "establish" THEN "createPdr" ELSE "removePdr"

\* On to the elements of the next kind, or to the response.
Advance ==
    IF phase = LastElements
    THEN Done
    ELSE /\ phase' = Order[CHOOSE i \in 2 .. Len(Order) : Order[i - 1] = phase]
         /\ UNCHANGED <<cur, qerNo, message>>

\* An element that succeeds.  Of these kinds a modification has one, but for
\* updatePDR, where the first one is taken for all of them: handling it again
\* changes nothing more.
Single == {"createQer", "updateQer", "updatePdr", "removeFar", "removeQer", "removePdr"}
Succeeded == IF message = "modify" /\ phase \in Single THEN Advance ELSE UNCHANGED handler

\* There are no more elements of this kind.
NextElements ==
    /\ ~fault /\ phase # "idle"
    /\ message = "establish" /\ phase = "createQer" => qerNo = QerElements
    /\ Advance
    /\ UNCHANGED <<sessionIdPool, live, table, maps, rings, allPdr, fault>>

\* An element of a modification without its id, or that cannot be converted.
BadElement ==
    /\ ~fault /\ message = "modify"
    /\ Done
    /\ UNCHANGED <<sessionIdPool, live, table, maps, rings, allPdr, fault>>

CreateFar(id) ==
    /\ ~fault /\ phase = "createFar"
    /\ IF id \in me.fars
       THEN Failed /\ UNCHANGED table
       ELSE table' = [table EXCEPT ![cur].fars = @ \cup {id}] /\ Succeeded
    /\ UNCHANGED <<sessionIdPool, live, maps, rings, allPdr, fault>>

\* UpfQERFindByID: the entries up to the first match are followed.
Match(qers, id) == {i \in 1 .. Len(qers) : qers[i] = id}
FollowsNull(qers, id) ==
    \E i \in 1 .. Len(qers) : qers[i] = Null /\ \A j \in Match(qers, id) : i < j

\* The walk for id ends the process, or goes on with A.
FindQer(id, A) ==
    IF FollowsNull(me.qers, id)
    THEN fault' = TRUE /\ UNCHANGED <<table, handler>>
    ELSE A /\ UNCHANGED fault

\* A createQER element that is there.
CreateQer(id) ==
    /\ ~fault /\ phase = "createQer"
    /\ message = "establish" => qerNo < QerElements
    /\ FindQer(id,
         LET Count == IF message = "establish"
                      THEN qerNo' = qerNo + 1 /\ UNCHANGED <<phase, cur, message>>
                      ELSE Succeeded
         IN IF Match(me.qers, id) # {}
            THEN (IF message = "establish" THEN Count ELSE Done) /\ UNCHANGED table
            ELSE table' = [table EXCEPT ![cur].qers = Append(@, id)] /\ Count)
    /\ UNCHANGED <<sessionIdPool, live, maps, rings, allPdr>>

\* What UpfQERFindByID returns for QER 1 of session 1.
SharedQer ==
    IF \E s \in live : table[s].seid = 1 /\ Match(table[s].qers, 1) # {} THEN 1 ELSE Null

\* A mutant that lets the first session borrow from itself.
MissingQerAny ==
    /\ ~fault /\ phase = "createQer" /\ message = "establish"
    /\ qerNo < QerElements /\ qerNo' = qerNo + 1
    /\ table' = [table EXCEPT ![cur].qers = Append(@, SharedQer)]
    /\ UNCHANGED <<phase, cur, message, sessionIdPool, live, maps, rings, allPdr, fault>>

\* A createQER element of an establishment that is not there: a session that is
\* not the first one gets QER 1 of the first.
MissingQer ==
    /\ ~fault /\ phase = "createQer" /\ message = "establish"
    /\ qerNo < QerElements /\ qerNo' = qerNo + 1
    /\ table' = IF me.seid > 1
                THEN [table EXCEPT ![cur].qers = Append(@, SharedQer)]
                ELSE table
    /\ UNCHANGED <<phase, cur, message, sessionIdPool, live, maps, rings, allPdr, fault>>

\* UpfN4SyncSessionPacketKeysFromPdi: the TEID, then the UE address of the PDI
\* become those of the session, if no session has them.
NewTeid(t) == t # None /\ t # me.teid
NewUeIp(u) == u # None /\ u # me.ue
TeidTaken(t) == NewTeid(t) /\ teidMap[t] # None
UeIpTaken(u) == NewUeIp(u) /\ ueMap[u] # None
SyncFails(t, u) == TeidTaken(t) \/ UeIpTaken(u)

\* The session with the keys that could be set.
Synced(t, u) ==
    [me EXCEPT !.teid = IF NewTeid(t) /\ ~TeidTaken(t) THEN t ELSE @,
               !.ue = IF NewUeIp(u) /\ ~SyncFails(t, u) THEN u ELSE @]

\* A mutant that leaves the old TEID in the map.
SyncMapsKeepsOld(t, u) ==
    /\ teidMap' = IF NewTeid(t) /\ ~TeidTaken(t)
                  THEN [teidMap EXCEPT ![t] = cur] ELSE teidMap
    /\ ueMap' = IF NewUeIp(u) /\ ~SyncFails(t, u)
                THEN [Free(ueMap, me.ue) EXCEPT ![u] = cur] ELSE ueMap

\* UpfSessionUpdateTeid and UpfSessionUpdateUeIP: the new key in, the old one out.
SyncMaps(t, u) ==
    /\ teidMap' = IF NewTeid(t) /\ ~TeidTaken(t)
                  THEN [Free(teidMap, me.teid) EXCEPT ![t] = cur] ELSE teidMap
    /\ ueMap' = IF NewUeIp(u) /\ ~SyncFails(t, u)
                THEN [Free(ueMap, me.ue) EXCEPT ![u] = cur] ELSE ueMap

\* What is looked up for a PDR after its keys: its FAR and its QER.
RulesFound(far, qer) ==
    far \in me.fars \cup {None} /\ (qer # None => Match(me.qers, qer) # {})

\* A PDR that names a QER behind a NULL entry.
QerFault(far, qer) == far \in me.fars \cup {None} /\ qer # None /\ FollowsNull(me.qers, qer)

\* Published is whether UpfClsRebuildAndPublish succeeds; when it does not, the
\* PDR is taken out of both lists again.
CreatePdr(id, far, qer, t, u, published) ==
    /\ ~fault /\ phase = "createPdr"
    /\ IF id \in me.pdrs
       THEN Failed /\ UNCHANGED <<table, maps, allPdr, fault>>
       ELSE /\ SyncMaps(t, u)
            /\ fault' = (~SyncFails(t, u) /\ QerFault(far, qer))
            /\ IF ~SyncFails(t, u) /\ ~QerFault(far, qer) /\ RulesFound(far, qer) /\ published
               THEN /\ table' = [table EXCEPT ![cur] = [Synced(t, u) EXCEPT !.pdrs = @ \cup {id}]]
                    /\ allPdr' = allPdr \cup {[seid |-> me.seid, slot |-> cur, id |-> id]}
                    /\ Succeeded
               ELSE /\ table' = [table EXCEPT ![cur] = Synced(t, u)]
                    /\ Failed /\ UNCHANGED allPdr
    /\ UNCHANGED <<sessionIdPool, live, rings>>

\* The PDR is changed in place; its id and its place in the lists stay.  far and
\* qer are the ids it has then, from the element or from before.
UpdatePdr(id, far, qer, t, u, published) ==
    /\ ~fault /\ phase = "updatePdr"
    /\ IF id \notin me.pdrs
       THEN Failed /\ UNCHANGED <<table, maps, fault>>
       ELSE /\ SyncMaps(t, u)
            /\ fault' = (~SyncFails(t, u) /\ QerFault(far, qer))
            /\ table' = [table EXCEPT ![cur] = Synced(t, u)]
            /\ IF ~SyncFails(t, u) /\ ~QerFault(far, qer) /\ RulesFound(far, qer) /\ published
               THEN Succeeded
               ELSE Failed
    /\ UNCHANGED <<sessionIdPool, live, rings, allPdr>>

\* UpfN4HandleUpdateFar: here only whether the FAR is found.
UpdateFar(id) ==
    /\ ~fault /\ phase = "updateFar"
    /\ IF id \in me.fars THEN Succeeded ELSE Failed
    /\ UNCHANGED <<sessionIdPool, live, table, maps, rings, allPdr, fault>>

\* UpfN4HandleUpdateQer: here only whether the QER is found.
UpdateQer(id) ==
    /\ ~fault /\ phase = "updateQer"
    /\ FindQer(id, /\ IF Match(me.qers, id) # {} THEN Succeeded ELSE Failed
                   /\ UNCHANGED table)
    /\ UNCHANGED <<sessionIdPool, live, maps, rings, allPdr>>

\* The PDRs that point to the FAR keep their pointer.
RemoveFar(id) ==
    /\ ~fault /\ phase = "removeFar"
    /\ IF id \in me.fars
       THEN table' = [table EXCEPT ![cur].fars = @ \ {id}] /\ Succeeded
       ELSE Failed /\ UNCHANGED table
    /\ UNCHANGED <<sessionIdPool, live, maps, rings, allPdr, fault>>

WithoutAt(q, i) == SubSeq(q, 1, i - 1) \o SubSeq(q, i + 1, Len(q))

\* The first entry that matches is taken out of the list.
RemoveQer(id) ==
    /\ ~fault /\ phase = "removeQer"
    /\ FindQer(id,
         IF Match(me.qers, id) # {}
         THEN \E first \in Match(me.qers, id) :
                /\ \A j \in Match(me.qers, id) : first <= j
                /\ table' = [table EXCEPT ![cur].qers = WithoutAt(@, first)]
                /\ Succeeded
         ELSE Failed /\ UNCHANGED table)
    /\ UNCHANGED <<sessionIdPool, live, maps, rings, allPdr>>

\* A mutant that puts the PDR back into the list of the session only.
RemovePdrUndoesHalf(id, published) ==
    /\ ~fault /\ phase = "removePdr"
    /\ IF id \in me.pdrs
       THEN /\ table' = [table EXCEPT ![cur].pdrs = IF published THEN @ \ {id} ELSE @]
            /\ allPdr' = allPdr \ {[seid |-> me.seid, slot |-> cur, id |-> id]}
            /\ Succeeded
       ELSE Failed /\ UNCHANGED <<table, allPdr>>
    /\ UNCHANGED <<sessionIdPool, live, maps, rings, fault>>

\* When the classifier cannot be rebuilt the PDR goes back into both lists.
RemovePdr(id, published) ==
    /\ ~fault /\ phase = "removePdr"
    /\ IF id \in me.pdrs /\ published
       THEN /\ table' = [table EXCEPT ![cur].pdrs = @ \ {id}]
            /\ allPdr' = allPdr \ {[seid |-> me.seid, slot |-> cur, id |-> id]}
            /\ Succeeded
       ELSE Failed /\ UNCHANGED <<table, allPdr>>
    /\ UNCHANGED <<sessionIdPool, live, maps, rings, fault>>

-----------------------------------------------------------------------------
\* The process has followed NULL and is gone.
Crashed == fault /\ UNCHANGED vars

Messages ==
    \/ \E s \in Slots, t \in Teids, u \in UeIps : SessionEstablishment(s, t, u)
    \/ \E s \in Slots : SessionModification(s) \/ SessionDeletion(s)

Elements ==
    \/ \E id \in FarIds : CreateFar(id) \/ UpdateFar(id) \/ RemoveFar(id)
    \/ \E id \in QerIds : CreateQer(id) \/ UpdateQer(id) \/ RemoveQer(id)
    \/ MissingQer
    \/ \E id \in PdrIds, far \in FarIds \cup {None}, qer \in QerIds \cup {None},
          t \in Teids \cup {None}, u \in UeIps \cup {None}, published \in BOOLEAN :
          \/ CreatePdr(id, far, qer, t, u, published)
          \/ UpdatePdr(id, far, qer, t, u, published)
    \/ \E id \in PdrIds, published \in BOOLEAN : RemovePdr(id, published)
    \/ NextElements \/ BadElement

Next == Messages \/ Elements \/ Crashed

Spec == Init /\ [][Next]_vars

-----------------------------------------------------------------------------
(* Properties.                                                               *)

\* The maps lead to every session by its own keys and to nothing else, through
\* every update of the keys and every failure on the way (UpfSessionUpdateTeid,
\* UpfSessionUpdateUeIP, UpfSessionRemove).
MapsAreExact ==
    /\ \A t \in Teids : \A s \in Slots :
          teidMap[t] = s <=> s \in live /\ table[s].teid = t
    /\ \A u \in UeIps : \A s \in Slots :
          ueMap[u] = s <=> s \in live /\ table[s].ue = u

\* "Request Duplicated. Retransmit!": an establishment that arrives again gets
\* its answer again, and its session stays reachable by both keys.
SessionsAreReachable ==
    \A s \in live : teidMap[table[s].teid] = s /\ ueMap[table[s].ue] = s

\* No ring outlives its session, so that a session that gets the same index does
\* not inherit the packets of another (UpfSessBufRingCreate).
NoRingOutlives == rings \subseteq live

\* The classifier is built from the PDRs the sessions list, whatever rebuilds
\* failed and were undone (UpfPDRGlobalAdd, UpfPDRGlobalRemove).
PdrListsAgree ==
    \A s \in live : {p.id : p \in {q \in allPdr : q.seid = table[s].seid}} = table[s].pdrs

\* The list every other session borrows its QER from has no NULL entry, so the
\* lookup in an establishment cannot end the process (UpfQERFindByID on the
\* session with SEID 1).
LenderIsSound ==
    \A s \in live : table[s].seid = 1 => Null \notin Range(table[s].qers)

\* "Get first creates session", "Always search QERID=1": the lookups of QERs
\* meet no NULL.
QerListsAreSafe == ~fault

\* "Flush it after the shared session maps have been removed so no new packet
\* can legitimately join the session": no PDR of a deleted session is left in
\* the list the classifier is built from.
PdrsHaveSessions ==
    \A p \in allPdr : p.slot \in live /\ table[p.slot].seid = p.seid

\* For TLC: indexes, keys and the ids of PDRs are interchangeable.
Symmetry == Permutations(Slots) \cup Permutations(Teids) \cup Permutations(UeIps)
            \cup Permutations(PdrIds)
=============================================================================
