----------------------------- MODULE Ownership ------------------------------
(***************************************************************************)
(* Which worker serves a session: UPF-C configures the workers and gives   *)
(* every new session one in turn (upf_events.c, upf_context.c), UPF-LB     *)
(* sends the packets of a session to its worker (upf_lb.c), and a worker   *)
(* hands on a packet of a session that is not its own (upf_u.c).  The      *)
(* session table is shared memory without a lock, so a step of one process *)
(* ends at each of its reads or writes of it.  Workers have no list of     *)
(* workers: UpfSessionEnsureWorkerServiceId never chooses one there.       *)
(*                                                                         *)
(* A session has one TEID and one UE address, both named by its key.       *)
(* UpfMixTeid is a fixed function of the TEID, here the constant Mix.      *)
(***************************************************************************)
EXTENDS Integers, Sequences, FiniteSets, Functions, FiniteSetTheorems, TLAPS

CONSTANTS
    ServiceIds,     \* service ids a configuration may list
    UpfCId,         \* UPF_C_SERVICE_ID
    Invalid,        \* UPF_INVALID_SERVICE_ID
    MaxWorkers,     \* UPF_MAX_WORKERS
    SessionKeys,    \* sessions, as integers
    Mix(_),         \* UpfMixTeid
    Indexes,        \* places of the session table
    MaxSessions,    \* bound on sessions made
    MaxLbPkts       \* bound on packets

ASSUME OwnAssumption ==
    /\ MaxWorkers \in Nat /\ MaxSessions \in Nat
    /\ \A k \in SessionKeys : k # -1 /\ Mix(k) \in Nat
    /\ -1 \notin Indexes

VARIABLES
    worker_ids,     \* g_upf_worker_service_ids, with g_upf_worker_count its length
    rr_next,        \* g_upf_worker_rr_next
    table,          \* index -> the session: key, worker_service_id, serial number
    teidMap,        \* key -> index
    ueMap,
    upfC,           \* UPF-C: what it is doing and for which key and index
    lb,             \* UPF-LB: likewise
    workerRing,     \* worker -> packets, with the number of hand-ons
    made, pkts,
    given,          \* history: the workers of the sessions made, in order
    late,           \* history: sessions that UPF-LB gave a worker
    served          \* history: serial number of session -> workers that served it

ownVars == <<worker_ids, rr_next, table, teidMap, ueMap, upfC, lb, workerRing, made, pkts, given,
             late, served>>
keyMaps == <<teidMap, ueMap>>

None == -1
Blank == [key |-> None, worker |-> Invalid, serial |-> 0]
AtRest == [pc |-> "idle", key |-> None, at |-> None, ul |-> FALSE]

\* Mutant: a list with a repeated service id is accepted.
ConfigSetRepeats(ids) ==
    IF ids # <<>> /\ Len(ids) <= MaxWorkers /\ \A i \in 1..Len(ids) : ids[i] \notin {Invalid, UpfCId}
    THEN ids ELSE <<>>

\* UpfWorkerConfigSet: the list taken, or the empty one of a reset.
UpfWorkerConfigSet(ids) ==
    IF /\ ids # <<>> /\ Len(ids) <= MaxWorkers
       /\ \A i \in 1..Len(ids) : ids[i] \notin {Invalid, UpfCId} /\ \A j \in 1..i - 1 : ids[j] # ids[i]
    THEN ids ELSE <<>>

\* What a configuration may list: the service ids of up to one worker too many.
Listed == UNION {[1..n -> ServiceIds] : n \in 0..MaxWorkers + 1}

\* UPF-C and UPF-LB exit when their list is refused.
OwnInit ==
    /\ worker_ids \in {UpfWorkerConfigSet(ids) : ids \in Listed} \ {<<>>}
    /\ rr_next = 0
    /\ table = [i \in Indexes |-> Blank]
    /\ teidMap = [k \in SessionKeys |-> None] /\ ueMap = [k \in SessionKeys |-> None]
    /\ upfC = AtRest /\ lb = AtRest
    /\ workerRing = [w \in ServiceIds |-> <<>>]
    /\ made = 0 /\ pkts = 0
    /\ given = <<>> /\ late = {}
    /\ served = [n \in 1..MaxSessions |-> {}]

UpfSelectWorkerServiceIdByTeid(k) == worker_ids[(Mix(k) % Len(worker_ids)) + 1]

-----------------------------------------------------------------------------
(* UPF-C: UpfSessionAdd and UpfSessionRemove.                              *)

Used == {upfC.at} \cup {i \in Indexes : table[i].serial > 0}

\* UpfSessionAlloc clears the place of the session.
UpfSessionAlloc(k, i) ==
    /\ upfC.pc = "idle" /\ teidMap[k] = None
    /\ made < MaxSessions
    /\ i \notin Used
    /\ table' = [table EXCEPT ![i] = [key |-> k, worker |-> Invalid, serial |-> made + 1]]
    /\ made' = made + 1
    /\ upfC' = [pc |-> "worker", key |-> k, at |-> i, ul |-> FALSE]
    /\ UNCHANGED <<worker_ids, rr_next, keyMaps, lb, workerRing, pkts, given, late, served>>

\* UpfSelectWorkerServiceIdRoundRobin.
AssignWorker ==
    /\ upfC.pc = "worker"
    /\ LET index == rr_next % Len(worker_ids)
       IN  /\ table' = [table EXCEPT ![upfC.at].worker = worker_ids[index + 1]]
           /\ rr_next' = (index + 1) % Len(worker_ids)
           /\ given' = Append(given, worker_ids[index + 1])
    /\ upfC' = [upfC EXCEPT !.pc = "teid"]
    /\ UNCHANGED <<worker_ids, keyMaps, lb, workerRing, made, pkts, late, served>>

InsertTEIDtoSessionMap ==
    /\ upfC.pc = "teid"
    /\ teidMap' = [teidMap EXCEPT ![upfC.key] = upfC.at]
    /\ upfC' = [upfC EXCEPT !.pc = "ue"]
    /\ UNCHANGED <<worker_ids, rr_next, table, ueMap, lb, workerRing, made, pkts, given, late, served>>

InsertUEIPtoSessionMap ==
    /\ upfC.pc = "ue"
    /\ ueMap' = [ueMap EXCEPT ![upfC.key] = upfC.at]
    /\ upfC' = AtRest
    /\ UNCHANGED <<worker_ids, rr_next, table, teidMap, lb, workerRing, made, pkts, given, late, served>>

UpfSessionRemove(k) ==
    /\ upfC.pc = "idle" /\ teidMap[k] # None
    /\ ueMap' = [ueMap EXCEPT ![k] = None]
    /\ upfC' = [pc |-> "unteid", key |-> k, at |-> teidMap[k], ul |-> FALSE]
    /\ UNCHANGED <<worker_ids, rr_next, table, teidMap, lb, workerRing, made, pkts, given, late, served>>

TeidToUpfSessionMapFree ==
    /\ upfC.pc = "unteid"
    /\ teidMap' = [teidMap EXCEPT ![upfC.key] = None]
    /\ upfC' = [upfC EXCEPT !.pc = "free"]
    /\ UNCHANGED <<worker_ids, rr_next, table, ueMap, lb, workerRing, made, pkts, given, late, served>>

\* The place may be given away again; what it holds stays until then.
UpfSessionFree ==
    /\ upfC.pc = "free"
    /\ table' = [table EXCEPT ![upfC.at].serial = 0]
    /\ upfC' = AtRest
    /\ UNCHANGED <<worker_ids, rr_next, keyMaps, lb, workerRing, made, pkts, given, late, served>>

-----------------------------------------------------------------------------
(* UPF-LB: packet_handler for a packet of the access or the core side.     *)

SendTo(w, k, ul, hops) ==
    workerRing' = [workerRing EXCEPT ![w] = Append(@, [key |-> k, ul |-> ul, hops |-> hops])]

\* The session is looked up.  An uplink packet without one goes by its TEID,
\* a downlink packet without one is dropped.
FindSession(k, ul) ==
    /\ lb.pc = "idle" /\ pkts < MaxLbPkts
    /\ pkts' = pkts + 1
    /\ LET i == IF ul THEN teidMap[k] ELSE ueMap[k]
       IN  IF i # None
           THEN lb' = [pc |-> "ensure", key |-> k, at |-> i, ul |-> ul] /\ UNCHANGED workerRing
           ELSE /\ IF ul THEN SendTo(UpfSelectWorkerServiceIdByTeid(k), k, ul, 0)
                   ELSE UNCHANGED workerRing
                /\ UNCHANGED lb
    /\ UNCHANGED <<worker_ids, rr_next, table, keyMaps, upfC, made, given, late, served>>

\* UpfSessionEnsureWorkerServiceId: the worker is read, and chosen by the
\* TEID when the session has none.
Ensure ==
    /\ lb.pc = "ensure"
    /\ LET w == table[lb.at].worker
       IN  IF w # Invalid
           THEN /\ IF w \in Range(worker_ids) THEN SendTo(w, lb.key, lb.ul, 0)
                   ELSE UNCHANGED workerRing
                /\ lb' = AtRest
           ELSE lb' = [lb EXCEPT !.pc = "set"] /\ UNCHANGED workerRing
    /\ UNCHANGED <<worker_ids, rr_next, table, keyMaps, upfC, made, pkts, given, late, served>>

EnsureSets ==
    /\ lb.pc = "set"
    /\ LET w == UpfSelectWorkerServiceIdByTeid(lb.key)
       IN  /\ table' = [table EXCEPT ![lb.at].worker = w]
           /\ SendTo(w, lb.key, lb.ul, 0)
    /\ late' = late \cup {table[lb.at].serial}
    /\ lb' = AtRest
    /\ UNCHANGED <<worker_ids, rr_next, keyMaps, upfC, made, pkts, given, served>>

\* An ARP packet: a request for an address of the UPF is answered here, any
\* other goes to the first worker and, as far as mbufs allow, cloned to the rest.
ArpPacket(forUs, cloned) ==
    /\ lb.pc = "idle" /\ pkts < MaxLbPkts
    /\ pkts' = pkts + 1
    /\ workerRing' = [w \in ServiceIds |->
                         IF ~forUs /\ w \in Range(worker_ids) /\ (w = worker_ids[1] \/ w \in cloned)
                         THEN Append(workerRing[w], [key |-> None, ul |-> FALSE, hops |-> 0])
                         ELSE workerRing[w]]
    /\ UNCHANGED <<worker_ids, rr_next, table, keyMaps, upfC, lb, made, given, late, served>>

-----------------------------------------------------------------------------
(* A worker takes the first packet of its ring.                            *)

Pop(w) == workerRing' = [workerRing EXCEPT ![w] = Tail(@)]

\* Mutant: a packet of another worker's session is served.
NeverRedirect(w, owner) == FALSE

\* Mutant: a worker hands on the packets of its own sessions too.
RedirectAlways(w, owner) == owner # Invalid

redirect_to_owner_if_needed(w, owner) == owner \notin {Invalid, w}

packet_handler(w) ==
    /\ workerRing[w] # <<>>
    /\ LET p == Head(workerRing[w])
           i == IF p.key = None THEN None ELSE IF p.ul THEN teidMap[p.key] ELSE ueMap[p.key]
       IN  \/ /\ i = None
              /\ Pop(w)
              /\ UNCHANGED served
           \/ /\ i # None
              /\ redirect_to_owner_if_needed(w, table[i].worker)
              /\ workerRing' =
                    [workerRing EXCEPT ![w] = Tail(@),
                                       ![table[i].worker] = Append(@, [p EXCEPT !.hops = @ + 1])]
              /\ UNCHANGED served
           \/ /\ i # None
              /\ ~redirect_to_owner_if_needed(w, table[i].worker)
              /\ Pop(w)
              /\ served' = IF table[i].serial = 0 THEN served
                           ELSE [served EXCEPT ![table[i].serial] = @ \cup {w}]
    /\ UNCHANGED <<worker_ids, rr_next, table, keyMaps, upfC, lb, made, pkts, given, late>>

Add == \/ \E k \in SessionKeys, i \in Indexes : UpfSessionAlloc(k, i)
       \/ AssignWorker \/ InsertTEIDtoSessionMap \/ InsertUEIPtoSessionMap

Delete == (\E k \in SessionKeys : UpfSessionRemove(k)) \/ TeidToUpfSessionMapFree \/ UpfSessionFree

Balance == \/ \E k \in SessionKeys, ul \in BOOLEAN : FindSession(k, ul)
           \/ Ensure \/ EnsureSets
           \/ \E forUs \in BOOLEAN, cloned \in SUBSET Range(Tail(worker_ids)) : ArpPacket(forUs, cloned)

OwnNext == Add \/ Delete \/ Balance \/ \E w \in ServiceIds : packet_handler(w)

OwnSpec == OwnInit /\ [][OwnNext]_ownVars

-----------------------------------------------------------------------------
\* The packets of a session, uplink and downlink, are served by one worker,
\* whose shaper and meters therefore see all of its traffic, although the
\* worker is chosen, read and handed on by three processes without a lock.
\* The one exception is a load balancer that found a session, was overtaken
\* by its removal and by the next user of its place, and chose for it.
OneWorkerServes == \A n \in (1..MaxSessions) \ late : Cardinality(served[n]) <= 1

\* No packet goes round among the workers: it is handed on only as often as
\* the worker of its session was chosen.
HandOnsAreBounded ==
    \A w \in ServiceIds : \A i \in 1..Len(workerRing[w]) :
        workerRing[w][i].hops <= made + Cardinality(late)

\* Sessions are spread evenly, whatever list of workers was accepted.
Given(w) == {n \in 1..Len(given) : given[n] = w}
SessionsAreSpread ==
    \A v, w \in Range(worker_ids) : Cardinality(Given(v)) <= Cardinality(Given(w)) + 1

\* A session is served by one worker, no packet circulates among the workers, and
\* round robin spreads the sessions.
SessionsHaveOneWorker == OneWorkerServes /\ HandOnsAreBounded /\ SessionsAreSpread

-----------------------------------------------------------------------------
(* Proofs, for any set of service ids, sessions and places.                *)

Place == [key : SessionKeys \cup {None}, worker : ServiceIds \cup {Invalid}, serial : 0..MaxSessions]
Packet == [key : SessionKeys \cup {None}, ul : BOOLEAN, hops : Nat]
Doing(pcs) == [pc : pcs, key : SessionKeys \cup {None}, at : Indexes \cup {None}, ul : BOOLEAN]

OwnTypes ==
    /\ table \in [Indexes -> Place]
    /\ teidMap \in [SessionKeys -> Indexes \cup {None}]
    /\ ueMap \in [SessionKeys -> Indexes \cup {None}]
    /\ upfC \in Doing({"idle", "worker", "teid", "ue", "unteid", "free"})
    /\ lb \in Doing({"idle", "ensure", "set"})
    /\ workerRing \in [ServiceIds -> Seq(Packet)]
    /\ made \in 0..MaxSessions
    /\ late \in SUBSET (0..MaxSessions)
    /\ served \in [1..MaxSessions -> SUBSET ServiceIds]

\* The list of workers that was accepted.
ListInv ==
    /\ worker_ids \in Seq(ServiceIds) /\ worker_ids # <<>>
    /\ \A i \in 1..Len(worker_ids) :
          /\ worker_ids[i] # Invalid
          /\ \A j \in 1..Len(worker_ids) : worker_ids[i] = worker_ids[j] => i = j

\* The numbers of the sessions that are in the table.
SerialInv ==
    /\ \A i \in Indexes : table[i].serial <= made
    /\ \A i, j \in Indexes : table[i].serial = table[j].serial /\ table[i].serial > 0 => i = j

\* A session that can be found has a worker, whatever UPF-C is doing.
MapInv ==
    \A k \in SessionKeys :
        /\ ueMap[k] # None => ueMap[k] = teidMap[k]
        /\ teidMap[k] # None =>
              /\ table[teidMap[k]].serial > 0 /\ table[teidMap[k]].key = k
              /\ table[teidMap[k]].worker # Invalid

\* Where UPF-C is with the session it makes or removes.
UpfCInv ==
    /\ upfC.pc = "idle" => upfC.at = None
    /\ upfC.pc # "idle" =>
          /\ upfC.at \in Indexes /\ upfC.key \in SessionKeys
          /\ table[upfC.at].serial > 0 /\ table[upfC.at].key = upfC.key
          /\ ueMap[upfC.key] = None
          /\ teidMap[upfC.key] = IF upfC.pc \in {"ue", "unteid"} THEN upfC.at ELSE None
    /\ upfC.pc \in {"teid", "ue", "unteid", "free"} => table[upfC.at].worker # Invalid

\* UPF-LB chooses at most once for a session.
LateInv ==
    /\ lb.pc # "idle" => lb.at \in Indexes /\ lb.key \in SessionKeys
    /\ \A n \in late : n <= made
    /\ \A i \in Indexes : table[i].serial > 0 /\ table[i].serial \in late => table[i].worker # Invalid
    /\ lb.pc = "set" /\ table[lb.at].serial > 0 => table[lb.at].serial \notin late

\* A session was served by the worker in the table only.
ServedInv ==
    /\ \A n \in 1..MaxSessions : n > made => served[n] = {}
    /\ \A n \in (1..MaxSessions) \ late : \E w \in ServiceIds \cup {Invalid} : served[n] \subseteq {w}
    /\ \A i \in Indexes : table[i].serial > 0 /\ table[i].serial \notin late =>
          /\ served[table[i].serial] \subseteq {table[i].worker}
          /\ upfC.pc = "worker" /\ upfC.at = i => served[table[i].serial] = {}

\* What a packet that waits at worker w can still be handed on: less than the bound
\* when its session has another worker, or is about to get one.
Home(p) == IF p.key = None THEN None ELSE IF p.ul THEN teidMap[p.key] ELSE ueMap[p.key]
Elsewhere(w, p) == Home(p) # None /\ table[Home(p)].worker # w
Coming(p) == /\ upfC.key = p.key /\ p.key # None
             /\ upfC.pc \in {"worker", "teid"} \/ (upfC.pc = "ue" /\ ~p.ul)
HopsBound == made + Cardinality(late)
WellHopped(w, p) ==
    p.hops <= HopsBound /\ (Elsewhere(w, p) \/ Coming(p) => p.hops < HopsBound)
HopsInv == \A w \in ServiceIds : \A n \in 1..Len(workerRing[w]) : WellHopped(w, workerRing[w][n])

\* Round robin has given every worker before its pointer one session more than the rest.
SpreadInv ==
    /\ rr_next \in 0..Len(worker_ids) - 1
    /\ given \in Seq(ServiceIds)
    /\ \E q \in Nat : \A i \in 1..Len(worker_ids) :
          Cardinality(Given(worker_ids[i])) = IF i <= rr_next THEN q + 1 ELSE q

OwnInv == /\ OwnTypes /\ ListInv /\ SerialInv /\ MapInv /\ UpfCInv /\ LateInv /\ ServedInv /\ HopsInv
          /\ SpreadInv

\* A leaf is tried with Z3 and then with Zenon.
USE SMTT(20), ZenonT(20)

\* The elements of a sequence.
LEMMA SeqElement ==
    ASSUME NEW T, NEW q \in Seq(T), NEW n \in 1..Len(q)
    PROVE  q[n] \in T
OBVIOUS

\* The serial of a session is a positive number.
LEMMA SerialIsSet ==
    ASSUME NEW n \in 1..MaxSessions
    PROVE  n > 0
BY OwnAssumption

\* What is above a number is not below it.
LEMMA AboveIsOther ==
    ASSUME NEW n \in 1..MaxSessions, NEW a \in 1..MaxSessions, NEW b \in Nat, a <= b, n > b
    PROVE  n # a
BY OwnAssumption

\* One more stays within a bound that was not reached.
LEMMA OneMore ==
    ASSUME NEW a \in Nat, NEW b \in Nat, a < b
    PROVE  a + 1 <= b
OBVIOUS

\* The worker a session is given is one of the list, so never the invalid one.
LEMMA ChosenWorker ==
    ASSUME ListInv, NEW n \in Nat
    PROVE  /\ n % Len(worker_ids) \in 0..Len(worker_ids) - 1
           /\ worker_ids[(n % Len(worker_ids)) + 1] \in ServiceIds \ {Invalid}
<1>1. Len(worker_ids) \in Nat /\ Len(worker_ids) > 0
  BY DEF ListInv
<1>2. n % Len(worker_ids) \in 0..Len(worker_ids) - 1
  BY <1>1
<1> QED
  BY <1>1, <1>2 DEF ListInv

\* There are finitely many sessions UPF-LB chose for.
LEMMA LateIsFinite ==
    ASSUME OwnTypes
    PROVE  IsFiniteSet(late) /\ Cardinality(late) \in Nat
<1>1. late \subseteq 0..MaxSessions /\ MaxSessions \in Int /\ 0 \in Int
  BY OwnAssumption DEF OwnTypes
<1>2. IsFiniteSet(0..MaxSessions)
  BY <1>1, FS_Interval, ZenonT(30)
<1>3. IsFiniteSet(late)
  BY <1>1, <1>2, FS_Subset, ZenonT(30)
<1> QED
  BY <1>3, FS_CardinalityType, ZenonT(30)

\* The bound on the hand-ons, as a number.
LEMMA BoundIsNumber ==
    ASSUME OwnTypes
    PROVE  HopsBound \in Nat /\ HopsBound >= made
<1>1. Cardinality(late) \in Nat
  BY LateIsFinite
<1>2. made \in Nat
  BY OwnAssumption DEF OwnTypes
<1> QED
  BY <1>1, <1>2 DEF HopsBound

\* The hand-ons stay bounded when every packet at a worker was there before, or is
\* within the bound.
LEMMA HopsStep ==
    ASSUME HopsInv, OwnTypes,
           \A w \in ServiceIds, p \in Packet : WellHopped(w, p) => WellHopped(w, p)',
           \A w \in ServiceIds : \A n \in 1..Len(workerRing'[w]) : \E p \in Packet :
              /\ workerRing'[w][n] = p
              /\ (\E m \in 1..Len(workerRing[w]) : workerRing[w][m] = p) \/ WellHopped(w, p)'
    PROVE  HopsInv'
<1> SUFFICES ASSUME NEW w \in ServiceIds, NEW n \in 1..Len(workerRing'[w])
             PROVE  WellHopped(w, workerRing[w][n])'
  BY DEF HopsInv
<1>1. PICK p \in Packet : /\ workerRing'[w][n] = p
                          /\ (\E m \in 1..Len(workerRing[w]) : workerRing[w][m] = p) \/ WellHopped(w, p)'
  OBVIOUS
<1>2. WellHopped(w, p)'
  BY <1>1 DEF HopsInv
<1> QED
  BY <1>1, <1>2 DEF WellHopped, Elsewhere, Coming, Home

\* The same when no packet moves.
LEMMA HopsRest ==
    ASSUME HopsInv, OwnTypes, workerRing' = workerRing,
           \A w \in ServiceIds, p \in Packet : WellHopped(w, p) => WellHopped(w, p)'
    PROVE  HopsInv'
<1>1. ASSUME NEW w \in ServiceIds, NEW n \in 1..Len(workerRing'[w])
      PROVE  \E p \in Packet : /\ workerRing'[w][n] = p
                               /\ \E m \in 1..Len(workerRing[w]) : workerRing[w][m] = p
  <2>1. workerRing[w] \in Seq(Packet) /\ n \in 1..Len(workerRing[w])
    BY DEF OwnTypes
  <2>2. workerRing[w][n] \in Packet
    BY <2>1
  <2> QED
    BY <2>1, <2>2
<1> QED
  BY <1>1, HopsStep

\* The same when a packet is put behind the others of worker v.
LEMMA HopsPush ==
    ASSUME HopsInv, OwnTypes, NEW v \in ServiceIds, NEW e \in Packet,
           workerRing' = [workerRing EXCEPT ![v] = Append(@, e)],
           \A w \in ServiceIds, p \in Packet : WellHopped(w, p) => WellHopped(w, p)',
           WellHopped(v, e)'
    PROVE  HopsInv' /\ workerRing' \in [ServiceIds -> Seq(Packet)]
<1>1. ASSUME NEW w \in ServiceIds, NEW n \in 1..Len(workerRing'[w])
      PROVE  \E p \in Packet : /\ workerRing'[w][n] = p
                               /\ (\E m \in 1..Len(workerRing[w]) : workerRing[w][m] = p) \/ WellHopped(w, p)'
  <2>1. workerRing[w] \in Seq(Packet)
    BY DEF OwnTypes
  <2>2. CASE w = v
    <3>1. workerRing'[w] = Append(workerRing[w], e)
      BY <2>2 DEF OwnTypes
    <3>2. CASE n = Len(workerRing[w]) + 1
      BY <2>1, <2>2, <3>1, <3>2
    <3>3. CASE n # Len(workerRing[w]) + 1
      <4>1. n \in 1..Len(workerRing[w]) /\ workerRing'[w][n] = workerRing[w][n] /\ workerRing[w][n] \in Packet
        BY <2>1, <3>1, <3>3
      <4> QED
        BY <4>1
    <3> QED
      BY <3>2, <3>3
  <2>3. CASE w # v
    <3>1. workerRing'[w] = workerRing[w]
      BY <2>3 DEF OwnTypes
    <3>2. n \in 1..Len(workerRing[w])
      BY <3>1, ZenonT(30)
    <3>3. workerRing[w][n] \in Packet
      BY <2>1, <3>2
    <3> QED
      BY <3>1, <3>2, <3>3
  <2> QED
    BY <2>2, <2>3
<1>2. HopsInv'
  BY <1>1, HopsStep
<1>3. workerRing' \in [ServiceIds -> Seq(Packet)]
  BY DEF OwnTypes
<1> QED
  BY <1>2, <1>3

\* The list of workers, and what each was given, when no session gets a worker.
LEMMA ListRests ==
    ASSUME ListInv, SpreadInv, worker_ids' = worker_ids, rr_next' = rr_next, given' = given
    PROVE  ListInv' /\ SpreadInv'
<1>1. ListInv'
  BY DEF ListInv
<1>2. \A w : Given(w)' = Given(w)
  BY DEF Given
<1>3. SpreadInv'
  BY <1>2, ZenonT(30) DEF SpreadInv
<1> QED
  BY <1>1, <1>3

\* UPF-C: a place that is not used is not known to any key.
LEMMA AllocKeeps ==
    ASSUME OwnInv, NEW k \in SessionKeys, NEW i \in Indexes, UpfSessionAlloc(k, i)
    PROVE  OwnInv'
<1> DEFINE row == [key |-> k, worker |-> Invalid, serial |-> made + 1]
<1>1. /\ table' = [table EXCEPT ![i] = row] /\ made' = made + 1 /\ made < MaxSessions
      /\ upfC' = [pc |-> "worker", key |-> k, at |-> i, ul |-> FALSE]
      /\ upfC.pc = "idle" /\ teidMap[k] = None /\ table[i].serial = 0
      /\ UNCHANGED <<worker_ids, rr_next, teidMap, ueMap, lb, workerRing, given, late, served>>
  <2>1. table[i].serial = 0
    BY DEF UpfSessionAlloc, Used, OwnInv, OwnTypes, Place
  <2> QED
    BY <2>1 DEF UpfSessionAlloc, keyMaps
<1>2. made \in Nat /\ made + 1 \in 1..MaxSessions /\ MaxSessions \in Nat
  BY <1>1, OwnAssumption DEF OwnInv, OwnTypes
<1>3. /\ table'[i] = row /\ \A j \in Indexes \ {i} : table'[j] = table[j]
      /\ table \in [Indexes -> Place]
  BY <1>1 DEF OwnInv, OwnTypes
<1>4. \A kk \in SessionKeys : teidMap[kk] # i /\ ueMap[kk] # i
  BY <1>1, OwnAssumption DEF OwnInv, MapInv, None
<1>5. row \in Place
  BY <1>2 DEF Place
<1> HIDE DEF row
<1>6. OwnTypes'
  <2>1. table' \in [Indexes -> Place]
    BY <1>1, <1>3, <1>5
  <2>2. made' \in 0..MaxSessions
    BY <1>1, <1>2
  <2>3. upfC' \in Doing({"idle", "worker", "teid", "ue", "unteid", "free"})
    BY <1>1 DEF Doing
  <2> QED
    BY <1>1, <2>1, <2>2, <2>3 DEF OwnInv, OwnTypes
<1>7. ListInv' /\ SpreadInv'
  BY <1>1, ListRests DEF OwnInv
<1>8. SerialInv'
  <2>1. \A j \in Indexes : table[j].serial \in Nat /\ table[j].serial <= made
    BY <1>3 DEF OwnInv, SerialInv, Place
  <2>2. table'[i].serial = made + 1
    BY <1>3 DEF row
  <2>3. \A j \in Indexes \ {i} : table'[j].serial < made + 1
    BY <1>2, <1>3, <2>1
  <2>4. \A j \in Indexes : table'[j].serial <= made'
    BY <1>1, <1>2, <2>2, <2>3, <1>3, <2>1
  <2>5. ASSUME NEW j \in Indexes, NEW l \in Indexes, table'[j].serial = table'[l].serial, table'[j].serial > 0
        PROVE  j = l
    <3>1. CASE j # i /\ l # i
      BY <1>3, <2>5, <3>1 DEF OwnInv, SerialInv
    <3>2. CASE j = i \/ l = i
      BY <1>2, <2>2, <2>3, <2>5, <3>2, <2>1, <1>3
    <3> QED
      BY <3>1, <3>2
  <2> QED
    BY <2>4, <2>5 DEF SerialInv
<1>9. MapInv'
  <2> SUFFICES ASSUME NEW kk \in SessionKeys
               PROVE  /\ ueMap[kk] # None => ueMap[kk] = teidMap[kk]
                      /\ teidMap[kk] # None =>
                            /\ table'[teidMap[kk]].serial > 0 /\ table'[teidMap[kk]].key = kk
                            /\ table'[teidMap[kk]].worker # Invalid
    BY <1>1 DEF MapInv
  <2>1. teidMap[kk] # None => teidMap[kk] \in Indexes \ {i}
    BY <1>4 DEF OwnInv, OwnTypes
  <2> QED
    BY <1>3, <2>1 DEF OwnInv, MapInv
<1>10. UpfCInv'
  BY <1>1, <1>2, <1>3 DEF OwnInv, MapInv, UpfCInv, row
<1>11. LateInv'
  <2>1. \A n \in late : n \in Nat /\ n <= made
    BY DEF OwnInv, LateInv, OwnTypes
  <2>2. made + 1 \notin late /\ \A n \in late : n <= made'
    BY <1>1, <1>2, <2>1
  <2>3. \A j \in Indexes : table'[j].serial > 0 /\ table'[j].serial \in late => table'[j].worker # Invalid
    BY <1>3, <2>2 DEF OwnInv, LateInv, row
  <2>4. lb.pc = "set" /\ table'[lb.at].serial > 0 => table'[lb.at].serial \notin late
    BY <1>3, <2>2 DEF OwnInv, LateInv, row
  <2> QED
    BY <1>1, <2>2, <2>3, <2>4 DEF OwnInv, LateInv
<1>12. ServedInv'
  <2>1. served[made + 1] = {}
    BY <1>2 DEF OwnInv, ServedInv
  <2>2. \A n \in 1..MaxSessions : n > made' => n > made
    BY <1>1, <1>2
  <2>3. \A j \in Indexes \ {i} : ~(upfC'.pc = "worker" /\ upfC'.at = j)
    BY <1>1
  <2>4. ASSUME NEW j \in Indexes, table'[j].serial > 0, table'[j].serial \notin late
        PROVE  /\ served[table'[j].serial] \subseteq {table'[j].worker}
               /\ upfC'.pc = "worker" /\ upfC'.at = j => served[table'[j].serial] = {}
    <3>1. CASE j = i
      BY <1>3, <2>1, <3>1 DEF row
    <3>2. CASE j # i
      BY <1>3, <2>3, <2>4, <3>2 DEF OwnInv, ServedInv
    <3> QED
      BY <3>1, <3>2
  <2> QED
    BY <1>1, <2>2, <2>4 DEF OwnInv, ServedInv
<1>13. HopsInv'
  <2>1. HopsBound \in Nat /\ Cardinality(late) \in Nat
    BY BoundIsNumber, LateIsFinite DEF OwnInv
  <2>2. HopsBound' = HopsBound + 1
    BY <1>1, <1>2, <2>1 DEF HopsBound
  <2>3. ASSUME NEW w \in ServiceIds, NEW p \in Packet, WellHopped(w, p)
        PROVE  WellHopped(w, p)'
    <3>1. p.hops \in Nat /\ p.hops <= HopsBound
      BY <2>3 DEF Packet, WellHopped
    <3>2. p.hops < HopsBound'
      BY <2>1, <2>2, <3>1
    <3> QED
      BY <3>1, <3>2, <2>1, <2>2 DEF WellHopped
  <2> QED
    BY <1>1, <2>3, HopsRest DEF OwnInv
<1> QED
  BY <1>6, <1>7, <1>8, <1>9, <1>10, <1>11, <1>12, <1>13 DEF OwnInv

\* The sessions a worker was given, after one more was given to worker x.
LEMMA GivenCount ==
    ASSUME given \in Seq(ServiceIds), NEW x \in ServiceIds, given' = Append(given, x), NEW v
    PROVE  /\ Cardinality(Given(v)) \in Nat
           /\ Cardinality(Given(v)') = IF v = x THEN Cardinality(Given(v)) + 1 ELSE Cardinality(Given(v))
<1> DEFINE S == {n \in 1..Len(given) : given[n] = v}
           T == {n \in 1..Len(given') : given'[n] = v}
           l == Len(given) + 1
<1>1. Len(given) \in Nat /\ 1 \in Int /\ Len(given) \in Int
  OBVIOUS
<1>2. Len(given') = l /\ given'[l] = x /\ \A n \in 1..Len(given) : given'[n] = given[n]
  OBVIOUS
<1>3. l \notin S /\ S \subseteq 1..Len(given)
  BY <1>1
<1>4. T = IF v = x THEN S \cup {l} ELSE S
  <2>1. ASSUME NEW n PROVE n \in 1..Len(given') <=> n \in 1..Len(given) \/ n = l
    BY <1>1, <1>2
  <2> HIDE DEF l
  <2>2. ASSUME NEW n PROVE n \in T <=> n \in S \/ (n = l /\ v = x)
    BY <1>2, <2>1, <1>3
  <2> QED
    BY <2>2
<1>5. IsFiniteSet(1..Len(given))
  BY <1>1, FS_Interval, ZenonT(30)
<1>6. IsFiniteSet(S)
  BY <1>3, <1>5, FS_Subset, ZenonT(30)
<1>7. S = Given(v) /\ T = Given(v)'
  BY DEF Given
<1> HIDE DEF S, T, l
<1>8. Cardinality(S) \in Nat
  BY <1>6, FS_CardinalityType, ZenonT(30)
<1>9. Cardinality(S \cup {l}) = Cardinality(S) + 1
  BY <1>3, <1>6, FS_AddElement, ZenonT(30)
<1> QED
  BY <1>4, <1>7, <1>8, <1>9, ZenonT(30)

\* UPF-C: round robin goes on to the next worker.
LEMMA SpreadKeeps ==
    ASSUME ListInv, SpreadInv, AssignWorker
    PROVE  SpreadInv'
<1> DEFINE L == Len(worker_ids)
           x == worker_ids[rr_next + 1]
<1>1. L \in Nat /\ L > 0 /\ rr_next \in 0..L - 1 /\ given \in Seq(ServiceIds)
  BY DEF ListInv, SpreadInv
<1>2. rr_next % L = rr_next /\ (rr_next + 1) % L = IF rr_next + 1 = L THEN 0 ELSE rr_next + 1
  BY <1>1
<1>3. x \in ServiceIds
  BY <1>1 DEF ListInv
<1>4. /\ worker_ids' = worker_ids /\ given' = Append(given, x)
      /\ rr_next' = IF rr_next + 1 = L THEN 0 ELSE rr_next + 1
  BY <1>2 DEF AssignWorker
<1>5. PICK q \in Nat : \A i \in 1..L : Cardinality(Given(worker_ids[i])) = IF i <= rr_next THEN q + 1 ELSE q
  BY DEF SpreadInv
<1>6. ASSUME NEW i \in 1..L
      PROVE  Cardinality(Given(worker_ids[i])') = IF i <= rr_next + 1 THEN q + 1 ELSE q
  <2>1. worker_ids[i] = x <=> i = rr_next + 1
    BY <1>1 DEF ListInv
  <2>2. Cardinality(Given(worker_ids[i])') =
            IF worker_ids[i] = x THEN Cardinality(Given(worker_ids[i])) + 1
                                 ELSE Cardinality(Given(worker_ids[i]))
    <3> DEFINE v == worker_ids[i]
    <3>1. Cardinality(Given(v)') = IF v = x THEN Cardinality(Given(v)) + 1 ELSE Cardinality(Given(v))
      BY <1>1, <1>3, <1>4, GivenCount
    <3> QED
      BY <3>1
  <2>3. Cardinality(Given(worker_ids[i])) = IF i <= rr_next THEN q + 1 ELSE q
    BY <1>5
  <2> QED
    BY <1>1, <2>1, <2>2, <2>3
<1>7. rr_next' \in 0..L - 1 /\ given' \in Seq(ServiceIds)
  BY <1>1, <1>3, <1>4
<1>8. \E r \in Nat : \A i \in 1..L : Cardinality(Given(worker_ids[i])') = IF i <= rr_next' THEN r + 1 ELSE r
  <2>1. CASE rr_next + 1 = L
    <3>1. \A i \in 1..L : Cardinality(Given(worker_ids[i])') = q + 1 /\ ~(i <= rr_next')
      BY <1>1, <1>4, <1>6, <2>1
    <3>2. q + 1 \in Nat
      OBVIOUS
    <3> QED
      BY <3>1, <3>2
  <2>2. CASE rr_next + 1 # L
    BY <1>4, <1>6, <2>2, ZenonT(30)
  <2> QED
    BY <2>1, <2>2
<1> QED
  BY <1>4, <1>7, <1>8, ZenonT(30) DEF SpreadInv

\* UPF-C: the session that is being made is not known to any key.
LEMMA AssignKeeps ==
    ASSUME OwnInv, AssignWorker
    PROVE  OwnInv'
<1> DEFINE x == worker_ids[(rr_next % Len(worker_ids)) + 1]
           i == upfC.at
<1>1. /\ table' = [table EXCEPT ![i].worker = x] /\ upfC' = [upfC EXCEPT !.pc = "teid"]
      /\ upfC.pc = "worker"
      /\ UNCHANGED <<worker_ids, teidMap, ueMap, lb, workerRing, made, late, served>>
  BY DEF AssignWorker, keyMaps
<1>2. x \in ServiceIds /\ x # Invalid
  <2>1. rr_next \in Nat
    BY DEF OwnInv, SpreadInv, ListInv
  <2> QED
    BY <2>1, ChosenWorker, ZenonT(30) DEF OwnInv
<1> HIDE DEF x
<1>3. /\ i \in Indexes /\ upfC.key \in SessionKeys /\ teidMap[upfC.key] = None
      /\ ueMap[upfC.key] = None /\ table[i].key = upfC.key /\ table[i].serial > 0
  BY <1>1 DEF OwnInv, UpfCInv
<1>4. \A k \in SessionKeys : teidMap[k] # i
  BY <1>3, OwnAssumption DEF OwnInv, MapInv, None
<1>5. /\ table \in [Indexes -> Place] /\ table'[i] = [table[i] EXCEPT !.worker = x]
      /\ \A j \in Indexes \ {i} : table'[j] = table[j]
  BY <1>1, <1>3, ZenonT(30) DEF OwnInv, OwnTypes
<1>6. table[i] \in Place /\ table'[i] \in Place
  BY <1>2, <1>3, <1>5 DEF Place
<1>7. table'[i].worker = x /\ \A j \in Indexes : table'[j].serial = table[j].serial /\ table'[j].key = table[j].key
  BY <1>3, <1>5, <1>6 DEF Place
<1>8. /\ upfC'.pc = "teid" /\ upfC'.key = upfC.key /\ upfC'.at = i
      /\ upfC' \in Doing({"idle", "worker", "teid", "ue", "unteid", "free"})
  BY <1>1, ZenonT(30) DEF OwnInv, OwnTypes, Doing
<1>9. OwnTypes'
  <2>1. table' \in [Indexes -> Place]
    BY <1>1, <1>5, <1>6, ZenonT(30)
  <2> QED
    BY <1>1, <1>8, <2>1 DEF OwnInv, OwnTypes
<1>10. ListInv' /\ SpreadInv'
  BY <1>1, SpreadKeeps DEF OwnInv, ListInv
<1>11. SerialInv'
  BY <1>1, <1>7 DEF OwnInv, SerialInv
<1>12. MapInv'
  <2> SUFFICES ASSUME NEW k \in SessionKeys
               PROVE  /\ ueMap[k] # None => ueMap[k] = teidMap[k]
                      /\ teidMap[k] # None =>
                            /\ table'[teidMap[k]].serial > 0 /\ table'[teidMap[k]].key = k
                            /\ table'[teidMap[k]].worker # Invalid
    BY <1>1 DEF MapInv
  <2>1. teidMap[k] # None => teidMap[k] \in Indexes \ {i}
    BY <1>4 DEF OwnInv, OwnTypes
  <2> QED
    BY <1>5, <2>1 DEF OwnInv, MapInv
<1>13. UpfCInv'
  BY <1>1, <1>2, <1>3, <1>7, <1>8 DEF UpfCInv
<1>14. LateInv'
  <2>1. \A j \in Indexes : table'[j].serial > 0 /\ table'[j].serial \in late => table'[j].worker # Invalid
    BY <1>2, <1>5, <1>7, ZenonT(30) DEF OwnInv, LateInv
  <2> QED
    BY <1>1, <1>7, <2>1 DEF OwnInv, LateInv
<1>15. ServedInv'
  <2>1. ASSUME NEW j \in Indexes, table'[j].serial > 0, table'[j].serial \notin late
        PROVE  served[table'[j].serial] \subseteq {table'[j].worker}
    <3>1. CASE j = i
      BY <1>1, <1>7, <2>1, <3>1 DEF OwnInv, ServedInv
    <3>2. CASE j # i
      BY <1>5, <2>1, <3>2 DEF OwnInv, ServedInv
    <3> QED
      BY <3>1, <3>2
  <2> QED
    BY <1>1, <1>8, <2>1 DEF OwnInv, ServedInv
<1>16. HopsInv'
  <2>1. HopsBound' = HopsBound
    BY <1>1 DEF HopsBound
  <2>2. ASSUME NEW w \in ServiceIds, NEW p \in Packet, Elsewhere(w, p)' \/ Coming(p)'
        PROVE  Elsewhere(w, p) \/ Coming(p)
    <3>1. Coming(p)' => Coming(p)
      BY <1>1, <1>8 DEF Coming
    <3>2. Home(p)' = Home(p) /\ (Home(p) # None => Home(p) \in Indexes \ {i})
      BY <1>1, <1>4 DEF Home, Packet, OwnInv, OwnTypes, MapInv
    <3>3. Elsewhere(w, p)' => Elsewhere(w, p)
      BY <1>5, <3>2 DEF Elsewhere
    <3> QED
      BY <2>2, <3>1, <3>3
  <2>3. ASSUME NEW w \in ServiceIds, NEW p \in Packet, WellHopped(w, p)
        PROVE  WellHopped(w, p)'
    BY <2>1, <2>2, <2>3 DEF WellHopped
  <2> QED
    BY <1>1, <2>3, HopsRest DEF OwnInv
<1> QED
  BY <1>9, <1>10, <1>11, <1>12, <1>13, <1>14, <1>15, <1>16 DEF OwnInv

\* The steps of UPF-C that change what a key leads to and not the table.
MapStep == (\E k \in SessionKeys : UpfSessionRemove(k)) \/ TeidToUpfSessionMapFree \/ InsertTEIDtoSessionMap
           \/ InsertUEIPtoSessionMap

\* UPF-C: a session is entered in the maps after it has a worker, and is taken out of both
\* before its place is free.
LEMMA MapsKeep ==
    ASSUME OwnInv, MapStep
    PROVE  OwnInv'
<1>1. /\ UNCHANGED <<worker_ids, rr_next, table, lb, workerRing, made, given, late, served>>
      /\ upfC'.pc # "worker"
  BY DEF MapStep, UpfSessionRemove, TeidToUpfSessionMapFree, InsertTEIDtoSessionMap, InsertUEIPtoSessionMap,
         OwnInv, OwnTypes, Doing, AtRest
<1>2. ListInv' /\ SpreadInv'
  BY <1>1, ListRests DEF OwnInv
<1>3. SerialInv' /\ LateInv' /\ ServedInv'
  BY <1>1 DEF OwnInv, SerialInv, LateInv, ServedInv
<1>4. OwnTypes' /\ MapInv' /\ UpfCInv' /\ \A w \in ServiceIds, p \in Packet :
          Elsewhere(w, p)' \/ Coming(p)' => Elsewhere(w, p) \/ Coming(p)
  <2> DEFINE i == upfC.at
             k0 == upfC.key
  <2>1. /\ teidMap \in [SessionKeys -> Indexes \cup {None}] /\ ueMap \in [SessionKeys -> Indexes \cup {None}]
        /\ upfC \in Doing({"idle", "worker", "teid", "ue", "unteid", "free"})
        /\ None \notin SessionKeys /\ None \notin Indexes
    BY OwnAssumption DEF OwnInv, OwnTypes, None
  <2>2. \A p \in Packet : p.key \in SessionKeys \cup {None} /\ p.ul \in BOOLEAN
    BY DEF Packet
  <2>3. ASSUME NEW k \in SessionKeys, UpfSessionRemove(k)
        PROVE  /\ OwnTypes' /\ MapInv' /\ UpfCInv'
               /\ \A w \in ServiceIds, p \in Packet : Elsewhere(w, p)' \/ Coming(p)' => Elsewhere(w, p) \/ Coming(p)
    <3>1. /\ ueMap' = [ueMap EXCEPT ![k] = None] /\ teidMap' = teidMap /\ teidMap[k] # None
          /\ upfC' = [pc |-> "unteid", key |-> k, at |-> teidMap[k], ul |-> FALSE]
      BY <2>3 DEF UpfSessionRemove
    <3>2. OwnTypes'
      BY <1>1, <2>1, <3>1 DEF OwnInv, OwnTypes, Doing
    <3>3. MapInv'
      BY <1>1, <2>1, <3>1 DEF OwnInv, MapInv
    <3>4. UpfCInv'
      BY <1>1, <2>1, <3>1 DEF OwnInv, MapInv, UpfCInv
    <3>5. \A p \in Packet : Home(p)' \in {None, Home(p)} /\ ~Coming(p)'
      BY <2>1, <2>2, <3>1 DEF Home, Coming
    <3> QED
      BY <1>1, <3>2, <3>3, <3>4, <3>5 DEF Elsewhere
  <2>4. CASE TeidToUpfSessionMapFree
    <3>1. /\ teidMap' = [teidMap EXCEPT ![k0] = None] /\ ueMap' = ueMap /\ upfC.pc = "unteid"
          /\ upfC' = [upfC EXCEPT !.pc = "free"]
      BY <2>4 DEF TeidToUpfSessionMapFree
    <3>2. OwnTypes' /\ upfC'.pc = "free" /\ upfC'.key = k0 /\ upfC'.at = i
      BY <1>1, <2>1, <3>1, ZenonT(30) DEF OwnInv, OwnTypes, Doing
    <3>3. MapInv'
      BY <1>1, <2>1, <3>1 DEF OwnInv, MapInv, UpfCInv
    <3>4. UpfCInv'
      BY <1>1, <2>1, <3>1, <3>2 DEF OwnInv, UpfCInv
    <3>5. \A p \in Packet : Home(p)' \in {None, Home(p)} /\ ~Coming(p)'
      BY <2>1, <2>2, <3>1, <3>2 DEF Home, Coming
    <3> QED
      BY <1>1, <3>2, <3>3, <3>4, <3>5 DEF Elsewhere
  <2>5. CASE InsertTEIDtoSessionMap
    <3>1. /\ teidMap' = [teidMap EXCEPT ![k0] = i] /\ ueMap' = ueMap /\ upfC.pc = "teid"
          /\ upfC' = [upfC EXCEPT !.pc = "ue"]
      BY <2>5 DEF InsertTEIDtoSessionMap
    <3>2. k0 \in SessionKeys /\ i \in Indexes
      BY <3>1 DEF OwnInv, UpfCInv
    <3>3. OwnTypes' /\ upfC'.pc = "ue" /\ upfC'.key = k0 /\ upfC'.at = i
      BY <1>1, <2>1, <3>1, <3>2 DEF OwnInv, OwnTypes, Doing
    <3>4. MapInv'
      BY <1>1, <2>1, <3>1, <3>2 DEF OwnInv, MapInv, UpfCInv
    <3>5. UpfCInv'
      BY <1>1, <2>1, <3>1, <3>2, <3>3 DEF OwnInv, UpfCInv
    <3>6. \A p \in Packet : (Home(p)' = Home(p) \/ Coming(p)) /\ (Coming(p)' => Coming(p))
      BY <2>1, <2>2, <3>1, <3>2, <3>3 DEF Home, Coming
    <3> QED
      BY <1>1, <3>3, <3>4, <3>5, <3>6 DEF Elsewhere
  <2>6. CASE InsertUEIPtoSessionMap
    <3>1. /\ ueMap' = [ueMap EXCEPT ![k0] = i] /\ teidMap' = teidMap /\ upfC.pc = "ue"
          /\ upfC' = [pc |-> "idle", key |-> None, at |-> None, ul |-> FALSE]
      BY <2>6 DEF InsertUEIPtoSessionMap, AtRest
    <3>2. k0 \in SessionKeys /\ i \in Indexes /\ teidMap[k0] = i
      BY <3>1 DEF OwnInv, UpfCInv
    <3>3. OwnTypes'
      BY <1>1, <2>1, <3>1, <3>2, ZenonT(30) DEF OwnInv, OwnTypes, Doing
    <3>4. MapInv'
      BY <1>1, <2>1, <3>1, <3>2 DEF OwnInv, MapInv
    <3>5. UpfCInv'
      BY <3>1 DEF UpfCInv
    <3>6. \A p \in Packet : (Home(p)' = Home(p) \/ Coming(p)) /\ ~Coming(p)'
      BY <2>1, <2>2, <3>1, <3>2 DEF Home, Coming
    <3> QED
      BY <1>1, <3>3, <3>4, <3>5, <3>6 DEF Elsewhere
  <2> QED
    BY <2>3, <2>4, <2>5, <2>6 DEF MapStep
<1>5. HopsInv'
  <2>1. HopsBound' = HopsBound
    BY <1>1 DEF HopsBound
  <2>2. ASSUME NEW w \in ServiceIds, NEW p \in Packet, WellHopped(w, p)
        PROVE  WellHopped(w, p)'
    BY <1>4, <2>1, <2>2 DEF WellHopped
  <2> QED
    BY <1>1, <2>2, HopsRest DEF OwnInv
<1> QED
  BY <1>2, <1>3, <1>4, <1>5 DEF OwnInv

\* UPF-C: a place is given up when no key leads to it.
LEMMA FreeKeeps ==
    ASSUME OwnInv, UpfSessionFree
    PROVE  OwnInv'
<1> DEFINE i == upfC.at
<1>1. /\ table' = [table EXCEPT ![i].serial = 0] /\ upfC.pc = "free"
      /\ upfC' = [pc |-> "idle", key |-> None, at |-> None, ul |-> FALSE]
      /\ UNCHANGED <<worker_ids, rr_next, teidMap, ueMap, lb, workerRing, made, given, late, served>>
  BY DEF UpfSessionFree, AtRest, keyMaps
<1>2. i \in Indexes /\ teidMap[upfC.key] = None /\ table[i].key = upfC.key /\ None \notin Indexes
  BY <1>1, OwnAssumption DEF OwnInv, UpfCInv, None
<1>3. \A k \in SessionKeys : teidMap[k] # i
  BY <1>2 DEF OwnInv, MapInv
<1>4. /\ table \in [Indexes -> Place] /\ table'[i] = [table[i] EXCEPT !.serial = 0]
      /\ \A j \in Indexes \ {i} : table'[j] = table[j]
  BY <1>1, <1>2, ZenonT(30) DEF OwnInv, OwnTypes
<1>5. table'[i] \in Place /\ table'[i].serial = 0
  BY <1>2, <1>4, OwnAssumption DEF Place
<1>6. OwnTypes'
  <2>1. table' \in [Indexes -> Place]
    BY <1>1, <1>4, <1>5, ZenonT(30)
  <2> QED
    BY <1>1, <2>1 DEF OwnInv, OwnTypes, Doing
<1>7. ListInv' /\ SpreadInv'
  BY <1>1, ListRests DEF OwnInv
<1>8. SerialInv'
  <2>1. made \in Nat
    BY OwnAssumption DEF OwnInv, OwnTypes
  <2> QED
    BY <1>1, <1>4, <1>5, <2>1 DEF OwnInv, SerialInv
<1>9. MapInv'
  <2> SUFFICES ASSUME NEW k \in SessionKeys
               PROVE  /\ ueMap[k] # None => ueMap[k] = teidMap[k]
                      /\ teidMap[k] # None =>
                            /\ table'[teidMap[k]].serial > 0 /\ table'[teidMap[k]].key = k
                            /\ table'[teidMap[k]].worker # Invalid
    BY <1>1 DEF MapInv
  <2>1. teidMap[k] # None => teidMap[k] \in Indexes \ {i}
    BY <1>3 DEF OwnInv, OwnTypes
  <2> QED
    BY <1>4, <2>1 DEF OwnInv, MapInv
<1>10. UpfCInv'
  BY <1>1 DEF UpfCInv
<1>11. LateInv' /\ ServedInv'
  BY <1>1, <1>4, <1>5 DEF OwnInv, LateInv, ServedInv
<1>12. HopsInv'
  <2>1. HopsBound' = HopsBound
    BY <1>1 DEF HopsBound
  <2>2. ASSUME NEW w \in ServiceIds, NEW p \in Packet
        PROVE  ~Coming(p)' /\ (Elsewhere(w, p)' => Elsewhere(w, p))
    <3>1. Home(p)' = Home(p) /\ (Home(p) # None => Home(p) \in Indexes \ {i})
      BY <1>1, <1>3 DEF Home, Packet, OwnInv, OwnTypes, MapInv
    <3> QED
      BY <1>1, <1>4, <3>1 DEF Elsewhere, Coming
  <2>3. ASSUME NEW w \in ServiceIds, NEW p \in Packet, WellHopped(w, p)
        PROVE  WellHopped(w, p)'
    BY <2>1, <2>2, <2>3 DEF WellHopped
  <2> QED
    BY <1>1, <2>3, HopsRest DEF OwnInv
<1> QED
  BY <1>6, <1>7, <1>8, <1>9, <1>10, <1>11, <1>12 DEF OwnInv

\* A packet UPF-LB sends was never handed on, and some session was made when it is at the
\* wrong worker.
LEMMA FreshPacket ==
    ASSUME OwnInv, NEW w \in ServiceIds, NEW p \in Packet, p.hops = 0
    PROVE  WellHopped(w, p) /\ (Home(p) # None \/ Coming(p) => made >= 1)
<1>1. HopsBound \in Nat /\ HopsBound >= made /\ made \in Nat
  BY BoundIsNumber, OwnAssumption DEF OwnInv, OwnTypes
<1>2. \A i \in Indexes : table[i].serial \in Nat /\ (table[i].serial > 0 => made >= 1)
  BY <1>1 DEF OwnInv, OwnTypes, Place, SerialInv
<1>3. Home(p) # None => Home(p) \in Indexes /\ table[Home(p)].serial > 0
  BY DEF Home, Packet, OwnInv, OwnTypes, MapInv
<1>4. Coming(p) => upfC.at \in Indexes /\ table[upfC.at].serial > 0
  BY DEF Coming, OwnInv, UpfCInv
<1>5. Home(p) # None \/ Coming(p) => made >= 1
  BY <1>2, <1>3, <1>4
<1>6. Elsewhere(w, p) => Home(p) # None
  BY DEF Elsewhere
<1> QED
  BY <1>1, <1>5, <1>6 DEF WellHopped

\* What UPF-LB leaves alone unless it chooses a worker.
LookedUp == UNCHANGED <<worker_ids, rr_next, table, teidMap, ueMap, upfC, made, given, late, served>>

\* UPF-LB: the invariant follows from what it does and from where its packets go.
LEMMA LookKeeps ==
    ASSUME OwnInv, LookedUp, lb' \in Doing({"idle", "ensure", "set"}),
           lb'.pc # "idle" => lb'.at \in Indexes /\ lb'.key \in SessionKeys,
           lb'.pc = "set" => table[lb'.at].worker = Invalid,
           workerRing' \in [ServiceIds -> Seq(Packet)], HopsInv'
    PROVE  OwnInv'
<1>1. UNCHANGED <<worker_ids, rr_next, table, teidMap, ueMap, upfC, made, given, late, served>>
  BY DEF LookedUp
<1>2. OwnTypes'
  BY <1>1 DEF OwnInv, OwnTypes
<1>3. ListInv' /\ SpreadInv'
  BY <1>1, ListRests DEF OwnInv
<1>4. SerialInv' /\ MapInv' /\ UpfCInv' /\ ServedInv'
  BY <1>1 DEF OwnInv, SerialInv, MapInv, UpfCInv, ServedInv
<1>5. LateInv'
  BY <1>1 DEF OwnInv, LateInv
<1> QED
  BY <1>2, <1>3, <1>4, <1>5 DEF OwnInv

\* A packet at a worker may be handed on as often as before.
LEMMA LookHops ==
    ASSUME LookedUp, NEW w \in ServiceIds, NEW p \in Packet, WellHopped(w, p)
    PROVE  WellHopped(w, p)'
  BY DEF LookedUp, WellHopped, HopsBound, Elsewhere, Coming, Home

\* UPF-LB sends a packet to worker w.
LEMMA SendHops ==
    ASSUME OwnInv, LookedUp, NEW w \in ServiceIds, NEW k \in SessionKeys, NEW ul \in BOOLEAN, SendTo(w, k, ul, 0)
    PROVE  HopsInv' /\ workerRing' \in [ServiceIds -> Seq(Packet)]
<1> DEFINE e == [key |-> k, ul |-> ul, hops |-> 0]
<1>1. e \in Packet /\ e.hops = 0
  BY DEF Packet
<1>2. workerRing' = [workerRing EXCEPT ![w] = Append(@, e)]
  BY DEF SendTo
<1> HIDE DEF e
<1>3. WellHopped(w, e)
  BY <1>1, FreshPacket
<1>4. WellHopped(w, e)'
  BY <1>1, <1>3, LookHops
<1> QED
  BY <1>1, <1>2, <1>4, LookHops, HopsPush, ZenonT(30) DEF OwnInv

\* UPF-LB: no packet is sent.
LEMMA QuietHops ==
    ASSUME OwnInv, LookedUp, workerRing' = workerRing
    PROVE  HopsInv' /\ workerRing' \in [ServiceIds -> Seq(Packet)]
  BY LookHops, HopsRest DEF OwnInv, OwnTypes

\* UPF-LB: a session is looked up.
LEMMA FindKeeps ==
    ASSUME OwnInv, NEW k \in SessionKeys, NEW ul \in BOOLEAN, FindSession(k, ul)
    PROVE  OwnInv'
<1> DEFINE i == IF ul THEN teidMap[k] ELSE ueMap[k]
<1>1. LookedUp /\ lb.pc = "idle"
  BY DEF FindSession, LookedUp, keyMaps
<1>2. i \in Indexes \cup {None} /\ lb \in Doing({"idle", "ensure", "set"})
  BY ZenonT(30) DEF OwnInv, OwnTypes
<1>3. CASE i # None
  <2>1. lb' = [pc |-> "ensure", key |-> k, at |-> i, ul |-> ul] /\ workerRing' = workerRing
    BY <1>3 DEF FindSession
  <2>2. lb' \in Doing({"idle", "ensure", "set"}) /\ lb'.pc = "ensure" /\ lb'.at \in Indexes /\ lb'.key = k
    BY <1>2, <1>3, <2>1 DEF Doing
  <2> QED
    BY <1>1, <2>1, <2>2, QuietHops, LookKeeps
<1>4. CASE i = None
  <2>1. lb' = lb /\ (SendTo(UpfSelectWorkerServiceIdByTeid(k), k, ul, 0) \/ workerRing' = workerRing)
    BY <1>4 DEF FindSession
  <2>2. UpfSelectWorkerServiceIdByTeid(k) \in ServiceIds
    BY ChosenWorker, OwnAssumption DEF OwnInv, UpfSelectWorkerServiceIdByTeid
  <2>3. HopsInv' /\ workerRing' \in [ServiceIds -> Seq(Packet)]
    BY <1>1, <2>1, <2>2, QuietHops, SendHops
  <2> QED
    BY <1>1, <1>2, <2>1, <2>3, LookKeeps
<1> QED
  BY <1>3, <1>4

\* UPF-LB: the worker of the session is read.
LEMMA EnsureKeeps ==
    ASSUME OwnInv, Ensure
    PROVE  OwnInv'
<1> DEFINE v == table[lb.at].worker
<1>1. LookedUp /\ lb.pc = "ensure"
  BY DEF Ensure, LookedUp, keyMaps
<1>2. /\ lb.at \in Indexes /\ lb.key \in SessionKeys /\ v \in ServiceIds \cup {Invalid}
      /\ lb \in Doing({"idle", "ensure", "set"}) /\ lb.ul \in BOOLEAN
  BY <1>1 DEF OwnInv, LateInv, OwnTypes, Place, Doing
<1>3. CASE v # Invalid
  <2>1. lb' = AtRest /\ (SendTo(v, lb.key, lb.ul, 0) \/ workerRing' = workerRing)
    BY <1>3 DEF Ensure
  <2>2. HopsInv' /\ workerRing' \in [ServiceIds -> Seq(Packet)]
    BY <1>1, <1>2, <1>3, <2>1, QuietHops, SendHops
  <2>3. lb' \in Doing({"idle", "ensure", "set"}) /\ lb'.pc = "idle"
    BY <2>1 DEF AtRest, Doing
  <2> QED
    BY <1>1, <2>2, <2>3, LookKeeps
<1>4. CASE v = Invalid
  <2>1. lb' = [lb EXCEPT !.pc = "set"] /\ workerRing' = workerRing
    BY <1>4 DEF Ensure
  <2>2. lb' \in Doing({"idle", "ensure", "set"}) /\ lb'.at = lb.at /\ lb'.key = lb.key
    BY <1>2, <2>1 DEF Doing
  <2> QED
    BY <1>1, <1>2, <1>4, <2>1, <2>2, QuietHops, LookKeeps
<1> QED
  BY <1>3, <1>4

\* UPF-LB: an ARP packet goes to the workers.
LEMMA ArpKeeps ==
    ASSUME OwnInv, NEW forUs \in BOOLEAN, NEW cloned, ArpPacket(forUs, cloned)
    PROVE  OwnInv'
<1> DEFINE e == [key |-> None, ul |-> FALSE, hops |-> 0]
           gets(w) == ~forUs /\ w \in Range(worker_ids) /\ (w = worker_ids[1] \/ w \in cloned)
<1>1. LookedUp /\ lb' = lb /\ lb.pc = "idle"
  BY DEF ArpPacket, LookedUp, keyMaps
<1>2. /\ workerRing \in [ServiceIds -> Seq(Packet)]
      /\ workerRing' = [w \in ServiceIds |-> IF gets(w) THEN Append(workerRing[w], e) ELSE workerRing[w]]
  BY DEF ArpPacket, OwnInv, OwnTypes
<1>3. e \in Packet /\ e.hops = 0
  BY DEF Packet
<1> HIDE DEF e, gets
<1>4. workerRing' \in [ServiceIds -> Seq(Packet)]
  BY <1>2, <1>3
<1>5. ASSUME NEW w \in ServiceIds, NEW n \in 1..Len(workerRing'[w])
      PROVE  \E p \in Packet : /\ workerRing'[w][n] = p
                               /\ (\E m \in 1..Len(workerRing[w]) : workerRing[w][m] = p) \/ WellHopped(w, p)'
  <2>1. workerRing[w] \in Seq(Packet) /\ (workerRing'[w] = Append(workerRing[w], e) \/ workerRing'[w] = workerRing[w])
    BY <1>2
  <2>2. WellHopped(w, e)'
    BY <1>1, <1>3, FreshPacket, LookHops
  <2>3. CASE n = Len(workerRing[w]) + 1
    <3>1. workerRing'[w][n] = e
      BY <2>1, <2>3
    <3> QED
      BY <1>3, <2>2, <3>1
  <2>4. CASE n # Len(workerRing[w]) + 1
    <3>1. n \in 1..Len(workerRing[w]) /\ workerRing'[w][n] = workerRing[w][n]
      BY <2>1, <2>4
    <3>2. workerRing[w][n] \in Packet
      BY <2>1, <3>1
    <3> QED
      BY <3>1, <3>2
  <2> QED
    BY <2>3, <2>4
<1>6. HopsInv'
  BY <1>1, <1>5, LookHops, HopsStep DEF OwnInv
<1>7. lb \in Doing({"idle", "ensure", "set"})
  BY DEF OwnInv, OwnTypes
<1> QED
  BY <1>1, <1>4, <1>6, <1>7, LookKeeps

\* UPF-LB: a worker is chosen for a place that had none when it was read.  Its session, if
\* there is one by now, was not chosen for before.
LEMMA EnsureSetsKeeps ==
    ASSUME OwnInv, EnsureSets
    PROVE  OwnInv'
<1> DEFINE i == lb.at
           n0 == table[i].serial
<1>1. lb.pc = "set" /\ i \in Indexes /\ lb.key \in SessionKeys /\ lb.ul \in BOOLEAN
  BY DEF EnsureSets, OwnInv, LateInv, OwnTypes, Doing
<1>2. PICK x \in ServiceIds : x = UpfSelectWorkerServiceIdByTeid(lb.key) /\ x # Invalid
  BY <1>1, ChosenWorker, OwnAssumption, ZenonT(30) DEF OwnInv, UpfSelectWorkerServiceIdByTeid
<1>3. PICK e \in Packet : e = [key |-> lb.key, ul |-> lb.ul, hops |-> 0] /\ e.hops = 0
  <2>1. [key |-> lb.key, ul |-> lb.ul, hops |-> 0] \in Packet
    BY <1>1 DEF Packet
  <2> QED
    BY <2>1
<1>4. /\ table' = [table EXCEPT ![i].worker = x] /\ lb' = AtRest
      /\ late' = late \cup {n0} /\ workerRing' = [workerRing EXCEPT ![x] = Append(@, e)]
      /\ UNCHANGED <<worker_ids, rr_next, teidMap, ueMap, upfC, made, given, served>>
  BY <1>2, <1>3 DEF EnsureSets, SendTo, keyMaps
<1>5. /\ table \in [Indexes -> Place] /\ table'[i] = [table[i] EXCEPT !.worker = x]
      /\ \A j \in Indexes \ {i} : table'[j] = table[j]
  BY <1>1, <1>4, ZenonT(30) DEF OwnInv, OwnTypes
<1>6. table[i] \in Place /\ table'[i] \in Place
  BY <1>1, <1>2, <1>5 DEF Place
<1>7. table'[i].worker = x /\ \A j \in Indexes : table'[j].serial = table[j].serial /\ table'[j].key = table[j].key
  BY <1>1, <1>5, <1>6 DEF Place
<1>8. n0 \in 0..MaxSessions /\ n0 <= made /\ (n0 > 0 => n0 \notin late)
  BY <1>1, <1>4, <1>6 DEF OwnInv, SerialInv, LateInv, Place
<1>9. \A j \in Indexes : table'[j].worker # table[j].worker => j = i
  BY <1>5
<1>10. IsFiniteSet(late) /\ Cardinality(late) \in Nat /\ made \in Nat /\ MaxSessions \in Nat
  BY LateIsFinite, OwnAssumption DEF OwnInv, OwnTypes
<1>11. Cardinality(late') = IF n0 \in late THEN Cardinality(late) ELSE Cardinality(late) + 1
  BY <1>1, <1>4, <1>10, FS_AddElement, ZenonT(30)
<1>12. HopsBound \in Nat /\ HopsBound' \in Nat /\ HopsBound' >= made
       /\ HopsBound' >= HopsBound /\ (n0 > 0 => HopsBound' = HopsBound + 1)
  BY <1>1, <1>4, <1>8, <1>10, <1>11 DEF HopsBound
<1>13. ListInv' /\ SpreadInv'
  BY <1>1, <1>4, ListRests DEF OwnInv
<1>14. SerialInv'
  BY <1>1, <1>4, <1>7 DEF OwnInv, SerialInv
<1>15. MapInv'
  <2>1. \A k \in SessionKeys : teidMap[k] # None => teidMap[k] \in Indexes
    BY DEF OwnInv, OwnTypes
  <2>2. \A j \in Indexes : table[j].worker # Invalid => table'[j].worker # Invalid
    BY <1>2, <1>5, <1>7, ZenonT(30)
  <2> QED
    BY <1>1, <1>4, <1>7, <2>1, <2>2 DEF OwnInv, MapInv
<1>16. UpfCInv'
  <2>1. \A j \in Indexes : table[j].worker # Invalid => table'[j].worker # Invalid
    BY <1>2, <1>5, <1>7, ZenonT(30)
  <2> QED
    BY <1>1, <1>4, <1>7, <2>1 DEF OwnInv, UpfCInv
<1>17. LateInv'
  <2>1. \A n \in late' : n <= made
    BY <1>1, <1>4, <1>8 DEF OwnInv, LateInv
  <2>2. \A j \in Indexes : table'[j].serial > 0 /\ table'[j].serial \in late' => table'[j].worker # Invalid
    <3> SUFFICES ASSUME NEW j \in Indexes, table'[j].serial > 0, table'[j].serial \in late'
                 PROVE  table'[j].worker # Invalid
      OBVIOUS
    <3>1. CASE j = i
      BY <1>2, <1>7, <3>1
    <3>2. CASE j # i
      <4>1. table[j].serial # n0
        BY <1>1, <1>7, <3>2 DEF OwnInv, SerialInv
      <4> QED
        BY <1>1, <1>4, <1>5, <3>2, <4>1 DEF OwnInv, LateInv
    <3> QED
      BY <3>1, <3>2
  <2>3. lb'.pc = "idle"
    BY <1>1, <1>4 DEF AtRest
  <2> QED
    BY <1>1, <1>4, <2>1, <2>2, <2>3 DEF LateInv
<1>18. ServedInv'
  <2> SUFFICES ASSUME NEW j \in Indexes, table'[j].serial > 0, table'[j].serial \notin late'
               PROVE  /\ served[table'[j].serial] \subseteq {table'[j].worker}
                      /\ upfC.pc = "worker" /\ upfC.at = j => served[table'[j].serial] = {}
    BY <1>1, <1>4 DEF OwnInv, ServedInv
  <2>1. j # i
    BY <1>1, <1>4, <1>7
  <2> QED
    BY <1>1, <1>4, <1>5, <2>1, ZenonT(30) DEF OwnInv, ServedInv
<1>19. ASSUME NEW w \in ServiceIds, NEW p \in Packet, WellHopped(w, p)
       PROVE  WellHopped(w, p)'
  <2>1. p.hops \in Nat /\ p.hops <= HopsBound
    BY <1>19 DEF WellHopped, Packet
  <2>2. CASE n0 > 0
    BY <1>12, <2>1, <2>2 DEF WellHopped
  <2>3. CASE ~(n0 > 0)
    <3>1. Home(p)' = Home(p) /\ (Home(p) # None => Home(p) \in Indexes \ {i})
      BY <1>1, <1>4, <2>3 DEF Home, Packet, OwnInv, OwnTypes, MapInv
    <3>2. Elsewhere(w, p)' => Elsewhere(w, p)
      BY <1>5, <3>1 DEF Elsewhere
    <3>3. Coming(p)' => Coming(p)
      BY <1>1, <1>4 DEF Coming
    <3> QED
      BY <1>12, <1>19, <2>1, <3>2, <3>3 DEF WellHopped
  <2> QED
    BY <2>2, <2>3
<1>20. WellHopped(x, e)'
  <2>1. Home(e) # None \/ Coming(e) => made >= 1
    BY <1>2, <1>3, FreshPacket
  <2>2. Home(e)' = Home(e) /\ Coming(e)' = Coming(e)
    BY <1>1, <1>4 DEF Home, Coming
  <2>3. Elsewhere(x, e)' => Home(e)' # None
    BY DEF Elsewhere
  <2> QED
    BY <1>3, <1>10, <1>12, <2>1, <2>2, <2>3 DEF WellHopped
<1>21. HopsInv' /\ workerRing' \in [ServiceIds -> Seq(Packet)]
  BY <1>1, <1>4, <1>2, <1>3, <1>19, <1>20, HopsPush, ZenonT(30) DEF OwnInv
<1>22. OwnTypes'
  <2>1. table' \in [Indexes -> Place]
    BY <1>1, <1>4, <1>5, <1>6
  <2>2. late' \in SUBSET (0..MaxSessions)
    BY <1>1, <1>4, <1>8 DEF OwnInv, OwnTypes
  <2>3. lb' \in Doing({"idle", "ensure", "set"})
    BY <1>1, <1>4 DEF AtRest, Doing
  <2> QED
    BY <1>1, <1>4, <1>21, <2>1, <2>2, <2>3 DEF OwnInv, OwnTypes
<1> QED
  BY <1>13, <1>14, <1>15, <1>16, <1>17, <1>18, <1>21, <1>22 DEF OwnInv

\* A worker takes the first packet of its ring: those behind it are still there.
LEMMA TakenHops ==
    ASSUME OwnTypes, NEW w \in ServiceIds, workerRing[w] # <<>>
    PROVE  /\ Head(workerRing[w]) \in Packet /\ Tail(workerRing[w]) \in Seq(Packet)
           /\ 1 \in 1..Len(workerRing[w]) /\ workerRing[w][1] = Head(workerRing[w])
           /\ \A n \in 1..Len(Tail(workerRing[w])) :
                 \E m \in 1..Len(workerRing[w]) : /\ workerRing[w][m] = Tail(workerRing[w])[n]
                                                  /\ workerRing[w][m] \in Packet
<1> DEFINE q == workerRing[w]
<1>1. q \in Seq(Packet) /\ q # <<>>
  BY DEF OwnTypes
<1> HIDE DEF q
<1>2. Head(q) \in Packet /\ Tail(q) \in Seq(Packet) /\ 1 \in 1..Len(q) /\ q[1] = Head(q)
  BY <1>1
<1>3. ASSUME NEW n \in 1..Len(Tail(q))
      PROVE  \E m \in 1..Len(q) : q[m] = Tail(q)[n] /\ q[m] \in Packet
  <2>1. n + 1 \in 1..Len(q) /\ q[n + 1] = Tail(q)[n] /\ q[n + 1] \in Packet
    BY <1>1
  <2> QED
    BY <2>1
<1> QED
  BY <1>2, <1>3 DEF q

\* What a worker leaves alone.
Worked == UNCHANGED <<worker_ids, rr_next, table, teidMap, ueMap, upfC, lb, made, given, late>>

\* The invariant follows from what happens to the packets and from who served them.
LEMMA WorkKeeps ==
    ASSUME OwnInv, Worked, workerRing' \in [ServiceIds -> Seq(Packet)], HopsInv',
           served' \in [1..MaxSessions -> SUBSET ServiceIds], ServedInv'
    PROVE  OwnInv'
<1>1. UNCHANGED <<worker_ids, rr_next, table, teidMap, ueMap, upfC, lb, made, given, late>>
  BY DEF Worked
<1>2. OwnTypes'
  BY <1>1 DEF OwnInv, OwnTypes
<1>3. ListInv' /\ SpreadInv'
  BY <1>1, ListRests, ZenonT(30) DEF OwnInv
<1>4. SerialInv' /\ MapInv' /\ UpfCInv' /\ LateInv'
  BY <1>1 DEF OwnInv, SerialInv, MapInv, UpfCInv, LateInv
<1> QED
  BY <1>2, <1>3, <1>4 DEF OwnInv

\* A worker takes a packet and does not hand it on.
LEMMA PopHops ==
    ASSUME OwnInv, Worked, NEW w \in ServiceIds, workerRing[w] # <<>>, Pop(w)
    PROVE  HopsInv' /\ workerRing' \in [ServiceIds -> Seq(Packet)]
<1>1. /\ workerRing \in [ServiceIds -> Seq(Packet)] /\ workerRing'[w] = Tail(workerRing[w])
      /\ \A v \in ServiceIds \ {w} : workerRing'[v] = workerRing[v]
  BY DEF Pop, OwnInv, OwnTypes
<1>2. workerRing' \in [ServiceIds -> Seq(Packet)]
  BY <1>1, TakenHops, ZenonT(30) DEF Pop, OwnInv
<1>3. ASSUME NEW v \in ServiceIds, NEW p \in Packet, WellHopped(v, p)
      PROVE  WellHopped(v, p)'
  BY <1>3 DEF Worked, WellHopped, HopsBound, Elsewhere, Coming, Home
<1>4. ASSUME NEW v \in ServiceIds, NEW n \in 1..Len(workerRing'[v])
      PROVE  \E p \in Packet : /\ workerRing'[v][n] = p
                               /\ \E m \in 1..Len(workerRing[v]) : workerRing[v][m] = p
  <2>1. CASE v = w
    <3>1. workerRing'[v] = Tail(workerRing[v]) /\ n \in 1..Len(Tail(workerRing[v]))
      BY <1>1, <2>1
    <3>2. \E m \in 1..Len(workerRing[v]) : workerRing[v][m] = Tail(workerRing[v])[n] /\ workerRing[v][m] \in Packet
      BY <2>1, <3>1, TakenHops DEF OwnInv
    <3> QED
      BY <3>1, <3>2
  <2>2. CASE v # w
    <3>1. workerRing[v] \in Seq(Packet) /\ workerRing'[v] = workerRing[v]
      BY <1>1, <2>2
    <3>2. n \in 1..Len(workerRing[v]) /\ workerRing[v][n] \in Packet
      BY <3>1
    <3> QED
      BY <3>1, <3>2
  <2> QED
    BY <2>1, <2>2
<1> QED
  BY <1>2, <1>3, <1>4, HopsStep, ZenonT(30) DEF OwnInv

HandOn(w, o, p) ==
    workerRing' = [workerRing EXCEPT ![w] = Tail(@), ![o] = Append(@, [p EXCEPT !.hops = @ + 1])]

\* A worker hands a packet of a session that is not its own on to the session's worker, where
\* it stays unless the session gets another one.
LEMMA HandOnHops ==
    ASSUME OwnInv, Worked, NEW w \in ServiceIds, workerRing[w] # <<>>, NEW p \in Packet, p = Head(workerRing[w]),
           NEW o \in ServiceIds, o # w, Home(p) # None, table[Home(p)].worker = o,
           HandOn(w, o, p)
    PROVE  HopsInv' /\ workerRing' \in [ServiceIds -> Seq(Packet)]
<1> DEFINE e == [p EXCEPT !.hops = @ + 1]
<1>1. p.hops \in Nat /\ e \in Packet /\ e.hops = p.hops + 1 /\ e.key = p.key /\ e.ul = p.ul
  BY DEF Packet
<1> HIDE DEF e
<1>2. /\ workerRing \in [ServiceIds -> Seq(Packet)] /\ workerRing'[w] = Tail(workerRing[w])
      /\ workerRing'[o] = Append(workerRing[o], e)
      /\ \A v \in ServiceIds \ {w, o} : workerRing'[v] = workerRing[v]
  BY DEF HandOn, OwnInv, OwnTypes, e
<1>3. workerRing' \in [ServiceIds -> Seq(Packet)]
  <2>1. Tail(workerRing[w]) \in Seq(Packet) /\ Append(workerRing[o], e) \in Seq(Packet)
    BY <1>1, <1>2, TakenHops DEF OwnInv
  <2> QED
    BY <1>2, <2>1, ZenonT(30) DEF HandOn, e
<1>4. p.hops < HopsBound
  <2>1. WellHopped(w, p)
    BY TakenHops DEF OwnInv, HopsInv
  <2> QED
    BY <2>1 DEF WellHopped, Elsewhere
<1>5. WellHopped(o, e)'
  <2>1. HopsBound \in Nat /\ HopsBound' = HopsBound
    BY BoundIsNumber DEF OwnInv, Worked, HopsBound
  <2>2. Home(e)' = Home(p) /\ ~Elsewhere(o, e)'
    BY <1>1, ZenonT(30) DEF Worked, Home, Elsewhere
  <2>3. ~Coming(e)'
    BY <1>1 DEF Worked, Coming, Home, OwnInv, UpfCInv
  <2>4. e.hops <= HopsBound
    BY <1>1, <1>4, <2>1, OneMore, ZenonT(30)
  <2> QED
    BY <2>1, <2>2, <2>3, <2>4 DEF WellHopped
<1>6. ASSUME NEW v \in ServiceIds, NEW r \in Packet, WellHopped(v, r)
      PROVE  WellHopped(v, r)'
  BY <1>6 DEF Worked, WellHopped, HopsBound, Elsewhere, Coming, Home
<1>7. ASSUME NEW v \in ServiceIds, NEW n \in 1..Len(workerRing'[v])
      PROVE  \E r \in Packet : /\ workerRing'[v][n] = r
                               /\ (\E m \in 1..Len(workerRing[v]) : workerRing[v][m] = r) \/ WellHopped(v, r)'
  <2>1. CASE v = w
    <3>1. workerRing'[v] = Tail(workerRing[v]) /\ n \in 1..Len(Tail(workerRing[v]))
      BY <1>2, <2>1
    <3>2. \E m \in 1..Len(workerRing[v]) : workerRing[v][m] = Tail(workerRing[v])[n] /\ workerRing[v][m] \in Packet
      BY <2>1, <3>1, TakenHops DEF OwnInv
    <3> QED
      BY <3>1, <3>2
  <2>2. CASE v = o
    <3>1. workerRing[v] \in Seq(Packet) /\ workerRing'[v] = Append(workerRing[v], e)
      BY <1>2, <2>2
    <3>2. CASE n = Len(workerRing[v]) + 1
      <4>1. workerRing'[v][n] = e
        BY <3>1, <3>2
      <4> QED
        BY <1>1, <1>5, <2>2, <4>1
    <3>3. CASE n # Len(workerRing[v]) + 1
      <4>1. n \in 1..Len(workerRing[v]) /\ workerRing'[v][n] = workerRing[v][n]
        BY <3>1, <3>3
      <4>2. workerRing[v][n] \in Packet
        BY <3>1, <4>1
      <4> QED
        BY <4>1, <4>2
    <3> QED
      BY <3>2, <3>3
  <2>3. CASE v # w /\ v # o
    <3>1. workerRing[v] \in Seq(Packet) /\ workerRing'[v] = workerRing[v]
      BY <1>2, <2>3
    <3>2. n \in 1..Len(workerRing[v]) /\ workerRing[v][n] \in Packet
      BY <3>1, SeqElement, ZenonT(30)
    <3> QED
      BY <3>1, <3>2
  <2> QED
    BY <2>1, <2>2, <2>3
<1> QED
  BY <1>3, <1>6, <1>7, HopsStep, ZenonT(30) DEF OwnInv

\* A worker serves the packets of its own sessions, and of no others, since a session that can
\* be found has a worker.
LEMMA WorkerKeeps ==
    ASSUME OwnInv, NEW w \in ServiceIds, packet_handler(w)
    PROVE  OwnInv'
<1>1. Worked /\ workerRing[w] # <<>>
  BY ZenonT(30) DEF packet_handler, Worked, keyMaps
<1>2. PICK p \in Packet : p = Head(workerRing[w])
  BY <1>1, TakenHops, ZenonT(30) DEF OwnInv
<1> DEFINE i == Home(p)
           o == table[i].worker
           n0 == table[i].serial
<1>3. i # None => /\ i \in Indexes /\ table[i] \in Place /\ o \in ServiceIds \ {Invalid}
                  /\ n0 \in 1..MaxSessions
  BY DEF Home, Packet, OwnInv, OwnTypes, MapInv, Place
<1>4. served \in [1..MaxSessions -> SUBSET ServiceIds]
  BY DEF OwnInv, OwnTypes
<1>5. ASSUME served' = served PROVE ServedInv'
  BY <1>1, <1>5, ZenonT(30) DEF OwnInv, ServedInv, Worked
<1>6. \/ /\ i = None
         /\ Pop(w)
         /\ UNCHANGED served
      \/ /\ i # None /\ redirect_to_owner_if_needed(w, o)
         /\ HandOn(w, o, p)
         /\ UNCHANGED served
      \/ /\ i # None /\ ~redirect_to_owner_if_needed(w, o)
         /\ Pop(w)
         /\ served' = IF n0 = 0 THEN served ELSE [served EXCEPT ![n0] = @ \cup {w}]
  BY <1>2, ZenonT(30) DEF packet_handler, Home, HandOn
<1>7. CASE i = None /\ Pop(w) /\ UNCHANGED served
  BY <1>1, <1>4, <1>5, <1>7, PopHops, WorkKeeps
<1>8. CASE /\ i # None /\ redirect_to_owner_if_needed(w, o)
           /\ HandOn(w, o, p)
           /\ UNCHANGED served
  <2>1. o \in ServiceIds /\ o # w
    BY <1>3, <1>8, ZenonT(30) DEF redirect_to_owner_if_needed
  <2>2. HopsInv' /\ workerRing' \in [ServiceIds -> Seq(Packet)]
    BY <1>1, <1>2, <1>8, <2>1, HandOnHops, ZenonT(30)
  <2> QED
    BY <1>1, <1>4, <1>5, <1>8, <2>2, WorkKeeps
<1>9. CASE /\ i # None /\ ~redirect_to_owner_if_needed(w, o)
           /\ Pop(w)
           /\ served' = IF n0 = 0 THEN served ELSE [served EXCEPT ![n0] = @ \cup {w}]
  <2>1. o = w /\ served' = [served EXCEPT ![n0] = @ \cup {w}]
    BY <1>3, <1>9 DEF redirect_to_owner_if_needed
  <2>2. /\ served' \in [1..MaxSessions -> SUBSET ServiceIds] /\ served'[n0] = served[n0] \cup {w}
        /\ \A n \in 1..MaxSessions : n # n0 => served'[n] = served[n]
    BY <1>3, <1>4, <1>9, <2>1
  <2>3. n0 <= made /\ made \in Nat
    BY <1>3, <1>9, OwnAssumption DEF OwnInv, SerialInv, OwnTypes
  <2>4. ~(upfC.pc = "worker" /\ upfC.at = i)
    <3>1. teidMap[p.key] = i /\ table[i].key = p.key
      BY <1>9, ZenonT(30) DEF Home, OwnInv, MapInv, Packet
    <3>2. upfC.pc = "worker" => teidMap[upfC.key] = None /\ table[upfC.at].key = upfC.key
      BY ZenonT(30) DEF OwnInv, UpfCInv
    <3> HIDE DEF i
    <3> QED
      BY <1>9, <3>1, <3>2, ZenonT(30)
  <2>5. n0 \notin late => served'[n0] \subseteq {w}
    <3>1. n0 > 0 /\ i \in Indexes
      BY <1>3, <1>9, SerialIsSet, ZenonT(30)
    <3>2. n0 \notin late => served[n0] \subseteq {w}
      BY <2>1, <3>1, ZenonT(30) DEF OwnInv, ServedInv
    <3> QED
      BY <2>2, <3>2, ZenonT(30)
  <2>6. ServedInv'
    <3>1. ASSUME NEW n \in 1..MaxSessions, n > made PROVE served'[n] = {}
      <4>1. n # n0
        BY <1>3, <1>9, <2>3, <3>1, AboveIsOther, ZenonT(30)
      <4> QED
        BY <2>2, <3>1, <4>1, ZenonT(30) DEF OwnInv, ServedInv
    <3>2. \A n \in (1..MaxSessions) \ late : \E v \in ServiceIds \cup {Invalid} : served'[n] \subseteq {v}
      BY <2>2, <2>5, ZenonT(30) DEF OwnInv, ServedInv
    <3>3. ASSUME NEW j \in Indexes, table[j].serial > 0, table[j].serial \notin late
          PROVE  /\ served'[table[j].serial] \subseteq {table[j].worker}
                 /\ upfC.pc = "worker" /\ upfC.at = j => served'[table[j].serial] = {}
      <4>1. CASE j = i
        BY <2>1, <2>4, <2>5, <3>3, <4>1, ZenonT(30)
      <4>2. CASE j # i
        <5>1. table[j].serial # n0 /\ table[j].serial \in 1..MaxSessions
          BY <1>3, <1>9, <3>3, <4>2 DEF OwnInv, SerialInv, OwnTypes, Place
        <5> QED
          BY <2>2, <3>3, <5>1, ZenonT(30) DEF OwnInv, ServedInv
      <4> QED
        BY <4>1, <4>2
    <3> QED
      BY <1>1, <3>1, <3>2, <3>3, ZenonT(30) DEF ServedInv, Worked
  <2> QED
    BY <1>1, <1>9, <2>2, <2>6, PopHops, WorkKeeps, ZenonT(30)
<1> QED
  BY <1>6, <1>7, <1>8, <1>9

\* At the start there is no session and no packet.
LEMMA OwnInitial ==
    ASSUME OwnInit
    PROVE  OwnInv
<1>1. /\ rr_next = 0 /\ table = [i \in Indexes |-> Blank]
      /\ teidMap = [k \in SessionKeys |-> None] /\ ueMap = [k \in SessionKeys |-> None]
      /\ upfC = AtRest /\ lb = AtRest /\ workerRing = [w \in ServiceIds |-> <<>>]
      /\ made = 0 /\ given = <<>> /\ late = {} /\ served = [n \in 1..MaxSessions |-> {}]
  BY DEF OwnInit
<1>2. ListInv
  <2>1. PICK ids \in Listed : worker_ids = UpfWorkerConfigSet(ids) /\ worker_ids # <<>>
    BY DEF OwnInit
  <2>2. PICK n \in 0..MaxWorkers + 1 : ids \in [1..n -> ServiceIds]
    BY <2>1 DEF Listed
  <2>3. ids \in Seq(ServiceIds)
    BY <2>2, OwnAssumption
  <2>4. /\ worker_ids = ids
        /\ \A i \in 1..Len(ids) : ids[i] \notin {Invalid, UpfCId} /\ \A j \in 1..i - 1 : ids[j] # ids[i]
    BY <2>1 DEF UpfWorkerConfigSet
  <2>5. ASSUME NEW i \in 1..Len(ids), NEW j \in 1..Len(ids), ids[i] = ids[j]
        PROVE  i = j
    <3>1. ~(j \in 1..i - 1) /\ ~(i \in 1..j - 1)
      BY <2>4, <2>5
    <3> QED
      BY <2>3, <3>1
  <2> QED
    BY <2>1, <2>3, <2>4, <2>5 DEF ListInv
<1>3. OwnTypes
  BY <1>1, OwnAssumption DEF OwnTypes, Place, Doing, Blank, AtRest
<1>4. SerialInv /\ MapInv /\ UpfCInv /\ LateInv
  BY <1>1 DEF SerialInv, MapInv, UpfCInv, LateInv, Blank, AtRest
<1>5. ServedInv
  BY <1>1 DEF ServedInv, Blank
<1>6. HopsInv
  BY <1>1 DEF HopsInv
<1>7. SpreadInv
  <2>1. \A w : Given(w) = {}
    BY <1>1 DEF Given
  <2>2. \A w : Cardinality(Given(w)) = 0
    BY <2>1, FS_EmptySet
  <2>3. \A i \in 1..Len(worker_ids) : Cardinality(Given(worker_ids[i])) = IF i <= rr_next THEN 0 + 1 ELSE 0
    BY <1>1, <2>2
  <2>4. 0 \in Nat /\ rr_next \in 0..Len(worker_ids) - 1 /\ given \in Seq(ServiceIds)
    BY <1>1, <1>2 DEF ListInv
  <2> QED
    BY <2>3, <2>4 DEF SpreadInv
<1> QED
  BY <1>2, <1>3, <1>4, <1>5, <1>6, <1>7 DEF OwnInv

\* Every step of UPF-C, of UPF-LB and of a worker keeps the invariant.
LEMMA OwnStep ==
    ASSUME OwnInv, [OwnNext]_ownVars
    PROVE  OwnInv'
<1>1. CASE UNCHANGED ownVars
  <2>1. LookedUp /\ lb' = lb /\ workerRing' = workerRing
    BY <1>1 DEF ownVars, LookedUp
  <2>2. HopsInv' /\ workerRing' \in [ServiceIds -> Seq(Packet)] /\ served' = served
    BY <2>1, QuietHops DEF LookedUp
  <2>3. Worked /\ ServedInv' /\ served \in [1..MaxSessions -> SUBSET ServiceIds]
    BY <2>1, ZenonT(30) DEF LookedUp, Worked, OwnInv, ServedInv, OwnTypes
  <2> QED
    BY <2>2, <2>3, WorkKeeps
<1>2. CASE Add
  BY <1>2, AllocKeeps, AssignKeeps, MapsKeep DEF Add, MapStep
<1>3. CASE Delete
  BY <1>3, MapsKeep, FreeKeeps DEF Delete, MapStep
<1>4. CASE Balance
  BY <1>4, FindKeeps, EnsureKeeps, EnsureSetsKeeps, ArpKeeps DEF Balance
<1>5. CASE \E w \in ServiceIds : packet_handler(w)
  BY <1>5, WorkerKeeps
<1> QED
  BY <1>1, <1>2, <1>3, <1>4, <1>5 DEF OwnNext

\* What the invariant says of the workers.
LEMMA OwnPromise ==
    ASSUME OwnInv
    PROVE  SessionsHaveOneWorker
<1>1. OneWorkerServes
  <2> SUFFICES ASSUME NEW n \in (1..MaxSessions) \ late
               PROVE  Cardinality(served[n]) <= 1
    BY DEF OneWorkerServes
  <2>1. PICK w : served[n] \subseteq {w}
    BY DEF OwnInv, ServedInv
  <2>2. served[n] = {} \/ served[n] = {w}
    BY <2>1
  <2>3. Cardinality({}) = 0 /\ Cardinality({w}) = 1
    BY FS_EmptySet, FS_Singleton, ZenonT(30)
  <2> QED
    BY <2>2, <2>3
<1>2. HandOnsAreBounded
  BY DEF OwnInv, HopsInv, WellHopped, HopsBound, HandOnsAreBounded
<1>3. SessionsAreSpread
  <2>1. PICK q \in Nat : \A i \in 1..Len(worker_ids) :
            Cardinality(Given(worker_ids[i])) = IF i <= rr_next THEN q + 1 ELSE q
    BY DEF OwnInv, SpreadInv
  <2>2. \A w \in Range(worker_ids) : Cardinality(Given(w)) \in {q, q + 1}
    <3>1. \A w \in Range(worker_ids) : \E i \in 1..Len(worker_ids) : w = worker_ids[i]
      BY DEF Range, OwnInv, ListInv
    <3> QED
      BY <2>1, <3>1
  <2>3. \A a, b \in {q, q + 1} : a <= b + 1
    OBVIOUS
  <2> QED
    BY <2>2, <2>3 DEF SessionsAreSpread
<1> QED
  BY <1>1, <1>2, <1>3 DEF SessionsHaveOneWorker

\* Whatever the number of workers, sessions, places and packets, and however the steps of
\* UPF-C, UPF-LB and the workers interleave on the session table, which has no lock: the
\* packets of a session are served by one worker, none circulates among the workers, and the
\* sessions are spread evenly over the workers of the list that was accepted.
THEOREM SessionsKeepTheirWorker == OwnSpec => []SessionsHaveOneWorker
<1>1. OwnInit => OwnInv
  BY OwnInitial
<1>2. OwnInv /\ [OwnNext]_ownVars => OwnInv'
  BY OwnStep
<1>3. OwnInv => SessionsHaveOneWorker
  BY OwnPromise
<1> QED
  BY <1>1, <1>2, <1>3, PTL DEF OwnSpec
=============================================================================
