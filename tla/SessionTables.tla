--------------------------- MODULE SessionTables ---------------------------
(***************************************************************************)
(* The session table and the maps from TEIDs and UE addresses to sessions, *)
(* in memory all processes share.  The manager makes them while it starts  *)
(* and publishes their addresses one by one; the UPF processes look them   *)
(* up after the manager has served their registration.  The UPF-C adds,    *)
(* changes and removes sessions, everybody looks them up.                  *)
(***************************************************************************)
EXTENDS Integers, Sequences

CONSTANTS Keys,                \* TEIDs and UE addresses: pairs of bytes, <<0, 0>> is zero
          Slots,               \* places of the session table
          Workers, NoWorker,
          None,
          Clients              \* the UPF processes

VARIABLES zone,                \* what is published of each table: nothing, a zone, the table
          mgr,                 \* how far the manager is
          view,                \* the tables a client holds, once it is up
          teid_map, ueip_map,  \* a slot per key
          sess                 \* [live, teid, ueip, worker] per slot

vars == <<zone, mgr, view, teid_map, ueip_map, sess>>

Zero == <<0, 0>>
Order == <<"sessions", "ueip", "teid">>
Tables == {"sessions", "ueip", "teid"}
Empty == [live |-> FALSE, teid |-> Zero, ueip |-> Zero, worker |-> NoWorker]

Init ==
    /\ zone = [t \in Tables |-> "none"]
    /\ mgr = 0
    /\ view = [c \in Clients |-> "off"]
    /\ teid_map = [k \in Keys |-> None] /\ ueip_map = [k \in Keys |-> None]
    /\ sess = [s \in Slots |-> Empty]
-----------------------------------------------------------------------------
(* Start.  Every table is made, its zone reserved and cleared, and only    *)
(* then its address written.                                               *)

Reserve(t) == /\ zone[t] = "none" /\ zone' = [zone EXCEPT ![t] = "zone"] /\ UNCHANGED mgr
Publish(t) == /\ zone[t] = "zone" /\ zone' = [zone EXCEPT ![t] = "table"] /\ mgr' = mgr + 1

upf_session_table_create == Reserve("sessions")
ueip_upf_session_map_create == Reserve("ueip")
teid_upf_session_map_create == Reserve("teid")

UpfSessionPoolInit == Publish("sessions")
UeIpToUpfSessionMapInit == Publish("ueip")
TeidToUpfSessionMapInit == Publish("teid")

ManagerStep ==
    /\ \/ mgr = 0 /\ (upf_session_table_create \/ UpfSessionPoolInit)
       \/ mgr = 1 /\ (ueip_upf_session_map_create \/ UeIpToUpfSessionMapInit)
       \/ mgr = 2 /\ (teid_upf_session_map_create \/ TeidToUpfSessionMapInit)
    /\ UNCHANGED <<view, teid_map, ueip_map, sess>>

\* Mutant: a process attaches when the first zone is there
AttachesEarly == zone["sessions"] # "none"

\* The manager serves a registration after its own start
Registered == mgr = Len(Order)

\* A process that finds no zone exits; an address that is not there yet is taken as it is
Attach(c) ==
    /\ view[c] = "off" /\ Registered
    /\ view' = [view EXCEPT ![c] = IF \E t \in Tables : zone[t] = "none" THEN "exited"
                                   ELSE IF \E t \in Tables : zone[t] = "zone" THEN "null" ELSE "up"]
    /\ UNCHANGED <<zone, mgr, teid_map, ueip_map, sess>>
-----------------------------------------------------------------------------
(* Look-ups.  A key that is not there is tried with its bytes swapped.     *)

Swap(k) == <<k[2], k[1]>>
Lookup(map, k) == IF map[k] # None THEN map[k] ELSE map[Swap(k)]
UpfSessionFindByTeid(t) == Lookup(teid_map, t)
UpfSessionFindByUeIP(u) == Lookup(ueip_map, u)

Running == \A c \in Clients : view[c] # "off"
Others == <<zone, mgr, view>>
Free(map, k) == [map EXCEPT ![k] = None]

\* UpfSessionRemove: both keys of the session are freed, whoever they lead to
Removed(s, t, u) ==
    /\ teid_map' = Free(teid_map, t) /\ ueip_map' = Free(ueip_map, u)
    /\ sess' = [sess EXCEPT ![s] = Empty]

\* A session in a free slot with a worker.  A key that is taken ends in the removal of what
\* was made, and with it in the loss of the key for the session that has it
UpfSessionAdd(s, t, u, w, ipv4) ==
    /\ Running /\ ~sess[s].live
    /\ IF ~ipv4 THEN Removed(s, t, Zero)
       ELSE IF teid_map[t] # None \/ ueip_map[u] # None THEN Removed(s, t, u)
       ELSE /\ teid_map' = [teid_map EXCEPT ![t] = s] /\ ueip_map' = [ueip_map EXCEPT ![u] = s]
            /\ sess' = [sess EXCEPT ![s] = [live |-> TRUE, teid |-> t, ueip |-> u, worker |-> w]]
    /\ UNCHANGED Others

UpfSessionRemove(s) ==
    /\ Running /\ sess[s].live
    /\ Removed(s, sess[s].teid, sess[s].ueip)
    /\ UNCHANGED Others

\* Mutant: the old key is freed with the byte order of the packet
FreeSwapped(map, old) == IF old = Zero THEN map ELSE Free(map, Swap(old))

\* The old key is freed when it is not zero
FreeOld(map, old) == IF old = Zero THEN map ELSE Free(map, old)

\* A key that is taken leaves everything as it is
UpfSessionUpdateTeid(s, t) ==
    /\ Running /\ sess[s].live /\ sess[s].teid # t /\ teid_map[t] = None
    /\ teid_map' = FreeOld([teid_map EXCEPT ![t] = s], sess[s].teid)
    /\ sess' = [sess EXCEPT ![s].teid = t]
    /\ UNCHANGED <<zone, mgr, view, ueip_map>>

UpfSessionUpdateUeIP(s, u) ==
    /\ Running /\ sess[s].live /\ sess[s].ueip # u /\ ueip_map[u] = None
    /\ ueip_map' = FreeOld([ueip_map EXCEPT ![u] = s], sess[s].ueip)
    /\ sess' = [sess EXCEPT ![s].ueip = u]
    /\ UNCHANGED <<zone, mgr, view, teid_map>>

\* The load balancer and the UPF-C give a session without worker one, for good
UpfSessionEnsureWorkerServiceId(t, w) ==
    LET s == UpfSessionFindByTeid(t)
    IN  /\ Running /\ s \in Slots
        /\ sess[s].worker = NoWorker
        /\ sess' = [sess EXCEPT ![s].worker = w]
        /\ UNCHANGED <<zone, mgr, view, teid_map, ueip_map>>

Next ==
    \/ ManagerStep
    \/ \E c \in Clients : Attach(c)
    \/ \E s \in Slots, t, u \in Keys, w \in Workers \union {NoWorker}, ipv4 \in BOOLEAN : UpfSessionAdd(s, t, u, w, ipv4)
    \/ \E s \in Slots : UpfSessionRemove(s) \/ \E k \in Keys : UpfSessionUpdateTeid(s, k) \/ UpfSessionUpdateUeIP(s, k)
    \/ \E t \in Keys, w \in Workers : UpfSessionEnsureWorkerServiceId(t, w)

Spec == Init /\ [][Next]_vars
-----------------------------------------------------------------------------
\* A process that is up holds all three tables: none read an address before it was written
TablesAreThere == \A c \in Clients : view[c] \notin {"null", "exited"}

\* What a look-up finds is a session in use that has the key, as it was given or with its
\* bytes swapped.  Only key zero may be left behind by an update
FoundIsOwner ==
    \A k \in Keys \ {Zero} :
        /\ LET s == UpfSessionFindByTeid(k) IN s \in Slots => sess[s].live /\ sess[s].teid \in {k, Swap(k)}
        /\ LET s == UpfSessionFindByUeIP(k) IN s \in Slots => sess[s].live /\ sess[s].ueip \in {k, Swap(k)}
=============================================================================
