----------------------------- MODULE Neighbours -----------------------------
(***************************************************************************)
(* The neighbour table of a UPF-U worker (upf_u_arp.c): a fixed hash table *)
(* with linear probing, filled by the ARP packets it hears and by the      *)
(* requests it sends, from which every forwarded packet takes its frame's  *)
(* destination address.                                                    *)
(*                                                                         *)
(* Time is the age of an entry: 0 within ARP_REQUEST_RETRY_SEC of its last *)
(* update, 1 up to NEIGH_TIMEOUT_SEC, 2 beyond.  Addresses below 8 make    *)
(* the exclusive or of neigh_hash a sum.                                   *)
(***************************************************************************)
EXTENDS Integers, FiniteSets

CONSTANTS
    NeighMax,       \* NEIGH_MAX
    Hops,           \* next hops: port and address, the address in 0..7
    Macs

VARIABLES
    neigh_tbl,
    announced,      \* history: key -> the address it announced last
    asked,          \* history: keys asked for within the retry interval
    out             \* what the last step sent

neighVars == <<neigh_tbl, announced, asked, out>>

Slots == 0..NeighMax - 1
NoMac == "zero"
NoKey == <<-1, -1>>
Nothing == [kind |-> "nothing", key |-> NoKey, mac |-> NoMac]
Empty == [in_use |-> FALSE, key |-> NoKey, mac |-> NoMac, state |-> "EMPTY", age |-> 0]

Init ==
    /\ neigh_tbl = [i \in Slots |-> Empty]
    /\ announced = [k \in Hops |-> NoMac]
    /\ asked = {}
    /\ out = Nothing

neigh_hash(k) == (k[2] + 65536 * k[1] + 8 * k[1]) % NeighMax

\* The first slot, probing from the hash of k, that is unused or has key k,
\* as a set: empty when the probe comes round.
ProbeEnd(t, k) ==
    LET at(d) == (neigh_hash(k) + d) % NeighMax
        end(d) == ~t[at(d)].in_use \/ t[at(d)].key = k
    IN  {at(d) : d \in {e \in Slots : end(e) /\ \A b \in 0..e - 1 : ~end(b)}}

neigh_lookup(t, k) == {i \in ProbeEnd(t, k) : t[i].in_use}

\* A lookup marks an entry stale that was not updated for NEIGH_TIMEOUT_SEC.
MarkStale(t, k) ==
    [i \in Slots |-> IF i \in neigh_lookup(t, k) /\ t[i].state = "REACHABLE" /\ t[i].age = 2
                     THEN [t[i] EXCEPT !.state = "STALE"] ELSE t[i]]

\* Mutant: an entry is put into the first unused slot of the table.
SlotFromStart(t, k) ==
    LET unused == {i \in Slots : ~t[i].in_use}
    IN  IF neigh_lookup(t, k) # {} THEN CHOOSE i \in neigh_lookup(t, k) : TRUE
        ELSE IF unused = {} THEN neigh_hash(k)
        ELSE CHOOSE i \in unused : \A j \in unused : i <= j

\* Where an entry for k goes: its own slot, an unused one, or, in a table
\* that is full, the slot of its hash, whoever has it.
SlotFor(t, k) ==
    IF ProbeEnd(t, k) # {} THEN CHOOSE i \in ProbeEnd(t, k) : TRUE ELSE neigh_hash(k)

\* The keys whose entries survive when k takes its slot.
Evicted(t, k) == {t[SlotFor(t, k)].key} \ {k}

\* Mutant: an entry that is known keeps its address.
UpdateKeepsMac(t, k, mac) ==
    LET i == SlotFor(t, k)
    IN  [t EXCEPT ![i] = [in_use |-> TRUE, key |-> k, state |-> "REACHABLE", age |-> 0,
                          mac |-> IF t[i].key = k THEN t[i].mac ELSE mac]]

neigh_update(t, k, mac) ==
    [t EXCEPT ![SlotFor(t, k)] =
        [in_use |-> TRUE, key |-> k, mac |-> mac, state |-> "REACHABLE", age |-> 0]]

\* A well-formed ARP packet.  A request for the address of the port is
\* answered if an mbuf can be had; the sender is learnt in any case.
handle_arp_packet(k, mac, forUs, allocates) ==
    /\ neigh_tbl' = neigh_update(neigh_tbl, k, mac)
    /\ announced' = [announced EXCEPT ![k] = mac]
    /\ asked' = asked \ Evicted(neigh_tbl, k)
    /\ out' = IF forUs /\ allocates THEN [kind |-> "reply", key |-> k, mac |-> mac] ELSE Nothing

Waits(t, k) == \E i \in neigh_lookup(t, k) : t[i].state = "INCOMPLETE" /\ t[i].age = 0

Incomplete(t, k) ==
    LET i == SlotFor(t, k)
    IN  [t EXCEPT ![i] = [in_use |-> TRUE, key |-> k, state |-> "INCOMPLETE", age |-> 0,
                          mac |-> IF t[i].key = k THEN t[i].mac ELSE NoMac]]

\* Mutant: the time of the request is not noted.
RequestKeepsTime(t, k, allocates) ==
    IF Waits(t, k) \/ ~allocates
    THEN neigh_tbl' = t /\ out' = Nothing /\ UNCHANGED asked
    ELSE /\ neigh_tbl' = IF neigh_lookup(t, k) = {} THEN Incomplete(t, k) ELSE t
         /\ out' = [kind |-> "request", key |-> k, mac |-> NoMac]
         /\ asked' = (asked \ Evicted(t, k)) \cup {k}

send_arp_request(t, k, allocates) ==
    IF Waits(t, k) \/ ~allocates
    THEN neigh_tbl' = t /\ out' = Nothing /\ UNCHANGED asked
    ELSE /\ neigh_tbl' = Incomplete(t, k)
         /\ out' = [kind |-> "request", key |-> k, mac |-> NoMac]
         /\ asked' = (asked \ Evicted(t, k)) \cup {k}

\* A packet to forward to next hop k: framed if the hop is reachable, dropped
\* and the hop asked for otherwise.
attach_l2_or_arp(k, allocates) ==
    LET t == MarkStale(neigh_tbl, k)
        reachable == {i \in neigh_lookup(t, k) : t[i].state = "REACHABLE"}
    IN  /\ \/ /\ reachable = {}
              /\ send_arp_request(t, k, allocates)
           \/ \E i \in reachable :
              /\ neigh_tbl' = t
              /\ out' = [kind |-> "frame", key |-> k, mac |-> t[i].mac]
              /\ UNCHANGED asked
        /\ UNCHANGED announced

\* The retry interval, or the timeout of entries, passes.
TimePasses(age) ==
    /\ neigh_tbl' = [i \in Slots |->
                        [neigh_tbl[i] EXCEPT !.age = IF neigh_tbl[i].in_use /\ @ < age THEN age ELSE @]]
    /\ asked' = {}
    /\ out' = Nothing
    /\ UNCHANGED announced

Next ==
    \/ \E k \in Hops, mac \in Macs, forUs, allocates \in BOOLEAN :
        handle_arp_packet(k, mac, forUs, allocates)
    \/ \E k \in Hops, allocates \in BOOLEAN : attach_l2_or_arp(k, allocates)
    \/ \E age \in {1, 2} : TimePasses(age)

Spec == Init /\ [][Next]_neighVars

-----------------------------------------------------------------------------
\* The table stays a table whatever was overwritten in it when it was full:
\* no next hop has two entries, and every entry is found by a lookup, so a
\* probe never stops short of it.
EntriesAreFound ==
    \A i \in Slots : neigh_tbl[i].in_use => neigh_lookup(neigh_tbl, neigh_tbl[i].key) = {i}

\* attach_l2_or_arp frames a packet only with the address its next hop
\* announced last.
FrameIsCurrent == out.kind = "frame" => out.mac = announced[out.key] /\ out.mac # NoMac

RequestIsNew == out'.kind = "request" => out'.key \notin asked

\* A next hop is asked for at most once in ARP_REQUEST_RETRY_SEC, however many
\* packets wait for it, unless its entry was overwritten in between.
RequestsAreSpaced == [][RequestIsNew]_neighVars
=============================================================================
