----------------------------- MODULE QosShaper ------------------------------
(***************************************************************************)
(* The downlink shaper of one UE in UPF-U (upf_u.c): a fixed table of      *)
(* flows, each with a queue of packets, linked into one of three active    *)
(* lists; a pool of queue entries; and the drain that serves guaranteed    *)
(* traffic first and then the lists in turn.                               *)
(*                                                                         *)
(* Whether a bucket holds enough tokens at a given moment is a free        *)
(* choice, because any amount of time may have passed (TokenBucket has the *)
(* arithmetic); its depth is state, because a packet longer than the depth *)
(* is dropped.  The worker is single-threaded, so no other packet comes    *)
(* between two steps of a drain.  DRAIN_CHUNK equals the largest drain     *)
(* budget and never limits a drain on its own.  One GBR QER stands for the *)
(* sixteen a UE may have.                                                  *)
(***************************************************************************)
EXTENDS Integers, Sequences, FiniteSets, Functions

CONSTANTS
    Keys,               \* flow keys of the UE
    QosKeys,            \* the keys of flows that match a PDR with a filter
    MaxFlows,           \* SHAPER_MAX_FLOWS_PER_UE
    MaxPktsPerFlow,     \* SHAPER_MAX_PKTS_PER_FLOW
    MaxPktsPerUe,       \* SHAPER_MAX_PKTS_PER_UE
    PoolSize,           \* entries in g_shaper_entry_pool
    ClassBurst,         \* SHAPER_CLASS_BURST
    DrainBudget,        \* SHAPER_DRAIN_BUDGET
    Lens,               \* packet lengths
    Depths,             \* depths a bucket may have
    MaxOffered          \* bound on arrivals

ASSUME TablesAssumption ==
    /\ MaxFlows \in Nat /\ MaxPktsPerFlow \in Nat \ {0} /\ MaxPktsPerUe \in Nat
    /\ PoolSize \in Nat /\ ClassBurst \in Nat /\ DrainBudget \in Nat /\ MaxOffered \in Nat

ASSUME KeysAssumption == "none" \notin Keys

VARIABLES
    flows,      \* slot -> in_use, key, q, has_gbr, list
    active,     \* list -> slots in order
    queued,     \* ue->queued_pkts
    next_excess_list,
    ueActive,   \* the UE's bit in g_shaper_active_ue_bitmap
    pool,       \* free entries
    depth,      \* bucket -> tb_depth
    drain,      \* where the drain stands
    offered,    \* number of packets so far; a packet carries its number
    sent        \* history: flow key -> the packet of it sent last

shaperVars == <<flows, active, queued, next_excess_list, ueActive, pool, depth, drain,
                offered, sent>>

Lists == {"GBR_QOS", "NON_GBR_QOS", "DEFAULT_NON_GBR"}
Slots == 0..MaxFlows - 1
Smaller(a, b) == IF a < b THEN a ELSE b

NoFlow == [in_use |-> FALSE, key |-> "none", q |-> <<>>, has_gbr |-> FALSE, list |-> "NONE"]
NewFlow(k) == [in_use |-> TRUE, key |-> k, q |-> <<>>, has_gbr |-> FALSE, list |-> "NONE"]
Idle == [phase |-> "idle", list |-> "NONE", budget |-> 0, sent |-> 0, attempts |-> 0,
         tries |-> 0, any |-> FALSE]

ShaperInit ==
    /\ flows = [s \in Slots |-> NoFlow]
    /\ active = [l \in Lists |-> <<>>]
    /\ queued = 0
    /\ next_excess_list = "GBR_QOS"
    /\ ueActive = FALSE
    /\ pool = PoolSize
    /\ depth \in [{"ambr", "gfbr", "mfbr"} -> Depths]
    /\ drain = Idle
    /\ offered = 0
    /\ sent = [k \in Keys |-> 0]

-----------------------------------------------------------------------------
(* The flow table and the active lists of a UE, as functions of u = the    *)
(* record of both.                                                         *)

Ue == [flows |-> flows, active |-> active]
WithFlow(u, s, f) == [flows |-> [u.flows EXCEPT ![s] = f], active |-> u.active]

\* TAILQ_REMOVE of a flow, which is in its list once.
Without(list, s) ==
    LET at == {i \in 1 .. Len(list) : list[i] = s}
        i == CHOOSE j \in at : TRUE
    IN  IF at = {} THEN list ELSE SubSeq(list, 1, i - 1) \o SubSeq(list, i + 1, Len(list))

shaper_lookup_flow(u, k) == {s \in Slots : u.flows[s].in_use /\ u.flows[s].key = k}

FreeSlots(u) == {s \in Slots : ~u.flows[s].in_use}

shaper_active_list_for_head(f) ==
    CASE f.q = <<>> -> "NONE"
      [] f.q # <<>> /\ f.has_gbr -> "GBR_QOS"
      [] f.q # <<>> /\ ~f.has_gbr /\ f.key \notin QosKeys -> "DEFAULT_NON_GBR"
      [] f.q # <<>> /\ ~f.has_gbr /\ f.key \in QosKeys -> "NON_GBR_QOS"

shaper_deactivate_flow(u, s) ==
    LET l == u.flows[s].list
    IN  IF l = "NONE" THEN u
        ELSE [flows |-> [u.flows EXCEPT ![s] = [@ EXCEPT !.list = "NONE"]],
              active |-> [u.active EXCEPT ![l] = Without(@, s)]]

shaper_activate_flow(u, s) ==
    LET l == shaper_active_list_for_head(u.flows[s])
        v == shaper_deactivate_flow(u, s)
    IN  IF l = "NONE" THEN u
        ELSE [flows |-> [v.flows EXCEPT ![s] = [@ EXCEPT !.list = l]],
              active |-> [v.active EXCEPT ![l] = Append(@, s)]]

shaper_update_flow_policy(u, s, gbr) ==
    LET f == u.flows[s]
        v == shaper_deactivate_flow(u, s)
        w == WithFlow(v, s, [v.flows[s] EXCEPT !.has_gbr = gbr])
    IN  CASE f.has_gbr = gbr -> u
          [] f.has_gbr # gbr /\ f.list = "NONE" -> w
          [] f.has_gbr # gbr /\ f.list # "NONE" -> shaper_activate_flow(w, s)

shaper_release_empty_flow(u, s) ==
    WithFlow(shaper_deactivate_flow(u, s), s, NoFlow)

Install(u) == flows' = u.flows /\ active' = u.active

bucketCanFit(b, len) == depth[b] > 0 /\ len <= depth[b]

shaper_packet_can_fit(gbr, len) == bucketCanFit(IF gbr THEN "mfbr" ELSE "ambr", len)

-----------------------------------------------------------------------------
(* A packet to forward: shape_or_enqueue_packet.                           *)

Drop(u) ==
    /\ Install(u)
    /\ UNCHANGED <<queued, ueActive, pool, sent>>

\* Mutant: a packet whose flow waits may still pass when tokens allow it.
FastPathAlways(k, gbr, len) ==
    /\ shaper_packet_can_fit(gbr, len)
    /\ sent' = [sent EXCEPT ![k] = offered']
    /\ UNCHANGED <<flows, active, queued, ueActive, pool>>

\* No flow is waiting and the buckets pay: the packet is sent at once.
FastPath(k, gbr, len) ==
    /\ shaper_packet_can_fit(gbr, len)
    /\ shaper_lookup_flow(Ue, k) = {}
    /\ sent' = [sent EXCEPT ![k] = offered']
    /\ UNCHANGED <<flows, active, queued, ueActive, pool>>

TooLong(gbr, len) == ~shaper_packet_can_fit(gbr, len) /\ Drop(Ue)

\* The flow of the packet with its policy brought up to date, created in the
\* first free slot after the hash if there was none.
Found(k, gbr) ==
    LET old == shaper_lookup_flow(Ue, k)
    IN  IF old # {}
        THEN {<<s, shaper_update_flow_policy(Ue, s, gbr)>> : s \in old}
        ELSE {<<s, shaper_update_flow_policy(WithFlow(Ue, s, NewFlow(k)), s, gbr)>>
              : s \in FreeSlots(Ue)}

TableFull(k, gbr, len) ==
    /\ shaper_packet_can_fit(gbr, len)
    /\ Found(k, gbr) = {}
    /\ Drop(Ue)

\* Mutant: the flow made for a refused packet stays in the table.
KeepEmpty(u, s) == u

\* Refused by a bound: a flow made for this packet is given back, except by
\* the bound on the flow's own queue, which a new flow cannot have reached.
GiveBack(u, s) == IF u.flows[s].q = <<>> THEN shaper_release_empty_flow(u, s) ELSE u

Enqueue(k, gbr, len) ==
    /\ shaper_packet_can_fit(gbr, len)
    /\ \E found \in Found(k, gbr) :
        LET s == found[1]
            u == found[2]
            v == WithFlow(u, s, [u.flows[s] EXCEPT !.q = Append(@, [id |-> offered', len |-> len])])
        IN  \/ /\ Len(u.flows[s].q) >= MaxPktsPerFlow
               /\ Drop(u)
            \/ /\ Len(u.flows[s].q) < MaxPktsPerFlow
               /\ queued >= MaxPktsPerUe \/ pool = 0
               /\ Drop(GiveBack(u, s))
            \/ /\ Len(u.flows[s].q) < MaxPktsPerFlow /\ queued < MaxPktsPerUe /\ pool > 0
               /\ Install(IF Len(v.flows[s].q) = 1 THEN shaper_activate_flow(v, s) ELSE v)
               /\ queued' = queued + 1
               /\ pool' = pool - 1
               /\ ueActive' = TRUE
               /\ UNCHANGED sent

shape_or_enqueue_packet(k, gbr, len) ==
    /\ drain.phase = "idle"
    /\ offered < MaxOffered
    /\ offered' = offered + 1
    /\ TooLong(gbr, len) \/ FastPath(k, gbr, len) \/ TableFull(k, gbr, len) \/ Enqueue(k, gbr, len)
    /\ UNCHANGED <<next_excess_list, depth, drain>>

\* A packet whose QERs carry other rates; the buckets start afresh.
ConfigureDlShaperForPdr(b, d) ==
    /\ drain.phase = "idle"
    /\ depth[b] # d
    /\ depth' = [depth EXCEPT ![b] = d]
    /\ UNCHANGED <<flows, active, queued, next_excess_list, ueActive, pool, drain, offered, sent>>

\* Where packets wait: the places of all queues that are taken.
Taken(fl) == {p \in Slots \X (1..MaxPktsPerFlow) : p[2] <= Len(fl[p[1]].q)}

\* Mutant: the queues are emptied but the UE's count is kept.
FlushKeepsCount ==
    /\ drain.phase = "idle"
    /\ pool' = pool + queued
    /\ flows' = [s \in Slots |-> NoFlow]
    /\ active' = [l \in Lists |-> <<>>]
    /\ next_excess_list' = "GBR_QOS"
    /\ UNCHANGED <<queued, ueActive, depth, drain, offered, sent>>

\* UPF_EVENT_SHAPER_SESSION_REMOVE: everything of the UE is freed.
shaper_flush_ue ==
    /\ drain.phase = "idle"
    /\ pool' = pool + Cardinality(Taken(flows))
    /\ flows' = [s \in Slots |-> NoFlow]
    /\ active' = [l \in Lists |-> <<>>]
    /\ queued' = 0
    /\ next_excess_list' = "GBR_QOS"
    /\ ueActive' = FALSE
    /\ UNCHANGED <<depth, drain, offered, sent>>

-----------------------------------------------------------------------------
(* The drain.  A service is the set of buckets it takes from.              *)

Guaranteed == {"gfbr", "mfbr"}
ExcessService(l) == IF l = "GBR_QOS" THEN {"mfbr"} ELSE {"ambr"}

shaper_service_can_fit(service, len) == service # {} /\ \A b \in service : bucketCanFit(b, len)

\* Mutant: after a packet was taken the flow is not put back into a list.
PopHeadForgets(u, s) ==
    LET v == WithFlow(u, s, [u.flows[s] EXCEPT !.q = Tail(@)])
    IN  IF v.flows[s].q # <<>> THEN v ELSE shaper_release_empty_flow(v, s)

\* The head of flow s leaves its queue.
PopHead(u, s) ==
    LET v == WithFlow(u, s, [u.flows[s] EXCEPT !.q = Tail(@)])
    IN  IF v.flows[s].q # <<>> THEN shaper_activate_flow(v, s) ELSE shaper_release_empty_flow(v, s)

\* One pass of the loop of shaper_drain_one_from_list_locked: yes and no say
\* where the drain goes on when a packet was sent and when not.
TryFirst(l, service, alternate, yes, no) ==
    LET s == Head(active[l])
        u == shaper_deactivate_flow(Ue, s)
        p == Head(flows[s].q)
        fits == shaper_service_can_fit(service, p.len)
    IN  \/ \* does not fit here but may elsewhere, or the buckets lack tokens
           /\ fits \/ shaper_service_can_fit(alternate, p.len)
           /\ Install(shaper_activate_flow(u, s))
           /\ drain' = no
           /\ UNCHANGED <<queued, pool, sent>>
        \/ \* too long for every bucket it could use
           /\ ~fits /\ ~shaper_service_can_fit(alternate, p.len)
           /\ Install(PopHead(u, s))
           /\ queued' = queued - 1
           /\ pool' = pool + 1
           /\ drain' = no
           /\ UNCHANGED sent
        \/ /\ fits
           /\ Install(PopHead(u, s))
           /\ queued' = queued - 1
           /\ pool' = pool + 1
           /\ sent' = [sent EXCEPT ![flows[s].key] = p.id]
           /\ drain' = yes

drain_ue_shaper(budget) ==
    /\ drain.phase = "idle"
    /\ ueActive
    /\ IF queued = 0
       THEN ueActive' = FALSE /\ UNCHANGED drain
       ELSE /\ drain' = [Idle EXCEPT !.phase = "gbr", !.budget = budget,
                                     !.attempts = Len(active["GBR_QOS"])]
            /\ UNCHANGED ueActive
    /\ UNCHANGED <<flows, active, queued, next_excess_list, pool, depth, offered, sent>>

Burst == Smaller(drain.budget, ClassBurst)

shaper_drain_gbr_locked ==
    /\ drain.phase = "gbr"
    /\ drain.sent < Burst /\ drain.attempts > 0 /\ active["GBR_QOS"] # <<>>
    /\ TryFirst("GBR_QOS", Guaranteed, {"mfbr"},
                [drain EXCEPT !.sent = @ + 1, !.attempts = Len(active'["GBR_QOS"])],
                [drain EXCEPT !.attempts = @ - 1])
    /\ UNCHANGED <<next_excess_list, ueActive, depth, offered>>

\* The end of a drain leaves the UE's bit as the queues are.
Finish == drain' = Idle /\ ueActive' = (queued > 0)

GbrDone ==
    /\ drain.phase = "gbr"
    /\ drain.sent >= Burst \/ drain.attempts = 0 \/ active["GBR_QOS"] = <<>>
    /\ IF drain.budget = drain.sent
       THEN Finish
       ELSE /\ drain' = [Idle EXCEPT !.phase = "excess", !.budget = drain.budget - drain.sent,
                                     !.any = drain.sent > 0]
            /\ UNCHANGED ueActive
    /\ UNCHANGED <<flows, active, queued, next_excess_list, pool, depth, offered, sent>>

shaper_next_excess_list(l) ==
    CASE l = "GBR_QOS" -> "NON_GBR_QOS"
      [] l = "NON_GBR_QOS" -> "DEFAULT_NON_GBR"
      [] l = "DEFAULT_NON_GBR" -> "GBR_QOS"

SomeActive == \E l \in Lists : active[l] # <<>>

MoreExcess == drain.list = "NONE" /\ drain.sent < Burst /\ SomeActive /\ drain.tries < 3

ExcessList ==
    /\ drain.phase = "excess" /\ MoreExcess
    /\ next_excess_list' = shaper_next_excess_list(next_excess_list)
    /\ drain' = [drain EXCEPT !.tries = @ + 1,
                              !.list = IF active[next_excess_list] = <<>> THEN "NONE"
                                       ELSE next_excess_list,
                              !.attempts = Len(active[next_excess_list])]
    /\ UNCHANGED <<flows, active, queued, ueActive, pool, depth, offered, sent>>

shaper_drain_excess_locked ==
    /\ drain.phase = "excess" /\ drain.list # "NONE"
    /\ drain.attempts > 0 /\ active[drain.list] # <<>>
    /\ TryFirst(drain.list, ExcessService(drain.list),
                IF drain.list = "GBR_QOS" THEN Guaranteed ELSE {},
                [drain EXCEPT !.sent = @ + 1, !.list = "NONE", !.tries = 0],
                [drain EXCEPT !.attempts = @ - 1])
    /\ UNCHANGED <<next_excess_list, ueActive, depth, offered>>

\* The list gave nothing: the next one is tried.
ExcessListDone ==
    /\ drain.phase = "excess" /\ drain.list # "NONE"
    /\ drain.attempts = 0 \/ active[drain.list] = <<>>
    /\ drain' = [drain EXCEPT !.list = "NONE"]
    /\ UNCHANGED <<flows, active, queued, next_excess_list, ueActive, pool, depth, offered, sent>>

ExcessDone ==
    /\ drain.phase = "excess" /\ drain.list = "NONE" /\ ~MoreExcess
    /\ IF (~drain.any /\ drain.sent = 0) \/ drain.budget = drain.sent \/ queued = 0
       THEN Finish
       ELSE /\ drain' = [Idle EXCEPT !.phase = "gbr", !.budget = drain.budget - drain.sent,
                                     !.attempts = Len(active["GBR_QOS"])]
            /\ UNCHANGED ueActive
    /\ UNCHANGED <<flows, active, queued, next_excess_list, pool, depth, offered, sent>>

ShaperNext ==
    \/ \E k \in Keys, gbr \in BOOLEAN, len \in Lens : shape_or_enqueue_packet(k, gbr, len)
    \/ \E b \in DOMAIN depth, d \in Depths : ConfigureDlShaperForPdr(b, d)
    \/ shaper_flush_ue
    \/ drain_ue_shaper(DrainBudget)
    \/ shaper_drain_gbr_locked
    \/ GbrDone
    \/ ExcessList
    \/ shaper_drain_excess_locked
    \/ ExcessListDone
    \/ ExcessDone

ShaperSpec == ShaperInit /\ [][ShaperNext]_shaperVars

-----------------------------------------------------------------------------
\* No waiting packet is out of the drain's reach: between two steps every
\* flow with packets is in exactly one place of exactly the list its policy
\* asks for, flows without packets have given their slot back, and the UE's
\* bit is set.
WaitingFlowsAreActive ==
    /\ \A s \in Slots :
        /\ flows[s].in_use <=> flows[s].q # <<>>
        /\ flows[s].list = shaper_active_list_for_head(flows[s])
        /\ \A l \in Lists : s \in Range(active[l]) <=> l = flows[s].list
    /\ \A l \in Lists : IsInjective(active[l])
    /\ drain.phase = "idle" /\ queued > 0 => ueActive

\* The counters that bound the queues are exact: what is counted for the UE
\* is in its flows, every entry is in a queue or in the pool, no two flows
\* have the same key, and no bound is exceeded.
QueuesAreCounted ==
    /\ queued = Cardinality(Taken(flows)) /\ queued <= MaxPktsPerUe
    /\ pool + queued = PoolSize
    /\ \A k \in Keys : \A s, t \in shaper_lookup_flow(Ue, k) : s = t
    /\ \A s \in Slots : Len(flows[s].q) <= MaxPktsPerFlow

\* The refinement mapping: the numbers of the packets that wait in the flow
\* with key k, if there is one.
Numbers(q) == [i \in 1 .. Len(q) |-> q[i].id]

Queue(fl, k) ==
    LET at == {s \in Slots : fl[s].in_use /\ fl[s].key = k}
    IN  IF at = {} THEN <<>> ELSE Numbers(fl[CHOOSE s \in at : TRUE].q)

Waiting == [k \in Keys |-> Queue(flows, k)]

Fifo == INSTANCE ShaperFifo WITH queue <- Waiting, arrived <- offered, MaxPkts <- MaxOffered

\* The shaper is what ShaperFifo promises: per flow no packet overtakes
\* another, whatever table slot, list or bucket it goes through, and also
\* when its flow was given up and made again or changed its policy.
ShaperIsFifo == Fifo!Spec
=============================================================================
