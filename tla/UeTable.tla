------------------------------ MODULE UeTable -------------------------------
(***************************************************************************)
(* UPF-U's tables for QoS (upf_u_trtcm.c): ue_table holds the buckets of   *)
(* the UEs, ue_hash leads from a UE address to its place by linear         *)
(* probing, and iPFlows leads from a meter key to one of the trTCM meters, *)
(* also by linear probing.  UEs come with their first downlink packet and  *)
(* go with the removal of their session; meters only come.                 *)
(***************************************************************************)
EXTENDS Integers, FiniteSets

CONSTANTS
    MaxUe,          \* MAX_UE
    UeIps,          \* UE addresses, nonzero
    AppFlowsMax,    \* APP_FLOWS_MAX
    MeterKeys,      \* meter keys of PDRs
    MeterRates      \* rates a QER may carry

VARIABLES
    ue_table,       \* index -> UE address, 0 if unused
    ue_hash,        \* slot -> in_use, ue_ip, ue_idx
    iPFlows,        \* slot -> in_use, subnet, flow_idx
    iPFlowsLen,
    trTCMidx,
    app_flows       \* meter -> the rate it was configured with

ueTableVars == <<ue_table, ue_hash, iPFlows, iPFlowsLen, trTCMidx, app_flows>>

UeSlots == 0..MaxUe - 1
FlowSlots == 0..AppFlowsMax - 1

Init ==
    /\ ue_table = [i \in UeSlots |-> 0]
    /\ ue_hash = [i \in UeSlots |-> [in_use |-> FALSE, ue_ip |-> 0, ue_idx |-> 0]]
    /\ iPFlows = [i \in FlowSlots |-> [in_use |-> FALSE, subnet |-> 0, flow_idx |-> 0]]
    /\ iPFlowsLen = 0
    /\ trTCMidx = 0
    /\ app_flows = [i \in FlowSlots |-> 0]

-----------------------------------------------------------------------------
\* Number of steps of a linear probe of a table of n slots from start until
\* a slot of stops, n if it comes round.
Probe(n, start, stops) ==
    LET hits == {d \in 0..n - 1 : (start + d) % n \in stops}
    IN  IF hits = {} THEN n ELSE CHOOSE d \in hits : \A e \in hits : d <= e

ueHashSearch(h, ip) ==
    LET end == {i \in UeSlots : ~h[i].in_use \/ h[i].ue_ip = ip}
        d == Probe(MaxUe, ip % MaxUe, end)
        i == (ip + d) % MaxUe
    IN  IF d < MaxUe /\ h[i].in_use THEN h[i].ue_idx ELSE -1

\* The hash with the address added, unchanged if it is there or no slot is free.
ueHashInsert(h, ip, idx) ==
    LET free == {i \in UeSlots : ~h[i].in_use}
        d == Probe(MaxUe, ip % MaxUe, free)
    IN  IF ueHashSearch(h, ip) >= 0 \/ d = MaxUe THEN h
        ELSE [h EXCEPT ![(ip + d) % MaxUe] = [in_use |-> TRUE, ue_ip |-> ip, ue_idx |-> idx]]

\* addEntrybyUeIp: the first unused place; a table that is full changes nothing.
addEntrybyUeIp(ip) ==
    /\ ueHashSearch(ue_hash, ip) < 0
    /\ \E i \in UeSlots :
        /\ ue_table[i] = 0 /\ \A j \in UeSlots : ue_table[j] = 0 => i <= j
        /\ LET h == ueHashInsert(ue_hash, ip, i)
           IN  /\ ue_hash' = h
               /\ ue_table' = IF h = ue_hash THEN ue_table ELSE [ue_table EXCEPT ![i] = ip]
    /\ UNCHANGED <<iPFlows, iPFlowsLen, trTCMidx, app_flows>>

\* Mutant: only the slot of the removed UE is cleared.
ClearOneSlot(table) ==
    [i \in UeSlots |-> IF ue_hash[i].in_use /\ table[ue_hash[i].ue_idx] = 0
                       THEN [in_use |-> FALSE, ue_ip |-> 0, ue_idx |-> 0] ELSE ue_hash[i]]

\* Entering the first n places of ue_table into an empty hash, in order.
RebuildHash(table) ==
    LET Enter[n \in 0..MaxUe] ==
            IF n = 0 THEN [i \in UeSlots |-> [in_use |-> FALSE, ue_ip |-> 0, ue_idx |-> 0]]
            ELSE IF table[n - 1] = 0 THEN Enter[n - 1]
            ELSE ueHashInsert(Enter[n - 1], table[n - 1], n - 1)
    IN  Enter[MaxUe]

removeEntrybyUeIp(ip) ==
    LET i == ueHashSearch(ue_hash, ip)
    IN  /\ i >= 0
        /\ ue_table' = [ue_table EXCEPT ![i] = 0]
        /\ ue_hash' = RebuildHash(ue_table')
        /\ UNCHANGED <<iPFlows, iPFlowsLen, trTCMidx, app_flows>>

-----------------------------------------------------------------------------
ftSearch(key) ==
    LET end == {i \in FlowSlots : ~iPFlows[i].in_use \/ iPFlows[i].subnet = key}
        d == Probe(AppFlowsMax, key % AppFlowsMax, end)
        i == (key + d) % AppFlowsMax
    IN  IF d < AppFlowsMax /\ iPFlows[i].in_use THEN iPFlows[i].flow_idx ELSE -1

\* Mutant: the table is probed from its first slot.
AddFromZero(key, idx) ==
    LET free == {i \in FlowSlots : ~iPFlows[i].in_use}
        d == Probe(AppFlowsMax, 0, free)
    IN  /\ iPFlowsLen < AppFlowsMax
        /\ iPFlows' = [iPFlows EXCEPT ![d] = [in_use |-> TRUE, subnet |-> key, flow_idx |-> idx]]
        /\ iPFlowsLen' = iPFlowsLen + 1

ftAddEntry(key, idx) ==
    LET free == {i \in FlowSlots : ~iPFlows[i].in_use}
        d == Probe(AppFlowsMax, key % AppFlowsMax, free)
    IN  /\ iPFlowsLen < AppFlowsMax
        /\ iPFlows' = [iPFlows EXCEPT ![(key + d) % AppFlowsMax] =
                          [in_use |-> TRUE, subnet |-> key, flow_idx |-> idx]]
        /\ iPFlowsLen' = iPFlowsLen + 1

\* The first packet of a key gives it the next meter, with the rate of the
\* QER of that moment; later packets find the meter and leave it alone.
ConfigureQerFlows(key, rate) ==
    /\ ftSearch(key) < 0
    /\ trTCMidx < AppFlowsMax
    /\ app_flows' = [app_flows EXCEPT ![trTCMidx] = rate]
    /\ ftAddEntry(key, trTCMidx)
    /\ trTCMidx' = trTCMidx + 1
    /\ UNCHANGED <<ue_table, ue_hash>>

Next ==
    \/ \E ip \in UeIps : addEntrybyUeIp(ip) \/ removeEntrybyUeIp(ip)
    \/ \E key \in MeterKeys, rate \in MeterRates : ConfigureQerFlows(key, rate)

Spec == Init /\ [][Next]_ueTableVars

-----------------------------------------------------------------------------
\* The hash and the table agree after any order of arrivals and removals: a
\* search finds a UE exactly where its buckets are, and finds no other, also
\* for addresses whose probe passes over a slot that was given up.
HashFindsUes ==
    \A ip \in UeIps :
        LET at == {i \in UeSlots : ue_table[i] = ip}
        IN  IF at = {} THEN ueHashSearch(ue_hash, ip) = -1
            ELSE at = {ueHashSearch(ue_hash, ip)}

\* Every key that was given a meter keeps it and shares it with no other key.
MetersAreOwned ==
    LET found == {key \in MeterKeys : ftSearch(key) >= 0}
    IN  /\ Cardinality(found) = trTCMidx /\ iPFlowsLen = trTCMidx
        /\ \A k, l \in found : ftSearch(k) = ftSearch(l) => k = l
        /\ \A k \in found : app_flows[ftSearch(k)] \in MeterRates
=============================================================================
