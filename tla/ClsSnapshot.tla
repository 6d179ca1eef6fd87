----------------------------- MODULE ClsSnapshot -----------------------------
(* Classifier snapshots shared by UPF-C and the UPF-U workers.              *)
(*                                                                          *)
(* UPF-C rebuilds an immutable classifier for every PDR change, publishes   *)
(* it through a seqlock (upf_cls_publish), asks every worker to flip with   *)
(* EVT_CLS_GC_REQ, and frees the retired snapshot and the removed PDRs when *)
(* enough EVT_CLS_GC_ACK came back (UpfClsOnAckFree).  A worker flips at    *)
(* the first IPv4 packet after the request (UpfClsMaybeFlipAndAck).         *)
(*                                                                          *)
(* UPF-C handles one PFCP message or event at a time; its stores to the     *)
(* shared slot interleave with the workers' loads.  A snapshot pointer is   *)
(* named by the even version it is published under; 0 is NULL.              *)
EXTENDS Naturals, Sequences, FiniteSets, TLC

CONSTANTS
    Workers,        \* the configured worker service ids
    Pdrs,           \* addresses of UpfPDR objects, each allocated once
    NoPdr,          \* no UpfPDR pointer held
    MaxVersion,     \* bound on the publish counter
    MsgQueueSize,   \* messages an NF's ring holds
    AllocMayFail    \* whether rte_calloc and the message pool may run dry

ASSUME WorkersAssumption == IsFiniteSet(Workers)
ASSUME PdrAssumption == NoPdr \notin Pdrs
ASSUME BoundAssumption == MaxVersion \in Nat /\ MsgQueueSize \in Nat
ASSUME AllocAssumption == AllocMayFail \in BOOLEAN

VARIABLES
    version, active,            \* g_upf_cls_ctrl
    snapPdrs, snapMem, pdrMem,  \* what a snapshot points to; memory state
    allPdr,                     \* g_all_pdr_list
    upc, job, retired,          \* UPF-C: step, handler in progress, retired_out
    retiredSnap, retiredVer,    \* g_cls_retired_snapshot, g_cls_retired_version
    ackVersion, ackExpected, ackSids,  \* the ACK tracker
    retireQ,                    \* g_pdr_retire[g_pdr_head ..]
    cq,                         \* UPF-C's message ring
    wq, wpc, flip,              \* per worker: ring, step, flip_pending
    ptr, ver,                   \* per worker: g_cls_local.ptr and .ver
    v1, newPtr, inUse,          \* per worker: locals of the flip, PDR in use
    reqLost                     \* history: some GC_REQ did not reach its worker

ctrl == <<version, active>>
memory == <<snapPdrs, snapMem, pdrMem>>
upfc == <<upc, job, retired>>
slot == <<retiredSnap, retiredVer>>
tracker == <<ackVersion, ackExpected, ackSids>>
worker == <<wpc, flip, ptr, ver, v1, newPtr, inUse>>
vars == <<ctrl, memory, allPdr, upfc, slot, tracker, retireQ, cq, wq, worker, reqLost>>

NoSnap == 0
NoJob == [op |-> "none", pdr |-> NoPdr]
Versions == 0 .. MaxVersion
Even(n) == n % 2 = 0

\* Freeing what is already free is remembered as "double".
Freed(m) == IF m = "live" THEN "freed" ELSE "double"

Mem == {"new", "live", "freed", "double"}
Retire == [ver : Versions, pdr : Pdrs]      \* pdr_retire_t
Ack == [ver : Versions, sid : Workers]      \* EVT_CLS_GC_ACK

TypeOK ==
    /\ version \in Versions /\ active \in Versions
    /\ snapPdrs \in [Versions -> SUBSET Pdrs]
    /\ snapMem \in [Versions -> Mem] /\ pdrMem \in [Pdrs -> Mem]
    /\ allPdr \in SUBSET Pdrs
    /\ upc \in {"idle", "swap", "stable", "notify"}
    /\ job \in [op : {"none", "create", "update", "remove"}, pdr : Pdrs \cup {NoPdr}]
    /\ retired \in Versions
    /\ retiredSnap \in Versions /\ retiredVer \in Versions
    /\ ackVersion \in Versions /\ ackExpected \in Nat /\ ackSids \in SUBSET Workers
    /\ retireQ \in Seq(Retire)
    /\ cq \in Seq(Ack)
    /\ wq \in [Workers -> Seq(Versions)]
    /\ wpc \in [Workers -> {"loop", "spin", "ptr", "recheck", "classify", "use"}]
    /\ flip \in [Workers -> BOOLEAN]
    /\ ptr \in [Workers -> Versions] /\ ver \in [Workers -> Versions]
    /\ v1 \in [Workers -> Versions] /\ newPtr \in [Workers -> Versions]
    /\ inUse \in [Workers -> Pdrs \cup {NoPdr}]
    /\ reqLost \in BOOLEAN

Init ==
    /\ version = 0 /\ active = NoSnap
    /\ snapPdrs = [v \in Versions |-> {}]
    /\ snapMem = [v \in Versions |-> "new"]
    /\ pdrMem = [p \in Pdrs |-> "new"]
    /\ allPdr = {}
    /\ upc = "idle" /\ job = NoJob /\ retired = NoSnap
    /\ retiredSnap = NoSnap /\ retiredVer = 0
    /\ ackVersion = 0 /\ ackExpected = 0 /\ ackSids = {}
    /\ retireQ = <<>> /\ cq = <<>>
    /\ wq = [w \in Workers |-> <<>>]
    /\ wpc = [w \in Workers |-> "loop"]
    /\ flip = [w \in Workers |-> FALSE]
    /\ ptr = [w \in Workers |-> NoSnap] /\ ver = [w \in Workers |-> 0]
    /\ v1 = [w \in Workers |-> 0] /\ newPtr = [w \in Workers |-> NoSnap]
    /\ inUse = [w \in Workers |-> NoPdr]
    /\ reqLost = FALSE

-----------------------------------------------------------------------------
(* UPF-C: the PDR handlers and the publication.                             *)

\* Mutant: the snapshot is built from the list as it was before the change.
BeginPublishOldList(pdrs, op, p) ==
    /\ version + 2 <= MaxVersion
    /\ allPdr' = pdrs
    /\ snapPdrs' = [snapPdrs EXCEPT ![version + 2] = allPdr]
    /\ snapMem' = [snapMem EXCEPT ![version + 2] = "live"]
    /\ version' = version + 1
    /\ upc' = "swap"
    /\ job' = [op |-> op, pdr |-> p]
    /\ UNCHANGED <<active, retired, slot, tracker, retireQ, cq, wq, worker, reqLost>>

\* Build the snapshot of the list pdrs and store the odd version.
BeginPublish(pdrs, op, p) ==
    /\ version + 2 <= MaxVersion
    /\ allPdr' = pdrs
    /\ snapPdrs' = [snapPdrs EXCEPT ![version + 2] = pdrs]
    /\ snapMem' = [snapMem EXCEPT ![version + 2] = "live"]
    /\ version' = version + 1
    /\ upc' = "swap"
    /\ job' = [op |-> op, pdr |-> p]
    /\ UNCHANGED <<active, retired, slot, tracker, retireQ, cq, wq, worker, reqLost>>

CreatePdr(p) ==
    /\ upc = "idle"
    /\ pdrMem[p] = "new"
    /\ pdrMem' = [pdrMem EXCEPT ![p] = "live"]
    /\ BeginPublish(allPdr \cup {p}, "create", p)

\* The rebuild fails: the PDR leaves the lists again and is freed at once.
CreatePdrFails(p) ==
    /\ upc = "idle"
    /\ pdrMem[p] = "new"
    /\ pdrMem' = [pdrMem EXCEPT ![p] = "freed"]
    /\ UNCHANGED <<ctrl, snapPdrs, snapMem, allPdr, upfc, slot, tracker, retireQ,
                   cq, wq, worker, reqLost>>

\* The PDR is rewritten in place; the list of pointers stays the same.
UpdatePdr(p) ==
    /\ upc = "idle"
    /\ p \in allPdr
    /\ BeginPublish(allPdr, "update", p)
    /\ UNCHANGED pdrMem

\* Mutant: the PDR is queued to be freed but stays in the global list.
RemovePdrKeepsListed(p) ==
    /\ upc = "idle"
    /\ p \in allPdr
    /\ BeginPublish(allPdr, "remove", p)
    /\ UNCHANGED pdrMem

\* A failing rebuild puts the PDR back: nothing changes, so no action.
RemovePdr(p) ==
    /\ upc = "idle"
    /\ p \in allPdr
    /\ BeginPublish(allPdr \ {p}, "remove", p)
    /\ UNCHANGED pdrMem

\* __atomic_exchange_n(&g_upf_cls_ctrl->active, new_snap)
PublishSwap ==
    /\ upc = "swap"
    /\ retired' = active
    /\ active' = version + 1
    /\ upc' = "stable"
    /\ UNCHANGED <<version, memory, allPdr, job, slot, tracker, retireQ, cq, wq,
                   worker, reqLost>>

\* The even version makes the new pointer usable.
PublishStable ==
    /\ upc = "stable"
    /\ version' = version + 1
    /\ upc' = "notify"
    /\ UNCHANGED <<active, memory, allPdr, job, retired, slot, tracker, retireQ,
                   cq, wq, worker, reqLost>>

\* The sets of workers a broadcast can reach: those whose ring has room.
Reachable ==
    LET room == {w \in Workers : Len(wq[w]) < MsgQueueSize}
    IN IF AllocMayFail THEN SUBSET room ELSE {room}

\* PdrDeferFree, which drops the entry when the queue cannot grow.
PdrDeferFree(p, v) ==
    \/ retireQ' = Append(retireQ, [ver |-> v, pdr |-> p])
    \/ AllocMayFail /\ retireQ' = retireQ

\* The rest of UpfClsRebuildAndPublish, then of the handler that called it.
Notify(reached) ==
    /\ upc = "notify"
    /\ wq' = [w \in Workers |-> IF w \in reached THEN Append(wq[w], version) ELSE wq[w]]
    /\ ackVersion' = version /\ ackExpected' = Cardinality(reached) /\ ackSids' = {}
    /\ IF retired = NoSnap
       THEN UNCHANGED <<slot, snapMem>>
       ELSE IF reached = {}
            THEN /\ snapMem' = [snapMem EXCEPT ![retired] = Freed(@)]
                 /\ retiredSnap' = NoSnap /\ retiredVer' = 0
            ELSE /\ retiredSnap' = retired /\ retiredVer' = version
                 /\ UNCHANGED snapMem
    /\ IF job.op = "remove" THEN PdrDeferFree(job.pdr, version) ELSE UNCHANGED retireQ
    /\ reqLost' = (reqLost \/ reached # Workers)
    /\ upc' = "idle" /\ job' = NoJob /\ retired' = NoSnap
    /\ UNCHANGED <<ctrl, snapPdrs, pdrMem, allPdr, cq, worker>>

-----------------------------------------------------------------------------
(* UPF-C: the acknowledgements.                                             *)

\* Mutant: the bound is exclusive.
FreeCountExclusive(q, v) ==
    CHOOSE n \in 0 .. Len(q) :
        /\ \A i \in 1 .. n : q[i].ver < v
        /\ n < Len(q) => q[n + 1].ver >= v

\* How far PdrFreeUpTo advances g_pdr_head: up to the first newer entry.
FreeCount(q, v) ==
    CHOOSE n \in 0 .. Len(q) :
        /\ \A i \in 1 .. n : q[i].ver <= v
        /\ n < Len(q) => q[n + 1].ver > v

\* Frees that prefix of the retire queue.
PdrFreeUpTo(v) ==
    LET n == FreeCount(retireQ, v)
        pdrs == {retireQ[i].pdr : i \in 1 .. n}
    IN /\ pdrMem' = [p \in Pdrs |-> IF p \in pdrs THEN Freed(pdrMem[p]) ELSE pdrMem[p]]
       /\ retireQ' = SubSeq(retireQ, n + 1, Len(retireQ))

\* Whether UpfClsAckTrackerMark records the worker.
Marks(v, w) == v = ackVersion /\ w \notin ackSids

\* Mutant: the slot and its version are not cleared.
FreeRetiredKeepsSlot(v) ==
    /\ snapMem' = IF retiredSnap = NoSnap THEN snapMem
                  ELSE [snapMem EXCEPT ![retiredSnap] = Freed(@)]
    /\ UNCHANGED slot
    /\ ackVersion' = 0 /\ ackExpected' = 0 /\ ackSids' = {}
    /\ PdrFreeUpTo(v)

\* Everything UpfClsOnAckFree does once the tracker lets it pass.
FreeRetired(v) ==
    /\ snapMem' = IF retiredSnap = NoSnap THEN snapMem
                  ELSE [snapMem EXCEPT ![retiredSnap] = Freed(@)]
    /\ retiredSnap' = NoSnap /\ retiredVer' = 0
    /\ ackVersion' = 0 /\ ackExpected' = 0 /\ ackSids' = {}
    /\ PdrFreeUpTo(v)

\* Mutant: the first ACK frees, as with a single worker.
OnFirstAckFree(v, w) ==
    \/ /\ v # retiredVer
       /\ UNCHANGED <<slot, tracker, snapMem, pdrMem, retireQ>>
    \/ /\ v = retiredVer
       /\ FreeRetired(v)

UpfClsOnAckFree(v, w) ==
    \/ /\ v # retiredVer
       /\ UNCHANGED <<slot, tracker, snapMem, pdrMem, retireQ>>
    \/ /\ v = retiredVer
       /\ ackExpected > 0
       /\ \/ ~Marks(v, w)
          \/ Cardinality(ackSids \cup {w}) < ackExpected
       /\ ackSids' = IF Marks(v, w) THEN ackSids \cup {w} ELSE ackSids
       /\ UNCHANGED <<slot, ackVersion, ackExpected, snapMem, pdrMem, retireQ>>
    \/ /\ v = retiredVer
       /\ ackExpected > 0 => Marks(v, w) /\ Cardinality(ackSids \cup {w}) >= ackExpected
       /\ FreeRetired(v)

OnAck ==
    /\ upc = "idle"
    /\ cq # <<>>
    /\ cq' = Tail(cq)
    /\ UpfClsOnAckFree(Head(cq).ver, Head(cq).sid)
    /\ UNCHANGED <<ctrl, snapPdrs, allPdr, upfc, wq, worker, reqLost>>

-----------------------------------------------------------------------------
(* UPF-U: a worker's main loop.                                             *)

\* msg_handler, EVT_CLS_GC_REQ; the announced version itself is never read.
RecvGcReq(w) ==
    /\ wpc[w] = "loop"
    /\ wq[w] # <<>>
    /\ wq' = [wq EXCEPT ![w] = Tail(@)]
    /\ flip' = [flip EXCEPT ![w] = TRUE]
    /\ UNCHANGED <<ctrl, memory, allPdr, upfc, slot, tracker, retireQ, cq, wpc, ptr,
                   ver, v1, newPtr, inUse, reqLost>>

\* packet_handler reaches UpfClsMaybeFlipAndAck with an IPv4 packet.
PacketArrives(w) ==
    /\ wpc[w] = "loop"
    /\ wpc' = [wpc EXCEPT ![w] = IF flip[w] THEN "spin" ELSE "classify"]
    /\ UNCHANGED <<ctrl, memory, allPdr, upfc, slot, tracker, retireQ, cq, wq, flip,
                   ptr, ver, v1, newPtr, inUse, reqLost>>

\* First load of the version; an odd one is read again.
LoadVersion(w) ==
    /\ wpc[w] = "spin"
    /\ Even(version)
    /\ v1' = [v1 EXCEPT ![w] = version]
    /\ wpc' = [wpc EXCEPT ![w] = "ptr"]
    /\ UNCHANGED <<ctrl, memory, allPdr, upfc, slot, tracker, retireQ, cq, wq, flip,
                   ptr, ver, newPtr, inUse, reqLost>>

LoadActive(w) ==
    /\ wpc[w] = "ptr"
    /\ newPtr' = [newPtr EXCEPT ![w] = active]
    /\ wpc' = [wpc EXCEPT ![w] = "recheck"]
    /\ UNCHANGED <<ctrl, memory, allPdr, upfc, slot, tracker, retireQ, cq, wq, flip,
                   ptr, ver, v1, inUse, reqLost>>

\* UpfSendEvt2 to UPF-C; a failure is ignored by the worker.
SendAck(v, w) ==
    \/ /\ Len(cq) < MsgQueueSize
       /\ cq' = Append(cq, [ver |-> v, sid |-> w])
    \/ /\ Len(cq) >= MsgQueueSize \/ AllocMayFail
       /\ cq' = cq

\* Mutant: the pointer is committed without looking at the version again.
RecheckNothing(w) ==
    /\ wpc[w] = "recheck"
    /\ newPtr[w] # NoSnap
    /\ wpc' = [wpc EXCEPT ![w] = "classify"]
    /\ ptr' = [ptr EXCEPT ![w] = newPtr[w]]
    /\ ver' = [ver EXCEPT ![w] = version]
    /\ flip' = [flip EXCEPT ![w] = FALSE]
    /\ SendAck(version, w)
    /\ UNCHANGED <<ctrl, memory, allPdr, upfc, slot, tracker, retireQ, wq, v1,
                   newPtr, inUse, reqLost>>

\* Mutant: a load that has to be repeated clears the local slot.
RecheckResets(w) ==
    /\ wpc[w] = "recheck"
    /\ \/ /\ v1[w] # version
          /\ wpc' = [wpc EXCEPT ![w] = "spin"]
          /\ ptr' = [ptr EXCEPT ![w] = NoSnap]
          /\ ver' = [ver EXCEPT ![w] = 0]
          /\ UNCHANGED <<flip, cq>>
       \/ /\ v1[w] = version
          /\ newPtr[w] # NoSnap
          /\ wpc' = [wpc EXCEPT ![w] = "classify"]
          /\ ptr' = [ptr EXCEPT ![w] = newPtr[w]]
          /\ ver' = [ver EXCEPT ![w] = version]
          /\ flip' = [flip EXCEPT ![w] = FALSE]
          /\ SendAck(version, w)
    /\ UNCHANGED <<ctrl, memory, allPdr, upfc, slot, tracker, retireQ, wq, v1,
                   newPtr, inUse, reqLost>>

\* Second load of the version: retry, give up on NULL, or commit and ACK.
Recheck(w) ==
    /\ wpc[w] = "recheck"
    /\ \/ /\ v1[w] # version
          /\ wpc' = [wpc EXCEPT ![w] = "spin"]
          /\ UNCHANGED <<ptr, ver, flip, cq>>
       \/ /\ v1[w] = version
          /\ newPtr[w] = NoSnap
          /\ wpc' = [wpc EXCEPT ![w] = "classify"]
          /\ UNCHANGED <<ptr, ver, flip, cq>>
       \/ /\ v1[w] = version
          /\ newPtr[w] # NoSnap
          /\ wpc' = [wpc EXCEPT ![w] = "classify"]
          /\ ptr' = [ptr EXCEPT ![w] = newPtr[w]]
          /\ ver' = [ver EXCEPT ![w] = version]
          /\ flip' = [flip EXCEPT ![w] = FALSE]
          /\ SendAck(version, w)
    /\ UNCHANGED <<ctrl, memory, allPdr, upfc, slot, tracker, retireQ, wq, v1,
                   newPtr, inUse, reqLost>>

\* The lookup in the local snapshot: no snapshot or no match drops the packet.
Classify(w) ==
    /\ wpc[w] = "classify"
    /\ \/ /\ wpc' = [wpc EXCEPT ![w] = "loop"]
          /\ UNCHANGED inUse
       \/ /\ ptr[w] # NoSnap
          /\ \E p \in snapPdrs[ptr[w]] : inUse' = [inUse EXCEPT ![w] = p]
          /\ wpc' = [wpc EXCEPT ![w] = "use"]
    /\ UNCHANGED <<ctrl, memory, allPdr, upfc, slot, tracker, retireQ, cq, wq, flip,
                   ptr, ver, v1, newPtr, reqLost>>

\* The rest of packet_handler, which reads the PDR up to its return.
PacketDone(w) ==
    /\ wpc[w] = "use"
    /\ wpc' = [wpc EXCEPT ![w] = "loop"]
    /\ inUse' = [inUse EXCEPT ![w] = NoPdr]
    /\ UNCHANGED <<ctrl, memory, allPdr, upfc, slot, tracker, retireQ, cq, wq, flip,
                   ptr, ver, v1, newPtr, reqLost>>

-----------------------------------------------------------------------------
UpfC ==
    \/ \E p \in Pdrs : CreatePdr(p) \/ CreatePdrFails(p) \/ UpdatePdr(p) \/ RemovePdr(p)
    \/ PublishSwap
    \/ PublishStable
    \/ \E reached \in Reachable : Notify(reached)
    \/ OnAck

UpfU(w) ==
    \/ RecvGcReq(w) \/ PacketArrives(w)
    \/ LoadVersion(w) \/ LoadActive(w) \/ Recheck(w)
    \/ Classify(w) \/ PacketDone(w)

Next == UpfC \/ \E w \in Workers : UpfU(w)

Spec == Init /\ [][Next]_vars

\* UPF-C's loop runs and reads its ring; a worker's loop runs, one message
\* after each burst, and IPv4 packets keep arriving at every worker.
Fairness ==
    /\ WF_vars(PublishSwap \/ PublishStable \/ \E reached \in Reachable : Notify(reached))
    /\ WF_vars(OnAck)
    /\ \A w \in Workers : WF_vars(UpfU(w)) /\ SF_vars(RecvGcReq(w)) /\ SF_vars(PacketArrives(w))

FairSpec == Spec /\ Fairness

-----------------------------------------------------------------------------
(* Properties.                                                              *)

\* The pair a worker commits in UpfClsMaybeFlipAndAck belongs to one
\* publication: the seqlock never lets it pair a pointer with the version of
\* another snapshot, so an ACK never names a version the worker did not load.
FlipIsAtomic == \A w \in Workers : ptr[w] = ver[w]

\* cls_destroy and rte_free are never called twice on the same object, over
\* all the paths that free: the immediate one, the one of the last ACK, and
\* the one of a creation that fails.
NoDoubleFree ==
    /\ \A s \in Versions : snapMem[s] # "double"
    /\ \A p \in Pdrs : pdrMem[p] # "double"

\* What ctrl.active points to is allocated, and so is every PDR in it: a
\* worker that flips now gets a snapshot it can use.
ActiveIsLive ==
    active # NoSnap => /\ snapMem[active] = "live"
                       /\ \A p \in snapPdrs[active] : pdrMem[p] = "live"

\* As long as every GC_REQ reached its worker, no worker holds a snapshot
\* that UPF-C has freed, nor a PDR pointer whose PDR UPF-C has freed.
NoUseAfterFree ==
    ~reqLost =>
        \A w \in Workers :
            /\ ptr[w] # NoSnap => snapMem[ptr[w]] = "live"
            /\ \A p \in snapPdrs[ptr[w]] : pdrMem[p] = "live"
            /\ inUse[w] # NoPdr => pdrMem[inUse[w]] = "live"

\* The retire queue is ordered by version, which PdrFreeUpTo relies on when
\* it stops at the first entry that is too new, and it never holds a PDR that
\* is still in the global list.
RetireQueueOrdered ==
    \A i \in 1 .. Len(retireQ) :
        /\ retireQ[i].pdr \notin allPdr
        /\ \A j \in 1 .. i : retireQ[j].ver <= retireQ[i].ver

\* An applied version never goes back: a worker that acknowledged a version
\* never returns to an older snapshot.
VersionNeverGoesBack == [][\A w \in Workers : ver'[w] >= ver[w]]_vars

\* A PDR whose removal was published is eventually freed, once the workers
\* keep receiving packets and no message is lost.
RemovedPdrEventuallyFreed ==
    \A p \in Pdrs : (pdrMem[p] = "live" /\ p \notin allPdr) ~> pdrMem[p] = "freed"

\* A PDR is freed only after every configured worker was told about its
\* removal and flipped away from the snapshots that hold it.
PdrFreedAfterAck ==
    \A w \in Workers : \A p \in snapPdrs[ptr[w]] : pdrMem[p] # "freed"

\* When every worker has acknowledged the newest version and all messages
\* are handled, no snapshot but the active one is still allocated.
RetiredSnapshotsAreFreed ==
    (/\ upc = "idle" /\ cq = <<>> /\ ~reqLost
     /\ retiredSnap = NoSnap
     /\ \A w \in Workers : wq[w] = <<>> /\ ~flip[w] /\ ver[w] = version)
        => \A s \in Versions : snapMem[s] = "live" => s = active

\* For TLC: workers and PDR addresses are interchangeable.
Symmetry == Permutations(Workers) \cup Permutations(Pdrs)
=============================================================================
