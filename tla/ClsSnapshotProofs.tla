-------------------------- MODULE ClsSnapshotProofs --------------------------
(* Proofs about ClsSnapshot, for every set of workers and PDRs, every ring   *)
(* size and every bound on the version.                                      *)
EXTENDS ClsSnapshot, FiniteSetTheorems, TLAPS

-----------------------------------------------------------------------------
(* The inductive invariant.                                                  *)

\* The seqlock as UPF-C moves through a publication: which version goes with
\* which pointer, and which snapshot the publication retires.
CtrlInv ==
    /\ upc \in {"idle", "notify"} => version % 2 = 0 /\ active = version
    /\ upc = "swap" => version % 2 = 1 /\ active = version - 1 /\ version + 1 \in Versions
    /\ upc = "stable" => version % 2 = 1 /\ active = version + 1
    /\ upc \in {"idle", "swap"} => retired = NoSnap
    /\ upc = "stable" => retired = version - 1
    /\ upc = "notify" => version >= 2 /\ retired = version - 2

\* The retired slot holds the snapshot before the one it waits for, never the
\* active one; between publications it waits for the newest version.
SlotInv ==
    /\ retiredSnap # NoSnap => retiredSnap < active /\ snapMem[retiredSnap] = "live"
    /\ upc = "idle" => retiredVer \in {0, version}
    /\ upc # "idle" => retiredVer < version
    /\ upc = "notify" => retiredVer <= version - 2
    /\ upc \in {"stable", "notify"} /\ retiredSnap # NoSnap => retiredSnap < retired

\* Snapshots that can still be reached from UPF-C are allocated.
SnapInv ==
    /\ active # NoSnap => snapMem[active] = "live"
    /\ upc = "swap" => snapMem[version + 1] = "live"
    /\ retired # NoSnap => snapMem[retired] = "live"
    /\ \A s \in Versions : snapMem[s] # "double"

\* What the tracker knows: who acknowledged a version has applied it.
AckInv ==
    /\ \A w \in ackSids : ver[w] >= ackVersion
    /\ \A i \in 1 .. Len(cq) : cq[i].ver > 0 /\ cq[i].ver <= ver[cq[i].sid]
    /\ upc = "idle" /\ retiredVer # 0 =>
          /\ ackVersion = retiredVer
          /\ ~reqLost => ackExpected = Cardinality(Workers)

\* A worker's locals against the shared slot.
WorkerInv ==
    \A w \in Workers :
        /\ ptr[w] = ver[w] /\ ver[w] <= version /\ ver[w] <= active
        /\ wpc[w] \in {"ptr", "recheck"} => v1[w] % 2 = 0 /\ v1[w] <= version
        /\ wpc[w] = "recheck" /\ v1[w] = version => newPtr[w] = version
        /\ inUse[w] # NoPdr => wpc[w] = "use" /\ inUse[w] \in snapPdrs[ptr[w]]

\* The global list, the newest snapshot and the memory of the PDRs agree.
PdrInv ==
    /\ \A p \in allPdr : pdrMem[p] = "live"
    /\ upc # "swap" => snapPdrs[active] = allPdr
    /\ upc = "swap" => snapPdrs[version + 1] = allPdr
    /\ \A p \in snapPdrs[active] : pdrMem[p] = "live"
    /\ \A p \in Pdrs : pdrMem[p] = "new" => \A s \in Versions : p \notin snapPdrs[s]
    /\ snapPdrs[NoSnap] = {}
    /\ \A p \in Pdrs : pdrMem[p] # "double"

\* PDRs waiting to be freed: each once, in version order, still allocated and
\* out of the global list.
QueueInv ==
    /\ \A i \in 1 .. Len(retireQ) :
          /\ retireQ[i].ver <= version
          /\ retireQ[i].pdr \notin allPdr
          /\ pdrMem[retireQ[i].pdr] = "live"
          /\ \A j \in 1 .. i : retireQ[j].ver <= retireQ[i].ver
          /\ \A j \in 1 .. Len(retireQ) : retireQ[j].pdr = retireQ[i].pdr => j = i
    /\ upc # "idle" /\ job.op = "remove" =>
          /\ job.pdr \in Pdrs \ allPdr
          /\ pdrMem[job.pdr] = "live"
          /\ \A i \in 1 .. Len(retireQ) : retireQ[i].pdr # job.pdr

\* What the workers hold, as long as no GC_REQ was lost.
SafeInv ==
    ~reqLost =>
        \A w \in Workers :
            /\ ptr[w] # NoSnap => snapMem[ptr[w]] = "live"
            /\ \A p \in snapPdrs[ptr[w]] : pdrMem[p] = "live"

IndInv ==
    /\ TypeOK /\ CtrlInv /\ SlotInv /\ SnapInv /\ AckInv
    /\ WorkerInv /\ PdrInv /\ QueueInv /\ SafeInv

-----------------------------------------------------------------------------
(* Lemmas.                                                                   *)

\* Values that are no version and no job under way.
LEMMA RestingValues ==
    /\ 0 \in Versions /\ NoSnap \in Versions
    /\ NoJob \in [op : {"none", "create", "update", "remove"}, pdr : Pdrs \cup {NoPdr}]
BY BoundAssumption DEF Versions, NoSnap, NoJob

\* A queue with an element put behind it.
LEMMA SeqAppend ==
    ASSUME NEW T, NEW q \in Seq(T), NEW x \in T
    PROVE  Append(q, x) \in Seq(T)
OBVIOUS

\* Parity alternates along the publish counter.
LEMMA ParityStep ==
    \A n \in Nat : /\ n % 2 = 0 => (n + 1) % 2 = 1
                   /\ n % 2 = 1 => (n + 1) % 2 = 0
  OBVIOUS

\* A nonempty set of indices has a least element: the interval up to it is
\* minimal among the intervals of the set, and inclusion is well founded.
LEMMA LeastIndex ==
    ASSUME NEW N \in Nat, NEW S \in SUBSET (1 .. N), S # {}
    PROVE  \E n \in S : \A k \in S : n <= k
  <1> DEFINE T == {1 .. n : n \in S}
             R == StrictSubsetOrdering(1 .. N)
  <1>1. IsWellFoundedOn(R, SUBSET (1 .. N))
    <2>1. IsFiniteSet(1 .. N)
      BY FS_Interval
    <2>2. FiniteSubsetsOf(1 .. N) = SUBSET (1 .. N)
      BY <2>1, FS_FiniteSubsetsOfFinite
    <2> QED
      BY <2>2, FS_StrictSubsetOrderingWellFounded, ZenonT(30)
  <1>2. T \subseteq SUBSET (1 .. N) /\ T # {}
    <2>1. \A n \in S : 1 .. n \in SUBSET (1 .. N)
      OBVIOUS
    <2> QED
      BY <2>1, ZenonT(30)
  <1>3. PICK x \in T : \A y \in T : ~(<<y, x>> \in R)
    <2> HIDE DEF T, R
    <2> QED BY <1>1, <1>2, WFMin, ZenonT(30)
  <1>4. PICK n \in S : x = 1 .. n
    OBVIOUS
  <1>5. ASSUME NEW k \in S, k < n PROVE FALSE
    <2>1. 1 .. k \in T /\ 1 .. k \subseteq x /\ n \in x /\ n \notin 1 .. k
      BY <1>4, <1>5
    <2>2. <<1 .. k, x>> \in R
      BY <2>1, <1>2 DEF StrictSubsetOrdering
    <2> QED
      BY <2>1, <2>2, <1>3, ZenonT(30)
  <1> QED
    BY <1>5

\* PdrFreeUpTo's loop stops at a well-defined entry of the retire queue.
LEMMA FreeCountLemma ==
    ASSUME NEW q \in Seq(Retire), NEW v \in Nat
    PROVE  LET n == FreeCount(q, v)
           IN /\ n \in 0 .. Len(q)
              /\ \A i \in 1 .. n : q[i].ver <= v
              /\ n < Len(q) => q[n + 1].ver > v
  <1> DEFINE Stops(n) == /\ \A i \in 1 .. n : q[i].ver <= v
                         /\ n < Len(q) => q[n + 1].ver > v
             late == {i \in 1 .. Len(q) : q[i].ver > v}
  <1>0. Len(q) \in Nat /\ \A i \in 1 .. Len(q) : q[i].ver \in Nat
    <2>1. Len(q) \in Nat /\ \A i \in 1 .. Len(q) : q[i] \in Retire
      OBVIOUS
    <2> QED
      BY <2>1, BoundAssumption DEF Versions, Retire
  <1>1. \E n \in 0 .. Len(q) : Stops(n)
    <2>1. CASE late = {}
      BY <1>0, <2>1
    <2>2. CASE late # {}
      <3>1. PICK m \in late : \A k \in late : m <= k
        BY <2>2, LeastIndex, <1>0, ZenonT(30)
      <3>2. m - 1 \in 0 .. Len(q) /\ Stops(m - 1)
        BY <1>0, <3>1
      <3> QED
        BY <3>2, ZenonT(30)
    <2> QED
      BY <2>1, <2>2
  <1>2. FreeCount(q, v) = CHOOSE n \in 0 .. Len(q) : Stops(n)
    BY DEF FreeCount
  <1> QED
    BY <1>1, <1>2, ZenonT(30)

\* A worker's step leaves everything UPF-C owns as it is.
LEMMA WorkerFrame ==
    ASSUME NEW w \in Workers, UpfU(w)
    PROVE  UNCHANGED <<version, active, snapPdrs, snapMem, pdrMem, allPdr, upc, job, retired,
                       retiredSnap, retiredVer, ackVersion, ackExpected, ackSids, retireQ, reqLost>>
  BY DEF UpfU, RecvGcReq, PacketArrives, LoadVersion, LoadActive, Recheck, Classify,
         PacketDone, ctrl, memory, upfc, slot, tracker

\* The stores of upf_cls_publish keep version and pointer in step.
LEMMA CtrlInvStep ==
    ASSUME IndInv, [Next]_vars
    PROVE  CtrlInv'
  <1>0. /\ version \in Nat /\ active \in Nat /\ retired \in Nat /\ MaxVersion \in Nat
        /\ upc \in {"idle", "swap", "stable", "notify"}
    BY BoundAssumption DEF IndInv, TypeOK, Versions
  <1>1. CASE UNCHANGED vars
    BY <1>1 DEF IndInv, CtrlInv, vars, ctrl, memory, upfc, slot, tracker, worker
  <1>2. ASSUME NEW p \in Pdrs, CreatePdr(p) PROVE CtrlInv'
    BY <1>0, <1>2, ParityStep DEF IndInv, CtrlInv, Versions, NoSnap, CreatePdr, BeginPublish, ctrl, memory, upfc, slot, tracker, worker
  <1>3. ASSUME NEW p \in Pdrs, CreatePdrFails(p) PROVE CtrlInv'
    BY <1>3 DEF IndInv, CtrlInv, CreatePdrFails, BeginPublish, ctrl, memory, upfc, slot, tracker, worker
  <1>4. ASSUME NEW p \in Pdrs, UpdatePdr(p) PROVE CtrlInv'
    BY <1>0, <1>4, ParityStep DEF IndInv, CtrlInv, Versions, NoSnap, UpdatePdr, BeginPublish, ctrl, memory, upfc, slot, tracker, worker
  <1>5. ASSUME NEW p \in Pdrs, RemovePdr(p) PROVE CtrlInv'
    BY <1>0, <1>5, ParityStep DEF IndInv, CtrlInv, Versions, NoSnap, RemovePdr, BeginPublish, ctrl, memory, upfc, slot, tracker, worker
  <1>6. CASE PublishSwap
    BY <1>0, <1>6 DEF IndInv, CtrlInv, Versions, NoSnap, PublishSwap, ctrl, memory, upfc, slot, tracker, worker
  <1>7. CASE PublishStable
    BY <1>0, <1>7, ParityStep DEF IndInv, CtrlInv, Versions, NoSnap, PublishStable, ctrl, memory, upfc, slot, tracker, worker
  <1>8. ASSUME NEW reached \in Reachable, Notify(reached) PROVE CtrlInv'
    BY <1>0, <1>8 DEF IndInv, CtrlInv, Versions, NoSnap, Notify, Reachable, PdrDeferFree, ctrl, memory, upfc, slot, tracker, worker
  <1>9. CASE OnAck
    BY <1>9 DEF IndInv, CtrlInv, OnAck, UpfClsOnAckFree, FreeRetired, PdrFreeUpTo, Marks, ctrl, memory, upfc, slot, tracker, worker
  <1>10. ASSUME NEW w \in Workers, UpfU(w) PROVE CtrlInv'
    BY <1>10, WorkerFrame DEF IndInv, CtrlInv
  <1> QED
    BY <1>1, <1>2, <1>3, <1>4, <1>5, <1>6, <1>7, <1>8, <1>9, <1>10 DEF Next, UpfC

\* No path frees a snapshot twice, nor one UPF-C still publishes.
LEMMA SnapInvStep ==
    ASSUME IndInv, [Next]_vars
    PROVE  SnapInv'
  <1>0. /\ version \in Nat /\ active \in Nat /\ retired \in Nat /\ MaxVersion \in Nat
        /\ retiredSnap \in Versions /\ snapMem \in [Versions -> Mem]
        /\ upc \in {"idle", "swap", "stable", "notify"}
    BY BoundAssumption DEF IndInv, TypeOK, Versions
  <1>1. CASE UNCHANGED vars
    BY <1>1 DEF IndInv, SnapInv, vars, ctrl, memory, upfc, slot, tracker, worker
  <1>2. ASSUME NEW p \in Pdrs, CreatePdr(p) PROVE SnapInv'
    BY <1>0, <1>2 DEF IndInv, SnapInv, CtrlInv, SlotInv, Versions, NoSnap, CreatePdr, BeginPublish, ctrl, memory, upfc, slot, tracker, worker, Freed, Mem
  <1>3. ASSUME NEW p \in Pdrs, CreatePdrFails(p) PROVE SnapInv'
    BY <1>3 DEF IndInv, SnapInv, CreatePdrFails, BeginPublish, ctrl, memory, upfc, slot, tracker, worker
  <1>4. ASSUME NEW p \in Pdrs, UpdatePdr(p) PROVE SnapInv'
    BY <1>0, <1>4 DEF IndInv, SnapInv, CtrlInv, SlotInv, Versions, NoSnap, UpdatePdr, BeginPublish, ctrl, memory, upfc, slot, tracker, worker, Freed, Mem
  <1>5. ASSUME NEW p \in Pdrs, RemovePdr(p) PROVE SnapInv'
    BY <1>0, <1>5 DEF IndInv, SnapInv, CtrlInv, SlotInv, Versions, NoSnap, RemovePdr, BeginPublish, ctrl, memory, upfc, slot, tracker, worker, Freed, Mem
  <1>6. CASE PublishSwap
    BY <1>0, <1>6 DEF IndInv, SnapInv, CtrlInv, SlotInv, Versions, NoSnap, PublishSwap, ctrl, memory, upfc, slot, tracker, worker
  <1>7. CASE PublishStable
    BY <1>0, <1>7 DEF IndInv, SnapInv, CtrlInv, SlotInv, Versions, NoSnap, PublishStable, ctrl, memory, upfc, slot, tracker, worker
  <1>8. ASSUME NEW reached \in Reachable, Notify(reached) PROVE SnapInv'
    <2>1. /\ active' = active /\ upc = "notify" /\ upc' = "idle" /\ retired' = NoSnap
          /\ \/ snapMem' = snapMem
             \/ retired # NoSnap /\ snapMem' = [snapMem EXCEPT ![retired] = Freed(@)]
      BY ONLY <1>8 DEF Notify, ctrl
    <2>2. active # retired
      BY ONLY <1>0, <2>1, IndInv DEF IndInv, CtrlInv
    <2>3. \A s \in Versions : snapMem'[s] = snapMem[s] \/ (s = retired /\ snapMem'[s] = "freed")
      BY ONLY <1>0, <2>1, IndInv DEF IndInv, SnapInv, Freed
    <2>4. active \in Versions
      BY DEF IndInv, TypeOK
    <2> QED
      BY ONLY <2>1, <2>2, <2>3, <2>4, IndInv DEF IndInv, SnapInv
  <1>9. CASE OnAck
    <2>1. /\ UNCHANGED <<active, upc, retired>> /\ upc = "idle"
          /\ \/ snapMem' = snapMem
             \/ retiredSnap # NoSnap /\ snapMem' = [snapMem EXCEPT ![retiredSnap] = Freed(@)]
      BY ONLY <1>9 DEF OnAck, UpfClsOnAckFree, FreeRetired, ctrl, upfc
    <2>2. /\ retired = NoSnap
          /\ retiredSnap # NoSnap => retiredSnap < active /\ snapMem[retiredSnap] = "live"
      BY ONLY <2>1, IndInv DEF IndInv, CtrlInv, SlotInv
    <2>3. \A s \in Versions : snapMem'[s] = snapMem[s] \/ (s < active /\ snapMem'[s] = "freed")
      BY ONLY <1>0, <2>1, <2>2 DEF Freed
    <2>4. active \in Versions /\ ~(active < active)
      BY <1>0 DEF IndInv, TypeOK
    <2> QED
      BY ONLY <2>1, <2>2, <2>3, <2>4, IndInv DEF IndInv, SnapInv
  <1>10. ASSUME NEW w \in Workers, UpfU(w) PROVE SnapInv'
    BY <1>10, WorkerFrame DEF IndInv, SnapInv
  <1> QED
    BY <1>1, <1>2, <1>3, <1>4, <1>5, <1>6, <1>7, <1>8, <1>9, <1>10 DEF Next, UpfC

\* The retired slot always names a superseded, allocated snapshot.
LEMMA SlotInvStep ==
    ASSUME IndInv, [Next]_vars
    PROVE  SlotInv'
  <1>0. /\ version \in Nat /\ active \in Nat /\ retired \in Nat /\ MaxVersion \in Nat
        /\ retiredSnap \in Versions /\ retiredVer \in Nat /\ snapMem \in [Versions -> Mem]
        /\ upc \in {"idle", "swap", "stable", "notify"}
    BY BoundAssumption DEF IndInv, TypeOK, Versions
  <1>1. CASE UNCHANGED vars
    BY <1>1 DEF IndInv, SlotInv, vars, ctrl, memory, upfc, slot, tracker, worker
  <1>2. ASSUME NEW p \in Pdrs, CreatePdr(p) PROVE SlotInv'
    BY <1>0, <1>2 DEF IndInv, SlotInv, CtrlInv, SnapInv, Versions, NoSnap, CreatePdr, BeginPublish, ctrl, memory, upfc, slot, tracker, worker
  <1>3. ASSUME NEW p \in Pdrs, CreatePdrFails(p) PROVE SlotInv'
    BY <1>3 DEF IndInv, SlotInv, CreatePdrFails, BeginPublish, ctrl, memory, upfc, slot, tracker, worker
  <1>4. ASSUME NEW p \in Pdrs, UpdatePdr(p) PROVE SlotInv'
    BY <1>0, <1>4 DEF IndInv, SlotInv, CtrlInv, SnapInv, Versions, NoSnap, UpdatePdr, BeginPublish, ctrl, memory, upfc, slot, tracker, worker
  <1>5. ASSUME NEW p \in Pdrs, RemovePdr(p) PROVE SlotInv'
    BY <1>0, <1>5 DEF IndInv, SlotInv, CtrlInv, SnapInv, Versions, NoSnap, RemovePdr, BeginPublish, ctrl, memory, upfc, slot, tracker, worker
  <1>6. CASE PublishSwap
    BY <1>0, <1>6 DEF IndInv, SlotInv, CtrlInv, SnapInv, Versions, NoSnap, PublishSwap, ctrl, memory, upfc, slot, tracker, worker
  <1>7. CASE PublishStable
    BY <1>0, <1>7 DEF IndInv, SlotInv, CtrlInv, SnapInv, Versions, NoSnap, PublishStable, ctrl, memory, upfc, slot, tracker, worker
  <1>8. ASSUME NEW reached \in Reachable, Notify(reached) PROVE SlotInv'
    BY <1>0, <1>8 DEF IndInv, SlotInv, CtrlInv, SnapInv, Versions, NoSnap, Notify, Reachable, PdrDeferFree, ctrl, memory, upfc, slot, tracker, worker
  <1>9. CASE OnAck
    BY <1>0, <1>9 DEF IndInv, SlotInv, CtrlInv, SnapInv, Versions, NoSnap, OnAck, UpfClsOnAckFree, FreeRetired, PdrFreeUpTo, Marks, ctrl, memory, upfc, slot, tracker, worker
  <1>10. ASSUME NEW w \in Workers, UpfU(w) PROVE SlotInv'
    BY <1>10, WorkerFrame DEF IndInv, SlotInv
  <1> QED
    BY <1>1, <1>2, <1>3, <1>4, <1>5, <1>6, <1>7, <1>8, <1>9, <1>10 DEF Next, UpfC

\* The second load of the version: nothing, or a commit of the active pair.
LEMMA RecheckCases ==
    ASSUME IndInv, NEW w \in Workers, Recheck(w)
    PROVE  /\ UNCHANGED <<version, active, snapPdrs, snapMem, pdrMem, upc, v1, newPtr, inUse, reqLost>>
           /\ wpc[w] = "recheck"
           /\ \E pc \in {"spin", "classify"} : wpc' = [wpc EXCEPT ![w] = pc]
           /\ \/ ptr' = ptr /\ ver' = ver
              \/ /\ version = active
                 /\ ptr' = [ptr EXCEPT ![w] = version] /\ ver' = [ver EXCEPT ![w] = version]
  <1>1. /\ wpc[w] = "recheck"
        /\ \E pc \in {"spin", "classify"} : wpc' = [wpc EXCEPT ![w] = pc]
        /\ \/ ptr' = ptr /\ ver' = ver
           \/ /\ v1[w] = version
              /\ ptr' = [ptr EXCEPT ![w] = newPtr[w]] /\ ver' = [ver EXCEPT ![w] = version]
    BY DEF Recheck
  <1>2. v1[w] = version => newPtr[w] = version /\ version % 2 = 0
    BY ONLY <1>1, IndInv, w \in Workers DEF IndInv, WorkerInv
  <1>3. version % 2 = 0 => version = active
    BY ONLY IndInv DEF IndInv, CtrlInv, TypeOK
  <1>4. UNCHANGED <<version, active, snapPdrs, snapMem, pdrMem, upc, v1, newPtr, inUse, reqLost>>
    BY DEF Recheck, ctrl, memory, upfc
  <1> QED
    BY ONLY <1>1, <1>2, <1>3, <1>4, ZenonT(30)

\* A worker's commit pairs the pointer with its own version.
LEMMA WorkerInvStep ==
    ASSUME IndInv, [Next]_vars
    PROVE  WorkerInv'
  <1>0. /\ version \in Nat /\ active \in Nat /\ MaxVersion \in Nat
        /\ snapPdrs \in [Versions -> SUBSET Pdrs]
        /\ wpc \in [Workers -> {"loop", "spin", "ptr", "recheck", "classify", "use"}]
        /\ ptr \in [Workers -> Versions] /\ ver \in [Workers -> Versions]
        /\ v1 \in [Workers -> Versions] /\ newPtr \in [Workers -> Versions]
        /\ inUse \in [Workers -> Pdrs \cup {NoPdr}]
        /\ upc \in {"idle", "swap", "stable", "notify"}
    BY BoundAssumption DEF IndInv, TypeOK, Versions
  <1>1. CASE UNCHANGED vars
    BY <1>1 DEF IndInv, WorkerInv, vars, ctrl, memory, upfc, slot, tracker, worker
  <1>2. ASSUME NEW p \in Pdrs, CreatePdr(p) PROVE WorkerInv'
    BY <1>0, <1>2 DEF IndInv, WorkerInv, CtrlInv, Versions, NoSnap, CreatePdr, BeginPublish, ctrl, memory, upfc, slot, tracker, worker
  <1>3. ASSUME NEW p \in Pdrs, CreatePdrFails(p) PROVE WorkerInv'
    BY <1>3 DEF IndInv, WorkerInv, CreatePdrFails, BeginPublish, ctrl, memory, upfc, slot, tracker, worker
  <1>4. ASSUME NEW p \in Pdrs, UpdatePdr(p) PROVE WorkerInv'
    BY <1>0, <1>4 DEF IndInv, WorkerInv, CtrlInv, Versions, NoSnap, UpdatePdr, BeginPublish, ctrl, memory, upfc, slot, tracker, worker
  <1>5. ASSUME NEW p \in Pdrs, RemovePdr(p) PROVE WorkerInv'
    BY <1>0, <1>5 DEF IndInv, WorkerInv, CtrlInv, Versions, NoSnap, RemovePdr, BeginPublish, ctrl, memory, upfc, slot, tracker, worker
  <1>6. CASE PublishSwap
    BY <1>0, <1>6 DEF IndInv, WorkerInv, CtrlInv, Versions, NoSnap, PublishSwap, ctrl, memory, upfc, slot, tracker, worker
  <1>7. CASE PublishStable
    BY <1>0, <1>7 DEF IndInv, WorkerInv, CtrlInv, Versions, NoSnap, PublishStable, ctrl, memory, upfc, slot, tracker, worker
  <1>8. ASSUME NEW reached \in Reachable, Notify(reached) PROVE WorkerInv'
    BY <1>8 DEF IndInv, WorkerInv, Notify, Reachable, PdrDeferFree, ctrl, memory, upfc, slot, tracker, worker
  <1>9. CASE OnAck
    BY <1>9 DEF IndInv, WorkerInv, OnAck, UpfClsOnAckFree, FreeRetired, PdrFreeUpTo, Marks, ctrl, memory, upfc, slot, tracker, worker
  <1>10. ASSUME NEW w \in Workers, RecvGcReq(w) PROVE WorkerInv'
    BY <1>10 DEF IndInv, WorkerInv, RecvGcReq, SendAck, ctrl, memory, upfc, slot, tracker, worker
  <1>11. ASSUME NEW w \in Workers, PacketArrives(w) PROVE WorkerInv'
    BY <1>0, <1>11 DEF IndInv, WorkerInv, CtrlInv, Versions, NoSnap, PacketArrives, SendAck, ctrl, memory, upfc, slot, tracker, worker
  <1>12. ASSUME NEW w \in Workers, LoadVersion(w) PROVE WorkerInv'
    BY <1>0, <1>12 DEF IndInv, WorkerInv, CtrlInv, Versions, NoSnap, LoadVersion, Even, ctrl, memory, upfc, slot, tracker, worker
  <1>13. ASSUME NEW w \in Workers, LoadActive(w) PROVE WorkerInv'
    BY <1>0, <1>13 DEF IndInv, WorkerInv, CtrlInv, Versions, NoSnap, LoadActive, SendAck, ctrl, memory, upfc, slot, tracker, worker
  <1>14. ASSUME NEW w \in Workers, Recheck(w) PROVE WorkerInv'
    <2>1. /\ wpc \in [Workers -> {"loop", "spin", "ptr", "recheck", "classify", "use"}]
          /\ ptr \in [Workers -> Versions] /\ ver \in [Workers -> Versions]
          /\ version \in Nat /\ WorkerInv
      BY ONLY IndInv, BoundAssumption DEF IndInv, TypeOK, Versions
    <2>2. inUse[w] = NoPdr
      BY ONLY <1>14, <2>1, RecheckCases, IndInv DEF WorkerInv
    <2>3. /\ UNCHANGED <<version, active, snapPdrs, v1, newPtr, inUse>>
          /\ \E pc \in {"spin", "classify"} : wpc' = [wpc EXCEPT ![w] = pc]
          /\ \/ ptr' = ptr /\ ver' = ver
             \/ /\ version = active
                /\ ptr' = [ptr EXCEPT ![w] = version] /\ ver' = [ver EXCEPT ![w] = version]
      BY ONLY <1>14, RecheckCases, IndInv, w \in Workers
    <2>4. ASSUME NEW x \in Workers
          PROVE  /\ ptr'[x] = ver'[x] /\ ver'[x] <= version /\ ver'[x] <= active
                 /\ wpc'[x] \in {"ptr", "recheck", "use"} => x # w /\ wpc'[x] = wpc[x]
                 /\ x # w => wpc'[x] = wpc[x] /\ ptr'[x] = ptr[x]
      BY ONLY <2>1, <2>3, w \in Workers, x \in Workers DEF WorkerInv
    <2> QED
      BY ONLY <2>1, <2>2, <2>3, <2>4 DEF WorkerInv
  <1>15. ASSUME NEW w \in Workers, Classify(w) PROVE WorkerInv'
    BY <1>0, <1>15 DEF IndInv, WorkerInv, CtrlInv, Versions, NoSnap, Classify, SendAck, ctrl, memory, upfc, slot, tracker, worker
  <1>16. ASSUME NEW w \in Workers, PacketDone(w) PROVE WorkerInv'
    BY <1>0, <1>16, ZenonT(30) DEF IndInv, WorkerInv, CtrlInv, Versions, NoSnap, PacketDone, SendAck, ctrl, memory, upfc, slot, tracker, worker
  <1> QED
    BY <1>1, <1>2, <1>3, <1>4, <1>5, <1>6, <1>7, <1>8, <1>9,
       <1>10, <1>11, <1>12, <1>13, <1>14, <1>15, <1>16, ZenonT(30) DEF Next, UpfC, UpfU

\* An ACK, queued or recorded, tells of a version the worker has applied.
LEMMA AckInvStep ==
    ASSUME IndInv, [Next]_vars
    PROVE  AckInv'
  <1>0. /\ version \in Nat /\ active \in Nat /\ retired \in Nat /\ MaxVersion \in Nat
        /\ retiredVer \in Nat /\ ackVersion \in Nat /\ ackExpected \in Nat /\ ackSids \in SUBSET Workers
        /\ ver \in [Workers -> Versions] /\ newPtr \in [Workers -> Versions] /\ cq \in Seq(Ack)
    BY BoundAssumption DEF IndInv, TypeOK, Versions
  <1>1. CASE UNCHANGED vars
    BY <1>1 DEF IndInv, AckInv, vars, ctrl, memory, upfc, slot, tracker, worker
  <1>2. ASSUME NEW p \in Pdrs, CreatePdr(p) PROVE AckInv'
    BY <1>2 DEF IndInv, AckInv, CreatePdr, BeginPublish, ctrl, memory, upfc, slot, tracker, worker
  <1>3. ASSUME NEW p \in Pdrs, CreatePdrFails(p) PROVE AckInv'
    BY <1>3 DEF IndInv, AckInv, CreatePdrFails, BeginPublish, ctrl, memory, upfc, slot, tracker, worker
  <1>4. ASSUME NEW p \in Pdrs, UpdatePdr(p) PROVE AckInv'
    BY <1>4 DEF IndInv, AckInv, UpdatePdr, BeginPublish, ctrl, memory, upfc, slot, tracker, worker
  <1>5. ASSUME NEW p \in Pdrs, RemovePdr(p) PROVE AckInv'
    BY <1>5 DEF IndInv, AckInv, RemovePdr, BeginPublish, ctrl, memory, upfc, slot, tracker, worker
  <1>6. CASE PublishSwap
    BY <1>6 DEF IndInv, AckInv, PublishSwap, ctrl, memory, upfc, slot, tracker, worker
  <1>7. CASE PublishStable
    BY <1>7 DEF IndInv, AckInv, PublishStable, ctrl, memory, upfc, slot, tracker, worker
  <1>8. ASSUME NEW reached \in Reachable, Notify(reached) PROVE AckInv'
    <2> USE <1>8 DEF Notify, ctrl, memory, upfc, slot, tracker, worker
    <2>1. \A w \in ackSids' : ver'[w] >= ackVersion'
      OBVIOUS
    <2>2. cq' = cq /\ ver' = ver
      OBVIOUS
    <2>3. retiredVer' # 0 => ackVersion' = retiredVer'
      BY <1>0 DEF IndInv, CtrlInv, SlotInv, NoSnap
    <2>4. ~reqLost' => ackExpected' = Cardinality(Workers)
      BY ZenonT(30)
    <2> QED
      BY ONLY <2>1, <2>2, <2>3, <2>4, IndInv DEF IndInv, AckInv
  <1>9. CASE OnAck
    <2>1. cq \in Seq(Ack) /\ cq # <<>> /\ cq' = Tail(cq) /\ ver' = ver /\ upc' = upc /\ reqLost' = reqLost
      BY <1>0, <1>9 DEF OnAck, ctrl, memory, upfc, slot, tracker, worker
    <2>2. \A i \in 1 .. Len(cq') : i + 1 \in 1 .. Len(cq) /\ cq'[i] = cq[i + 1]
      BY ONLY <2>1
    <2>3. \A i \in 1 .. Len(cq') : cq'[i].ver > 0 /\ cq'[i].ver <= ver'[cq'[i].sid]
      BY ONLY <2>1, <2>2, IndInv DEF IndInv, AckInv
    <2>4. /\ Head(cq).ver \in Versions /\ Head(cq).sid \in Workers
          /\ Head(cq).ver <= ver[Head(cq).sid]
      <3>1. Head(cq) = cq[1] /\ 1 \in 1 .. Len(cq) /\ cq[1] \in Ack
        BY ONLY <2>1
      <3> QED
        BY ONLY <3>1, IndInv DEF IndInv, AckInv, Ack
    <2>5. \A w \in ackSids' : ver'[w] >= ackVersion'
      <3>1. \/ ackSids' = {}
            \/ /\ ackVersion' = ackVersion
               /\ \/ ackSids' = ackSids
                  \/ ackSids' = ackSids \cup {Head(cq).sid} /\ Head(cq).ver = ackVersion
        BY <1>9 DEF OnAck, UpfClsOnAckFree, FreeRetired, Marks, tracker
      <3>2. \A w \in ackSids : ver[w] >= ackVersion
        BY ONLY IndInv DEF IndInv, AckInv
      <3>3. ver[Head(cq).sid] \in Nat /\ Head(cq).ver \in Nat
        BY ONLY <1>0, <2>4, BoundAssumption DEF Versions
      <3> QED
        BY ONLY <2>1, <2>4, <3>1, <3>2, <3>3
    <2>6. upc' = "idle" /\ retiredVer' # 0 =>
            ackVersion' = retiredVer' /\ (~reqLost' => ackExpected' = Cardinality(Workers))
      <3>1. retiredVer' = 0 \/ UNCHANGED <<retiredVer, ackVersion, ackExpected>>
        BY <1>9 DEF OnAck, UpfClsOnAckFree, FreeRetired, slot, tracker
      <3> QED
        BY ONLY <2>1, <3>1, IndInv DEF IndInv, AckInv
    <2> QED
      BY ONLY <2>3, <2>5, <2>6 DEF AckInv
  <1>10. ASSUME NEW w \in Workers, RecvGcReq(w) PROVE AckInv'
    BY <1>10 DEF IndInv, AckInv, RecvGcReq, SendAck, ctrl, memory, upfc, slot, tracker, worker
  <1>11. ASSUME NEW w \in Workers, PacketArrives(w) PROVE AckInv'
    BY <1>11 DEF IndInv, AckInv, PacketArrives, SendAck, ctrl, memory, upfc, slot, tracker, worker
  <1>12. ASSUME NEW w \in Workers, LoadVersion(w) PROVE AckInv'
    BY <1>12 DEF IndInv, AckInv, LoadVersion, SendAck, ctrl, memory, upfc, slot, tracker, worker
  <1>13. ASSUME NEW w \in Workers, LoadActive(w) PROVE AckInv'
    BY <1>13 DEF IndInv, AckInv, LoadActive, SendAck, ctrl, memory, upfc, slot, tracker, worker
  <1>14. ASSUME NEW w \in Workers, Recheck(w) PROVE AckInv'
    <2>1. /\ UNCHANGED <<version, upc, reqLost, ackSids, ackVersion, ackExpected, retiredVer>>
          /\ \/ ver' = ver /\ cq' = cq
             \/ /\ version > 0
                /\ ver' = [ver EXCEPT ![w] = version]
                /\ \/ cq' = cq
                   \/ cq' = Append(cq, [ver |-> version, sid |-> w])
      <3>1. v1[w] = version /\ newPtr[w] # NoSnap /\ wpc[w] = "recheck" => version > 0
        BY ONLY <1>0, IndInv, w \in Workers DEF IndInv, WorkerInv, NoSnap
      <3> QED
        BY ONLY <1>14, <3>1, ZenonT(30) DEF Recheck, SendAck, ctrl, upfc, slot, tracker
    <2>2. cq \in Seq(Ack) /\ \A i \in 1 .. Len(cq) : cq[i].sid \in Workers /\ cq[i].ver \in Versions
      <3>1. cq \in Seq(Ack) /\ \A i \in 1 .. Len(cq) : cq[i] \in Ack
        BY ONLY <1>0
      <3> QED
        BY ONLY <3>1 DEF Ack
    <2>3. \A x \in Workers : ver'[x] \in Nat /\ ver[x] \in Nat /\ ver'[x] >= ver[x]
      <3>1. /\ ver \in [Workers -> Versions] /\ version \in Versions
            /\ \A x \in Workers : ver[x] <= version
        BY ONLY IndInv DEF IndInv, TypeOK, WorkerInv
      <3> QED
        BY ONLY <2>1, <3>1, BoundAssumption DEF Versions
    <2>4. \A i \in 1 .. Len(cq) : cq[i].ver > 0 /\ cq[i].ver <= ver'[cq[i].sid]
      <3>1. \A i \in 1 .. Len(cq) : cq[i].ver > 0 /\ cq[i].ver <= ver[cq[i].sid]
        BY ONLY IndInv DEF IndInv, AckInv
      <3> QED
        BY ONLY <2>2, <2>3, <3>1, BoundAssumption DEF Versions
    <2>5. \A i \in 1 .. Len(cq') : cq'[i].ver > 0 /\ cq'[i].ver <= ver'[cq'[i].sid]
      <3>1. CASE cq' = cq
        BY <2>4, <3>1
      <3>2. CASE cq' # cq
        <4>1. /\ cq' = Append(cq, [ver |-> version, sid |-> w])
              /\ version > 0 /\ ver'[w] = version
          BY ONLY <1>0, <2>1, <3>2, w \in Workers
        <4>2. [ver |-> version, sid |-> w] \in Ack
          BY DEF IndInv, TypeOK, Ack
        <4>3. \A i \in 1 .. Len(cq') : \/ i \in 1 .. Len(cq) /\ cq'[i] = cq[i]
                                      \/ cq'[i] = [ver |-> version, sid |-> w]
          BY ONLY <2>2, <4>1, <4>2
        <4> QED
          BY ONLY <1>0, <2>4, <4>1, <4>3
      <3> QED
        BY <3>1, <3>2
    <2>6. \A x \in ackSids' : ver'[x] >= ackVersion'
      BY ONLY <1>0, <2>1, <2>3, IndInv DEF IndInv, AckInv
    <2> QED
      BY ONLY <2>1, <2>5, <2>6, IndInv DEF IndInv, AckInv
  <1>15. ASSUME NEW w \in Workers, Classify(w) PROVE AckInv'
    BY <1>15 DEF IndInv, AckInv, Classify, SendAck, ctrl, memory, upfc, slot, tracker, worker
  <1>16. ASSUME NEW w \in Workers, PacketDone(w) PROVE AckInv'
    BY <1>16 DEF IndInv, AckInv, PacketDone, SendAck, ctrl, memory, upfc, slot, tracker, worker
  <1> QED
    BY <1>1, <1>2, <1>3, <1>4, <1>5, <1>6, <1>7, <1>8, <1>9,
       <1>10, <1>11, <1>12, <1>13, <1>14, <1>15, <1>16 DEF Next, UpfC, UpfU

\* PdrFreeUpTo frees the PDRs of the entries it drops, and only those.
LEMMA FreeUpToLemma ==
    ASSUME IndInv, NEW v \in Versions, PdrFreeUpTo(v)
    PROVE  \E n \in 0 .. Len(retireQ) :
              /\ Len(retireQ) \in Nat
              /\ Len(retireQ') = Len(retireQ) - n
              /\ \A i \in 1 .. Len(retireQ') : retireQ'[i] = retireQ[i + n]
              /\ \A i \in 1 .. n : pdrMem'[retireQ[i].pdr] = "freed"
              /\ \A p \in Pdrs : \/ pdrMem'[p] = pdrMem[p]
                                 \/ \E i \in 1 .. n : retireQ[i].pdr = p
              /\ \A p \in Pdrs : (\A i \in 1 .. n : retireQ[i].pdr # p) => pdrMem'[p] = pdrMem[p]
  <1> DEFINE n == FreeCount(retireQ, v)
  <1>1. retireQ \in Seq(Retire) /\ v \in Nat
    BY BoundAssumption DEF IndInv, TypeOK, Versions
  <1>2. n \in 0 .. Len(retireQ) /\ Len(retireQ) \in Nat
    BY <1>1, FreeCountLemma
  <1> HIDE DEF n
  <1>3. retireQ' = SubSeq(retireQ, n + 1, Len(retireQ))
    BY DEF PdrFreeUpTo, n
  <1>4. /\ Len(retireQ') = Len(retireQ) - n
        /\ \A i \in 1 .. Len(retireQ') : retireQ'[i] = retireQ[i + n]
    BY ONLY <1>1, <1>2, <1>3
  <1>5. pdrMem' = [p \in Pdrs |-> IF p \in {retireQ[i].pdr : i \in 1 .. n}
                                  THEN Freed(pdrMem[p]) ELSE pdrMem[p]]
    BY DEF PdrFreeUpTo, n
  <1>6. \A i \in 1 .. n : retireQ[i].pdr \in Pdrs /\ pdrMem[retireQ[i].pdr] = "live"
    <2>1. \A i \in 1 .. n : i \in 1 .. Len(retireQ) /\ retireQ[i] \in Retire
      BY ONLY <1>1, <1>2
    <2> QED
      BY <2>1 DEF Retire, IndInv, QueueInv
  <1>7. \A i \in 1 .. n : pdrMem'[retireQ[i].pdr] = "freed"
    BY ONLY <1>5, <1>6 DEF Freed
  <1>8. \A p \in Pdrs : (\A i \in 1 .. n : retireQ[i].pdr # p) => pdrMem'[p] = pdrMem[p]
    BY ONLY <1>5
  <1>9. \A p \in Pdrs : pdrMem'[p] = pdrMem[p] \/ \E i \in 1 .. n : retireQ[i].pdr = p
    BY ONLY <1>8
  <1> QED
    BY <1>2, <1>4, <1>7, <1>8, <1>9, ZenonT(30)

\* An ACK either leaves the memory and the queue alone or frees for the
\* version UPF-C waits for.
LEMMA OnAckCases ==
    ASSUME IndInv, OnAck
    PROVE  /\ UNCHANGED <<version, active, snapPdrs, allPdr, upc, job, retired, wq, wpc, flip,
                          ptr, ver, v1, newPtr, inUse, reqLost>>
           /\ upc = "idle"
           /\ Head(cq).ver \in Versions /\ Head(cq).sid \in Workers
           /\ Head(cq).ver > 0 /\ Head(cq).ver <= ver[Head(cq).sid]
           /\ \/ UNCHANGED <<pdrMem, retireQ, snapMem>>
              \/ /\ Head(cq).ver = retiredVer
                 /\ ackExpected > 0 => Cardinality(ackSids \cup {Head(cq).sid}) >= ackExpected
                 /\ PdrFreeUpTo(Head(cq).ver)
  <1>1. Head(cq) = cq[1] /\ 1 \in 1 .. Len(cq) /\ cq[1] \in Ack
    <2>1. cq \in Seq(Ack) /\ cq # <<>>
      BY DEF IndInv, TypeOK, OnAck
    <2> QED
      BY ONLY <2>1
  <1>2. Head(cq).ver \in Versions /\ Head(cq).sid \in Workers
    BY <1>1 DEF Ack
  <1>3. Head(cq).ver > 0 /\ Head(cq).ver <= ver[Head(cq).sid]
    BY <1>1 DEF IndInv, AckInv
  <1> QED
    BY <1>2, <1>3 DEF OnAck, UpfClsOnAckFree, FreeRetired, ctrl, upfc, worker

\* The newest list and snapshot name allocated PDRs only.
LEMMA PdrInvStep ==
    ASSUME IndInv, [Next]_vars
    PROVE  PdrInv'
  <1>0. /\ version \in Nat /\ active \in Nat /\ MaxVersion \in Nat /\ allPdr \in SUBSET Pdrs
        /\ snapPdrs \in [Versions -> SUBSET Pdrs] /\ pdrMem \in [Pdrs -> Mem]
        /\ upc \in {"idle", "swap", "stable", "notify"}
    BY BoundAssumption DEF IndInv, TypeOK, Versions
  <1>1. CASE UNCHANGED vars
    BY <1>1 DEF IndInv, PdrInv, vars, ctrl, memory, upfc, slot, tracker, worker
  <1>2. ASSUME NEW p \in Pdrs, CreatePdr(p) PROVE PdrInv'
    BY <1>0, <1>2 DEF IndInv, PdrInv, CtrlInv, Versions, NoSnap, CreatePdr, BeginPublish, ctrl, memory, upfc, slot, tracker, worker, Freed, Mem
  <1>3. ASSUME NEW p \in Pdrs, CreatePdrFails(p) PROVE PdrInv'
    BY <1>0, <1>3 DEF IndInv, PdrInv, CtrlInv, Versions, NoSnap, CreatePdrFails, BeginPublish, ctrl, memory, upfc, slot, tracker, worker, Freed, Mem
  <1>4. ASSUME NEW p \in Pdrs, UpdatePdr(p) PROVE PdrInv'
    BY <1>0, <1>4 DEF IndInv, PdrInv, CtrlInv, Versions, NoSnap, UpdatePdr, BeginPublish, ctrl, memory, upfc, slot, tracker, worker, Freed, Mem
  <1>5. ASSUME NEW p \in Pdrs, RemovePdr(p) PROVE PdrInv'
    BY <1>0, <1>5 DEF IndInv, PdrInv, CtrlInv, Versions, NoSnap, RemovePdr, BeginPublish, ctrl, memory, upfc, slot, tracker, worker, Freed, Mem
  <1>6. CASE PublishSwap
    BY <1>0, <1>6 DEF IndInv, PdrInv, CtrlInv, Versions, NoSnap, PublishSwap, ctrl, memory, upfc, slot, tracker, worker
  <1>7. CASE PublishStable
    BY <1>0, <1>7, ZenonT(30) DEF IndInv, PdrInv, CtrlInv, Versions, NoSnap, PublishStable, ctrl, memory, upfc, slot, tracker, worker
  <1>8. ASSUME NEW reached \in Reachable, Notify(reached) PROVE PdrInv'
    BY <1>8 DEF IndInv, PdrInv, Notify, Reachable, PdrDeferFree, ctrl, memory, upfc, slot, tracker, worker
  <1>9. CASE OnAck
    <2>1. CASE UNCHANGED <<pdrMem, retireQ, snapMem>>
      BY <1>9, <2>1, OnAckCases DEF IndInv, PdrInv
    <2>2. CASE ~UNCHANGED <<pdrMem, retireQ, snapMem>>
      <3>1. PICK n \in 0 .. Len(retireQ) :
              /\ Len(retireQ) \in Nat
              /\ \A i \in 1 .. n : pdrMem'[retireQ[i].pdr] = "freed"
              /\ \A p \in Pdrs : \/ pdrMem'[p] = pdrMem[p]
                                 \/ \E i \in 1 .. n : retireQ[i].pdr = p
        BY <1>9, <2>2, OnAckCases, FreeUpToLemma, ZenonT(30)
      <3>2. \A i \in 1 .. n : retireQ[i].pdr \notin allPdr /\ pdrMem[retireQ[i].pdr] = "live"
        BY ONLY <3>1, IndInv DEF IndInv, QueueInv
      <3>3. \A p \in allPdr : pdrMem'[p] = "live"
        <4>1. \A p \in allPdr : pdrMem[p] = "live"
          BY DEF IndInv, PdrInv
        <4> QED
          BY ONLY <1>0, <3>1, <3>2, <4>1
      <3>4. \A p \in Pdrs : pdrMem'[p] = pdrMem[p] \/ pdrMem'[p] = "freed"
        BY ONLY <3>1
      <3>5. UNCHANGED <<version, active, snapPdrs, allPdr, upc>> /\ upc = "idle"
        BY <1>9, OnAckCases, ZenonT(30)
      <3>6. /\ snapPdrs[active] = allPdr /\ snapPdrs[NoSnap] = {}
            /\ \A p \in Pdrs : pdrMem[p] = "new" => \A s \in Versions : p \notin snapPdrs[s]
            /\ \A p \in Pdrs : pdrMem[p] # "double"
        BY ONLY <3>5, IndInv DEF IndInv, PdrInv
      <3> QED
        BY ONLY <3>3, <3>4, <3>5, <3>6 DEF PdrInv
    <2> QED
      BY <2>1, <2>2, ZenonT(30)
  <1>10. ASSUME NEW w \in Workers, UpfU(w) PROVE PdrInv'
    BY <1>10, WorkerFrame DEF IndInv, PdrInv
  <1> QED
    BY <1>1, <1>2, <1>3, <1>4, <1>5, <1>6, <1>7, <1>8, <1>9, <1>10 DEF Next, UpfC

\* The entries of the retire queue have a version and a PDR.
LEMMA QueueTypes ==
    ASSUME IndInv
    PROVE  /\ Len(retireQ) \in Nat /\ version \in Nat
           /\ \A i \in 1 .. Len(retireQ) : retireQ[i].ver \in Nat /\ retireQ[i].pdr \in Pdrs
  <1>1. retireQ \in Seq(Retire) /\ version \in Versions
    BY DEF IndInv, TypeOK
  <1>2. Len(retireQ) \in Nat /\ \A i \in 1 .. Len(retireQ) : retireQ[i] \in Retire
    BY ONLY <1>1
  <1> QED
    BY <1>1, <1>2, BoundAssumption DEF Retire, Versions

\* The entries of the retire queue stay behind the version when it grows.
LEMMA QueueBehind ==
    ASSUME IndInv, NEW i \in 1 .. Len(retireQ)
    PROVE  retireQ[i].ver <= version + 1
  <1>1. retireQ[i].ver <= version
    BY DEF IndInv, QueueInv
  <1>2. retireQ[i].ver \in Nat /\ version \in Nat
    BY QueueTypes
  <1> QED
    BY ONLY <1>1, <1>2

\* A PDR waits in the retire queue at most once, out of the list and allocated.
LEMMA QueueInvStep ==
    ASSUME IndInv, [Next]_vars
    PROVE  QueueInv'
  <1>1. CASE UNCHANGED vars
    BY <1>1, ZenonT(30) DEF IndInv, QueueInv, vars, ctrl, memory, upfc, slot, tracker, worker
  <1>2. ASSUME NEW p \in Pdrs, CreatePdr(p) PROVE QueueInv'
    <2>1. /\ retireQ' = retireQ /\ version' = version + 1 /\ allPdr' = allPdr \cup {p}
          /\ job' = [op |-> "create", pdr |-> p] /\ upc = "idle" /\ p \in Pdrs
          /\ pdrMem[p] = "new" /\ \A x \in Pdrs : x # p => pdrMem'[x] = pdrMem[x]
      BY <1>2, ZenonT(30) DEF CreatePdr, BeginPublish, TypeOK, IndInv, ctrl, memory, upfc, slot, tracker, worker
    <2>2. ASSUME NEW i \in 1 .. Len(retireQ)
          PROVE  /\ retireQ[i].ver <= version' /\ retireQ[i].pdr \notin allPdr'
                 /\ pdrMem'[retireQ[i].pdr] = "live"
      <3>1. /\ retireQ[i].ver <= version /\ retireQ[i].pdr \notin allPdr
            /\ pdrMem[retireQ[i].pdr] = "live"
        BY ONLY i \in 1 .. Len(retireQ), IndInv, ZenonT(30) DEF IndInv, QueueInv
      <3>2. retireQ[i].ver \in Nat /\ version \in Nat /\ retireQ[i].pdr \in Pdrs
        BY ONLY i \in 1 .. Len(retireQ), QueueTypes, IndInv
      <3>3. retireQ[i].pdr # p
        BY ONLY <2>1, <3>1, ZenonT(30)
      <3> QED
        BY ONLY <2>1, <3>1, <3>2, <3>3, QueueBehind, i \in 1 .. Len(retireQ), IndInv, ZenonT(30)
    <2>3. job'.op # "remove"
      BY ONLY <2>1
    <2> QED
      BY ONLY <2>1, <2>2, <2>3, IndInv, ZenonT(30) DEF IndInv, QueueInv
  <1>3. ASSUME NEW p \in Pdrs, CreatePdrFails(p) PROVE QueueInv'
    <2>1. /\ retireQ' = retireQ /\ version' = version /\ allPdr' = allPdr
          /\ job' = job /\ upc' = upc /\ upc = "idle"
          /\ pdrMem[p] = "new" /\ \A x \in Pdrs : x # p => pdrMem'[x] = pdrMem[x]
      BY <1>3 DEF CreatePdrFails, TypeOK, IndInv, ctrl, memory, upfc, slot, tracker, worker
    <2>2. ASSUME NEW i \in 1 .. Len(retireQ)
          PROVE  /\ retireQ[i].ver <= version' /\ retireQ[i].pdr \notin allPdr'
                 /\ pdrMem'[retireQ[i].pdr] = "live"
      BY ONLY <2>1, QueueTypes, i \in 1 .. Len(retireQ), IndInv, ZenonT(30) DEF IndInv, QueueInv
    <2> QED
      BY ONLY <2>1, <2>2, IndInv DEF IndInv, QueueInv
  <1>4. ASSUME NEW p \in Pdrs, UpdatePdr(p) PROVE QueueInv'
    <2>1. /\ retireQ' = retireQ /\ version' = version + 1 /\ allPdr' = allPdr
          /\ job' = [op |-> "update", pdr |-> p] /\ upc = "idle" /\ p \in Pdrs
          /\ pdrMem' = pdrMem /\ p \in allPdr
      BY <1>4 DEF UpdatePdr, BeginPublish, TypeOK, IndInv, ctrl, memory, upfc, slot, tracker, worker
    <2>2. ASSUME NEW i \in 1 .. Len(retireQ)
          PROVE  /\ retireQ[i].ver <= version' /\ retireQ[i].pdr \notin allPdr'
                 /\ pdrMem'[retireQ[i].pdr] = "live"
      BY ONLY <2>1, QueueBehind, i \in 1 .. Len(retireQ), IndInv, ZenonT(30) DEF IndInv, QueueInv
    <2>3. job'.op # "remove"
      BY ONLY <2>1, ZenonT(30)
    <2> QED
      BY ONLY <2>1, <2>2, <2>3, IndInv DEF IndInv, QueueInv
  <1>5. ASSUME NEW p \in Pdrs, RemovePdr(p) PROVE QueueInv'
    <2>1. /\ retireQ' = retireQ /\ version' = version + 1 /\ allPdr' = allPdr \ {p}
          /\ job' = [op |-> "remove", pdr |-> p] /\ upc = "idle" /\ p \in Pdrs
          /\ pdrMem' = pdrMem /\ p \in allPdr
      BY <1>5, ZenonT(30) DEF RemovePdr, BeginPublish, TypeOK, IndInv, ctrl, memory, upfc, slot, tracker, worker
    <2>2. ASSUME NEW i \in 1 .. Len(retireQ)
          PROVE  /\ retireQ[i].ver <= version' /\ retireQ[i].pdr \notin allPdr'
                 /\ pdrMem'[retireQ[i].pdr] = "live"
      BY ONLY <2>1, QueueBehind, i \in 1 .. Len(retireQ), IndInv, ZenonT(30) DEF IndInv, QueueInv
    <2>3. job'.pdr = p /\ p \in Pdrs \ allPdr' /\ pdrMem'[p] = "live"
      BY ONLY <2>1, IndInv DEF IndInv, PdrInv
    <2>4. \A i \in 1 .. Len(retireQ') : retireQ'[i].pdr # p
      BY ONLY <2>1, IndInv DEF IndInv, QueueInv
    <2> QED
      BY ONLY <2>1, <2>2, <2>3, <2>4, IndInv, ZenonT(30) DEF IndInv, QueueInv
  <1>6. CASE PublishSwap
    <2>1. /\ retireQ' = retireQ /\ version' = version /\ allPdr' = allPdr
          /\ job' = job /\ upc # "idle" /\ pdrMem' = pdrMem
      BY <1>6 DEF PublishSwap, ctrl, memory, upfc, slot, tracker, worker
    <2>2. ASSUME NEW i \in 1 .. Len(retireQ)
          PROVE  /\ retireQ[i].ver <= version' /\ retireQ[i].pdr \notin allPdr'
                 /\ pdrMem'[retireQ[i].pdr] = "live"
      BY ONLY <2>1, QueueTypes, i \in 1 .. Len(retireQ), IndInv DEF IndInv, QueueInv
    <2> QED
      BY ONLY <2>1, <2>2, IndInv DEF IndInv, QueueInv
  <1>7. CASE PublishStable
    <2>1. /\ retireQ' = retireQ /\ version' = version + 1 /\ allPdr' = allPdr
          /\ job' = job /\ upc # "idle" /\ pdrMem' = pdrMem
      BY <1>7 DEF PublishStable, ctrl, memory, upfc, slot, tracker, worker
    <2>2. ASSUME NEW i \in 1 .. Len(retireQ)
          PROVE  /\ retireQ[i].ver <= version' /\ retireQ[i].pdr \notin allPdr'
                 /\ pdrMem'[retireQ[i].pdr] = "live"
      BY ONLY <2>1, QueueTypes, i \in 1 .. Len(retireQ), IndInv DEF IndInv, QueueInv
    <2> QED
      BY ONLY <2>1, <2>2, IndInv DEF IndInv, QueueInv
  <1>8. ASSUME NEW reached \in Reachable, Notify(reached) PROVE QueueInv'
    <2>1. /\ version' = version /\ allPdr' = allPdr /\ pdrMem' = pdrMem
          /\ upc = "notify" /\ upc' = "idle"
          /\ \/ retireQ' = retireQ
             \/ /\ job.op = "remove"
                /\ retireQ' = Append(retireQ, [ver |-> version, pdr |-> job.pdr])
      BY <1>8, ZenonT(30) DEF Notify, PdrDeferFree, ctrl, memory, upfc, slot, tracker, worker
    <2>2. CASE retireQ' = retireQ
      BY ONLY <2>1, <2>2, IndInv DEF IndInv, QueueInv
    <2>3. CASE retireQ' # retireQ
      <3> DEFINE e == [ver |-> version, pdr |-> job.pdr]
      <3>1. /\ job.pdr \in Pdrs \ allPdr /\ pdrMem[job.pdr] = "live"
            /\ \A i \in 1 .. Len(retireQ) : retireQ[i].pdr # job.pdr
        BY <2>1, <2>3 DEF IndInv, QueueInv
      <3>2. retireQ \in Seq(Retire) /\ e \in Retire
        BY <3>1 DEF IndInv, TypeOK, Retire
      <3>3. e.ver = version /\ e.pdr = job.pdr /\ retireQ' = Append(retireQ, e)
        BY <2>1, <2>3
      <3> HIDE DEF e
      <3>4. /\ Len(retireQ') = Len(retireQ) + 1 /\ retireQ'[Len(retireQ) + 1] = e
            /\ \A i \in 1 .. Len(retireQ) : retireQ'[i] = retireQ[i]
        BY ONLY <3>2, <3>3
      <3>5. ASSUME NEW i \in 1 .. Len(retireQ')
            PROVE  /\ retireQ'[i].ver <= version' /\ retireQ'[i].pdr \notin allPdr'
                   /\ pdrMem'[retireQ'[i].pdr] = "live"
                   /\ \A k \in 1 .. i : retireQ'[k].ver <= retireQ'[i].ver
                   /\ \A k \in 1 .. Len(retireQ') : retireQ'[k].pdr = retireQ'[i].pdr => k = i
        <4>1. CASE i = Len(retireQ) + 1
          <5>1. \A k \in 1 .. Len(retireQ) : retireQ[k].ver <= version /\ retireQ[k].pdr # job.pdr
            BY ONLY <3>1, IndInv DEF IndInv, QueueInv
          <5>2. retireQ'[i].ver = version' /\ retireQ'[i].pdr = job.pdr
            BY ONLY <4>1, <2>1, <3>3, <3>4
          <5>3. \A k \in 1 .. i : k = i \/ k \in 1 .. Len(retireQ)
            BY ONLY <4>1, QueueTypes, IndInv
          <5>4. version \in Nat /\ version <= version /\ Len(retireQ') = i
            BY ONLY <4>1, <3>4, QueueTypes, IndInv
          <5> QED
            BY ONLY <5>1, <5>2, <5>3, <5>4, <2>1, <3>1, <3>4, ZenonT(30)
        <4>2. CASE i \in 1 .. Len(retireQ)
          <5>1. /\ retireQ[i].ver <= version /\ retireQ[i].pdr \notin allPdr
                /\ pdrMem[retireQ[i].pdr] = "live" /\ retireQ[i].pdr # job.pdr
                /\ \A k \in 1 .. i : retireQ[k].ver <= retireQ[i].ver
                /\ \A k \in 1 .. Len(retireQ) : retireQ[k].pdr = retireQ[i].pdr => k = i
            BY ONLY <4>2, <3>1, IndInv, ZenonT(30) DEF IndInv, QueueInv
          <5>2. \A k \in 1 .. Len(retireQ') : k \in 1 .. Len(retireQ) \/ k = Len(retireQ) + 1
            BY ONLY <3>4, QueueTypes, IndInv
          <5>3. \A k \in 1 .. i : k \in 1 .. Len(retireQ)
            BY ONLY <4>2, QueueTypes, IndInv
          <5>4. /\ retireQ'[i] = retireQ[i]
                /\ retireQ'[Len(retireQ) + 1].pdr = job.pdr
            BY ONLY <4>2, <3>3, <3>4
          <5> QED
            BY ONLY <5>1, <5>2, <5>3, <5>4, <2>1, <3>4
        <4> QED
          BY ONLY <4>1, <4>2, <3>4, QueueTypes, i \in 1 .. Len(retireQ')
      <3> QED
        BY ONLY <2>1, <3>5 DEF QueueInv
    <2> QED
      BY <2>2, <2>3
  <1>9. CASE OnAck
    <2>1. /\ UNCHANGED <<version, allPdr, upc>> /\ upc = "idle"
          /\ UNCHANGED <<pdrMem, retireQ>> \/ \E v \in Versions : PdrFreeUpTo(v)
      BY <1>9, OnAckCases, ZenonT(30)
    <2>2. CASE UNCHANGED <<pdrMem, retireQ>>
      BY ONLY <2>1, <2>2, IndInv, ZenonT(30) DEF IndInv, QueueInv
    <2>3. CASE ~UNCHANGED <<pdrMem, retireQ>>
      <3>1. PICK n \in 0 .. Len(retireQ) :
              /\ Len(retireQ) \in Nat
              /\ Len(retireQ') = Len(retireQ) - n
              /\ \A i \in 1 .. Len(retireQ') : retireQ'[i] = retireQ[i + n]
              /\ \A p \in Pdrs : (\A i \in 1 .. n : retireQ[i].pdr # p) => pdrMem'[p] = pdrMem[p]
        BY <2>1, <2>3, FreeUpToLemma, ZenonT(30)
      <3>2. \A i \in 1 .. Len(retireQ') : i + n \in 1 .. Len(retireQ) /\ i + n \notin 1 .. n
        BY ONLY <3>1
      <3>3. \A i \in 1 .. Len(retireQ') : pdrMem'[retireQ'[i].pdr] = "live"
        <4> TAKE i \in 1 .. Len(retireQ')
        <4>1. i + n \in 1 .. Len(retireQ) /\ retireQ'[i] = retireQ[i + n]
          BY ONLY <3>1, <3>2, i \in 1 .. Len(retireQ')
        <4>2. /\ \A j \in 1 .. Len(retireQ) : retireQ[j].pdr = retireQ[i + n].pdr => j = i + n
              /\ pdrMem[retireQ[i + n].pdr] = "live"
          BY ONLY <4>1, IndInv DEF IndInv, QueueInv
        <4>3. \A j \in 1 .. n : j \in 1 .. Len(retireQ) /\ j # i + n
          BY ONLY <3>1, <3>2, i \in 1 .. Len(retireQ')
        <4>4. retireQ[i + n].pdr \in Pdrs
          BY ONLY <4>1, QueueTypes, IndInv
        <4> QED
          BY ONLY <3>1, <4>1, <4>2, <4>3, <4>4, ZenonT(30)
      <3>4. ASSUME NEW i \in 1 .. Len(retireQ')
            PROVE  /\ retireQ'[i].ver <= version' /\ retireQ'[i].pdr \notin allPdr'
                   /\ \A j \in 1 .. i : retireQ'[j].ver <= retireQ'[i].ver
                   /\ \A j \in 1 .. Len(retireQ') : retireQ'[j].pdr = retireQ'[i].pdr => j = i
        <4>1. retireQ'[i].ver <= version' /\ retireQ'[i].pdr \notin allPdr'
          BY ONLY <2>1, <3>1, <3>2, QueueTypes, IndInv, ZenonT(30) DEF IndInv, QueueInv
        <4>2. ASSUME NEW j \in 1 .. i PROVE retireQ'[j].ver <= retireQ'[i].ver
          <5>1. /\ j \in 1 .. Len(retireQ') /\ j + n \in 1 .. i + n
                /\ i + n \in 1 .. Len(retireQ)
                /\ retireQ'[i] = retireQ[i + n] /\ retireQ'[j] = retireQ[j + n]
            BY ONLY <3>1, <3>2
          <5> QED
            BY ONLY <5>1, IndInv, ZenonT(30) DEF IndInv, QueueInv
        <4>3. ASSUME NEW j \in 1 .. Len(retireQ'), retireQ'[j].pdr = retireQ'[i].pdr PROVE j = i
          <5>1. /\ retireQ[j + n].pdr = retireQ[i + n].pdr
                /\ i + n \in 1 .. Len(retireQ) /\ j + n \in 1 .. Len(retireQ)
            BY ONLY <4>3, <3>1, <3>2
          <5>2. j + n = i + n
            BY ONLY <5>1, IndInv, ZenonT(30) DEF IndInv, QueueInv
          <5> QED
            BY ONLY <5>2, <3>1
        <4> QED
          BY ONLY <4>1, <4>2, <4>3, ZenonT(30)
      <3> QED
        BY ONLY <2>1, <3>3, <3>4 DEF QueueInv
    <2> QED
      BY <2>2, <2>3, ZenonT(30)
  <1>10. ASSUME NEW w \in Workers, UpfU(w) PROVE QueueInv'
    BY <1>10, WorkerFrame DEF IndInv, QueueInv
  <1> QED
    BY <1>1, <1>2, <1>3, <1>4, <1>5, <1>6, <1>7, <1>8, <1>9, <1>10 DEF Next, UpfC

\* Building a snapshot under the next even version touches none that a worker
\* can hold.
LEMMA SafeFrame ==
    ASSUME IndInv, UNCHANGED <<ptr, reqLost>>,
           \A p \in Pdrs : pdrMem[p] = "live" => pdrMem'[p] = "live",
           \A s \in Versions : s # version + 2 => /\ snapMem'[s] = snapMem[s]
                                                /\ snapPdrs'[s] = snapPdrs[s]
    PROVE  SafeInv'
  <1>1. /\ \A w \in Workers : ptr[w] \in Versions /\ ptr[w] <= version
        /\ version \in Versions
    BY DEF IndInv, TypeOK, WorkerInv
  <1>2. \A w \in Workers : ptr[w] \in Versions /\ ptr[w] # version + 2
    BY ONLY <1>1, BoundAssumption DEF Versions
  <1>3. snapPdrs \in [Versions -> SUBSET Pdrs]
    BY ZenonT(30) DEF IndInv, TypeOK
  <1> QED
    BY <1>2, <1>3, ZenonT(30) DEF IndInv, SafeInv

\* The workers keep to allocated snapshots and PDRs.
LEMMA SafeInvStep ==
    ASSUME IndInv, [Next]_vars
    PROVE  SafeInv'
  <1>0. /\ version \in Nat /\ active \in Nat /\ MaxVersion \in Nat
        /\ ptr \in [Workers -> Versions] /\ ver \in [Workers -> Versions]
        /\ snapPdrs \in [Versions -> SUBSET Pdrs] /\ pdrMem \in [Pdrs -> Mem]
        /\ snapMem \in [Versions -> Mem]
    BY BoundAssumption DEF IndInv, TypeOK, Versions
  <1>1. CASE UNCHANGED vars
    BY <1>1, ZenonT(30) DEF IndInv, SafeInv, vars, ctrl, memory, upfc, slot, tracker, worker
  <1>2. ASSUME NEW p \in Pdrs, CreatePdr(p) PROVE SafeInv'
    <2>1. UNCHANGED <<ptr, reqLost>>
      BY <1>2 DEF CreatePdr, BeginPublish, worker
    <2>2. \A x \in Pdrs : pdrMem[x] = "live" => pdrMem'[x] = "live"
      BY <1>0, <1>2 DEF CreatePdr
    <2>3. \A s \in Versions : s # version + 2 => /\ snapMem'[s] = snapMem[s]
                                               /\ snapPdrs'[s] = snapPdrs[s]
      BY <1>0, <1>2 DEF CreatePdr, BeginPublish
    <2> QED
      BY <2>1, <2>2, <2>3, SafeFrame
  <1>3. ASSUME NEW p \in Pdrs, CreatePdrFails(p) PROVE SafeInv'
    <2>1. UNCHANGED <<ptr, reqLost>>
      BY <1>3 DEF CreatePdrFails, BeginPublish, worker
    <2>2. \A x \in Pdrs : pdrMem[x] = "live" => pdrMem'[x] = "live"
      BY <1>0, <1>3 DEF CreatePdrFails
    <2>3. \A s \in Versions : s # version + 2 => /\ snapMem'[s] = snapMem[s]
                                               /\ snapPdrs'[s] = snapPdrs[s]
      BY <1>0, <1>3 DEF CreatePdrFails, BeginPublish
    <2> QED
      BY <2>1, <2>2, <2>3, SafeFrame
  <1>4. ASSUME NEW p \in Pdrs, UpdatePdr(p) PROVE SafeInv'
    <2>1. UNCHANGED <<ptr, reqLost>>
      BY <1>4 DEF UpdatePdr, BeginPublish, worker
    <2>2. \A x \in Pdrs : pdrMem[x] = "live" => pdrMem'[x] = "live"
      BY <1>0, <1>4 DEF UpdatePdr
    <2>3. \A s \in Versions : s # version + 2 => /\ snapMem'[s] = snapMem[s]
                                               /\ snapPdrs'[s] = snapPdrs[s]
      BY <1>0, <1>4 DEF UpdatePdr, BeginPublish
    <2> QED
      BY <2>1, <2>2, <2>3, SafeFrame
  <1>5. ASSUME NEW p \in Pdrs, RemovePdr(p) PROVE SafeInv'
    <2>1. UNCHANGED <<ptr, reqLost>>
      BY <1>5 DEF RemovePdr, BeginPublish, worker
    <2>2. \A x \in Pdrs : pdrMem[x] = "live" => pdrMem'[x] = "live"
      BY <1>0, <1>5 DEF RemovePdr
    <2>3. \A s \in Versions : s # version + 2 => /\ snapMem'[s] = snapMem[s]
                                               /\ snapPdrs'[s] = snapPdrs[s]
      BY <1>0, <1>5 DEF RemovePdr, BeginPublish
    <2> QED
      BY <2>1, <2>2, <2>3, SafeFrame
  <1>6. CASE PublishSwap
    BY <1>6, ZenonT(30) DEF IndInv, SafeInv, PublishSwap, ctrl, memory, upfc, slot, tracker, worker
  <1>7. CASE PublishStable
    BY <1>7, ZenonT(30) DEF IndInv, SafeInv, PublishStable, ctrl, memory, upfc, slot, tracker, worker
  <1>8. ASSUME NEW reached \in Reachable, Notify(reached) PROVE SafeInv'
    <2>1. /\ UNCHANGED <<ptr, snapPdrs, pdrMem>>
          /\ ~reqLost' => ~reqLost /\ reached = Workers
          /\ reached # {} => snapMem' = snapMem
      BY <1>8, ZenonT(30) DEF Notify, ctrl, memory, upfc, slot, tracker, worker
    <2>2. CASE reqLost'
      BY ONLY <2>2 DEF SafeInv
    <2>3. CASE Workers = {}
      BY ONLY <2>3 DEF SafeInv
    <2>4. CASE ~reqLost' /\ Workers # {}
      <3>1. UNCHANGED <<ptr, snapPdrs, pdrMem, snapMem>> /\ ~reqLost
        BY ONLY <2>1, <2>4
      <3> QED
        BY ONLY <3>1, IndInv DEF IndInv, SafeInv, NoSnap
    <2> QED
      BY ONLY <2>2, <2>3, <2>4
  <1>9. CASE OnAck
    <2>0. UNCHANGED <<version, active, snapPdrs, upc, ptr, ver, reqLost>> /\ upc = "idle"
      BY <1>9, OnAckCases
    <2>1. CASE UNCHANGED <<pdrMem, retireQ, snapMem>>
      BY <2>0, <2>1 DEF IndInv, SafeInv
    <2>2. CASE ~UNCHANGED <<pdrMem, retireQ, snapMem>> /\ ~reqLost
      <3> DEFINE sid == Head(cq).sid
      <3>1. /\ Head(cq).ver = version /\ version = ackVersion /\ sid \in Workers
            /\ ackExpected = Cardinality(Workers)
            /\ ackExpected > 0 => Cardinality(ackSids \cup {sid}) >= ackExpected
            /\ Head(cq).ver <= ver[sid]
        <4>1. /\ sid \in Workers /\ Head(cq).ver > 0 /\ Head(cq).ver <= ver[sid]
              /\ Head(cq).ver = retiredVer
              /\ ackExpected > 0 => Cardinality(ackSids \cup {sid}) >= ackExpected
          BY <1>9, <2>2, OnAckCases
        <4>2. /\ retiredVer \in {0, version}
              /\ retiredVer # 0 => ackVersion = retiredVer /\ ackExpected = Cardinality(Workers)
          BY ONLY <2>0, <2>2, IndInv DEF IndInv, SlotInv, AckInv
        <4> QED
          BY ONLY <4>1, <4>2
      <3>2. Cardinality(Workers) > 0
        <4>1. Cardinality(Workers) \in Nat
          BY ONLY WorkersAssumption, FS_CardinalityType
        <4>2. Cardinality(Workers) # 0
          BY ONLY <3>1, WorkersAssumption, FS_EmptySet
        <4> QED
          BY ONLY <4>1, <4>2
      <3>3. ackSids \cup {sid} = Workers
        <4>1. ackSids \cup {sid} \subseteq Workers
          BY <3>1, ZenonT(30) DEF IndInv, TypeOK
        <4>2. Cardinality(ackSids \cup {sid}) <= Cardinality(Workers)
          BY <4>1, WorkersAssumption, FS_Subset
        <4>3. Cardinality(ackSids \cup {sid}) \in Nat /\ Cardinality(Workers) \in Nat
          BY <4>1, WorkersAssumption, FS_Subset, FS_CardinalityType, ZenonT(30)
        <4>4. Cardinality(Workers) = Cardinality(ackSids \cup {sid})
          BY ONLY <3>1, <3>2, <4>2, <4>3
        <4> QED
          BY ONLY <4>1, <4>4, WorkersAssumption, FS_Subset
      <3>4. \A w \in Workers : ver[w] >= version
        <4>1. \A w \in ackSids : ver[w] >= version
          BY ONLY <3>1, IndInv DEF IndInv, AckInv
        <4>2. ver[sid] \in Nat /\ version \in Nat
          BY ONLY <1>0, <3>1, BoundAssumption DEF Versions
        <4> QED
          BY ONLY <3>1, <3>3, <4>1, <4>2
      <3>5. \A w \in Workers : ptr[w] = active
        <4>1. active = version /\ \A w \in Workers : ptr[w] = ver[w] /\ ver[w] <= version
          BY ONLY <2>0, IndInv DEF IndInv, CtrlInv, WorkerInv
        <4>2. version \in Nat /\ \A w \in Workers : ver[w] \in Nat
          BY ONLY <1>0, BoundAssumption DEF Versions
        <4> QED
          BY ONLY <3>4, <4>1, <4>2
      <3>6. SnapInv' /\ PdrInv'
        BY SnapInvStep, PdrInvStep
      <3> QED
        BY ONLY <2>0, <3>5, <3>6 DEF SafeInv, SnapInv, PdrInv
    <2>3. CASE reqLost
      BY ONLY <2>0, <2>3 DEF SafeInv
    <2> QED
      BY ONLY <2>1, <2>2, <2>3
  <1>10. ASSUME NEW w \in Workers, RecvGcReq(w) PROVE SafeInv'
    BY <1>10, ZenonT(30) DEF IndInv, SafeInv, RecvGcReq, SendAck, ctrl, memory, upfc, slot, tracker, worker
  <1>11. ASSUME NEW w \in Workers, PacketArrives(w) PROVE SafeInv'
    BY <1>11, ZenonT(30) DEF IndInv, SafeInv, PacketArrives, SendAck, ctrl, memory, upfc, slot, tracker, worker
  <1>12. ASSUME NEW w \in Workers, LoadVersion(w) PROVE SafeInv'
    BY <1>12, ZenonT(30) DEF IndInv, SafeInv, LoadVersion, SendAck, ctrl, memory, upfc, slot, tracker, worker
  <1>13. ASSUME NEW w \in Workers, LoadActive(w) PROVE SafeInv'
    BY <1>13, ZenonT(30) DEF IndInv, SafeInv, LoadActive, SendAck, ctrl, memory, upfc, slot, tracker, worker
  <1>14. ASSUME NEW w \in Workers, Recheck(w) PROVE SafeInv'
    <2>1. /\ ptr \in [Workers -> Versions] /\ SafeInv
          /\ active # NoSnap => snapMem[active] = "live"
          /\ \A p \in snapPdrs[active] : pdrMem[p] = "live"
      BY ONLY IndInv DEF IndInv, TypeOK, SnapInv, PdrInv
    <2>2. /\ UNCHANGED <<snapPdrs, snapMem, pdrMem, active, reqLost>>
          /\ \/ ptr' = ptr
             \/ version = active /\ ptr' = [ptr EXCEPT ![w] = version]
      BY ONLY <1>14, RecheckCases, IndInv, w \in Workers
    <2>3. \A x \in Workers : ptr'[x] \in {ptr[x], active}
      BY ONLY <2>1, <2>2, ZenonT(30)
    <2> QED
      BY ONLY <2>1, <2>2, <2>3, ZenonT(30) DEF SafeInv
  <1>15. ASSUME NEW w \in Workers, Classify(w) PROVE SafeInv'
    BY <1>15, ZenonT(30) DEF IndInv, SafeInv, Classify, SendAck, ctrl, memory, upfc, slot, tracker, worker
  <1>16. ASSUME NEW w \in Workers, PacketDone(w) PROVE SafeInv'
    BY <1>16, ZenonT(30) DEF IndInv, SafeInv, PacketDone, SendAck, ctrl, memory, upfc, slot, tracker, worker
  <1> QED
    BY <1>1, <1>2, <1>3, <1>4, <1>5, <1>6, <1>7, <1>8, <1>9,
       <1>10, <1>11, <1>12, <1>13, <1>14, <1>15, <1>16 DEF Next, UpfC, UpfU

\* A publication that begins keeps the variables in their types.
LEMMA BeginPublishTypes ==
    ASSUME IndInv, NEW pdrs \in SUBSET Pdrs, NEW op \in {"create", "update", "remove"},
           NEW p \in Pdrs, BeginPublish(pdrs, op, p), pdrMem' \in [Pdrs -> Mem]
    PROVE  TypeOK'
  <1>1. version' \in Versions
    BY BoundAssumption DEF IndInv, TypeOK, BeginPublish, Versions
  <1>2. snapPdrs' \in [Versions -> SUBSET Pdrs] /\ snapMem' \in [Versions -> Mem]
    BY ZenonT(30) DEF IndInv, TypeOK, BeginPublish, Mem
  <1>3. allPdr' \in SUBSET Pdrs /\ upc' = "swap" /\ job' = [op |-> op, pdr |-> p]
    BY DEF BeginPublish
  <1>4. UNCHANGED <<active, retired, retiredSnap, retiredVer, ackVersion, ackExpected, ackSids,
                    retireQ, cq, wq, wpc, flip, ptr, ver, v1, newPtr, inUse, reqLost>>
    BY DEF BeginPublish, slot, tracker, worker
  <1> QED
    BY <1>1, <1>2, <1>3, <1>4, ZenonT(30) DEF IndInv, TypeOK

\* Every action keeps the variables in their types.
LEMMA TypeOKStep ==
    ASSUME IndInv, [Next]_vars
    PROVE  TypeOK'
  <1> USE BoundAssumption DEF IndInv, TypeOK, Versions, NoSnap, NoJob, CtrlInv
  <1>1. CASE UNCHANGED vars
    BY <1>1 DEF vars, ctrl, memory, upfc, slot, tracker, worker
  <1>2. ASSUME NEW p \in Pdrs, CreatePdr(p) PROVE TypeOK'
    <2>1. pdrMem' \in [Pdrs -> Mem]
      BY <1>2 DEF CreatePdr, Mem
    <2>2. allPdr \cup {p} \in SUBSET Pdrs /\ allPdr \ {p} \in SUBSET Pdrs /\ allPdr \in SUBSET Pdrs
      BY ZenonT(30)
    <2> QED
      BY ONLY <1>2, <2>1, <2>2, p \in Pdrs, IndInv, BeginPublishTypes, ZenonT(30) DEF CreatePdr
  <1>3. ASSUME NEW p \in Pdrs, CreatePdrFails(p) PROVE TypeOK'
    BY <1>3 DEF CreatePdrFails, Mem, ctrl, memory, upfc, slot, tracker, worker
  <1>4. ASSUME NEW p \in Pdrs, UpdatePdr(p) PROVE TypeOK'
    <2>1. pdrMem' \in [Pdrs -> Mem]
      BY <1>4 DEF UpdatePdr, Mem
    <2>2. allPdr \cup {p} \in SUBSET Pdrs /\ allPdr \ {p} \in SUBSET Pdrs /\ allPdr \in SUBSET Pdrs
      OBVIOUS
    <2> QED
      BY ONLY <1>4, <2>1, <2>2, p \in Pdrs, IndInv, BeginPublishTypes, ZenonT(30) DEF UpdatePdr
  <1>5. ASSUME NEW p \in Pdrs, RemovePdr(p) PROVE TypeOK'
    <2>1. pdrMem' \in [Pdrs -> Mem]
      BY <1>5, ZenonT(30) DEF RemovePdr, Mem
    <2>2. allPdr \cup {p} \in SUBSET Pdrs /\ allPdr \ {p} \in SUBSET Pdrs /\ allPdr \in SUBSET Pdrs
      OBVIOUS
    <2> QED
      BY ONLY <1>5, <2>1, <2>2, p \in Pdrs, IndInv, BeginPublishTypes, ZenonT(30) DEF RemovePdr
  <1>6. CASE PublishSwap
    BY <1>6, ZenonT(30) DEF PublishSwap, ctrl, memory, upfc, slot, tracker, worker
  <1>7. CASE PublishStable
    BY <1>7 DEF PublishStable, ctrl, memory, upfc, slot, tracker, worker
  <1>8. ASSUME NEW reached \in Reachable, Notify(reached) PROVE TypeOK'
    <2>1. reached \subseteq Workers /\ IsFiniteSet(reached)
      BY WorkersAssumption, FS_Subset, ZenonT(30) DEF Reachable
    <2>2. Cardinality(reached) \in Nat
      BY <2>1, FS_CardinalityType, ZenonT(30)
    <2>3. version \in Versions /\ wq \in [Workers -> Seq(Versions)] /\ retireQ \in Seq(Retire)
      OBVIOUS
    <2>4. wq' \in [Workers -> Seq(Versions)]
      <3>1. wq' = [w \in Workers |-> IF w \in reached THEN Append(wq[w], version) ELSE wq[w]]
        BY <1>8 DEF Notify
      <3>2. \A w \in Workers : wq[w] \in Seq(Versions) /\ Append(wq[w], version) \in Seq(Versions)
        BY ONLY <2>3
      <3> QED
        BY ONLY <3>1, <3>2, ZenonT(30)
    <2>5. retireQ' \in Seq(Retire)
      <3>1. CASE retireQ' = retireQ
        BY <2>3, <3>1
      <3>2. CASE retireQ' # retireQ
        <4>1. job.pdr \in Pdrs /\ retireQ' = Append(retireQ, [ver |-> version, pdr |-> job.pdr])
          BY <1>8, <3>2, ZenonT(30) DEF Notify, PdrDeferFree, QueueInv
        <4>2. [ver |-> version, pdr |-> job.pdr] \in Retire
          BY <4>1 DEF Retire
        <4> QED
          BY ONLY <2>3, <4>1, <4>2
      <3> QED
        BY <3>1, <3>2, ZenonT(30)
    <2>6. snapMem' \in [Versions -> Mem]
      <3>1. snapMem' = snapMem \/ snapMem' = [snapMem EXCEPT ![retired] = Freed(@)]
        BY ONLY <1>8, ZenonT(30) DEF Notify
      <3>2. snapMem \in [Versions -> Mem] /\ retired \in Versions
        BY ONLY IndInv, ZenonT(30) DEF IndInv, TypeOK
      <3> QED
        BY ONLY <3>1, <3>2, ZenonT(30) DEF Freed, Mem
    <2>7. /\ retiredSnap' \in Versions /\ retiredVer' \in Versions
          /\ ackVersion' \in Versions /\ ackExpected' \in Nat /\ ackSids' \in SUBSET Workers
      <3>1. retiredSnap \in Versions /\ retiredVer \in Versions /\ retired \in Versions /\ 0 \in Versions
        BY ONLY IndInv, RestingValues, ZenonT(30) DEF IndInv, TypeOK
      <3> QED
        BY ONLY <1>8, <2>2, <2>3, <3>1, ZenonT(30) DEF Notify, slot, NoSnap
    <2>8. /\ upc' = "idle" /\ job' = NoJob /\ retired' = NoSnap /\ reqLost' \in BOOLEAN
          /\ UNCHANGED <<version, active, snapPdrs, pdrMem, allPdr, cq, wpc, flip, ptr, ver,
                         v1, newPtr, inUse>>
      BY ONLY <1>8, IndInv DEF IndInv, TypeOK, Notify, ctrl, worker
    <2>9. NoSnap \in Versions /\ NoJob \in [op : {"none", "create", "update", "remove"}, pdr : Pdrs \cup {NoPdr}]
      BY ONLY RestingValues, ZenonT(30)
    <2> QED
      BY ONLY <2>4, <2>5, <2>6, <2>7, <2>8, <2>9, IndInv, ZenonT(30) DEF IndInv, TypeOK
  <1>9. CASE OnAck
    <2>1. cq' \in Seq(Ack)
      <3>1. cq \in Seq(Ack) /\ cq # <<>> /\ cq' = Tail(cq)
        BY <1>9 DEF OnAck
      <3> QED
        BY ONLY <3>1
    <2>2. Head(cq).sid \in Workers
      BY <1>9, OnAckCases, ZenonT(30)
    <2>3. snapMem' \in [Versions -> Mem]
      <3>1. \/ snapMem' = snapMem
            \/ snapMem' = [snapMem EXCEPT ![retiredSnap] = Freed(@)]
        BY <1>9, ZenonT(30) DEF OnAck, UpfClsOnAckFree, FreeRetired
      <3>2. snapMem \in [Versions -> Mem]
        OBVIOUS
      <3> QED
        BY ONLY <3>1, <3>2 DEF Freed, Mem
    <2>4. pdrMem' \in [Pdrs -> Mem] /\ retireQ' \in Seq(Retire)
      <3>1. CASE UNCHANGED <<pdrMem, retireQ>>
        BY <3>1
      <3>2. CASE ~UNCHANGED <<pdrMem, retireQ>>
        <4>1. PICK v \in Versions : PdrFreeUpTo(v)
          BY <1>9, <3>2, OnAckCases, ZenonT(30)
        <4>2. pdrMem' \in [Pdrs -> Mem]
          BY <4>1, ZenonT(30) DEF PdrFreeUpTo, Freed, Mem
        <4>3. v \in Nat /\ retireQ \in Seq(Retire)
          OBVIOUS
        <4> DEFINE n == FreeCount(retireQ, v)
        <4>4. n \in 0 .. Len(retireQ)
          BY <4>3, FreeCountLemma, ZenonT(30)
        <4>5. retireQ' = SubSeq(retireQ, n + 1, Len(retireQ))
          BY <4>1, ZenonT(30) DEF PdrFreeUpTo
        <4> HIDE DEF n
        <4>6. retireQ' \in Seq(Retire)
          BY ONLY <4>3, <4>4, <4>5
        <4> QED
          BY <4>2, <4>6
      <3> QED
        BY <3>1, <3>2, ZenonT(30)
    <2>5. /\ retiredSnap' \in Versions /\ retiredVer' \in Versions
          /\ ackVersion' \in Versions /\ ackExpected' \in Nat /\ ackSids' \in SUBSET Workers
      <3>1. /\ retiredSnap \in Versions /\ retiredVer \in Versions /\ 0 \in Versions
            /\ ackVersion \in Versions /\ ackExpected \in Nat /\ ackSids \in SUBSET Workers
        OBVIOUS
      <3>2. UpfClsOnAckFree(Head(cq).ver, Head(cq).sid)
        BY <1>9, ZenonT(30) DEF OnAck
      <3>3. /\ UNCHANGED slot \/ (retiredSnap' = NoSnap /\ retiredVer' = 0)
            /\ ackVersion' \in {0, ackVersion} /\ ackExpected' \in {0, ackExpected}
            /\ ackSids' \in {{}, ackSids, ackSids \cup {Head(cq).sid}}
        BY ONLY <3>2, ZenonT(30) DEF UpfClsOnAckFree, FreeRetired, tracker
      <3> QED
        BY ONLY <2>2, <3>1, <3>3 DEF slot, NoSnap
    <2>6. UNCHANGED <<version, active, snapPdrs, allPdr, upc, job, retired, wq, wpc, flip,
                      ptr, ver, v1, newPtr, inUse, reqLost>>
      BY <1>9, OnAckCases, ZenonT(30)
    <2> QED
      BY <2>1, <2>3, <2>4, <2>5, <2>6
  <1>10. ASSUME NEW w \in Workers, RecvGcReq(w) PROVE TypeOK'
    <2>1. wq' \in [Workers -> Seq(Versions)]
      <3>1. wq \in [Workers -> Seq(Versions)] /\ wq[w] # <<>> /\ wq' = [wq EXCEPT ![w] = Tail(@)]
        BY <1>10, ZenonT(30) DEF RecvGcReq
      <3> QED
        BY ONLY <3>1
    <2> QED
      BY <1>10, <2>1, ZenonT(30) DEF RecvGcReq, ctrl, memory, upfc, slot, tracker, worker
  <1>11. ASSUME NEW w \in Workers, PacketArrives(w) PROVE TypeOK'
    BY <1>11, ZenonT(30) DEF PacketArrives, SendAck, ctrl, memory, upfc, slot, tracker, worker
  <1>12. ASSUME NEW w \in Workers, LoadVersion(w) PROVE TypeOK'
    BY <1>12 DEF LoadVersion, SendAck, ctrl, memory, upfc, slot, tracker, worker
  <1>13. ASSUME NEW w \in Workers, LoadActive(w) PROVE TypeOK'
    BY <1>13, ZenonT(30) DEF LoadActive, SendAck, ctrl, memory, upfc, slot, tracker, worker
  <1>14. ASSUME NEW w \in Workers, Recheck(w) PROVE TypeOK'
    <2>1. cq' \in Seq(Ack)
      <3>1. cq \in Seq(Ack) /\ [ver |-> version, sid |-> w] \in Ack
        BY DEF Ack
      <3>2. cq' = cq \/ cq' = Append(cq, [ver |-> version, sid |-> w])
        BY <1>14, ZenonT(30) DEF Recheck, SendAck
      <3> QED
        BY ONLY <3>1, <3>2, SeqAppend, ZenonT(30)
    <2>2. /\ ptr' \in [Workers -> Versions] /\ ver' \in [Workers -> Versions]
          /\ flip' \in [Workers -> BOOLEAN]
          /\ wpc' \in [Workers -> {"loop", "spin", "ptr", "recheck", "classify", "use"}]
      <3>1. /\ ptr \in [Workers -> Versions] /\ ver \in [Workers -> Versions] /\ version \in Versions
            /\ newPtr \in [Workers -> Versions] /\ flip \in [Workers -> BOOLEAN]
            /\ wpc \in [Workers -> {"loop", "spin", "ptr", "recheck", "classify", "use"}]
        BY ZenonT(30)
      <3>2. /\ ptr' = ptr \/ ptr' = [ptr EXCEPT ![w] = newPtr[w]]
            /\ ver' = ver \/ ver' = [ver EXCEPT ![w] = version]
            /\ flip' = flip \/ flip' = [flip EXCEPT ![w] = FALSE]
            /\ \E pc \in {"spin", "classify"} : wpc' = [wpc EXCEPT ![w] = pc]
        BY <1>14, ZenonT(30) DEF Recheck
      <3>3. /\ ptr' \in [Workers -> Versions] /\ ver' \in [Workers -> Versions]
            /\ flip' \in [Workers -> BOOLEAN]
        <4>1. newPtr[w] \in Versions
          BY ONLY <3>1, w \in Workers
        <4>2. ptr' \in [Workers -> Versions]
          BY ONLY <3>1, <3>2, <4>1
        <4>3. ver' \in [Workers -> Versions]
          BY ONLY <3>1, <3>2
        <4>4. flip' \in [Workers -> BOOLEAN]
          BY ONLY <3>1, <3>2, ZenonT(30)
        <4> QED
          BY ONLY <4>2, <4>3, <4>4
      <3>4. wpc' \in [Workers -> {"loop", "spin", "ptr", "recheck", "classify", "use"}]
        BY ONLY <3>1, <3>2, w \in Workers
      <3> QED
        BY ONLY <3>3, <3>4, ZenonT(30)
    <2>3. UNCHANGED <<version, active, snapPdrs, snapMem, pdrMem, allPdr, upc, job, retired,
                      retiredSnap, retiredVer, ackVersion, ackExpected, ackSids, retireQ, wq,
                      v1, newPtr, inUse, reqLost>>
      BY <1>14, ZenonT(30) DEF Recheck, ctrl, memory, upfc, slot, tracker, worker
    <2> QED
      BY <2>1, <2>2, <2>3, ZenonT(30)
  <1>15. ASSUME NEW w \in Workers, Classify(w) PROVE TypeOK'
    <2>1. snapPdrs[ptr[w]] \subseteq Pdrs
      BY ZenonT(30)
    <2>2. inUse' \in [Workers -> Pdrs \cup {NoPdr}]
      <3>1. \/ inUse' = inUse
            \/ \E p \in snapPdrs[ptr[w]] : inUse' = [inUse EXCEPT ![w] = p]
        BY <1>15, ZenonT(30) DEF Classify
      <3>2. inUse \in [Workers -> Pdrs \cup {NoPdr}]
        OBVIOUS
      <3> QED
        BY ONLY <2>1, <3>1, <3>2, ZenonT(30)
    <2>3. wpc' \in [Workers -> {"loop", "spin", "ptr", "recheck", "classify", "use"}]
      BY <1>15, ZenonT(30) DEF Classify
    <2> QED
      BY <1>15, <2>2, <2>3, ZenonT(30) DEF Classify, ctrl, memory, upfc, slot, tracker
  <1>16. ASSUME NEW w \in Workers, PacketDone(w) PROVE TypeOK'
    BY <1>16 DEF PacketDone, SendAck, ctrl, memory, upfc, slot, tracker, worker
  <1> QED
    BY <1>1, <1>2, <1>3, <1>4, <1>5, <1>6, <1>7, <1>8, <1>9,
       <1>10, <1>11, <1>12, <1>13, <1>14, <1>15, <1>16, ZenonT(30) DEF Next, UpfC, UpfU

-----------------------------------------------------------------------------
(* The theorems.                                                             *)

\* Start-up establishes the inductive invariant.
LEMMA InitIndInv == Init => IndInv
  <1> SUFFICES ASSUME Init PROVE IndInv
    OBVIOUS
  <1> USE BoundAssumption, PdrAssumption DEF Init, Versions, NoSnap, NoJob
  <1>1. TypeOK
    <2>1. <<>> \in Seq(Retire) /\ <<>> \in Seq(Ack) /\ <<>> \in Seq(Versions)
      OBVIOUS
    <2>2. 0 \in Versions /\ "new" \in Mem
      BY DEF Mem
    <2> HIDE DEF Versions
    <2> QED
      BY <2>1, <2>2, ZenonT(30) DEF TypeOK
  <1>2. /\ version = 0 /\ active = 0 /\ upc = "idle" /\ retired = 0 /\ retiredSnap = 0 /\ retiredVer = 0
        /\ ackSids = {} /\ cq = <<>> /\ allPdr = {}
        /\ \A v \in Versions : snapMem[v] = "new" /\ snapPdrs[v] = {}
        /\ \A p \in Pdrs : pdrMem[p] = "new"
        /\ \A w \in Workers : ptr[w] = 0 /\ ver[w] = 0 /\ wpc[w] = "loop" /\ inUse[w] = NoPdr
        /\ 0 \in Versions
    OBVIOUS
  <1>a. CtrlInv /\ SlotInv /\ SnapInv
    <2>1. CtrlInv
      BY ONLY <1>2 DEF CtrlInv, NoSnap
    <2>2. SlotInv
      BY ONLY <1>2 DEF SlotInv, NoSnap
    <2>3. SnapInv
      BY ONLY <1>2 DEF SnapInv, NoSnap
    <2> QED
      BY ONLY <2>1, <2>2, <2>3
  <1>b. AckInv
    BY ONLY <1>2 DEF AckInv
  <1>3. WorkerInv
    BY ONLY <1>2 DEF WorkerInv
  <1>c. PdrInv
    BY ONLY <1>2, ZenonT(30) DEF PdrInv, NoSnap
  <1>4. QueueInv
    <2>1. 1 .. Len(retireQ) = {} /\ upc = "idle"
      BY ONLY Init DEF Init
    <2> QED
      BY ONLY <2>1 DEF QueueInv
  <1>5. SafeInv
    BY DEF SafeInv
  <1> QED
    BY ONLY <1>1, <1>a, <1>b, <1>3, <1>c, <1>4, <1>5 DEF IndInv

\* Every step of UPF-C and of the workers keeps the inductive invariant.
LEMMA NextIndInv == IndInv /\ [Next]_vars => IndInv'
  BY TypeOKStep, CtrlInvStep, SlotInvStep, SnapInvStep, AckInvStep, WorkerInvStep,
     PdrInvStep, QueueInvStep, SafeInvStep DEF IndInv

\* The inductive invariant holds in every reachable state.
THEOREM IndInvHolds == Spec => []IndInv
  BY InitIndInv, NextIndInv, PTL DEF Spec

\* The types of the shared slot, the queues and the workers' locals hold.
THEOREM TypeCorrect == Spec => []TypeOK
  <1>1. IndInv => TypeOK
    BY DEF IndInv
  <1> QED
    BY IndInvHolds, <1>1, PTL

\* The seqlock of upf_cls_publish and UpfClsMaybeFlipAndAck is correct for
\* any number of workers and publications: a worker never pairs a pointer
\* with another snapshot's version.
THEOREM FlipAtomic == Spec => []FlipIsAtomic
  <1>1. IndInv => FlipIsAtomic
    BY DEF IndInv, WorkerInv, FlipIsAtomic
  <1> QED
    BY IndInvHolds, <1>1, PTL

\* No snapshot and no PDR is freed twice, messages lost or not.
THEOREM FreedOnce == Spec => []NoDoubleFree
  <1>1. IndInv => NoDoubleFree
    BY DEF IndInv, SnapInv, PdrInv, NoDoubleFree
  <1> QED
    BY IndInvHolds, <1>1, PTL

\* The published snapshot and its PDRs are allocated, messages lost or not.
THEOREM ActiveLive == Spec => []ActiveIsLive
  <1>1. IndInv => ActiveIsLive
    BY DEF IndInv, SnapInv, PdrInv, ActiveIsLive
  <1> QED
    BY IndInvHolds, <1>1, PTL

\* Once every GC_REQ is delivered, UpfClsOnAckFree frees a snapshot or a PDR
\* only when no worker can still reach it, whatever ACKs are lost.
THEOREM SafeReclamation == Spec => []NoUseAfterFree
  <1>1. IndInv => NoUseAfterFree
    BY ZenonT(30) DEF IndInv, SafeInv, WorkerInv, NoUseAfterFree
  <1> QED
    BY IndInvHolds, <1>1, PTL

\* PdrFreeUpTo may stop at the first entry that is too new.
THEOREM RetireOrdered == Spec => []RetireQueueOrdered
  <1>1. IndInv => RetireQueueOrdered
    BY ZenonT(30) DEF IndInv, QueueInv, RetireQueueOrdered
  <1> QED
    BY IndInvHolds, <1>1, PTL

\* A worker's applied version never decreases.
THEOREM VersionMonotone == Spec => VersionNeverGoesBack
  <1>1. IndInv /\ [Next]_vars => [\A w \in Workers : ver'[w] >= ver[w]]_vars
    <2> SUFFICES ASSUME IndInv, Next PROVE \A w \in Workers : ver'[w] >= ver[w]
      OBVIOUS
    <2> TAKE x \in Workers
    <2>1. ver[x] \in Nat /\ version \in Nat /\ ver[x] <= version /\ ver \in [Workers -> Versions]
      BY BoundAssumption DEF IndInv, TypeOK, WorkerInv, Versions
    <2>2. CASE UpfC
      <3>1. ver' = ver
        BY <2>2, ZenonT(30) DEF UpfC, CreatePdr, CreatePdrFails, UpdatePdr, RemovePdr, BeginPublish,
              PublishSwap, PublishStable, Notify, OnAck, worker
      <3> QED
        BY ONLY <2>1, <3>1
    <2>3. ASSUME NEW w \in Workers, UpfU(w) PROVE ver'[x] >= ver[x]
      <3>1. ver' = ver \/ ver' = [ver EXCEPT ![w] = version]
        BY <2>3, ZenonT(30) DEF UpfU, RecvGcReq, PacketArrives, LoadVersion, LoadActive, Recheck,
              Classify, PacketDone
      <3> QED
        BY ONLY <2>1, <3>1, w \in Workers, x \in Workers
    <2> QED
      BY <2>2, <2>3 DEF Next
  <1> QED
    BY IndInvHolds, <1>1, PTL DEF Spec, VersionNeverGoesBack

=============================================================================
