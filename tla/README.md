# Verification of the UPF

This directory holds TLA+ models of the user plane function (UPF) in this
repository, the TLC configurations that check them on small instances, and
proofs that TLAPS checks for every value of the constants. `PROJECT.json` lists
components, runs, the map from definitions to source lines, findings, hazards
and theorems.

    tlc -workers 2 -config ClsSnapshot_safety.cfg ClsSnapshot
    tlc -workers 2 -config Platform.cfg MCPlatform
    tlapm ClsSnapshotProofs.tla

## 1. The system

The UPF runs as several OpenNetVM network functions (NFs) over DPDK.

- **UPF-C** (`5gc/upf_c`) is the PFCP endpoint. It handles one message at a
  time: a PFCP message of the SMF, a timer event, or an event of a worker, all
  from one ring. It owns the sessions and their rules, which live in shared
  memory.
- **UPF-U workers** (`5gc/upf_u`) handle packets. Each runs a loop: a burst of
  packets, then messages, then a callback. They read PDRs and FARs that UPF-C
  changes, without locks.
- **UPF-LB** (`5gc/upf_lb`) gives packets to workers.
- **OpenNetVM** (`onvm`) provides the manager, the NF library, message and
  packet rings. A message ring holds 128 messages, and a send to a full ring
  fails. The manager starts and stops NFs; example NFs show how it is used.
- **Libraries**: the classifiers (`PartitionSort`, tuple space search), the PFCP
  message coder, buffer pools and lists, and cJSON.

The processes share memory and exchange small messages:

| from | to | what |
| --- | --- | --- |
| UPF-C | workers | classifier snapshot through a seqlock; `EVT_CLS_GC_REQ`; `CLEAR_AND_DRAIN`; `SHAPER_SESSION_REMOVE`; PDRs and FARs in place |
| worker | UPF-C | `EVT_CLS_GC_ACK`; `SESSION_REPORT` |
| timer thread of UPF-C | UPF-C | `N4_T3_RESPONSE`, `N4_T3_HOLDING` |
| SMF | UPF-C | PFCP requests and responses over UDP: lost, repeated, reordered |

### Components and modules

| component | module | what is hard about it | what should hold |
| --- | --- | --- | --- |
| Classifier snapshots | `ClsSnapshot`, `ClsSnapshotProofs` | stores and loads interleave; sends fail; workers lag | no use after free, one free per object, atomic flips, removed PDRs are freed |
| PFCP transactions, timers | `PfcpXact`, `PfcpXactProofs` | a timer thread; late events; slots reused; a list reset at every insertion | pools exact, one release ahead, released in the end |
| N4 sessions and rules | `N4Session`, `N4SessionProofs` | failures half-way; keys that move; rules borrowed from session 1 | maps exact, lists agree, rings end with sessions |
| Downlink path | `DlPath`, `DlPathProofs` | a FAR read before it is used; packets with two holders; events late or lost | counts exact, nothing stranded, one report per episode |
| Shaper of a UE | `QosShaper`, `ShaperFifo`, `QosShaperProofs` | bounds at four levels, three active lists | implements one queue per flow |
| Token buckets | `TokenBucket` | two roundings | rates kept, nothing lost to rounding |
| Tables of UEs and meters, drain order | `UeTable`, `ActiveUes` | colliding hashes; removal; a cursor over words of bits | entries found; nobody overtaken or starved |
| ARP | `Neighbours` | full table, ageing | what is found belongs to the address |
| Worker selection, UPF-LB | `Ownership` | several places choose, without a lock | packets of a session reach one worker |
| PFCP nodes, dispatch | `N4Path` | one socket for all nodes; a look-up without a match | the answer goes to the asker |
| PFCP coding | `PfcpCoding`, `MCPlatform` | one table for both directions, no length checks | parsed as sent, round trip, values returned |
| Buffer pools | `BufPool` | sizes, NULL results, a report freed twice | no buffer in two hands |
| Rules: PDRs, lists, session tables | `PdrRules`, `RuleLists`, `SessionTables` | fields changed in place; 16-bit searches; tables published one by one | last value sent is in effect; what is found is the owner's |
| NF life cycle, children | `NfLife`, `NfChildren` | messages to an NF that stops; counts kept by two processes | service map, ids and cores exact; nobody left behind |
| Forwarding | `NfForward` | buffers, rings, NFs that come and go | each packet in one place, in order |
| Shared-core mode | `SharedCore` | flag and semaphore in separate steps | no lost wakeup |
| Flow director, flow table | `FlowDir`, `FlowFunctions` | a shared table without a lock | entries whole, none lost |
| Classifier libraries | `RbTree`, `PartitionSort`, `TupleSpace`, `Cmap`, `Partitioner` | rotations, path compression, displacement, sort orders | well formed; the best rule is found |
| JSON library | `CJsonText`, `CJsonTree` | escapes, buffer estimates, shared strings | round trip; each string freed by its owner |
| Example functions | `NfdFunctions`, `SimpleFunctions`, `FlowFunctions`, `FilterFunctions`, `FairQueue`, `SelfMessages`, `Traffic` (`NfApp` is what they share) | tables and counters that outlive packets | a verdict follows from what came before |

`PROJECT.json` gives for each component its status and what is left out.

## 2. Modules

A component's module has its state, actions, specification and properties.
Definitions marked as mutants are deliberate errors of the kind the code could
contain. They are not used by the specification. They show that each property
would notice.

### ClsSnapshot

UPF-C rebuilds an immutable classifier on every PDR change, publishes it, asks
every worker to flip, and frees the old snapshot and the removed PDR when the
workers have acknowledged.

- The three stores of `upf_cls_publish` are `BeginPublish` (with the rebuild),
  `PublishSwap` and `PublishStable`. `Notify` is the rest of
  `UpfClsRebuildAndPublish` and, for a removal, `PdrDeferFree`; any set of the
  sends may fail as far as rings are full.
- A worker's flip is `LoadVersion`, `LoadActive`, `Recheck`, one load each, so
  that a publication may fall between any two. `Classify` takes a PDR pointer,
  which is in use until `PacketDone`.
- `OnAck` is the whole handler of `EVT_CLS_GC_ACK`: the tracker, the retired
  slot, the retire queue.
- A snapshot is named by the version it is published under, which makes
  "pointer and version belong together" expressible. Memory is `new`, `live`,
  `freed` or `double`.

### PfcpXact

Transactions with one SMF. Each list of the node is reset before an insertion,
so it holds the newest transaction or nothing; `newest` and `link` say so
without pointers. A timer stands for the response and the holding timer of a
transaction, which are created and deleted together; the response timer is never
started in the code. `NewRequest` is PfcpXactReceive, UpdateRx and the response
of the handler; `TimerExpire` and `TimerExpireDone` are the two halves of the
timer thread's step around the call of the expiry function; `HoldingTimeout` is
the event it sends. The constant `PromptTimers` says that the second half comes
before UPF-C handles the event.

### DlPath

One session, one downlink PDR and FAR, its worker, and UPF-C. A packet goes
through `ReceiveBurst`, `HandlePacket` (which reads the FAR's action and the
session's ring), then one of `DropPacket`, `NoNeighbour`, `BufferPacket`,
`ShapePacket`, `ForwardPacket`, and leaves in `TransmitBurst`. Reading the action
and acting on it are two steps, between which UPF-C may change the FAR
(`UpdateFar`, `UpdateFarDone`) or remove the session (`RemoveSession`). The action
of a packet is stored in the packet, as in the code, so a packet with two holders
has one action. The shaper is one FIFO that takes a packet or lets it pass, and
releases packets at any time: token rates are left out, order is kept. What the TX
thread got is a count per packet (`out`), since nothing later depends on its order.

### N4Session

A message is a walk over its elements, in the code's order: create FAR, QER,
PDR; update FAR, QER, PDR; remove FAR, QER, PDR. Each element is one step with
its whole effect. A failed element is skipped by an establishment and ends a
modification. CreatePdr and UpdatePdr first move the session's TEID and UE
address, then look up FAR and QER, then rebuild the classifier, which may fail;
each failure leaves what was done before it. `MissingQer` is the code's loan of
QER 1 of session 1; `Null` in a list is what the lookup returns when there is
none, and following it is the `fault`.

Left out: the contents of FARs and QERs, responses, PCAP replay aliases, ids of
2^16 and more. A cleared table entry, instead of one that is cleared when it is
used again, only makes fewer states.

### The user plane besides DlPath

- `QosShaper` is the shaper of one UE: the flow table, a queue per flow, the pool
  of queue entries, the three active lists, the drain with its class burst and its
  turns, policy changes, the flush. Whether a bucket has tokens is a free choice.
  `ShaperFifo` is what it promises: one FIFO per flow. The refinement mapping
  reads the queue of a flow off its slot (`Waiting`), and `ShaperIsFifo` is the
  abstract specification as a property.
- `TokenBucket` has the arithmetic of refill and service, with both integer
  divisions; a ledger keeps what came in and went out.
- `UeTable`: both hash tables with linear probing, the rebuild at removal.
  `ActiveUes`: the scan over words of bits, against the cyclic order.
- `Neighbours`: learning, requests, ageing; time is the age class of an entry.
- `Ownership`: UPF-C, UPF-LB and the workers choose or look up the worker of a
  session; a step ends at each access to the shared table.

### The control plane besides PfcpXact and N4Session

- `N4Path`: datagram, node, dispatch, handler, answer. A handler is served or
  fails here; what it does to rules is in `N4Session`.
- `PfcpCoding` walks the table of element descriptions in both directions. The
  table (`ieDescriptionTable`) is its constant, which `MCPlatform` gives it.
  A buffer is a sequence of units (header of an element, or its octets). The
  walk is the code's: an element that is not the next of the row counts as absent
  and no position is compared with a length.
- `BufPool`: descriptors, which are queued in order, and data buffers, which are
  counted, through receipt, parsing, answer and report of a message.
- `PdrRules`: elements overwrite fields of a PDR in place. `RuleLists`: the linked
  list library and its searches. `SessionTables`: publication of the tables, and
  look-ups in both byte orders.

### The platform

- `NfLife`: both sides of registration, with shared arrays and one message ring.
  `NfChildren`: threads that a function starts in its own process, and their end.
- `NfForward`: RX thread, TX thread, NFs, their buffers and rings. A packet's number
  is its hash. `SharedCore`: sleep and wakeup, one access per step.
- `FlowDir`: two instances of the test function on one shared table. The table with
  places is in `FlowFunctions`, whose functions use it.

### Libraries

- `RbTree` is one level of a `PartitionSort` tree on linked nodes. `PartitionSort`
  stacks such levels (the MITree of the code), taking a level for the ordered set
  that `RbTree` shows it to be, and adds the vector of trees and the entry points
  the UPF calls.
- `TupleSpace` has both variants; `Cmap` the cuckoo map below it; `Partitioner` the
  interval algorithms, compared with definitions by exhaustive search.
- `CJsonText` has strings as bytes and documents as tokens, `CJsonTree` items in
  memory with failing allocations.

### Example functions

`NfApp` is the life they share: registration, options, the count of packets and
its display. `NfdFunctions` (eight functions), `SimpleFunctions` (eight),
`FlowFunctions` (two) and `FilterFunctions` (three) pick one function per
behaviour and keep the history of its packets, against which verdicts are
checked. `FairQueue`, `SelfMessages` and `Traffic` have threads, rings or timing
of their own.

### Suites

Modules that share no state are checked side by side: `MCUserPlane`, `MCPlatform`
and `MCLibraries` have a variable `part` and slots `v1`, `v2`, ... . `part` says
which module a behaviour belongs to. Each module is an `INSTANCE` that maps its
variables to the first slots; the others stay 0. A property of a suite is a theme:
a `CASE` over `part` that names what each module says on it.

Modules with theorems are extended instead, so that a run checks the formula that
is proved and evaluates the assumptions it is proved from. `MCUserPlane` extends
`DlPath`, `QosShaper`, `TokenBucket` and `Ownership`, `MCTransactions` extends `PfcpXact`
and `SharedCore`;
their variables rest while another part runs. `ClsSnapshot` and `N4Session` are
checked as they are.

## 3. Runs

| run | instance | shows |
| --- | --- | --- |
| `cls_safety` | 2 workers, 2 PDRs, 3 publications, rings of 2, allocation may fail | the seqlock is atomic; nothing is freed twice; what is published is live; the retire queue is ordered; no worker goes back; no worker holds freed memory as long as every GC_REQ was enqueued |
| `cls_live` | 2 workers, 1 PDR, no loss | a removed PDR is freed in the end |
| `cls_ring_full` | rings of 1 | **violated**: see findings |
| `transactions` | 3 transactions and timers, 2 reports, ring of 2; an NF with 3 packets | pools, timers and pending releases are exact; a report finds its transaction; requests are released; a sleeper can be woken, and packets wake it |
| `xact_duplicate` | retransmissions | **violated**: see findings |
| `n4_sessions` | 3 SEIDs in 2 slots, 3 TEIDs, 2 addresses | maps, rings and PDR lists stay consistent; the loan of QER 1 is what the code says |
| `n4_retransmit` | an establishment comes again | **violated**: see findings |
| `dl_twice` | no shaping | **violated**: see findings |
| `dl_paging` | shaping | **violated**: see findings |
| `user_plane` | seven modules | reference counts and queue counters; order; one report per episode; the flush is final; nothing is stranded; rates; tables; one worker per session; the shaper is a FIFO per flow; no ARP request and no UE's turn comes early; buffered packets are sent |
| `platform` | seventeen modules | tables say what is the case; every packet, message and buffer is in one place; order; messages take effect; verdicts follow history |
| `libraries` | nine modules | structures are sound; look-ups are exact; results meet their definitions |

The three suites take 2 to 4 minutes each.

**Bounds.** Two workers are the least for which ACKs can be partial, and two PDRs
the least for which a snapshot may keep one and lose another. `MaxVersion` counts
two per publication. Three publications let a worker lag by two. Rings of two can
be full and non-empty. Three transactions let a slot be reused while two others
are held. Three packets in bursts of two give a burst that follows a burst with
packets queued, and two FAR updates give BUFF, then FORW. Three SEIDs in two slots
reuse a slot; a third TEID is one that no session has.

In the suites a table has fewer places than it is offered keys, hashes collide,
and a ring or pool is small enough to be exhausted: flows 3 for 2 slots, neighbours
3 for 2 places, UEs and meters 4 for 3, rule ids on both sides of the width of the
search (4 in place of 2^16), NFs 3 for a service row of 2, packets 4 for queues of
2, buffers of two sizes with a packet that outgrows the smaller. A red-black tree
of 7 keys reaches every case of the deletion fix-up. Time is counted in the units
the code compares. Symmetry is used for sets without order, and never with
liveness.

**Deadlock** is checked in the runs of `ClsSnapshot`, `N4Session`, `DlPath` and
`PfcpXact`; `DlPath` and `N4Session` stutter after a fault. In `transactions` and
the suites it is not: the parts end when their packets or operations are used up,
and NFs that stopped do nothing more.

**Fairness.** `cls_live`: UPF-C and each worker's loop never stop (both poll, so
weak fairness of their steps); a worker takes its messages and gets packets again
and again (strong fairness: the loop does both in each turn, and the property is
about a network with traffic). `transactions`: weak fairness of the timer thread,
of UPF-C's ring, of the loop of the NF, of the wakeup thread and of each waker.
`user_plane`: weak fairness of the worker's loop (`Dl(UpfU)`) and of the end of the
handler UPF-C is in (`Dl(UpdateFarDone)`). Nothing is assumed of the SMF, of
senders, or of the scheduling beyond that.

### Findings

- `cls_ring_full`: UPF-C waits for as many ACKs as there were successful sends.
  A worker whose ring was full is not waited for, and keeps a snapshot whose PDRs
  are freed.
- `xact_duplicate`: a retransmitted request frees its transaction, and the holding
  timer does it again.
- `dl_twice`: a packet that is buffered, then drained within the same burst,
  has its action set to OUT by the drain; the burst loop sends it once more.
- `dl_paging`: a report event handled after the FAR update that turns
  notification off leaves `srr_flag` set, and the next downlink data is not
  reported.
- `n4_retransmit`: an establishment that comes again fails on its own keys, and
  the clean-up deletes the map entries of the session that exists.

More formulas in the modules do not hold; no run is kept for them. Each can be
seen with the named configuration, changed as said, and this one formula as its
invariant:

| formula | configuration | why |
| --- | --- | --- |
| `ClsSnapshot!RetiredSnapshotsAreFreed` | `ClsSnapshot_safety.cfg`, no failing allocation | a second publication overwrites the single retired slot |
| `PfcpXact!NoFault` | `PfcpXact_duplicate.cfg`, `NetDuplicates = FALSE`, `PromptTimers = FALSE` | UPF-C deletes a timer the timer thread is still working on |
| `PfcpXact!ReportsCanBeAnswered` | the same, no duplicates, `MaxReports = 2` and `MaxOutstanding = 2`, or `MaxReports = 4` | the list holds only the newest report; the last id is looked up in the other list |
| `PfcpXact!OneTransactionPerRequest` | `PfcpXact_duplicate.cfg` | the list holds only the newest request |
| `N4Session!QerListsAreSafe`, `N4Session!PdrsHaveSessions` | `N4Session_sessions.cfg` | QER 1 of a first session that is gone; the PDRs of a deleted session stay in the global list |

### Where a property had to be weakened

A property is stated as strongly as the code allows. Where the obvious one fails,
the exception is part of the formula, so that it documents what the code does:

- `N4Path!AnswersGoToTheAsker`: until a second peer speaks. The look-up of a node
  without a match returns the list head.
- `RuleLists!ShortIdsAreExact`: for rule ids below 2^16, to which searches cut them.
- `SessionTables!FoundIsOwner`: soundness only. A failed addition removes map
  entries of other sessions (`n4_retransmit`).
- `PdrRules!FilterIsCurrent`: unless a description was stored over a longer one,
  whose tail stays.
- `PfcpCoding!ParsedAsSent`: elements out of the order of the table lose the rest of
  their group. `OneElementOnePlace`, `LeftoversNeedALongerMessage`: the ends of groups
  and messages are not looked at. `RoundTrip`: a group that outgrows its first
  buffer gets length 0. `TypesMeanMembers`: the rows of types 9 to 15 are off by one.
- `BufPool!OneDescriptorPerReport`: the body of a report is freed twice. The data
  buffer is safe; one descriptor is lost per report, and the leak check misses it.
- `FairQueue!FullIsForEver`: an addition to a full queue keeps the lock.
- `NfLife!ServiceMapIsExact`: except for a service row overrun by NFs that started
  together. `NfChildren!ChildrenAreCounted`: unless an interrupted start had an id
  that a child had before.
- `FlowDir!EntriesAreWhole`: for flows that two instances did not meet at once.
- `SelfMessages!FailuresSpread`, `Traffic!DisplayLags` and `FilterFunctions!LongestRuleDecides`
  describe a failed test that fails the later ones, a display that misses one packet
  of every round, and rules that are not loaded because one before them was refused.

## 4. Proofs

### ClsSnapshotProofs

For any finite set of workers, any set of PDRs, any bound on versions and any ring
size:

- `TypeCorrect`, `FlipAtomic`, `FreedOnce`, `ActiveLive`, `RetireOrdered`: the
  invariants of `cls_safety`, whatever sends and allocations fail;
- `SafeReclamation`: `NoUseAfterFree`, which is conditional on every GC_REQ
  having been enqueued. `cls_ring_full` shows that the condition is needed;
- `VersionMonotone`: the action property of `cls_safety`.

None of the invariants is inductive alone. `IndInv` is the conjunction of the
type invariant and eight parts:

- `CtrlInv`: the parity of the version follows the step UPF-C is at, and the
  active snapshot is the one of the last publication;
- `SlotInv`, `SnapInv`: the retired slot, the local `retired` pointer and the
  active pointer are different snapshots, and live; this is what excludes a
  second free;
- `AckInv`: an ACK in the ring, or counted by the tracker, names a version its
  worker did apply. It links what UPF-C has been told with where workers are;
- `WorkerInv`: what a worker has loaded so far in a flip; if the version it read
  is still current, so is the pointer. This is the seqlock argument, and gives
  `FlipIsAtomic` when `Recheck` succeeds;
- `PdrInv`, `QueueInv`: the global list, the newest snapshot and the memory of the
  PDRs agree; a PDR in the retire queue is there once, is allocated and is out of
  the global list, and the queue is ordered by version;
- `SafeInv`: as long as no request was lost, what a worker holds is allocated. A
  free needs the ACKs of all workers, and by `AckInv` each of them has then
  applied a version newer than what is freed.

There is one lemma per part (`CtrlInvStep` ... `SafeInvStep`, `TypeOKStep`), each
with one step per action, and `NextIndInv` combines them. `LeastIndex` and
`FreeCountLemma` say how many entries `PdrFreeUpTo` removes. The assumptions are
the four named `ASSUME`s of `ClsSnapshot`: a finite set of workers, a PDR value
that is no PDR, natural bounds, a Boolean.

### DlPathProofs

For any number of packets and updates and any size of bursts, rings and queues
(`Sizes`: these are natural numbers):

- `OrderKept`: `QueuesKeepOrder`, from `OrderInv`: what waits is older than the
  packet at hand, which is older than the rest of the burst; no packet waits twice;
- `FlushFinal`: `FlushIsFinal`, from `LifeInv`: a flush event exists only after the
  session is gone, and the worker handles it between bursts, so that no decision to
  queue a packet is open;
- `NoneStranded`: `NothingStranded`, from `DrainInv`: packets that wait although the
  FAR forwards, or that were decided under BUFF and are about to wait, have a drain
  event in the ring, or UPF-C is about to send it, or it was lost. This theorem
  assumes `FarActions \subseteq {"FORW", "BUFF"}`: an update from BUFF to DROP sends
  no event, and one from DROP to FORW neither;
- `ReportsBounded`: `OneReportPerEpisode`, from `ReportInv`: the flag pays for the
  report that no clearing has paid for;
- `ReferencesStayExact`: `ReferencesAreExact`, from `RefInv`: a packet's count is
  one for each of burst, ring and shaper that holds it, plus what the TX thread has
  of it. It needs `OrderInv`, by which no queue holds a packet twice, so that each
  counts once.

Each is inductive together with `Shapes`, the part of the types it needs. There is
one lemma per invariant (`ShapesStep`, `OrderStep`, `LifeStep`, `DrainStep`,
`ReportStep`, ...) with one step per action, and one lemma per operation for what it
does to the queues (`BufferFacts`, `ShapeFacts`, `DrainFacts`, ...).

### N4SessionProofs

For any number of sessions, keys and rules, and whatever fails in the middle of a
message (assumed: QER ids are numbers and 1 is one; `None` and `Null` are no ids):

- `SessionTypes`: the type invariant, which is proved and so not part of a run;
- `RingsEndWithSessions`: `NoRingOutlives`;
- `PdrListsStayEqual`: `PdrListsAgree`;
- `LenderStaysSound`: `LenderIsSound`;
- `MapsStayExact`: `MapsAreExact`, for an SMF that sends no establishment again
  (`~Retransmits`). `n4_retransmit` shows that the condition is needed.

The inductive invariant `SessionInv` adds to these: `HandlerInv`, the handler works
on a session that exists and an establishment is in one of its three phases;
`SeidsInv`, an SEID is given out once and a session has both keys; `PdrInv`, no PDR
is listed under an SEID still to come. Without `SeidsInv` a new session could
inherit the PDRs of an older one. `KeysInv` adds the maps. `MapAdd`, `MapEdit` and `MapFree`
say how a map stays exact when a session comes, changes its key or goes; they are
stated once, for TEIDs and addresses. `ElementIsEdit` shows that each element of a
message is a small change of the session in hand, and `EditKeepsSessions` and
`EditKeepsMaps` that such a change keeps the invariant.

### PfcpXactProofs

For pools, rings and counters of any size, under `OrderlyNetwork`: no request comes
again while it is held, one report is open at a time and fewer are sent than there
are ids, and the timer thread is done with a timer before UPF-C handles its event.
Each of the four is needed: see the findings and the table of formulas that fail.

- `TransactionTypes`: the type invariant;
- `PoolStaysExact`: `PoolIsExact`;
- `TimersStayOwned`: `TimersBelongToTransactions`;
- `NoNullIsFollowed`: `NoFault`;
- `ReleasedOnce`: `OneReleaseAhead`;
- `ReportsAreAnswered`: `ReportsCanBeAnswered`.

They are read off one inductive invariant, `XactInv` (`TransactionsAreSound`), since
each needs the others: `TimerInv`, a timer is in the pool, active or idle, and in
one of them; `OwnerInv`, a transaction of the SMF and its timer name each other;
`ListInv`, the entry of a list is a transaction of that list; `EventInv`, an event
in the ring is for a transaction whose timer has expired, once, and none is missing
unless the ring was full; `ReportInv`, the report that is out is the entry of its
list. There is one lemma per action. The assumptions are those of `PfcpXact`: finite
pools, with no fewer timers than transactions (`PoolsAssumption`).

### SharedCore

- `SleepersCanBeWoken`: `SleeperCanBeWoken`, for any number of packets and every
  interleaving of the NF's loop, the wakeup thread, the shutdown and the signal
  handler. `ShareInv` adds that the shutdown's waker is idle as long as the manager
  runs: its wakeup must not cut short one that has already cleared the flag.

### QosShaperProofs

For any numbers of flows, keys, packets and queue entries, and any depths of the
buckets (`TablesAssumption`: the bounds are natural numbers, and a flow may hold at
least one packet; `KeysAssumption`: the mark of a free slot is no key):

- `NoneOutOfReach`: `WaitingFlowsAreActive`;
- `CountsStayExact`: `QueuesAreCounted`;
- `ShaperImplementsFifo`: `ShaperIsFifo`, that is, `ShaperSpec` implements the
  specification of `ShaperFifo` under the mapping `Waiting`.

The inductive invariant `ShaperInv` (`ShaperIsSound`) is `TableInv`, by which a flow is
in the list it names, once, and names the list its policy asks for, and no two flows
have one key; `CountInv`, the counters are the number of packets; `RestInv`, the
drain's locals have their types and the UE is marked while it has packets. The
argument goes over what an operation does to a single flow (`Moved`): the lemmas
`Deactivated`, `Activated`, `PolicySet` and `Released` say where the flow is afterwards,
`ChangedRows` that the queues of all other keys are the same, and `OneMore` that the
count changes by one. `WaitStep`, `PassStep`, `RefusedStep` and `BoundStep` put them
together for the outcomes of an arrival, `TryStep` for one turn of the drain, and give
the step of `ShaperFifo` it is. That each key has one flow is what makes the mapping
a function, and it is why the invariant is needed for the refinement.

### TokenBucket

- `BucketsKeepTheirRates`: `RatesAreKept`, for every clock frequency, every set of
  nonzero rates, every depth, packet length and bound on time
  (`BucketAssumption` gives the constants their types). The proof is at the end of the
  module.

`BucketInv` is the three parts of `RatesAreKept` for each bucket, with the types. It is
inductive because the ledger remembers what the bucket gave and when it was last full.
`RefillCases` sorts the early returns of `shaper_update_bucket_tokens` into filling the
bucket, leaving it alone and adding tokens for some cycles; `CyclesCharged` is the fact
about the two divisions on which the last of them rests: the cycles charged have
passed, they cover the tokens up to one cycle, and they are not worth more than the
tokens if a cycle is worth at most one token. The integers of the model do not
saturate; the code's do at 2^64.

### Ownership

- `SessionsKeepTheirWorker`: `SessionsHaveOneWorker`, for any sets of service ids,
  sessions and places of the session table, any hash of TEIDs and any number of packets
  (`OwnAssumption`: the bounds are natural numbers, the hash gives one, and -1, which
  stands for no session, is neither a session nor a place). The proof is at the end of
  the module.

The three parts need each other and nine conjuncts, `OwnInv`. `ListInv`: the accepted
list has no worker twice, which is what makes round robin even. `SerialInv`: no two
places hold one session. `MapInv`, `UpfCInv`: a session that can be found has a worker,
whatever UPF-C is in the middle of; UPF-C takes a session out of the maps before it gives
up its place. `LateInv`: UPF-LB chooses for a session at most once, and only after it was
overtaken by a removal. `ServedInv`: a session was served by the worker in the table
only. `HopsInv`: a packet that waits at a worker its session does not have, or is about
not to have, was handed on less often than the bound, so that it can be handed on once
more; this is the strengthening by which no packet goes round. `SpreadInv`: the counts of
the workers before and after `rr_next` in the list, from which `SessionsAreSpread`
follows. One lemma per action says what it does to each conjunct it can disturb.

### Only model-checked

- Liveness (`RemovedPdrEventuallyFreed`, `RequestIsReleased`, `PacketsWakeNf`,
  `BufferedAreSent`): fairness and `ENABLED` are out of the prover's reach.
- What the recursive algorithms of the libraries, of `PfcpCoding` and of the hash
  tables with probing compute: it needs induction over data, which the prover does
  not have.
- `ActiveUes`, `UeTable`, `Neighbours`, the platform and the example functions: no proof
  yet.
- The formulas of the violation runs, which do not hold.

## 5. Limits

- Memory is sequentially consistent in `ClsSnapshot`. The code uses acquire and
  release atomics for the version and the pointer; weaker orders are not explored.
- PDRs and FARs that are changed in place while workers read them are one value;
  torn reads are listed as a hazard.
- Integers that wrap after days or 2^31 operations (timer milliseconds, snapshot
  versions) are natural numbers below a bound. Widths that are reached early (ids of
  16 bits, counters of 8 bits) are kept, scaled down.
- `DlPath` has one session and one worker; the tunnel header of buffered packets is
  left out. Redirection between workers is in `Ownership`.
- Modules of a suite do not interact. Where one takes another for granted
  (`DlPath` the shaper, `PartitionSort` a level, `TupleSpace` the map, `N4Path` the session
  handlers) the module that justifies it is named in its head.

### Not modelled

| component | why |
| --- | --- |
| Uplink path | a packet is looked up, stripped of its tunnel header and sent within one call; no state outlives it. The snapshot is in `ClsSnapshot`, the meter in `UeTable` |
| PFCP element conversion | octets of single elements to fields: data without control. What rules make of the fields is in `PdrRules` |
| Base library (`utlt`) | wrappers of the operating system; what others need of pools, lists and timers is in `PfcpXact` and `BufPool` |
| Configuration and start-up | runs once before any concurrency, mostly input parsing |
| Statistics and logging | output; no decision depends on it |
| Packet helpers | header access, checksums and printing: functions of one packet |
| Data network application | a traffic endpoint without state |
| AES examples | a cipher applied to each packet; the control around it is that of `NfApp` |
| Examples that are not built | they need an SDN controller library or nDPI |

In components marked `partly`, `PROJECT.json` says which operations are left out;
most have no caller in the UPF or are compiled out.
