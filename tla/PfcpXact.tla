------------------------------ MODULE PfcpXact -------------------------------
(* The PFCP transactions of UPF-C with one SMF: the pool of transactions, the *)
(* node's two transaction lists, the timers of the requests received, and the *)
(* thread that expires them (pfcp_xact.c, utlt_timer.c, utlt_index.h).         *)
(*                                                                            *)
(* Both create functions reset the list head before they insert, so a list    *)
(* holds the newest transaction or nothing; "newest" is that entry and "link" *)
(* the head that a transaction's own next and prev pointers name.  A "timer"  *)
(* stands for the response and the holding timer of one transaction: they are *)
(* created and deleted together, and the response timer is never started.     *)
EXTENDS Integers, Sequences, FiniteSets, Functions

CONSTANTS
    Slots,          \* the entries of pfcpXactPool (64 in the code)
    Timers,         \* the timer pairs of timerPool (1024 timers in the code)
    Sqns,           \* sequence numbers of the SMF's requests
    MaxXactId,      \* PFCP_MAX_XACT_ID, a power of two
    RingSize,       \* the message ring of UPF-C (128 in the code)
    MaxReports,     \* bound: session reports sent in all
    MaxOutstanding, \* session reports the SMF leaves unanswered at a time
    NetDuplicates,  \* whether the SMF retransmits a request still held here
    PromptTimers    \* whether the timer thread finishes with an expired timer
                    \* before UPF-C handles the message it sent

NoSlot == "noSlot"
Stray == "stray"        \* a walk that leaves the list
NoTimer == "noTimer"
NoList == "null"
Lists == {"local", "remote"}
Uint8 == 0 .. 255

DUPLICATED_RETRY_COUNT == 1

\* There are timers for every transaction: 1024 in the code, two for each of 64.
ASSUME PoolsAssumption ==
    /\ IsFiniteSet(Slots) /\ IsFiniteSet(Timers) /\ Cardinality(Slots) <= Cardinality(Timers)
    /\ Slots \cap {NoSlot, Stray} = {} /\ NoTimer \notin Timers
ASSUME NumbersAssumption ==
    Sqns \subseteq Nat /\ MaxXactId \in Nat \ {0} /\ RingSize \in Nat /\ MaxReports \in Nat
    /\ MaxOutstanding \in Nat
ASSUME SmfAssumption == NetDuplicates \in BOOLEAN /\ PromptTimers \in BOOLEAN

VARIABLES
    pool,       \* pfcpXactPool: queue of free transactions
    xact,       \* the transactions themselves
    newest,     \* the entry of each of the node's lists
    timerPool,  \* queue of free timers
    timer,      \* the timers: the list they are in, isRunning, PARAM2
    active,     \* tmList->active, in order of expiry
    firing,     \* the timer TimerExpireCheck has called expireFunc for
    events,     \* UPF_EVENT_N4_T3_HOLDING messages in UPF-C's ring
    xactId,     \* globalXactId
    reports,    \* transaction ids of the reports the SMF has yet to answer
    overfull,   \* IndexFree met a full pool
    evtLost,    \* a holding event found the ring full
    fault       \* a NULL pointer was followed, or a walk left its list

mem == <<pool, xact, newest, timerPool, timer, active, overfull, fault>>
vars == <<mem, firing, events, xactId, reports, evtLost>>

\* A transaction after memset; PFCP_LOCAL_ORIGINATOR is 0.
Blank == [origin |-> "local", id |-> 0, step |-> 0, answered |-> FALSE, count |-> 0,
          timer |-> NoTimer, link |-> NoList]

TypeOK ==
    /\ pool \in Seq(Slots) /\ Len(pool) <= Cardinality(Slots)
    /\ xact \in [Slots -> [origin : Lists, id : Nat, step : 0 .. 3,
                           answered : BOOLEAN, count : Uint8, timer : Timers \cup {NoTimer},
                           link : Lists \cup {NoList}]]
    /\ newest \in [Lists -> Slots \cup {NoSlot}]
    /\ timerPool \in Seq(Timers) /\ Len(timerPool) <= Cardinality(Timers)
    /\ timer \in [Timers -> [list : {"none", "idle", "active"}, running : BOOLEAN,
                             slot : Slots \cup {NoSlot}]]
    /\ active \in Seq(Timers) /\ IsInjective(active)
    /\ firing \in Timers \cup {NoTimer}
    /\ events \in Seq(Slots) /\ Len(events) <= RingSize
    /\ xactId \in 0 .. MaxXactId
    /\ reports \in SUBSET (1 .. MaxXactId)
    /\ overfull \in BOOLEAN /\ evtLost \in BOOLEAN /\ fault \in BOOLEAN

\* All of S in some order.
InARow(S) == CHOOSE q \in [1 .. Cardinality(S) -> S] : IsInjective(q)

Init ==
    /\ pool = InARow(Slots)
    /\ xact = [s \in Slots |-> Blank]
    /\ newest = [l \in Lists |-> NoSlot]
    /\ timerPool = InARow(Timers)
    /\ timer = [t \in Timers |-> [list |-> "none", running |-> FALSE, slot |-> NoSlot]]
    /\ active = <<>>
    /\ firing = NoTimer
    /\ events = <<>>
    /\ xactId = 0
    /\ reports = {}
    /\ overfull = FALSE /\ evtLost = FALSE /\ fault = FALSE

-----------------------------------------------------------------------------
(* Pools and lists.                                                          *)

\* PfcpXactFindByTransactionId on one list.
Find(list, id) ==
    LET s == newest[list]
    IN IF s = NoSlot THEN NoSlot
       ELSE IF xact[s].id = id THEN s
       ELSE IF xact[s].link = list THEN NoSlot
       ELSE Stray

\* The list a response is looked up in.
ResponseList(id) == IF id = MaxXactId THEN "remote" ELSE "local"

\* Mutant: the transaction does not get back into the pool.
IndexFreeForgets(s) ==
    UNCHANGED <<pool, overfull>>

\* IndexFree puts a transaction back, unless the pool is full.
IndexFree(s) ==
    IF Len(pool) < Cardinality(Slots)
    THEN pool' = Append(pool, s) /\ UNCHANGED overfull
    ELSE overfull' = TRUE /\ UNCHANGED pool

\* A NULL pointer is followed, or a walk leaves its list: the process is lost.
Crash ==
    /\ fault' = TRUE
    /\ UNCHANGED <<pool, xact, newest, timerPool, timer, active, overfull>>

\* ListRemove on a timer, which is in its list once or not at all.
Without(q, t) ==
    LET at == {i \in 1 .. Len(q) : q[i] = t}
        i == CHOOSE j \in at : TRUE
    IN  IF at = {} THEN q ELSE SubSeq(q, 1, i - 1) \o SubSeq(q, i + 1, Len(q))

\* Mutant: the timer is marked as running and stays out of the active list.
TimerStartForgets(t, tm) ==
    /\ timer' = [timer EXCEPT ![t] = [tm EXCEPT !.running = TRUE]]
    /\ UNCHANGED active

\* TimerStart of a timer that now is tm.  All holding timers have the same
\* duration, so the order of expiry is the order of the starts.
TimerStart(t, tm) ==
    /\ active' = Append(Without(active, t), t)
    /\ timer' = [timer EXCEPT ![t] = [tm EXCEPT !.list = "active", !.running = TRUE]]

\* Mutant: the timers are unlinked but stay out of the timer pool.
TimerDeleteForgets(t) ==
    /\ timer' = [timer EXCEPT ![t].list = "none"]
    /\ active' = Without(active, t)
    /\ UNCHANGED timerPool

\* TimerDelete, which leaves isRunning as it is.
TimerDelete(t) ==
    /\ timer' = [timer EXCEPT ![t].list = "none"]
    /\ active' = Without(active, t)
    /\ timerPool' = IF Len(timerPool) < Cardinality(Timers)
                    THEN Append(timerPool, t) ELSE timerPool

\* Whether the list pointers of the transaction and of its timers are not NULL.
Linked(s) ==
    /\ xact[s].link # NoList
    /\ xact[s].timer # NoTimer => timer[xact[s].timer].list # "none"

\* Mutant: the neighbours in the list keep pointing to the deleted transaction.
UnlinkForgets(s) ==
    UNCHANGED newest

\* ListRemove on a transaction makes the head its pointers name point to itself.
Unlink(s) ==
    newest' = [newest EXCEPT ![xact[s].link] = NoSlot]

\* PfcpXactDelete unlinks the transaction, which empties the list its pointers
\* name, wipes it, deletes its timers and frees it.  Unlinking what is in no
\* list follows a NULL pointer.  The retry counter stays at count.
PfcpXactDelete(s, count) ==
    \/ ~Linked(s) /\ Crash
    \/ /\ Linked(s)
       /\ Unlink(s)
       /\ xact' = [xact EXCEPT ![s] = [@ EXCEPT !.origin = "local", !.id = 0, !.step = 0,
                                                !.link = NoList, !.count = count]]
       /\ IF xact[s].timer = NoTimer
          THEN UNCHANGED <<timerPool, timer, active>>
          ELSE TimerDelete(xact[s].timer)
       /\ IndexFree(s)
       /\ UNCHANGED fault

-----------------------------------------------------------------------------
(* UPF-C: messages from the SMF and session reports.                         *)

HeldIds == {xact[s].id : s \in {x \in Slots : xact[x].origin = "remote"}}

\* A transaction as PfcpXactRemoteCreate makes it.
RemoteXact(id, t) ==
    [origin |-> "remote", id |-> id, step |-> 0, answered |-> FALSE,
     count |-> DUPLICATED_RETRY_COUNT, timer |-> t, link |-> "remote"]

\* What PfcpXactRemoteCreate does to the pools and to the list, before the
\* timer is started.
PfcpXactRemoteCreate(s, t) ==
    /\ s = Head(pool)
    /\ t = Head(timerPool) /\ timerPool' = Tail(timerPool)
    /\ newest' = [newest EXCEPT !["remote"] = s]
    /\ UNCHANGED <<overfull, fault>>

IdleTimer(s) == [list |-> "idle", running |-> FALSE, slot |-> s]

\* The handler of the request: UpdateTx and Commit, or an error before them.
Answered(x, answered) ==
    IF answered THEN [x EXCEPT !.step = 2, !.answered = TRUE] ELSE x

\* A request for which no transaction is found.  EventTimerCreate follows the
\* NULL it gets from an empty timer pool.
NewRequest(q) ==
    /\ ~fault
    /\ NetDuplicates \/ q \notin HeldIds
    /\ Find("remote", q) = NoSlot
    /\ \/ pool = <<>> /\ UNCHANGED mem
       \/ pool # <<>> /\ timerPool = <<>> /\ Crash
       \/ /\ pool # <<>> /\ timerPool # <<>>
          /\ \E s \in Slots, t \in Timers, answered \in BOOLEAN :
                /\ PfcpXactRemoteCreate(s, t)
                /\ pool' = Tail(pool)
                /\ TimerStart(t, IdleTimer(s))
                /\ xact' = [xact EXCEPT ![s] = Answered([RemoteXact(q, t) EXCEPT !.step = 1],
                                                        answered)]
    /\ UNCHANGED <<firing, events, xactId, reports, evtLost>>

\* A request for which PfcpXactFindByTransactionId finds a transaction, which
\* PfcpXactReceive frees unless PfcpXactUpdateRx takes the request as its first.
RepeatedRequest(q) ==
    /\ ~fault
    /\ NetDuplicates \/ q \notin HeldIds
    /\ LET s == Find("remote", q)
       IN \/ s = Stray /\ Crash
          \/ /\ s \in Slots /\ xact[s].origin = "remote" /\ xact[s].step > 0
             /\ ~xact[s].answered
             /\ IndexFree(s)
             /\ UNCHANGED <<xact, newest, timerPool, timer, active, fault>>
          \/ /\ s \in Slots /\ xact[s].origin = "remote" /\ xact[s].step > 0
             /\ xact[s].answered
             /\ timer[xact[s].timer].list # "none"
             /\ TimerStart(xact[s].timer, timer[xact[s].timer])
             /\ IndexFree(s)
             /\ UNCHANGED <<xact, newest, timerPool, fault>>
          \/ /\ s \in Slots /\ xact[s].origin = "remote" /\ xact[s].step = 0
             /\ timer[xact[s].timer].list # "none"
             /\ TimerStart(xact[s].timer, timer[xact[s].timer])
             /\ \E answered \in BOOLEAN :
                   xact' = [xact EXCEPT ![s] = Answered([@ EXCEPT !.step = 1], answered)]
             /\ UNCHANGED <<pool, newest, timerPool, overfull, fault>>
          \/ /\ s \in Slots /\ xact[s].origin = "remote"
             /\ xact[s].step = 0 \/ xact[s].answered
             /\ timer[xact[s].timer].list = "none"
             /\ Crash
          \/ /\ s \in Slots /\ xact[s].origin = "local"
             /\ IndexFree(s)
             /\ UNCHANGED <<xact, newest, timerPool, timer, active, fault>>
    /\ UNCHANGED <<firing, events, xactId, reports, evtLost>>

\* globalXactId after PfcpXactLocalCreate
NextXactId == IF xactId = MaxXactId THEN 1 ELSE xactId + 1

\* The transaction PfcpXactLocalCreate makes: no timers, and at step 1 after
\* PfcpXactUpdateTx.
PfcpXactLocalCreate == [Blank EXCEPT !.id = NextXactId, !.step = 1, !.link = "local"]

\* Mutant: the report is put into the list of the SMF's requests.
SendReportToRemoteList ==
    /\ ~fault
    /\ pool # <<>>
    /\ NextXactId <= MaxReports /\ Cardinality(reports) < MaxOutstanding
    /\ pool' = Tail(pool)
    /\ xact' = [xact EXCEPT ![Head(pool)] =
                   [Blank EXCEPT !.id = NextXactId, !.step = 1, !.link = "remote"]]
    /\ newest' = [newest EXCEPT !["remote"] = Head(pool)]
    /\ xactId' = NextXactId
    /\ reports' = reports \cup {NextXactId}
    /\ UNCHANGED <<timerPool, timer, active, overfull, fault, firing, events, evtLost>>

\* UPF_EVENT_SESSION_REPORT: PfcpXactLocalCreate and PfcpXactCommit.
SendReport ==
    /\ ~fault
    /\ pool # <<>>
    /\ NextXactId <= MaxReports /\ Cardinality(reports) < MaxOutstanding
    /\ pool' = Tail(pool)
    /\ xact' = [xact EXCEPT ![Head(pool)] =
                   PfcpXactLocalCreate]
    /\ newest' = [newest EXCEPT !["local"] = Head(pool)]
    /\ xactId' = NextXactId
    /\ reports' = reports \cup {NextXactId}
    /\ UNCHANGED <<timerPool, timer, active, overfull, fault, firing, events, evtLost>>

\* Whether PfcpXactUpdateRx accepts a response at the transaction's step.
TakesResponse(s) == xact[s].step = IF xact[s].origin = "local" THEN 1 ELSE 2

\* UpfN4HandleSessionReportResponse: PfcpXactCommit deletes the transaction, unless
\* the response has no Cause and the handler returns before it.
HandleReportResponse(s) ==
    \/ PfcpXactDelete(s, xact[s].count)
    \/ /\ xact' = [xact EXCEPT ![s].step = @ + 1]
       /\ UNCHANGED <<pool, newest, timerPool, timer, active, overfull, fault>>

\* UPF_EVENT_N4_MESSAGE with a Session Report Response.  When no transaction is
\* found, PfcpXactReceive makes one for the response, PfcpXactUpdateRx refuses
\* it and IndexFree takes it back, its timers and its place in the list kept.
ReceiveResponse(id) ==
    /\ ~fault
    /\ id \in reports
    /\ reports' = reports \ {id}
    /\ LET s == Find(ResponseList(id), id)
       IN \/ s = Stray /\ Crash
          \/ s = NoSlot /\ pool = <<>> /\ UNCHANGED mem
          \/ s = NoSlot /\ pool # <<>> /\ timerPool = <<>> /\ Crash
          \/ /\ s = NoSlot /\ pool # <<>> /\ timerPool # <<>>
             /\ \E x \in Slots, t \in Timers :
                   /\ PfcpXactRemoteCreate(x, t)
                   /\ xact' = [xact EXCEPT ![x] = RemoteXact(id, t)]
                   /\ timer' = [timer EXCEPT ![t] = IdleTimer(x)]
                   /\ pool' = Append(Tail(pool), x)
             /\ UNCHANGED active
          \/ s \in Slots /\ TakesResponse(s) /\ HandleReportResponse(s)
          \/ /\ s \in Slots /\ ~TakesResponse(s)
             /\ IndexFree(s)
             /\ UNCHANGED <<xact, newest, timerPool, timer, active, fault>>
    /\ UNCHANGED <<firing, events, xactId, evtLost>>

\* The response is lost, or finds its session deleted and is dropped.
LoseResponse(id) ==
    /\ ~fault
    /\ id \in reports
    /\ reports' = reports \ {id}
    /\ UNCHANGED <<mem, firing, events, xactId, evtLost>>

\* Mutant: the comparison is >= on an unsigned counter.
HoldingTimeoutForever ==
    /\ ~fault
    /\ events # <<>>
    /\ PromptTimers => firing = NoTimer
    /\ LET s == Head(events)
       IN /\ xact[s].timer # NoTimer
          /\ timer[xact[s].timer].list # "none"
          /\ TimerStart(xact[s].timer, timer[xact[s].timer])
          /\ UNCHANGED xact
    /\ events' = Tail(events)
    /\ UNCHANGED <<pool, newest, timerPool, overfull, fault, firing, xactId, reports, evtLost>>

\* UPF_EVENT_N4_T3_HOLDING: PfcpXactTimeout takes the slot as it finds it.
HoldingTimeout ==
    /\ ~fault
    /\ events # <<>>
    /\ PromptTimers => firing = NoTimer
    /\ LET s == Head(events)
           count == (xact[s].count - 1) % 256
       IN \/ /\ count > 0
             /\ xact' = [xact EXCEPT ![s].count = count]
             /\ IF xact[s].timer = NoTimer
                THEN UNCHANGED <<timer, active, fault>>
                ELSE \/ /\ timer[xact[s].timer].list # "none"
                        /\ TimerStart(xact[s].timer, timer[xact[s].timer])
                        /\ UNCHANGED fault
                     \/ /\ timer[xact[s].timer].list = "none"
                        /\ fault' = TRUE /\ UNCHANGED <<timer, active>>
             /\ UNCHANGED <<pool, newest, timerPool, overfull>>
          \/ /\ count = 0
             /\ PfcpXactDelete(s, count)
    /\ events' = Tail(events)
    /\ UNCHANGED <<firing, xactId, reports, evtLost>>

-----------------------------------------------------------------------------
(* The timer thread: TimerExpireCheck.                                       *)

\* expireFunc: EventTimerExpire sends the slot to UPF-C, or loses it.
TimerExpire ==
    /\ ~fault
    /\ firing = NoTimer
    /\ active # <<>>
    /\ firing' = Head(active)
    /\ IF Len(events) < RingSize
       THEN events' = Append(events, timer[Head(active)].slot) /\ UNCHANGED evtLost
       ELSE evtLost' = TRUE /\ UNCHANGED events
    /\ UNCHANGED <<mem, xactId, reports>>

\* Mutant: the expired timer is unlinked and put into no list.
TimerExpireDoneUnlinks ==
    /\ ~fault
    /\ firing # NoTimer
    /\ firing' = NoTimer
    /\ timer' = [timer EXCEPT ![firing].list = "none", ![firing].running = FALSE]
    /\ active' = Without(active, firing)
    /\ UNCHANGED <<pool, xact, newest, timerPool, overfull, fault, events, xactId, reports, evtLost>>

\* The rest of the loop's body: a timer that still runs moves to the idle list.
TimerExpireDone ==
    /\ ~fault
    /\ firing # NoTimer
    /\ firing' = NoTimer
    /\ \/ ~timer[firing].running /\ UNCHANGED mem
       \/ timer[firing].running /\ timer[firing].list = "none" /\ Crash
       \/ /\ timer[firing].running /\ timer[firing].list # "none"
          /\ timer' = [timer EXCEPT ![firing].list = "idle", ![firing].running = FALSE]
          /\ active' = Without(active, firing)
          /\ UNCHANGED <<pool, xact, newest, timerPool, overfull, fault>>
    /\ UNCHANGED <<events, xactId, reports, evtLost>>

Next ==
    \/ \E q \in Sqns : NewRequest(q) \/ RepeatedRequest(q)
    \/ SendReport
    \/ \E id \in reports : ReceiveResponse(id) \/ LoseResponse(id)
    \/ HoldingTimeout
    \/ TimerExpire
    \/ TimerExpireDone

Spec == Init /\ [][Next]_vars

\* UPF-C takes its messages and the timer thread goes round its loop.
FairSpec == Spec /\ WF_vars(HoldingTimeout) /\ WF_vars(TimerExpire) /\ WF_vars(TimerExpireDone)

-----------------------------------------------------------------------------
(* Properties.                                                               *)

\* The pool and the transactions agree: a slot is free exactly when it carries
\* no transaction, and waits in the pool once (IndexAlloc, IndexFree,
\* PfcpXactDelete).
PoolIsExact ==
    /\ ~overfull /\ IsInjective(pool)
    /\ \A s \in Slots : s \in Range(pool) <=> xact[s].step = 0

\* A timer is out of the pool exactly when one transaction of the SMF owns it
\* (PfcpXactRemoteCreate, PfcpXactDelete, TimerFinal's "not freed" error).
TimersBelongToTransactions ==
    /\ IsInjective(timerPool)
    /\ \A t \in Timers :
          t \notin Range(timerPool) <=>
             \E s \in Slots : xact[s].step > 0 /\ xact[s].timer = t

\* Whatever the ring loses, a transaction of the SMF has one release ahead of
\* it at most, and exactly one when nothing was lost: its timer is due, or its
\* event waits in the ring (UpdateRx, TimerExpireCheck, PfcpXactTimeout).
OneReleaseAhead ==
    \A s \in Slots :
        LET due == Cardinality({t \in Timers : /\ t \in Range(active) /\ t # firing
                                               /\ timer[t].slot = s})
            told == Cardinality({i \in 1 .. Len(events) : events[i] = s})
            held == xact[s].step > 0 /\ xact[s].origin = "remote"
        IN /\ due + told <= IF held THEN 1 ELSE 0
           /\ held /\ ~evtLost => due + told = 1

\* The response to the report that is out finds the transaction that sent it
\* (ListHeadInit in PfcpXactLocalCreate, PfcpXactFindByTransactionId).
ReportsCanBeAnswered ==
    \A id \in reports :
        LET s == Find(ResponseList(id), id)
        IN s \in Slots /\ xact[s].origin = "local" /\ xact[s].step = 1

\* No list operation follows a NULL pointer: ListRemove is for entries "where
\* we know the prev/next entries already".
NoFault == ~fault

\* A transaction of the SMF is held, and has been released or cannot be any more.
Held(s) == xact[s].step > 0 /\ xact[s].origin = "remote"
Released(s) == s \in Range(pool) \/ evtLost

\* A transaction of the SMF is given back to the pool, three seconds or more
\* after its request, unless the ring had no room for its event
\* (PfcpXactTimeout on UPF_EVENT_N4_T3_HOLDING).
RequestIsReleased == \A s \in Slots : Held(s) ~> Released(s)

\* PfcpXactFindByTransactionId stays in the list it was given: the entry of a
\* list links back to that list's head (ListHeadInit, ListInsert, ListRemove).
WalkStaysInList ==
    \A l \in Lists : newest[l] # NoSlot => xact[newest[l]].link = l

\* "Request Duplicated. Retransmit!": a request the SMF sends again meets the
\* transaction of the first one, so no two transactions held have its number.
OneTransactionPerRequest ==
    \A s, x \in Slots :
        /\ xact[s].step > 0 /\ xact[s].origin = "remote"
        /\ xact[x].step > 0 /\ xact[x].origin = "remote"
        /\ xact[s].id = xact[x].id
        => s = x

\* "Index Pool is full, it may not belong to this pool": IndexFree is called
\* for transactions taken from the pool only.
PoolNeverOverfull == ~overfull

=============================================================================
