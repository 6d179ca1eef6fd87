------------------------------- MODULE NfLife -------------------------------
(***************************************************************************)
(* The life of a network function: its process asks the manager for an     *)
(* instance id, says that it is ready, runs and says that it stops         *)
(* (onvm_nflib.c); the manager's main thread gives it an id, a core and    *)
(* rings, enters it in the service map and takes it out again (onvm_nf.c,  *)
(* onvm_threading.c, onvm_mgr/main.c).  The nfs array, the service map and *)
(* the start request live in shared memory; messages go through one ring   *)
(* that the manager empties in batches.                                    *)
(*                                                                         *)
(* Core reassignment is compiled out (ONVM_NF_SHUTDOWN_CORE_REASSIGNMENT   *)
(* is 0), NF_PAUSED is never set; NfChildren has the children of an NF.    *)
(***************************************************************************)
EXTENDS Integers, Sequences, FiniteSets, SequencesExt, FiniteSetsExt

CONSTANTS
    Procs,          \* NF processes
    Requests,       \* what a process may ask for: id, service, manual, share, core
    MaxNfs,         \* MAX_NFS: instance ids are below it, 0 is reserved
    Services,       \* services below MAX_SERVICES
    PerService,     \* MAX_NFS_PER_SERVICE
    Cores,          \* enabled cores, as integers
    QueueSize,      \* capacity of the manager's message ring
    MaxStarts       \* bound on processes started

VARIABLES
    nfs,                    \* instance id -> status, service, core
    services,               \* service -> its row of instance ids, from index 0
    nf_per_service_count,
    num_nfs,
    next_instance_id,
    cores,                  \* core -> nf_count, is_dedicated_core
    rings,                  \* instance ids with rings of their name
    incoming_msg_queue,
    batch,                  \* messages check_status took and has not handled
    mgr,                    \* "up", "stopping", "done", or "dead" after rte_exit
    stops,                  \* instance ids with MSG_STOP in their msg_q
    proc,                   \* process -> pc, keep_running, and its nf_init_cfg
    starts,
    full                    \* history: services whose row was overrun

mgrVars == <<nfs, services, nf_per_service_count, num_nfs, next_instance_id, cores, rings, full>>
nfVars == <<mgrVars, incoming_msg_queue, batch, mgr, stops, proc, starts>>

NoId == -1
Ids == 1..MaxNfs - 1
Busy == {"STARTING", "RUNNING"}

onvm_nf_is_valid(i) == nfs[i].status = "RUNNING"

\* onvm_nf_next_instance_id: the id and the next place to look from.
onvm_nf_next_instance_id ==
    LET ahead  == {i \in Ids : i >= next_instance_id /\ ~onvm_nf_is_valid(i)}
        again  == {i \in Ids : ~onvm_nf_is_valid(i)}
        chosen == IF ahead # {} THEN Min(ahead) ELSE IF again # {} THEN Min(again) ELSE MaxNfs
    IN  IF num_nfs >= MaxNfs THEN [id |-> MaxNfs, next |-> next_instance_id]
        ELSE [id |-> chosen, next |-> IF chosen = MaxNfs THEN MaxNfs ELSE chosen + 1]

\* Mutant: a core somebody shares is given to a NF that wants one of its own.
CoreAlwaysFree(r) ==
    LET open == {c \in Cores : ~cores[c].dedicated}
        best == CHOOSE c \in open : \A d \in open : cores[c].n < cores[d].n
                                                    \/ (cores[c].n = cores[d].n /\ c <= d)
    IN  IF open = {} THEN [ret |-> "NO_CORES", core |-> r.core]
        ELSE [ret |-> "OK", core |-> IF r.manual THEN r.core ELSE best]

\* onvm_threading_get_core: the chosen core or why there is none.
onvm_threading_get_core(r) ==
    LET open == {c \in Cores : ~cores[c].dedicated}
        best == CHOOSE c \in open : \A d \in open : cores[c].n < cores[d].n
                                                    \/ (cores[c].n = cores[d].n /\ c <= d)
        No(why) == [ret |-> why, core |-> r.core]
    IN  IF r.manual
        THEN CASE r.core \notin Cores -> No("CORE_OUT_OF_RANGE")
               [] r.core \in Cores /\ cores[r.core].dedicated -> No("CORE_BUSY")
               [] r.core \in open /\ ~r.share /\ cores[r.core].n # 0 -> No("NO_DEDICATED_CORES")
               [] OTHER -> [ret |-> "OK", core |-> r.core]
        ELSE CASE open = {} -> No("NO_CORES")
               [] open # {} /\ ~r.share /\ cores[best].n # 0 -> No("NO_DEDICATED_CORES")
               [] OTHER -> [ret |-> "OK", core |-> best]

\* onvm_nf_init_rings: rte_ring_create refuses a name that exists.
onvm_nf_init_rings(i) == i \notin rings

Answer(p, status) == proc' = [proc EXCEPT ![p].status = status]

\* onvm_nf_start.
onvm_nf_start(p) ==
    LET r    == proc[p].req
        next == onvm_nf_next_instance_id
        id   == IF r.id = NoId THEN next.id ELSE r.id
        core == onvm_threading_get_core(r)
        Refuse(why) == Answer(p, why) /\ UNCHANGED <<nfs, cores, rings, mgr>>
    IN  /\ next_instance_id' = IF r.id = NoId THEN next.next ELSE next_instance_id
        /\ UNCHANGED <<services, nf_per_service_count, num_nfs, stops, full>>
        /\ CASE proc[p].status # "WAITING" -> UNCHANGED <<proc, nfs, cores, rings, mgr>>
             [] proc[p].status = "WAITING" /\ id >= MaxNfs -> Refuse("NO_IDS")
             [] proc[p].status = "WAITING" /\ id < MaxNfs /\ r.service \notin Services ->
                    Refuse("SERVICE_MAX")
             [] OTHER ->
                IF nf_per_service_count[r.service] >= PerService THEN Refuse("SERVICE_COUNT_MAX")
                ELSE IF onvm_nf_is_valid(id) THEN Refuse("ID_CONFLICT")
                ELSE IF core.ret # "OK" THEN Refuse(core.ret)
                ELSE /\ nfs' = [nfs EXCEPT ![id] = [status |-> "STARTING", service |-> r.service,
                                                    core |-> core.core]]
                     /\ cores' = [cores EXCEPT ![core.core] = [n |-> @.n + 1,
                                                dedicated |-> @.dedicated \/ ~r.share]]
                     /\ IF onvm_nf_init_rings(id)
                        THEN /\ rings' = rings \cup {id}
                             /\ proc' = [proc EXCEPT ![p].status = "STARTING", ![p].id = id]
                             /\ UNCHANGED mgr
                        ELSE mgr' = "dead" /\ UNCHANGED <<rings, proc>>

\* onvm_nf_ready.  A write past the row of the service goes to memory of nobody's here.
onvm_nf_ready(i) ==
    LET s == nfs[i].service
        k == nf_per_service_count[s]
    IN  /\ UNCHANGED <<next_instance_id, cores, rings, mgr, stops, proc>>
        /\ IF nfs[i].status # "STARTING" THEN UNCHANGED mgrVars
           ELSE /\ nf_per_service_count' = [nf_per_service_count EXCEPT ![s] = @ + 1]
                /\ services' = IF k < PerService THEN [services EXCEPT ![s][k] = i] ELSE services
                /\ full' = IF k < PerService THEN full ELSE full \cup {s}
                /\ num_nfs' = num_nfs + 1
                /\ nfs' = [nfs EXCEPT ![i].status = "RUNNING"]

\* Mutant: the entry is cleared and the ones after it stay where they are.
LeavesHole(row, i) == [k \in DOMAIN row |-> IF row[k] = i THEN 0 ELSE row[k]]

\* The row without i: the entries after it move up, as far as the first empty one.
Shifted(row, i) ==
    LET at   == {k \in DOMAIN row : row[k] = i}
        k0   == Min(at)
        gaps == {k \in DOMAIN row : k > k0 /\ row[k] = 0}
        end  == IF gaps = {} THEN PerService ELSE Min(gaps)
    IN  IF at = {} THEN row
        ELSE [k \in DOMAIN row |-> IF k < k0 \/ k >= end THEN row[k]
                                   ELSE IF k + 1 < end THEN row[k + 1] ELSE 0]

\* onvm_nf_stop: the rings of a NF that never ran keep their names.
onvm_nf_stop(i) ==
    LET s == nfs[i].service
        c == nfs[i].core
    IN  /\ UNCHANGED <<next_instance_id, mgr, proc, full>>
        /\ IF nfs[i].status \notin Busy
           THEN UNCHANGED <<nfs, cores, rings, stops, num_nfs, services, nf_per_service_count>>
           ELSE /\ nfs' = [nfs EXCEPT ![i].status = "STOPPED"]
                /\ cores' = [cores EXCEPT ![c] = [n |-> @.n - 1, dedicated |-> FALSE]]
                /\ stops' = stops \ {i}
                /\ IF nfs[i].status = "RUNNING"
                   THEN /\ num_nfs' = num_nfs - 1
                        /\ rings' = rings \ {i}
                        /\ nf_per_service_count' = [nf_per_service_count EXCEPT ![s] = @ - 1]
                        /\ services' = [services EXCEPT ![s] = Shifted(@, i)]
                   ELSE UNCHANGED <<num_nfs, rings, nf_per_service_count, services>>

\* onvm_nf_check_status: it takes the messages there are, and handles one after the other.
TakeBatch ==
    /\ mgr \in {"up", "stopping"} /\ batch = <<>> /\ incoming_msg_queue # <<>>
    /\ batch' = incoming_msg_queue
    /\ incoming_msg_queue' = <<>>
    /\ UNCHANGED <<mgrVars, mgr, stops, proc, starts>>

onvm_nf_check_status ==
    /\ mgr \in {"up", "stopping"} /\ batch # <<>>
    /\ LET msg == Head(batch)
       IN  CASE msg.type = "NF_STARTING" -> onvm_nf_start(msg.proc)
             [] msg.type = "NF_READY"    -> onvm_nf_ready(msg.id)
             [] msg.type = "NF_STOPPING" -> onvm_nf_stop(msg.id)
    /\ batch' = Tail(batch)
    /\ UNCHANGED <<incoming_msg_queue, starts>>

\* master_thread_main after its loop: every running NF is told to stop.
Shutdown ==
    /\ mgr = "up" /\ batch = <<>>
    /\ mgr' = "stopping"
    /\ stops' = stops \cup {i \in Ids : onvm_nf_is_valid(i)}
    /\ UNCHANGED <<mgrVars, incoming_msg_queue, batch, proc, starts>>

\* It goes on handling messages until none runs, or MAX_SHUTDOWN_ITERS times.
ShutdownDone ==
    /\ mgr = "stopping" /\ batch = <<>>
    /\ mgr' = "done"
    /\ UNCHANGED <<mgrVars, incoming_msg_queue, batch, stops, proc, starts>>

----------------------------------------------------------------------------
\* A NF process.

Send(p, msg, pc) ==
    IF Len(incoming_msg_queue) < QueueSize
    THEN /\ incoming_msg_queue' = Append(incoming_msg_queue, msg)
         /\ proc' = [proc EXCEPT ![p].pc = pc]
    ELSE /\ proc' = [proc EXCEPT ![p].pc = "gone"]
         /\ UNCHANGED incoming_msg_queue

Mine(p) == UNCHANGED <<mgrVars, batch, mgr>> /\ p \in Procs

\* onvm_nflib_init and the first half of onvm_nflib_start_nf.
onvm_nflib_start_nf(p, r) ==
    /\ proc[p].pc = "gone" /\ starts < MaxStarts
    /\ \A m \in Range(incoming_msg_queue) \cup Range(batch) : m.proc # p
    /\ starts' = starts + 1
    /\ IF Len(incoming_msg_queue) < QueueSize
       THEN /\ incoming_msg_queue' = Append(incoming_msg_queue,
                                       [type |-> "NF_STARTING", proc |-> p, id |-> NoId])
            /\ proc' = [proc EXCEPT ![p] = [pc |-> "waiting", keep_running |-> TRUE, req |-> r,
                                            status |-> "WAITING", id |-> NoId]]
       ELSE UNCHANGED <<incoming_msg_queue, proc>>
    /\ Mine(p) /\ UNCHANGED stops

\* onvm_nflib_handle_signal.
onvm_nflib_handle_signal(p) ==
    /\ proc[p].pc # "gone" /\ proc[p].keep_running
    /\ proc' = [proc EXCEPT ![p].keep_running = FALSE]
    /\ Mine(p) /\ UNCHANGED <<incoming_msg_queue, stops, starts>>

\* The answer of the manager: an error ends the process.
Answered(p) ==
    /\ proc[p].pc = "waiting" /\ proc[p].status # "WAITING"
    /\ proc' = [proc EXCEPT ![p].pc = IF proc[p].status = "STARTING" THEN "initialised" ELSE "gone"]
    /\ Mine(p) /\ UNCHANGED <<incoming_msg_queue, stops, starts>>

\* A signal during the wait: the process waits for its id a while longer, to give it back.
Interrupted(p) ==
    /\ proc[p].pc = "waiting" /\ ~proc[p].keep_running
    /\ \/ /\ proc[p].status = "STARTING"
          /\ Send(p, [type |-> "NF_STOPPING", proc |-> p, id |-> proc[p].id], "gone")
       \/ /\ proc[p].status # "STARTING"
          /\ proc' = [proc EXCEPT ![p].pc = "gone"]
          /\ UNCHANGED incoming_msg_queue
    /\ Mine(p) /\ UNCHANGED <<stops, starts>>

\* onvm_nflib_nf_ready, at the start of the main loop's thread.
onvm_nflib_nf_ready(p) ==
    /\ proc[p].pc = "initialised"
    /\ Send(p, [type |-> "NF_READY", proc |-> p, id |-> proc[p].id], "readying")
    /\ Mine(p) /\ UNCHANGED <<stops, starts>>

Readied(p) ==
    /\ proc[p].pc = "readying" /\ onvm_nf_is_valid(proc[p].id)
    /\ proc' = [proc EXCEPT ![p].pc = "running"]
    /\ Mine(p) /\ UNCHANGED <<incoming_msg_queue, stops, starts>>

\* onvm_nflib_dequeue_messages with MSG_STOP.
onvm_nflib_handle_msg(p) ==
    /\ proc[p].pc = "running" /\ proc[p].id \in stops
    /\ proc' = [proc EXCEPT ![p].keep_running = FALSE]
    /\ stops' = stops \ {proc[p].id}
    /\ Mine(p) /\ UNCHANGED <<incoming_msg_queue, starts>>

\* Mutant: the manager is told before the loop has ended.
StopsEarly(p) ==
    /\ proc[p].pc = "running" /\ ~proc[p].keep_running
    /\ Send(p, [type |-> "NF_STOPPING", proc |-> p, id |-> proc[p].id], "running")
    /\ Mine(p) /\ UNCHANGED <<stops, starts>>

\* The main loop ends and onvm_nflib_stop tells the manager.
onvm_nflib_stop(p) ==
    /\ proc[p].pc = "running" /\ ~proc[p].keep_running
    /\ Send(p, [type |-> "NF_STOPPING", proc |-> p, id |-> proc[p].id], "gone")
    /\ Mine(p) /\ UNCHANGED <<stops, starts>>

----------------------------------------------------------------------------
Init ==
    /\ nfs = [i \in Ids |-> [status |-> "WAITING_FOR_ID", service |-> 0, core |-> 0]]
    /\ services = [s \in Services |-> [k \in 0..PerService - 1 |-> 0]]
    /\ nf_per_service_count = [s \in Services |-> 0]
    /\ num_nfs = 0 /\ next_instance_id = 1
    /\ cores = [c \in Cores |-> [n |-> 0, dedicated |-> FALSE]]
    /\ rings = {} /\ incoming_msg_queue = <<>> /\ batch = <<>>
    /\ mgr = "up" /\ stops = {} /\ starts = 0 /\ full = {}
    /\ proc = [p \in Procs |-> [pc |-> "gone", keep_running |-> FALSE,
                                req |-> CHOOSE r \in Requests : TRUE,
                                status |-> "WAITING", id |-> NoId]]

Next ==
    \/ TakeBatch \/ onvm_nf_check_status \/ Shutdown \/ ShutdownDone
    \/ \E p \in Procs :
         \/ \E r \in Requests : onvm_nflib_start_nf(p, r)
         \/ onvm_nflib_handle_signal(p) \/ Answered(p) \/ Interrupted(p)
         \/ onvm_nflib_nf_ready(p) \/ Readied(p) \/ onvm_nflib_handle_msg(p)
         \/ onvm_nflib_stop(p)

Spec == Init /\ [][Next]_nfVars

----------------------------------------------------------------------------
Alive == mgr # "dead"
Running(s) == {i \in Ids : onvm_nf_is_valid(i) /\ nfs[i].service = s}

\* The row of a service lists its running NFs, each once and without a gap, and its
\* count is their number: what onvm_sc_service_to_nf_map indexes with a packet's hash.
\* A row overrun by NFs that started together is left out: onvm_nf_start compares the
\* count, and only onvm_nf_ready raises it.
ServiceMapIsExact ==
    Alive => \A s \in Services \ full :
        LET n == nf_per_service_count[s]
        IN  /\ n = Cardinality(Running(s))
            /\ {services[s][k] : k \in 0..n - 1} = Running(s)
            /\ \A k \in n..PerService - 1 : services[s][k] = 0

\* No two processes hold the same instance id: onvm_nf_next_instance_id and the conflict
\* test of onvm_nf_start take the id of a NF that is starting for a free one, and only
\* the names of its rings stand in the way.
InstanceIdsAreUnique ==
    \A p, q \in Procs :
        (p # q /\ {proc[p].pc, proc[q].pc} \subseteq {"initialised", "readying", "running"})
        => proc[p].id # proc[q].id

\* A core counts the NFs that start or run on it, and one that is dedicated has one.
CoresAreCounted ==
    Alive => \A c \in Cores :
        /\ cores[c].n = Cardinality({i \in Ids : nfs[i].status \in Busy /\ nfs[i].core = c})
        /\ cores[c].dedicated => cores[c].n = 1
=============================================================================
