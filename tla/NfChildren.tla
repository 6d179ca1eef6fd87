----------------------------- MODULE NfChildren -----------------------------
(***************************************************************************)
(* A network function that scales: it starts children in threads of its    *)
(* own process, each with an instance id of its own, and waits for them    *)
(* when it stops (onvm_nflib_scale, onvm_nflib_start_child,                *)
(* onvm_nflib_terminate_children and the scaling example).  In the default *)
(* mode the children run the loop of the library, which looks at the       *)
(* context of the parent; with advanced rings they run a loop of the       *)
(* example, which looks at a flag of the process.  The count of children   *)
(* is in shared memory: the parent raises it, the manager lowers it.       *)
(*                                                                         *)
(* How the manager chooses ids and cores is in NfLife, the steps of a      *)
(* wakeup in SharedCore.  pthread_create does not fail.                    *)
(***************************************************************************)
EXTENDS Integers, Sequences, FiniteSets

CONSTANTS Children,     \* 1 .. n, the largest number of children
          Ids,          \* instance ids for the children
          Parent,       \* instance id of the parent
          Configs,      \* [mode, num_children, share]
          DefaultNum,   \* DEFAULT_NUM_CHILDREN, the places for threads
          MaxIter       \* NF_TERM_STOP_ITER_TIMES

VARIABLES cfg,
          main,                 \* the parent: pc, children spawned, iterations of the wait
          keep_running,         \* of the parent's context, main_nf_local_ctx
          signal_exit_flag,     \* of the advanced rings
          children_cnt,         \* of the parent, in nfs
          child,                \* child -> pc, keep_running, id, sleep_state, nf_mutex
          nfs,                  \* id -> status, thread_info.parent
          mgr_msg_queue,
          other,                \* another process that starts: pc, id
          strayed               \* history: the manager lowered the count for the other process

vars == <<cfg, main, keep_running, signal_exit_flag, children_cnt, child, nfs, mgr_msg_queue, other, strayed>>
shared == <<children_cnt, nfs, mgr_msg_queue, other, strayed>>

Advanced == cfg.mode = "advanced"

Init ==
    /\ cfg \in Configs
    /\ main = [pc |-> IF Advanced THEN "spawn" ELSE "loop", spawned |-> 0, iter |-> 0]
    /\ keep_running = TRUE /\ signal_exit_flag = FALSE /\ children_cnt = 0
    /\ child = [c \in Children |-> [pc |-> "none", keep |-> TRUE, id |-> 0, asleep |-> FALSE, sem |-> 0]]
    /\ nfs = [i \in Ids |-> [status |-> "STOPPED", parent |-> 0]]
    /\ mgr_msg_queue = <<>>
    /\ other = [pc |-> "off", id |-> 0] /\ strayed = FALSE
-----------------------------------------------------------------------------
(* The parent.                                                             *)

\* packet_handler_with_scaling: the first packet starts the children
packet_handler_with_scaling ==
    /\ main.pc = "loop" /\ ~Advanced /\ keep_running
    /\ main.spawned < cfg.num_children
    /\ main' = [main EXCEPT !.pc = "spawn"]
    /\ UNCHANGED <<cfg, keep_running, signal_exit_flag, child, shared>>

Spawned == [main EXCEPT !.spawned = @ + 1, !.pc = IF main.spawned + 1 = cfg.num_children THEN "loop" ELSE "spawn"]
NewThread == child' = [child EXCEPT ![main.spawned + 1].pc = "thread"]

\* Mutant: the count is raised by the child, when it has its id
SpawnUncounted ==
    /\ main.pc = "spawn" /\ ~Advanced
    /\ main' = Spawned /\ NewThread
    /\ UNCHANGED <<cfg, keep_running, signal_exit_flag, shared>>

\* The count is raised, then the thread is created
onvm_nflib_scale ==
    /\ main.pc = "spawn" /\ ~Advanced
    /\ children_cnt' = children_cnt + 1
    /\ main' = Spawned /\ NewThread
    /\ UNCHANGED <<cfg, keep_running, signal_exit_flag, nfs, mgr_msg_queue, other, strayed>>

\* The array of threads has its size before -n is read: threads beyond it overwrite the stack
run_advanced_rings ==
    /\ main.pc = "spawn" /\ Advanced
    /\ children_cnt' = children_cnt + 1
    /\ NewThread
    /\ \/ main' = Spawned
       \/ main.spawned >= DefaultNum /\ main' = [main EXCEPT !.pc = "wild"]
    /\ UNCHANGED <<cfg, keep_running, signal_exit_flag, nfs, mgr_msg_queue, other, strayed>>

\* SIGINT or SIGTERM, or MSG_STOP for the parent
Stop ==
    /\ main.pc \in {"spawn", "loop"} /\ keep_running
    /\ keep_running' = FALSE
    /\ signal_exit_flag' = Advanced
    /\ UNCHANGED <<cfg, main, child, shared>>

\* The loop of the parent ends; onvm_nflib_stop
LoopEnds ==
    /\ main.pc = "loop"
    /\ IF Advanced THEN signal_exit_flag ELSE ~keep_running
    /\ main' = [main EXCEPT !.pc = "terminate"]
    /\ UNCHANGED <<cfg, keep_running, signal_exit_flag, child, shared>>

IsMine(c) == child[c].id \in Ids /\ nfs[child[c].id] = [status |-> "RUNNING", parent |-> Parent]

\* One round of onvm_nflib_terminate_children: the children that sleep are woken
onvm_nflib_terminate_children ==
    /\ main.pc = "terminate" /\ children_cnt > 0 /\ main.iter < MaxIter
    /\ child' = [c \in Children |-> IF IsMine(c) /\ child[c].asleep /\ cfg.share
                                    THEN [child[c] EXCEPT !.asleep = FALSE, !.sem = @ + 1] ELSE child[c]]
    /\ main' = [main EXCEPT !.iter = @ + 1]
    /\ UNCHANGED <<cfg, keep_running, signal_exit_flag, shared>>

\* Mutant: a count that is not zero is not looked at
LeavesAtOnce ==
    /\ main.pc = "terminate"
    /\ main' = [main EXCEPT !.pc = "cleaned"]
    /\ UNCHANGED <<cfg, keep_running, signal_exit_flag, child, shared>>

\* onvm_nflib_cleanup frees the context
onvm_nflib_cleanup ==
    /\ main.pc = "terminate"
    /\ children_cnt <= 0 \/ main.iter = MaxIter
    /\ main' = [main EXCEPT !.pc = "cleaned"]
    /\ UNCHANGED <<cfg, keep_running, signal_exit_flag, child, shared>>

\* The process ends and its threads with it; with advanced rings they are joined first
Ended(c) == child[c].pc \in {"none", "refused", "stopping", "gone"}
Exit ==
    /\ main.pc = "cleaned"
    /\ Advanced => \A c \in Children : Ended(c)
    /\ main' = [main EXCEPT !.pc = "exited"]
    /\ child' = [c \in Children |-> IF Ended(c) THEN child[c] ELSE [child[c] EXCEPT !.pc = "killed"]]
    /\ UNCHANGED <<cfg, keep_running, signal_exit_flag, shared>>
-----------------------------------------------------------------------------
(* A child.                                                                *)

Tell(type, who, id) == mgr_msg_queue' = Append(mgr_msg_queue, [type |-> type, who |-> who, id |-> id])
Goes(c, pc) == child' = [child EXCEPT ![c].pc = pc]
Process == main.pc \notin {"exited", "wild"}

\* onvm_nflib_start_nf
onvm_nflib_start_nf(c) ==
    /\ Process /\ child[c].pc = "thread"
    /\ Goes(c, "waiting") /\ Tell("NF_STARTING", c, 0)
    /\ UNCHANGED <<cfg, main, keep_running, signal_exit_flag, children_cnt, nfs, other, strayed>>

\* onvm_nflib_start_child: the parent is noted, and onvm_nflib_nf_ready
onvm_nflib_start_child(c) ==
    /\ Process /\ child[c].pc = "granted"
    /\ nfs' = [nfs EXCEPT ![child[c].id].parent = Parent]
    /\ Goes(c, "readying") /\ Tell("NF_READY", c, child[c].id)
    /\ UNCHANGED <<cfg, main, keep_running, signal_exit_flag, children_cnt, other, strayed>>

Readied(c) ==
    /\ Process /\ child[c].pc = "readying" /\ nfs[child[c].id].status = "RUNNING"
    /\ Goes(c, "loop")
    /\ UNCHANGED <<cfg, main, keep_running, signal_exit_flag, shared>>

\* A context that was freed may read as anything
GoesOn(c) ==
    IF Advanced THEN {~signal_exit_flag}
    ELSE IF main.pc = "cleaned" THEN BOOLEAN ELSE {child[c].keep /\ keep_running}

Asleep(c) == [child[c] EXCEPT !.pc = "asleep", !.asleep = TRUE]

\* onvm_nflib_thread_main_loop: a round, with MSG_STOP for the child or without; with
\* shared cores it may sleep first
onvm_nflib_thread_main_loop(c, stop) ==
    /\ Process /\ ~Advanced /\ child[c].pc = "loop"
    /\ \E on \in GoesOn(c) :
         \/ on /\ child' = [child EXCEPT ![c].keep = ~stop]
         \/ on /\ ~stop /\ cfg.share /\ child' = [child EXCEPT ![c] = Asleep(c)]
         \/ ~on /\ Goes(c, "ending")
    /\ UNCHANGED <<cfg, main, keep_running, signal_exit_flag, shared>>

\* thread_main_loop of the example: MSG_STOP for one stops them all, and the one that got
\* it may sleep before it looks at the flag
thread_main_loop(c, stop) ==
    /\ Process /\ Advanced /\ child[c].pc = "loop"
    /\ IF signal_exit_flag
       THEN Goes(c, "ending") /\ UNCHANGED signal_exit_flag
       ELSE /\ signal_exit_flag' = stop
            /\ \/ UNCHANGED child
               \/ cfg.share /\ child' = [child EXCEPT ![c] = Asleep(c)]
    /\ UNCHANGED <<cfg, main, keep_running, shared>>

\* The manager's wakeup thread finds work for it
WakeUp(c) ==
    /\ child[c].asleep /\ Process
    /\ child' = [child EXCEPT ![c].asleep = FALSE, ![c].sem = @ + 1]
    /\ UNCHANGED <<cfg, main, keep_running, signal_exit_flag, shared>>

sem_wait(c) ==
    /\ Process /\ child[c].pc = "asleep" /\ child[c].sem > 0
    /\ child' = [child EXCEPT ![c].pc = "loop", ![c].sem = @ - 1]
    /\ UNCHANGED <<cfg, main, keep_running, signal_exit_flag, shared>>

\* onvm_nflib_stop of the child
onvm_nflib_stop(c) ==
    /\ Process /\ child[c].pc = "ending"
    /\ Goes(c, "stopping") /\ Tell("NF_STOPPING", c, child[c].id)
    /\ UNCHANGED <<cfg, main, keep_running, signal_exit_flag, children_cnt, nfs, other, strayed>>
-----------------------------------------------------------------------------
(* The manager, and a process that is interrupted while it starts.         *)

Other == 0
OtherStarts ==
    /\ other.pc = "off"
    /\ other' = [other EXCEPT !.pc = "waiting"]
    /\ Tell("NF_STARTING", Other, 0)
    /\ UNCHANGED <<cfg, main, keep_running, signal_exit_flag, children_cnt, child, nfs, strayed>>

\* It gives its id back before it has set thread_info.parent, which the last holder set
OtherInterrupted ==
    /\ other.pc = "granted"
    /\ other' = [other EXCEPT !.pc = "stopping"]
    /\ Tell("NF_STOPPING", Other, other.id)
    /\ UNCHANGED <<cfg, main, keep_running, signal_exit_flag, children_cnt, child, nfs, strayed>>

Answer(who, pc, id) ==
    IF who = Other THEN other' = [pc |-> pc, id |-> id] /\ UNCHANGED child
    ELSE child' = [child EXCEPT ![who].pc = IF @ = "killed" THEN @ ELSE pc, ![who].id = id] /\ UNCHANGED other

Message(type) == mgr_msg_queue # <<>> /\ Head(mgr_msg_queue).type = type /\ mgr_msg_queue' = Tail(mgr_msg_queue)
Msg == Head(mgr_msg_queue)

\* onvm_nf_start: some free id, or a refusal, after which nobody lowers the count
onvm_nf_start ==
    /\ Message("NF_STARTING")
    /\ \/ \E i \in Ids : /\ nfs[i].status = "STOPPED"
                         /\ nfs' = [nfs EXCEPT ![i].status = "STARTING"]
                         /\ Answer(Msg.who, "granted", i)
       \/ Answer(Msg.who, "refused", 0) /\ UNCHANGED nfs
    /\ UNCHANGED <<cfg, main, keep_running, signal_exit_flag, children_cnt, strayed>>

onvm_nf_ready ==
    /\ Message("NF_READY")
    /\ nfs' = [nfs EXCEPT ![Msg.id].status = "RUNNING"]
    /\ UNCHANGED <<cfg, main, keep_running, signal_exit_flag, children_cnt, child, other, strayed>>

\* The parent named in the entry has a child less, whoever held the id
onvm_nf_stop ==
    /\ Message("NF_STOPPING")
    /\ nfs' = [nfs EXCEPT ![Msg.id].status = "STOPPED"]
    /\ children_cnt' = IF nfs[Msg.id].parent = Parent THEN children_cnt - 1 ELSE children_cnt
    /\ strayed' = (strayed \/ (Msg.who = Other /\ nfs[Msg.id].parent = Parent))
    /\ Answer(Msg.who, "gone", Msg.id)
    /\ UNCHANGED <<cfg, main, keep_running, signal_exit_flag>>

Next ==
    \/ packet_handler_with_scaling \/ onvm_nflib_scale \/ run_advanced_rings \/ Stop \/ LoopEnds
    \/ onvm_nflib_terminate_children \/ onvm_nflib_cleanup \/ Exit
    \/ \E c \in Children :
          \/ onvm_nflib_start_nf(c) \/ onvm_nflib_start_child(c) \/ Readied(c)
          \/ \E stop \in BOOLEAN : onvm_nflib_thread_main_loop(c, stop) \/ thread_main_loop(c, stop)
          \/ WakeUp(c) \/ sem_wait(c) \/ onvm_nflib_stop(c)
    \/ OtherStarts \/ OtherInterrupted
    \/ onvm_nf_start \/ onvm_nf_ready \/ onvm_nf_stop
-----------------------------------------------------------------------------
\* The count is the number of children that were spawned and that the manager has not
\* seen stop, refused ones included, in whatever order threads and messages run; only an
\* interrupted start with an id that a child had before makes it too small
\* (onvm_nflib_scale, onvm_nf_stop)
ChildrenAreCounted ==
    ~strayed => children_cnt = Cardinality({c \in Children : child[c].pc \notin {"none", "gone"}})

\* The parent does not leave before its children: it frees the context they look at when
\* all of them have stopped, or when it has waited long enough
\* (onvm_nflib_terminate_children)
NoneIsLeftBehind ==
    main.pc \in {"cleaned", "exited"} /\ main.iter < MaxIter /\ ~strayed
        => \A c \in Children : child[c].pc \in {"none", "gone"}

\* A child that sleeps can be found and woken by its parent: its flag is set, or the post
\* is on its way (onvm_nflib_terminate_children)
SleepersAreFound ==
    \A c \in Children : child[c].pc = "asleep" => child[c].sem > 0 \/ (child[c].asleep /\ IsMine(c))
=============================================================================
