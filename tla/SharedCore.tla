----------------------------- MODULE SharedCore -----------------------------
(***************************************************************************)
(* Shared-core mode (ONVM_NF_SHARE_CORES): a NF with nothing to do sets    *)
(* its sleep flag in shared memory and waits on a semaphore; the wakeup    *)
(* thread of the manager, the manager at shutdown and the signal handler   *)
(* of the NF's process clear the flag and post (onvm_nflib.c, main.c,      *)
(* onvm_common.h).  Each reads the flag, clears it and posts in separate   *)
(* steps.  One NF; the signal handler runs in the main thread, the loop in *)
(* a thread of its own (onvm_nflib_run).                                   *)
(***************************************************************************)
EXTENDS Integers, FiniteSets, TLAPS

CONSTANTS MaxSent   \* bound on packets and messages sent to the NF

VARIABLES
    nf,             \* the loop: "check", "sleeping", "waiting", "work", "stopped"
    pkts,           \* rx_q and msg_q, as a count
    stopMsg,        \* MSG_STOP is in msg_q
    sleep_state,    \* shm_server, sleep_state
    sem,            \* nf_mutex
    waker,          \* who wakes -> "idle", "seen", "cleared"
    keep_running,
    mgrRuns,        \* worker_keep_running
    sent

scVars == <<nf, pkts, stopMsg, sleep_state, sem, waker, keep_running, mgrRuns, sent>>

Wakers == {"wakeup thread", "shutdown", "signal"}

\* The first half of an iteration: with empty queues the NF is about to sleep.
LoopCheck ==
    /\ nf = "check"
    /\ nf' = IF ~keep_running THEN "stopped"
             ELSE IF pkts = 0 /\ ~stopMsg THEN "sleeping" ELSE "work"
    /\ UNCHANGED <<pkts, stopMsg, sleep_state, sem, waker, keep_running, mgrRuns, sent>>

SetSleepState ==
    /\ nf = "sleeping"
    /\ nf' = "waiting"
    /\ sleep_state' = 1
    /\ UNCHANGED <<pkts, stopMsg, sem, waker, keep_running, mgrRuns, sent>>

SemWait ==
    /\ nf = "waiting" /\ sem > 0
    /\ nf' = "work"
    /\ sem' = sem - 1
    /\ UNCHANGED <<pkts, stopMsg, sleep_state, waker, keep_running, mgrRuns, sent>>

\* The second half: packets and one message.
LoopWork ==
    /\ nf = "work"
    /\ nf' = "check"
    /\ pkts' = 0
    /\ stopMsg' = FALSE
    /\ keep_running' = (keep_running /\ ~stopMsg)
    /\ UNCHANGED <<sleep_state, sem, waker, mgrRuns, sent>>

\* The RX thread or another NF sends to it.
Arrive ==
    /\ sent < MaxSent /\ mgrRuns
    /\ sent' = sent + 1
    /\ pkts' = pkts + 1
    /\ UNCHANGED <<nf, stopMsg, sleep_state, sem, waker, keep_running, mgrRuns>>

\* The wakeup thread forgets the packets.
WakesForMessagesOnly ==
    /\ mgrRuns /\ waker["wakeup thread"] = "idle"
    /\ stopMsg /\ sleep_state # 0
    /\ waker' = [waker EXCEPT !["wakeup thread"] = "seen"]
    /\ UNCHANGED <<nf, pkts, stopMsg, sleep_state, sem, keep_running, mgrRuns, sent>>

\* whether_wakeup_client, in wakeup_thread_main.
whether_wakeup_client ==
    /\ mgrRuns /\ waker["wakeup thread"] = "idle"
    /\ (pkts > 0 \/ stopMsg) /\ sleep_state # 0
    /\ waker' = [waker EXCEPT !["wakeup thread"] = "seen"]
    /\ UNCHANGED <<nf, pkts, stopMsg, sleep_state, sem, keep_running, mgrRuns, sent>>

\* onvm_nflib_handle_signal: SIGINT or SIGTERM, at most one here.
onvm_nflib_handle_signal ==
    /\ nf # "stopped" /\ waker["signal"] = "idle" /\ keep_running
    /\ keep_running' = FALSE
    /\ waker' = [waker EXCEPT !["signal"] = IF sleep_state = 1 THEN "seen" ELSE "idle"]
    /\ UNCHANGED <<nf, pkts, stopMsg, sleep_state, sem, mgrRuns, sent>>

\* master_thread_main stops its threads and tells the NF, and wakes it if it sleeps.
Shutdown ==
    /\ mgrRuns
    /\ mgrRuns' = FALSE
    /\ stopMsg' = TRUE
    /\ waker' = [waker EXCEPT !["shutdown"] = IF sleep_state = 1 THEN "seen" ELSE "idle"]
    /\ UNCHANGED <<nf, pkts, sleep_state, sem, keep_running, sent>>

\* wakeup_client: the flag is cleared first.
ClearSleepState(w) ==
    /\ waker[w] = "seen"
    /\ waker' = [waker EXCEPT ![w] = "cleared"]
    /\ sleep_state' = 0
    /\ UNCHANGED <<nf, pkts, stopMsg, sem, keep_running, mgrRuns, sent>>

SemPost(w) ==
    /\ waker[w] = "cleared"
    /\ waker' = [waker EXCEPT ![w] = "idle"]
    /\ sem' = sem + 1
    /\ UNCHANGED <<nf, pkts, stopMsg, sleep_state, keep_running, mgrRuns, sent>>

\* The semaphore is posted first.
PostEarly(w) ==
    /\ waker[w] = "seen"
    /\ waker' = [waker EXCEPT ![w] = "cleared"]
    /\ sem' = sem + 1
    /\ UNCHANGED <<nf, pkts, stopMsg, sleep_state, keep_running, mgrRuns, sent>>

\* The flag is cleared after the post.
ClearLate(w) ==
    /\ waker[w] = "cleared"
    /\ waker' = [waker EXCEPT ![w] = "idle"]
    /\ sleep_state' = 0
    /\ UNCHANGED <<nf, pkts, stopMsg, sem, keep_running, mgrRuns, sent>>

WakePostFirst(w) == PostEarly(w) \/ ClearLate(w)

\* wakeup_client, in two steps.
Wake(w) == ClearSleepState(w) \/ SemPost(w)

ShareInit ==
    /\ nf = "check" /\ pkts = 0 /\ stopMsg = FALSE /\ sleep_state = 0 /\ sem = 0
    /\ waker = [w \in Wakers |-> "idle"]
    /\ keep_running = TRUE /\ mgrRuns = TRUE /\ sent = 0

Loop == LoopCheck \/ SetSleepState \/ SemWait \/ LoopWork
ShareNext ==
    \/ Loop \/ Arrive \/ whether_wakeup_client \/ onvm_nflib_handle_signal \/ Shutdown
    \/ \E w \in Wakers : Wake(w)

ShareSafety == ShareInit /\ [][ShareNext]_scVars

\* The scheduler runs the loop, the wakeup thread and whoever has begun to wake the NF.
ShareSpec ==
    /\ ShareSafety
    /\ WF_scVars(Loop) /\ WF_scVars(whether_wakeup_client)
    /\ \A w \in Wakers : WF_scVars(Wake(w))

----------------------------------------------------------------------------
\* A NF that waits on its semaphore can be woken: its flag is up, for the wakeup thread to
\* see, or somebody who cleared it has posted or is about to.  The flag and the semaphore
\* change in separate steps on both sides.
SleeperCanBeWoken ==
    (nf = "waiting" /\ sem = 0) => sleep_state = 1 \/ \E w \in Wakers : waker[w] = "cleared"

\* While the manager's threads run, a NF that sleeps with packets in its ring wakes up.
PacketsWakeNf == (mgrRuns /\ pkts > 0) ~> (pkts = 0 \/ ~mgrRuns \/ nf = "stopped")

\* "Stops both starting and running NFs" (onvm_nflib_handle_signal): after the signal the
\* loop ends.
SignalStopsNf == ~keep_running ~> nf = "stopped"

----------------------------------------------------------------------------
\* The inductive invariant.  The shutdown wakes the NF once: Shutdown, which sets what
\* its waker does, must not cut short a wakeup that has cleared the flag.
ShareInv ==
    /\ sem \in Nat /\ waker \in [Wakers -> {"idle", "seen", "cleared"}]
    /\ mgrRuns => waker["shutdown"] = "idle"
    /\ SleeperCanBeWoken

\* However the NF's loop, the wakeup thread, the shutdown of the manager and the signal
\* handler interleave, and however much is sent, a NF that waits can be woken.
THEOREM SleepersCanBeWoken == ShareSafety => []SleeperCanBeWoken
<1>1. ShareInit => ShareInv
  <2> SUFFICES ASSUME ShareInit PROVE ShareInv
    OBVIOUS
  <2>1. waker \in [Wakers -> {"idle", "seen", "cleared"}] /\ waker["shutdown"] = "idle"
    BY DEF ShareInit, Wakers
  <2> QED
    BY <2>1 DEF ShareInit, ShareInv, SleeperCanBeWoken
<1>2. ShareInv /\ [ShareNext]_scVars => ShareInv'
  <2> SUFFICES ASSUME ShareInv, [ShareNext]_scVars PROVE ShareInv'
    OBVIOUS
  <2> USE DEF ShareInv, SleeperCanBeWoken
  <2>1. CASE LoopCheck
    BY <2>1 DEF LoopCheck
  <2>2. CASE SetSleepState
    BY <2>2 DEF SetSleepState
  <2>3. CASE SemWait
    BY <2>3 DEF SemWait
  <2>4. CASE LoopWork
    BY <2>4 DEF LoopWork
  <2>5. CASE Arrive
    BY <2>5 DEF Arrive
  <2>6. CASE whether_wakeup_client
    BY <2>6 DEF whether_wakeup_client, Wakers
  <2>7. CASE onvm_nflib_handle_signal
    <3>1. /\ waker' \in [Wakers -> {"idle", "seen", "cleared"}]
          /\ \A w \in Wakers : w # "signal" => waker'[w] = waker[w]
          /\ waker["signal"] = "idle"
      BY <2>7 DEF onvm_nflib_handle_signal, Wakers
    <3> QED
      BY <2>7, <3>1 DEF onvm_nflib_handle_signal, Wakers
  <2>8. CASE Shutdown
    <3>1. /\ waker' \in [Wakers -> {"idle", "seen", "cleared"}]
          /\ \A w \in Wakers : w # "shutdown" => waker'[w] = waker[w]
          /\ waker["shutdown"] = "idle"
      BY <2>8 DEF Shutdown, Wakers
    <3> QED
      BY <2>8, <3>1 DEF Shutdown, Wakers
  <2>9. ASSUME NEW w \in Wakers, ClearSleepState(w)
        PROVE  ShareInv'
    BY <2>9 DEF ClearSleepState, Wakers
  <2>10. ASSUME NEW w \in Wakers, SemPost(w)
         PROVE  ShareInv'
    <3>1. /\ waker' \in [Wakers -> {"idle", "seen", "cleared"}]
          /\ waker["shutdown"] = "idle" => waker'["shutdown"] = "idle"
      BY <2>10 DEF SemPost, Wakers
    <3>2. sem' \in Nat /\ sem' # 0
      BY <2>10 DEF SemPost
    <3> QED
      BY <2>10, <3>1, <3>2 DEF SemPost
  <2>11. CASE UNCHANGED scVars
    BY <2>11 DEF scVars
  <2> QED
    BY <2>1, <2>2, <2>3, <2>4, <2>5, <2>6, <2>7, <2>8, <2>9, <2>10, <2>11
    DEF ShareNext, Loop, Wake
<1>3. ShareInv => SleeperCanBeWoken
  BY DEF ShareInv
<1> QED
  BY <1>1, <1>2, <1>3, PTL DEF ShareSafety
=============================================================================
