--------------------------- MODULE MCTransactions ----------------------------
(***************************************************************************)
(* Two protocols with something that must happen in the end: the           *)
(* transactions of PFCP on a network that keeps messages, and the sleep    *)
(* and wakeup of shared-core mode.  A behaviour is one of one of them,     *)
(* chosen at the start; the variables of the other rest.  Slots and timers *)
(* are not symmetric: the free queues order them.                          *)
(***************************************************************************)
EXTENDS PfcpXact, SharedCore

VARIABLE part

MCvars == <<part, vars, scVars>>

MCInit ==
    /\ part \in {"xact", "share"}
    /\ Init /\ ShareInit

Xact(A) == part = "xact" /\ A /\ UNCHANGED <<part, scVars>>
Share(A) == part = "share" /\ A /\ UNCHANGED <<part, vars>>

MCNext == Xact(Next) \/ Share(ShareNext)

\* The fairness of PfcpXact and of SharedCore.
MCSpec ==
    /\ MCInit /\ [][MCNext]_MCvars
    /\ WF_MCvars(Xact(HoldingTimeout))
    /\ WF_MCvars(Xact(TimerExpire))
    /\ WF_MCvars(Xact(TimerExpireDone))
    /\ WF_MCvars(Share(Loop))
    /\ WF_MCvars(Share(whether_wakeup_client))
    /\ \A w \in Wakers : WF_MCvars(Share(Wake(w)))
=============================================================================
