---------------------------- MODULE MCUserPlane -----------------------------
(***************************************************************************)
(* The parts of the user plane that do not share state: the downlink of a  *)
(* session, the shaper of a UE, its token buckets, the tables of UEs and   *)
(* meters, the choice of the next UE, the neighbour table, and the owners  *)
(* of sessions.  A behaviour is one of one part, chosen at the start.      *)
(* DlPath, QosShaper, TokenBucket and Ownership have their own variables,  *)
(* which rest while another part runs; the variables of the others take    *)
(* the places v1, v2, ... in the order of their modules, and the places a  *)
(* part does not need hold 0.                                              *)
(***************************************************************************)
EXTENDS DlPath, QosShaper, TokenBucket, Ownership

VARIABLES part, v1, v2, v3, v4, v5, v6

places == <<v1, v2, v3, v4, v5, v6>>
MCvars == <<part, vars, shaperVars, bucketVars, ownVars, places>>

\* Tables of three UEs and three meters with colliding hashes.
Ues == INSTANCE UeTable WITH
    MaxUe <- 3, UeIps <- {1, 2, 4, 7}, AppFlowsMax <- 3, MeterKeys <- {0, 1, 3, 4},
    MeterRates <- {5, 6},
    ue_table <- v1, ue_hash <- v2, iPFlows <- v3, iPFlowsLen <- v4, trTCMidx <- v5,
    app_flows <- v6

\* Five UEs in words of two bits.
Scan == INSTANCE ActiveUes WITH
    MaxUe <- 5, W <- 2, ScanBudget <- 2, Budget <- 2,
    bitmap <- v1, cursor <- v2, drain <- v3, watched <- v4, since <- v5

\* A table of two neighbours for three next hops.
Arp == INSTANCE Neighbours WITH
    NeighMax <- 2, Hops <- {<<0, 1>>, <<1, 1>>, <<1, 2>>}, Macs <- {"m1", "m2"},
    neigh_tbl <- v1, announced <- v2, asked <- v3, out <- v4

\* UpfMixTeid, for the choice of a worker by TEID.
MCMix(k) == k

-----------------------------------------------------------------------------
\* The places from the nth on, and that they are not used.
From6 == <<v6>>
From5 == <<v5, From6>>
Idle6 == v6 = 0
Idle5 == v5 = 0 /\ Idle6
Idle4 == v4 = 0 /\ Idle5
Idle1 == v1 = 0 /\ v2 = 0 /\ v3 = 0 /\ Idle4

DlRests == Init /\ far.act = "FORW"
ShaperRests == ShaperInit /\ \A b \in DOMAIN depth : depth[b] = 0
BucketsRest == BucketInit /\ \A k \in Buckets, r \in Rates : tb[k].rate <= r
OwnRests == OwnInit /\ worker_ids = <<CHOOSE w \in ServiceIds \ {UpfCId, Invalid} : TRUE>>

MCInit ==
    \/ part = "dl" /\ Init /\ ShaperRests /\ BucketsRest /\ OwnRests /\ Idle1
    \/ part = "shaper" /\ ShaperInit /\ DlRests /\ BucketsRest /\ OwnRests /\ Idle1
    \/ part = "bucket" /\ BucketInit /\ DlRests /\ ShaperRests /\ OwnRests /\ Idle1
    \/ part = "own" /\ OwnInit /\ DlRests /\ ShaperRests /\ BucketsRest /\ Idle1
    \/ /\ DlRests /\ ShaperRests /\ BucketsRest /\ OwnRests
       /\ \/ part = "ues" /\ Ues!Init
          \/ part = "scan" /\ Scan!Init /\ Idle6
          \/ part = "arp" /\ Arp!Init /\ Idle5

Dl(A) == part = "dl" /\ A /\ UNCHANGED <<part, shaperVars, bucketVars, ownVars, places>>
Shaper(A) == part = "shaper" /\ A /\ UNCHANGED <<part, vars, bucketVars, ownVars, places>>
Bucket(A) == part = "bucket" /\ A /\ UNCHANGED <<part, vars, shaperVars, ownVars, places>>
Owner(A) == part = "own" /\ A /\ UNCHANGED <<part, vars, shaperVars, bucketVars, places>>

MCNext ==
    \/ Dl(Next)
    \/ Shaper(ShaperNext)
    \/ Bucket(BucketNext)
    \/ Owner(OwnNext)
    \/ /\ UNCHANGED <<part, vars, shaperVars, bucketVars, ownVars>>
       /\ \/ part = "ues" /\ Ues!Next
          \/ part = "scan" /\ Scan!Next /\ UNCHANGED From6
          \/ part = "arp" /\ Arp!Next /\ UNCHANGED From5

\* The fairness of DlPath; the other parts promise nothing in the end.
MCSpec == /\ MCInit /\ [][MCNext]_MCvars
          /\ WF_MCvars(Dl(UpfU)) /\ WF_MCvars(Dl(UpdateFarDone))
-----------------------------------------------------------------------------
\* UEs, meters and neighbours are found under their keys as long as they are stored,
\* and the scan of the bitmap finds the next active UE.
TablesFindTheirEntries ==
    CASE part = "ues" -> Ues!HashFindsUes /\ Ues!MetersAreOwned
      [] part = "scan" -> Scan!ScanIsCyclic
      [] part = "arp" -> Arp!EntriesAreFound /\ Arp!FrameIsCurrent
      [] OTHER -> TRUE

\* Nothing comes again before its time: no UE is drained twice while another waits
\* for its turn, and ARP requests are spaced by the retry interval.
NothingComesEarly ==
    [][/\ part = "scan" => Scan!VisitIsFirst
       /\ part = "arp" => Arp!RequestIsNew]_MCvars
=============================================================================
