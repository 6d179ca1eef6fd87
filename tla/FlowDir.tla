------------------------------ MODULE FlowDir ------------------------------
(***************************************************************************)
(* The flow director: a table from flows to service chains in memory that  *)
(* the manager and all functions share, without a lock.  Instances of the  *)
(* test function make the entry of a flow that is new and send packets of  *)
(* known flows on along the chain, which each looks up in its own thread   *)
(* after its handler is done.  A chain is a place of a heap; pointer zero  *)
(* is NULL.  Packets are numbered as they come.                            *)
(***************************************************************************)
EXTENDS NfApp, Sequences, FiniteSets

CONSTANTS Insts,               \* instances of the test function
          Argvs,
          Flows, NotIp,
          Entries,             \* SDN_FT_ENTRIES
          MaxChain,            \* ONVM_MAX_CHAIN_LENGTH
          MaxPkts

VARIABLES app,                 \* the life and options of each instance
          flow,                \* the flow of each packet that came
          sdn_ft, heap,        \* the table, and the service chains
          nf,                  \* of each instance: where it stands, its ring and its packet
          done,                \* what became of the packets
          raced                \* flows two instances made an entry for at once

vars == <<app, flow, sdn_ft, heap, nf, done, raced>>

Init ==
    /\ app = [i \in Insts |-> Off]
    /\ flow = <<>> /\ sdn_ft = <<>> /\ heap = <<>> /\ done = <<>> /\ raced = {}
    /\ nf = [i \in Insts |-> [pc |-> "idle", rx |-> <<>>, pkt |-> 0, act |-> "none"]]
-----------------------------------------------------------------------------
(* Service chains.                                                         *)

Hop(act, dest) == [act |-> act, dest |-> dest]

onvm_sc_create == <<>>
onvm_sc_append_entry(c, hop) == IF Len(c) > MaxChain THEN c ELSE Append(c, hop)
onvm_next_action(c, index) == IF index >= Len(c) THEN Hop("drop", 0) ELSE c[index + 1]

\* The chain of packets without entry leads to service one, which is the test function
default_chain == onvm_sc_append_entry(onvm_sc_create, Hop("tonf", 1))
-----------------------------------------------------------------------------
\* Without -d the next service is the destination
Options == ("d" :> 2) @@ ("p" :> 1000000)
parse_app_args(argv) == Parses(argv, Options, {}, [o \in DOMAIN Options |-> Nat])

test_main(i, argv, ok) ==
    /\ app[i] = Off
    /\ app' = [app EXCEPT ![i] = Main(argv, ok, parse_app_args(argv), Options)]
    /\ UNCHANGED <<flow, sdn_ft, heap, nf, done, raced>>

Up(i) == Runs(app[i]) /\ nf[i].pc # "dead"

\* A packet from a port starts in the default chain, and is at index one when a function gets it;
\* which instance does depends on their number at that time
onvm_pkt_process_rx_batch(f, i) ==
    /\ Up(i) /\ Len(flow) < MaxPkts
    /\ onvm_next_action(default_chain, 0) = Hop("tonf", 1)
    /\ flow' = Append(flow, f)
    /\ nf' = [nf EXCEPT ![i].rx = Append(@, Len(flow) + 1)]
    /\ UNCHANGED <<app, sdn_ft, heap, done, raced>>

Goes(i, pc, act) == nf' = [nf EXCEPT ![i].pc = pc, ![i].act = act]

onvm_flow_dir_get_pkt(f) == f \in DOMAIN sdn_ft

\* The packet handler: a known flow goes on in its chain
packet_handler(i) ==
    /\ Up(i) /\ nf[i].pc = "idle" /\ nf[i].rx # <<>>
    /\ app' = [app EXCEPT ![i] = Counted(@)]
    /\ LET known == onvm_flow_dir_get_pkt(flow[Head(nf[i].rx)])
       IN  nf' = [nf EXCEPT ![i] = [pc |-> IF known THEN "tx" ELSE "add", rx |-> Tail(@.rx), pkt |-> Head(@.rx),
                                    act |-> IF known THEN "next" ELSE "tonf"]]
    /\ UNCHANGED <<flow, sdn_ft, heap, done, raced>>

\* A new flow gets an entry, or the one another instance made since; no room, or no IPv4
\* packet, means drop.  The place of a new key holds zero
onvm_flow_dir_add_pkt(i) ==
    LET f == flow[nf[i].pkt]
        fits == f # NotIp /\ (f \in DOMAIN sdn_ft \/ Cardinality(DOMAIN sdn_ft) < Entries)
    IN  /\ nf[i].pc = "add"
        /\ IF fits THEN Goes(i, "memset", nf[i].act) ELSE Goes(i, "tx", "drop")
        /\ sdn_ft' = IF fits /\ f \notin DOMAIN sdn_ft THEN (f :> 0) @@ sdn_ft ELSE sdn_ft
        /\ raced' = IF fits /\ f \in DOMAIN sdn_ft THEN raced \union {f} ELSE raced
        /\ UNCHANGED <<app, flow, heap, done>>

Cleared(i) ==
    /\ nf[i].pc = "memset"
    /\ sdn_ft' = [sdn_ft EXCEPT ![flow[nf[i].pkt]] = 0]
    /\ Goes(i, "create", nf[i].act)
    /\ UNCHANGED <<app, flow, heap, done, raced>>

Created(i) ==
    /\ nf[i].pc = "create"
    /\ heap' = Append(heap, onvm_sc_create)
    /\ sdn_ft' = [sdn_ft EXCEPT ![flow[nf[i].pkt]] = Len(heap) + 1]
    /\ Goes(i, "append", nf[i].act)
    /\ UNCHANGED <<app, flow, done, raced>>

\* Mutant: the entry is appended to a chain that has one
AppendTwice(c, dest) == onvm_sc_append_entry(onvm_sc_append_entry(c, Hop("tonf", dest)), Hop("tonf", dest))

Appended(c, dest) == onvm_sc_append_entry(c, Hop("tonf", dest))

\* The entry of the table is read again: another instance may have cleared it, which ends
\* this one, or set it to its own chain.  The packet keeps the action it came with
AppendStep(i) ==
    LET sc == sdn_ft[flow[nf[i].pkt]]
    IN  /\ nf[i].pc = "append"
        /\ IF sc = 0 THEN Goes(i, "dead", nf[i].act) /\ UNCHANGED heap
           ELSE heap' = [heap EXCEPT ![sc] = Appended(@, app[i].arg["d"])] /\ Goes(i, "tx", nf[i].act)
        /\ UNCHANGED <<app, flow, sdn_ft, done, raced>>

Did(i, hop) ==
    /\ done' = Append(done, [pkt |-> nf[i].pkt, act |-> hop.act, dest |-> hop.dest])
    /\ nf' = [nf EXCEPT ![i].pc = "idle", ![i].pkt = 0]

\* The next hop of a packet, which is at index one.  A chain that is NULL ends the function
onvm_pkt_process_next_action(i) ==
    LET f == flow[nf[i].pkt]
    IN  IF onvm_flow_dir_get_pkt(f) /\ sdn_ft[f] = 0 THEN Goes(i, "dead", "next") /\ UNCHANGED done
        ELSE Did(i, onvm_next_action(IF onvm_flow_dir_get_pkt(f) THEN heap[sdn_ft[f]] ELSE default_chain, 1))

\* The thread sends what the handler left; a packet that kept its action comes back to the service
onvm_pkt_process_tx_batch(i) ==
    /\ nf[i].pc = "tx"
    /\ \/ nf[i].act = "drop" /\ Did(i, Hop("drop", 0))
       \/ nf[i].act = "next" /\ onvm_pkt_process_next_action(i)
       \/ /\ nf[i].act = "tonf"
          /\ \E j \in Insts : nf' = [nf EXCEPT ![i].pc = "idle", ![i].pkt = 0, ![j].rx = Append(@, nf[i].pkt)]
          /\ UNCHANGED done
    /\ UNCHANGED <<app, flow, sdn_ft, heap, raced>>

Next ==
    \/ \E i \in Insts :
          \/ \E argv \in Argvs, ok \in BOOLEAN : test_main(i, argv, ok)
          \/ \E f \in Flows \union {NotIp} : onvm_pkt_process_rx_batch(f, i)
          \/ packet_handler(i) \/ onvm_flow_dir_add_pkt(i) \/ Cleared(i) \/ Created(i) \/ AppendStep(i)
          \/ onvm_pkt_process_tx_batch(i)

Spec == Init /\ [][Next]_vars
-----------------------------------------------------------------------------
Writes(i, f) == nf[i].pc \in {"memset", "create", "append", "dead"} /\ nf[i].act = "tonf" /\ flow[nf[i].pkt] = f

\* An entry nobody writes leads to the chain that was asked for, of one hop.  This ends with the
\* first flow two instances met at once: its chain may have no hop or two, and a chain is lost
EntriesAreWhole ==
    /\ \A f \in DOMAIN sdn_ft \ raced : (\A i \in Insts : ~Writes(i, f)) =>
          sdn_ft[f] # 0 /\ \E i \in Insts : Runs(app[i]) /\ heap[sdn_ft[f]] = <<Hop("tonf", app[i].arg["d"])>>
    /\ raced = {} => \A c \in DOMAIN heap : \E f \in DOMAIN sdn_ft : sdn_ft[f] = c
    /\ Cardinality(DOMAIN sdn_ft) <= Entries

\* Packets of a known flow are at index one and the chain has one hop: unless two instances
\* appended to it they are all dropped, and none reaches the destination of the options
KnownFlowsAreDropped == \A k \in DOMAIN done : flow[done[k].pkt] \notin raced => done[k].act = "drop"

\* Every packet is in one ring, in one hand, or done; an instance that ended keeps its own
NoneIsLost ==
    LET RECURSIVE Rings(_)
        Rings(S) == IF S = {} THEN <<>>
                    ELSE LET i == CHOOSE i \in S : TRUE
                         IN  nf[i].rx \o (IF nf[i].pkt = 0 THEN <<>> ELSE <<nf[i].pkt>>) \o Rings(S \ {i})
        all == Rings(Insts) \o [k \in DOMAIN done |-> done[k].pkt]
    IN  Len(all) = Len(flow) /\ {all[k] : k \in DOMAIN all} = DOMAIN flow

\* One packet of a flow never ends an instance, also when it comes back: it takes another of
\* the same flow, between the steps that make the entry
EndsOverTwoPackets == \A i \in Insts : nf[i].pc = "dead" => \E p \in DOMAIN flow \ {nf[i].pkt} : flow[p] = flow[nf[i].pkt]
=============================================================================
