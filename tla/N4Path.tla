------------------------------- MODULE N4Path -------------------------------
(***************************************************************************)
(* From a PFCP datagram to its answer: the UPF-C looks up the node of the  *)
(* peer, makes one for the first peer, and hands the message to the        *)
(* dispatcher, which finds the session and the transaction, runs the       *)
(* handler and sends the answer through the one socket all nodes share.    *)
(* What the session handlers do to rules is in N4Session, what transactions*)
(* do over time in PfcpXact: here a handler is served or fails.            *)
(***************************************************************************)
EXTENDS Integers, Sequences, FiniteSets

CONSTANTS Peers,               \* addresses PFCP messages come from
          Seids,               \* SEIDs of the UPF
          Nodes,               \* places of the pool of nodes
          Messages,            \* [type, seidP, seid]: seid 0 is none
          MaxMsgs,
          ListHead, Nowhere        \* the head of the list of nodes; an address of no peer

VARIABLES pool,                \* free nodes
          upfN4List,           \* nodes, the last added first
          gnode,               \* of every node: addresses, state
          remoteAddr,          \* of the socket
          session,             \* per SEID: in use, node, srr_flag, and its last peer
          log,                 \* what was sent: to whom, for whom
          heard,               \* the peers that sent something
          wild                 \* the head of the list was used as a node

vars == <<pool, upfN4List, gnode, remoteAddr, session, log, heard, wild>>

Blank == [saList |-> {}, state |-> "NULL"]
NoSession == [live |-> FALSE, pfcpNode |-> Nowhere, srr_flag |-> FALSE, smf |-> Nowhere]
Range(s) == {s[i] : i \in DOMAIN s}
-----------------------------------------------------------------------------
(* pfcp_node.c                                                             *)

PfcpNodeInit == pool = Nodes /\ upfN4List = <<>> /\ gnode = [n \in Nodes |-> Blank]

\* The first node with the address.  The loop over a list without it ends at the head,
\* which is returned like a node; only the empty list gives no node
PfcpFindNodeSockAddr(addr) ==
    LET hits == {i \in DOMAIN upfN4List : addr \in gnode[upfN4List[i]].saList}
    IN  IF upfN4List = <<>> THEN "none"
        ELSE IF hits = {} THEN ListHead
        ELSE upfN4List[CHOOSE i \in hits : \A j \in hits : i <= j]

\* A node of the pool, at the head of the list, with the address of its F-SEID
PfcpAddNodeWithSeid(n, addr) ==
    /\ pool' = pool \ {n}
    /\ upfN4List' = <<n>> \o upfN4List

\* Every node leaves the list and goes back to the pool
PfcpRemoveAllNodes ==
    /\ pool' = pool \union Range(upfN4List)
    /\ upfN4List' = <<>>
    /\ gnode' = [n \in Nodes |-> Blank]
-----------------------------------------------------------------------------
(* Answers.                                                                *)

\* Through the socket of the node, to the address that is in it; memory after the list
\* head is no socket, and what is sent through it goes anywhere
PfcpSend(n, type, addr, asker) ==
    \E to \in IF n = ListHead THEN Peers \union {Nowhere} ELSE {addr} :
        log' = Append(log, [type |-> type, to |-> to, for |-> asker])

\* The association is set up whatever it was before; an unknown type of node id is refused
UpfN4HandleAssociationSetupRequest(g, n) == IF n \in Nodes THEN [g EXCEPT ![n].state = "ASSOCIATED"] ELSE g

UpfN4HandleAssociationReleaseRequest == "RELEASE_RESPONSE"
UpfN4HandleHeartbeatRequest == "HEARTBEAT_RESPONSE"

\* The handler of a message and its answer.  What is handled as a release is the response
\* to one; a request for release, an update and the responses have no answer
Answer(type) ==
    CASE type = "HEARTBEAT_REQUEST" -> UpfN4HandleHeartbeatRequest
      [] type = "SETUP_REQUEST" -> "SETUP_RESPONSE"
      [] type = "RELEASE_RESPONSE" -> UpfN4HandleAssociationReleaseRequest
      [] type = "ESTABLISHMENT_REQUEST" -> "ESTABLISHMENT_RESPONSE"
      [] type = "MODIFICATION_REQUEST" -> "MODIFICATION_RESPONSE"
      [] type = "DELETION_REQUEST" -> "DELETION_RESPONSE"
      [] OTHER -> "none"

\* The session a message is for: 0 when it is for the node, a new one, an old one, or none
SessionOf(m) ==
    IF ~m.seidP THEN {0}
    ELSE IF m.seid = 0 THEN {s \in Seids : m.type = "ESTABLISHMENT_REQUEST" /\ ~session[s].live}
    ELSE {s \in Seids : s = m.seid /\ session[s].live}

\* The session is tied to the node the message came from, unless it is a response.  A
\* modification may clear the flag of a report that was made
TiedTo(m, n, from, s, served, clears) ==
    IF m.type = "DELETION_REQUEST" /\ served THEN [session EXCEPT ![s] = NoSession]
    ELSE [session EXCEPT ![s].live = TRUE,
                         ![s].pfcpNode = IF m.type = "REPORT_RESPONSE" THEN @ ELSE n,
                         ![s].smf = IF m.type = "REPORT_RESPONSE" THEN @ ELSE from,
                         ![s].srr_flag = @ /\ ~(m.type = "MODIFICATION_REQUEST" /\ served /\ clears)]

\* UPF_EVENT_N4_MESSAGE.  parses: the message is well formed; xact: there was room for its
\* transaction; served: the handler got to its end
UpfDispatcher(g, n, addr, m, from) ==
    \E parses, xact, served, clears \in BOOLEAN :
        IF ~parses \/ SessionOf(m) = {} THEN gnode' = g /\ UNCHANGED <<session, log>>
        ELSE \E s \in SessionOf(m) :
                /\ session' = IF s = 0 THEN session ELSE TiedTo(m, n, from, s, xact /\ served, clears)
                /\ gnode' = IF m.type = "SETUP_REQUEST" /\ xact /\ served THEN UpfN4HandleAssociationSetupRequest(g, n) ELSE g
                /\ IF xact /\ served /\ Answer(m.type) # "none" THEN PfcpSend(n, Answer(m.type), addr, from)
                   ELSE log' = log

Init ==
    /\ PfcpNodeInit
    /\ remoteAddr = Nowhere
    /\ session = [s \in Seids |-> NoSession]
    /\ log = <<>> /\ heard = {} /\ wild = FALSE

\* Mutant: the socket keeps the address it had
SocketKept(from) == remoteAddr

\* The address of the socket is set when a node is made
SocketSet(from) == from

\* A datagram.  A node is made when none is found; an old version is not answered
packet_handler(from, m) ==
    LET found == PfcpFindNodeSockAddr(from)
    IN  /\ ~wild /\ Len(log) < MaxMsgs
        /\ heard' = heard \union {from}
        /\ wild' = (found = ListHead)
        /\ \/ /\ found # "none"
              /\ UpfDispatcher(gnode, found, remoteAddr, m, from)
              /\ UNCHANGED <<pool, upfN4List, remoteAddr>>
           \/ \E n \in pool :
                 /\ found = "none"
                 /\ PfcpAddNodeWithSeid(n, from)
                 /\ remoteAddr' = SocketSet(from)
                 /\ UpfDispatcher([gnode EXCEPT ![n] = [saList |-> {from}, state |-> "NULL"]], n, SocketSet(from), m, from)

\* UPF_EVENT_SESSION_REPORT: the flag is set before the report is built and sent
SessionReport(s) ==
    /\ ~wild /\ Len(log) < MaxMsgs
    /\ session[s].live /\ ~session[s].srr_flag
    /\ session' = [session EXCEPT ![s].srr_flag = TRUE]
    /\ \/ PfcpSend(session[s].pfcpNode, "REPORT_REQUEST", remoteAddr, session[s].smf)
       \/ log' = log
    /\ UNCHANGED <<pool, upfN4List, gnode, remoteAddr, heard, wild>>

\* The end of the process, from which a new one starts
Terminate ==
    /\ ~wild
    /\ PfcpRemoveAllNodes
    /\ session' = [s \in Seids |-> NoSession]
    /\ remoteAddr' = Nowhere
    /\ heard' = {}
    /\ UNCHANGED <<log, wild>>

Next ==
    \/ \E from \in Peers, m \in Messages : packet_handler(from, m)
    \/ \E s \in Seids : SessionReport(s)
    \/ Terminate

Spec == Init /\ [][Next]_vars
-----------------------------------------------------------------------------
\* An answer goes to the peer that asked and a report to the peer that owns the session,
\* as long as the list head was not taken for a node
AnswersGoToTheAsker == ~wild => \A i \in DOMAIN log : log[i].to = log[i].for

\* That happens only when a second peer speaks
OnePeerIsServed == wild => Cardinality(heard) > 1

\* A node is in the pool or once in the list; nodes in the list have different addresses
\* and a live session has a listed node
NodesAreAccounted ==
    /\ pool = Nodes \ Range(upfN4List)
    /\ Cardinality(Range(upfN4List)) = Len(upfN4List)
    /\ \A m, n \in Range(upfN4List) : m # n => gnode[m].saList \intersect gnode[n].saList = {}
    /\ ~wild => \A s \in Seids : session[s].live => session[s].pfcpNode \in Range(upfN4List)
=============================================================================
