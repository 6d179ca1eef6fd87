----------------------------- MODULE PfcpCoding -----------------------------
(***************************************************************************)
(* How PFCP messages are written and read.  Both directions follow one     *)
(* table: its rows list the information elements of a message or of a      *)
(* group, in the order of the members of the C struct.  Reading walks the  *)
(* row and the buffer together; an element that is not the next one of the *)
(* row is taken as absent, and nothing compares the position with the      *)
(* length of the group or of the message.  A buffer is a sequence of       *)
(* units: the type and length of an element, or the octets of one.         *)
(***************************************************************************)
EXTENDS Integers, Sequences, SequencesExt, FiniteSetsExt, TLC

CONSTANTS next,       \* ieDescriptionTable
          Requests,   \* what the peer sends: [type, ies]
          NBufs,      \* receive buffers in the pool
          BufLen,     \* units of a receive buffer
          GroupCap,   \* units of the smallest buffer, in which a group is begun
          MaxMsgs     \* messages received

VARIABLES bufs,       \* the contents of the receive buffers
          free,       \* the pool of receive buffers, a queue
          cur,        \* the message in hand
          live,       \* value buffers allocated by the parser and not yet freed
          out,        \* the last message built
          longest     \* the longest message each buffer has held before

vars == <<bufs, free, cur, live, out, longest>>

PFCP_HEARTBEAT_REQUEST == 1
PFCP_ASSOCIATION_SETUP_REQUEST == 5
PFCP_ASSOCIATION_UPDATE_REQUEST == 7
PFCP_ASSOCIATION_RELEASE_REQUEST == 9
PFCP_ASSOCIATION_RELEASE_RESPONSE == 10
PFCP_VERSION_NOT_SUPPORTED_RESPONSE == 11
PFCP_SESSION_ESTABLISHMENT_REQUEST == 50
PFCP_SESSION_ESTABLISHMENT_RESPONSE == 51
PFCP_SESSION_MODIFICATION_REQUEST == 52
PFCP_SESSION_DELETION_REQUEST == 54
PFCP_SESSION_REPORT_REQUEST == 56

\* The row of a message type: the types that have no row are left out of the table.
\* There are two of them before 12 and the index takes off one
RowUncut(type) == IF type < 12 THEN type + 155 ELSE IF type < 50 THEN type + 154 ELSE type + 120
Row(type) ==
    IF type < 12 THEN type + 155 ELSE IF type < 50 THEN type + 154 ELSE type + 119
HasRow(type) == type # PFCP_VERSION_NOT_SUPPORTED_RESPONSE /\ Row(type) \in DOMAIN next

\* Units of a buffer
TL(type, len) == [type |-> type, len |-> len, v |-> 0]
Octets(v) == [type |-> 0, len |-> 0, v |-> v]
Blank == Octets(0)
UnitAt(buf, i) == IF i \in DOMAIN buf THEN buf[i] ELSE Blank

\* A member of the struct: a group holds its members, a plain element its value
Absent == [v |-> 0, sub |-> <<>>]
Present(slot) == slot # Absent
IsGroup(type) == type \in DOMAIN next

RECURSIVE ParseWithoutHeaders(_, _, _, _)
ParseWithoutHeaders(r, i, buf, off) ==
    IF i > Len(next[r]) THEN <<>>
    ELSE LET u == UnitAt(buf, off)
         IN  IF u.type # next[r][i] THEN <<Absent>> \o ParseWithoutHeaders(r, i + 1, buf, off)
             ELSE <<[v |-> IF IsGroup(u.type) THEN 0 ELSE UnitAt(buf, off + 1).v,
                     sub |-> IF IsGroup(u.type) THEN ParseWithoutHeaders(u.type, 1, buf, off + 1) ELSE <<>>]>>
                  \o ParseWithoutHeaders(r, i + 1, buf, off + u.len)

\* TlvParseMessage: the members from i on of row r, read from position off on
RECURSIVE TlvParseMessage(_, _, _, _)
TlvParseMessage(r, i, buf, off) ==
    IF i > Len(next[r]) THEN <<>>
    ELSE LET u == UnitAt(buf, off)
         IN  IF u.type # next[r][i] THEN <<Absent>> \o TlvParseMessage(r, i + 1, buf, off)
             ELSE <<[v |-> IF IsGroup(u.type) THEN 0 ELSE UnitAt(buf, off + 1).v,
                     sub |-> IF IsGroup(u.type) THEN TlvParseMessage(u.type, 1, buf, off + 1) ELSE <<>>]>>
                  \o TlvParseMessage(r, i + 1, buf, off + 1 + u.len)

\* What is built of each member, one after the other
Joined(parts) == FlattenSeq(SelectSeq(parts, LAMBDA p : p # <<>>))

RECURSIVE BuildAnyLength(_, _)
BuildAnyLength(type, slot) ==
    IF ~Present(slot) THEN <<>>
    ELSE IF ~IsGroup(type) THEN <<TL(type, 1), Octets(slot.v)>>
    ELSE <<TL(type, 0)>> \o Joined([i \in DOMAIN next[type] |-> BuildAnyLength(next[type][i], slot.sub[i])])

\* TlvBuildMessage: a group is begun in a buffer of the smallest size; when it outgrows
\* it, its length is written to the buffer it has left
RECURSIVE TlvBuildMessage(_, _)
TlvBuildMessage(type, slot) ==
    IF ~Present(slot) THEN <<>>
    ELSE IF ~IsGroup(type) THEN <<TL(type, 1), Octets(slot.v)>>
    ELSE LET body == Joined([i \in DOMAIN next[type] |-> TlvBuildMessage(next[type][i], slot.sub[i])])
         IN  <<TL(type, IF 1 + Len(body) > GroupCap THEN 0 ELSE Len(body))>> \o body

PfcpBuildBody(r, slots) ==
    Joined([i \in DOMAIN next[r] |->
        IF i \in DOMAIN slots THEN TlvBuildMessage(next[r][i], slots[i]) ELSE <<>>])

PfcpBuildMessage(type, slots) == IF HasRow(type) THEN PfcpBuildBody(Row(type), slots) ELSE <<>>

FreeMembersOnly(r, slots) == {<<i>> : i \in {j \in DOMAIN slots : Present(slots[j]) /\ ~IsGroup(next[r][j])}}

\* PfcpFreeIe: the values, by their paths, that are freed with the members of row r
RECURSIVE PfcpFreeIe(_, _)
PfcpFreeIe(r, slots) ==
    UNION {IF ~Present(slots[i]) THEN {}
           ELSE IF IsGroup(next[r][i]) THEN {<<i>> \o p : p \in PfcpFreeIe(next[r][i], slots[i].sub)}
           ELSE {<<i>>}
           : i \in DOMAIN slots}

\* The paths to the members that hold a value, whatever the depth
RECURSIVE Values(_)
Values(slots) ==
    UNION {IF slots[i].sub # <<>> THEN {<<i>> \o p : p \in Values(slots[i].sub)}
           ELSE IF Present(slots[i]) THEN {<<i>>} ELSE {}
           : i \in DOMAIN slots}

-----------------------------------------------------------------------------
\* The peer writes elements in the order it likes; the values of message n are 10n + k
Ie(type, k) == [type |-> type, v |-> k, sub |-> <<>>]
Grouped(type, ies) == [type |-> type, v |-> 0, sub |-> ies]

RECURSIVE Written(_, _)
Written(n, ies) ==
    FlattenSeq([i \in DOMAIN ies |->
        IF ies[i].sub = <<>> THEN <<TL(ies[i].type, 1), Octets(10 * n + ies[i].v)>>
        ELSE LET body == Written(n, ies[i].sub) IN <<TL(ies[i].type, Len(body))>> \o body])

\* The header: the SEID is there or not, and the sequence number follows it
WithSeid(type) == type >= PFCP_SESSION_ESTABLISHMENT_REQUEST
Header(type, seid, sqn) ==
    [type |-> type, seidP |-> WithSeid(type), rest |-> IF WithSeid(type) THEN <<seid, sqn>> ELSE <<sqn>>]

\* The message of the dispatcher before anything is parsed
Idle == [phase |-> "idle", n |-> 0, type |-> 0, sqn |-> 0, sent |-> <<>>, buf |-> 0, len |-> 0, slots |-> <<>>]

\* packet_handler: the datagram is copied to the front of a buffer from the pool; what the
\* buffer held before stays behind it
Receive(m) ==
    /\ cur.phase = "idle" /\ cur.n < MaxMsgs /\ free # <<>>
    /\ LET n == cur.n + 1
           b == Head(free)
           h == Header(m.type, 7, n)
           w == Written(n, m.ies)
       IN  /\ Len(w) <= BufLen
           /\ bufs' = [bufs EXCEPT ![b] = w \o SubSeq(@, Len(w) + 1, BufLen)]
           /\ cur' = [phase |-> "received", n |-> n, type |-> h.type, sqn |-> h.rest[IF h.seidP THEN 2 ELSE 1],
                      sent |-> m.ies, buf |-> b, len |-> Len(w), slots |-> <<>>]
    /\ free' = Tail(free)
    /\ UNCHANGED <<live, out, longest>>

\* PfcpParseMessage: a message without a body, and one that has no row, stay empty
PfcpParseMessage ==
    /\ cur.phase = "received"
    /\ LET slots == IF cur.len = 0 \/ ~HasRow(cur.type) THEN <<>>
                    ELSE TlvParseMessage(Row(cur.type), 1, bufs[cur.buf], 1)
       IN  /\ cur' = [cur EXCEPT !.phase = "parsed", !.slots = slots]
           /\ live' = live \cup {<<cur.n, p>> : p \in Values(slots)}
    /\ UNCHANGED <<bufs, free, out, longest>>

\* The members of the structs the user plane fills in, and the members it sets: the value
\* of a member is its own type
Struct ==
    2 :> <<96>> @@ 6 :> <<60, 19, 96, 43, 89, 116>> @@ 10 :> <<60, 19>> @@
    51 :> <<60, 19, 40, 57, 8, 51, 54, 65, 65, 114, 128>> @@
    53 :> <<19, 40, 8, 51, 54, 78, 114, 126, 128>> @@ 55 :> <<19, 40, 51, 54, 79>> @@
    56 :> <<39, 83, 80, 99, 51, 54, 126>>
Set(members, set) ==
    [i \in DOMAIN members |-> IF members[i] \in set THEN [v |-> members[i], sub |-> <<>>] ELSE Absent]

UpfN4BuildHeartbeatResponse == PfcpBuildMessage(2, Set(Struct[2], {96}))
UpfN4BuildAssociationSetupResponse == PfcpBuildMessage(6, Set(Struct[6], {60, 19, 96, 116}))
UpfN4BuildAssociationReleaseResponse == PfcpBuildMessage(10, Set(Struct[10], {60, 19}))
UpfN4BuildSessionEstablishmentResponse(accepted) ==
    PfcpBuildMessage(51, Set(Struct[51], IF accepted THEN {60, 19, 57} ELSE {60, 19}))
UpfN4BuildSessionModificationResponse == PfcpBuildMessage(53, Set(Struct[53], {19}))
UpfN4BuildSessionDeletionResponse == PfcpBuildMessage(55, Set(Struct[55], {19}))
UpfN4BuildSessionReportRequestDownlinkDataReport ==
    PfcpBuildMessage(56, [Set(Struct[56], {39}) EXCEPT ![2] = [v |-> 0, sub |-> Set(<<56, 45>>, {56})]])

\* The transaction layer, the session or the handler may refuse the message: nothing is
\* built then.  A release request has no handler, a release response has
Answers(type) ==
    CASE type = PFCP_HEARTBEAT_REQUEST -> {UpfN4BuildHeartbeatResponse}
      [] type = PFCP_ASSOCIATION_SETUP_REQUEST -> {UpfN4BuildAssociationSetupResponse}
      [] type = PFCP_ASSOCIATION_RELEASE_RESPONSE -> {UpfN4BuildAssociationReleaseResponse}
      [] type = PFCP_SESSION_ESTABLISHMENT_REQUEST -> {UpfN4BuildSessionEstablishmentResponse(a) : a \in BOOLEAN}
      [] type = PFCP_SESSION_MODIFICATION_REQUEST -> {UpfN4BuildSessionModificationResponse}
      [] type = PFCP_SESSION_DELETION_REQUEST -> {UpfN4BuildSessionDeletionResponse}
      [] OTHER -> {}
AnswerType(type) == IF type = PFCP_ASSOCIATION_RELEASE_RESPONSE THEN type ELSE type + 1

\* The dispatcher: the handler of the type answers or not; the struct, its values and the
\* buffer are given back in any case
Dispatch ==
    /\ cur.phase = "parsed"
    /\ out' \in {out} \cup {[type |-> AnswerType(cur.type), units |-> a] : a \in Answers(cur.type)}
    /\ live' = live \ {<<cur.n, p>> : p \in IF HasRow(cur.type) THEN PfcpFreeIe(Row(cur.type), cur.slots) ELSE {}}
    /\ free' = Append(free, cur.buf)
    /\ longest' = [longest EXCEPT ![cur.buf] = Max({@, cur.len})]
    /\ cur' = [Idle EXCEPT !.n = cur.n]
    /\ UNCHANGED bufs

\* A buffered packet makes the user plane report of its own
Report ==
    /\ cur.phase = "idle"
    /\ out' = [type |-> PFCP_SESSION_REPORT_REQUEST, units |-> UpfN4BuildSessionReportRequestDownlinkDataReport]
    /\ UNCHANGED <<bufs, free, cur, live, longest>>

Init ==
    /\ bufs = [b \in 1..NBufs |-> [i \in 1..BufLen |-> Blank]]
    /\ free = [b \in 1..NBufs |-> b]
    /\ cur = Idle
    /\ live = {}
    /\ out = [type |-> 0, units |-> <<>>]
    /\ longest = [b \in 1..NBufs |-> 0]

Next ==
    \/ \E m \in Requests : Receive(m)
    \/ PfcpParseMessage
    \/ Dispatch
    \/ Report

Spec == Init /\ [][Next]_vars
-----------------------------------------------------------------------------
\* What a reader that takes the elements one by one, each to the next free member of its
\* type, would make of them: the member of element k, 0 when there is none left
Places(r, ies) ==
    LET Place[k \in 0..Len(ies)] ==
            IF k = 0 THEN 0
            ELSE LET p == Place[k - 1]
                     later == {i \in DOMAIN next[r] : i > p /\ next[r][i] = ies[k].type}
                 IN  IF p = -1 \/ later = {} THEN -1 ELSE Min(later)
    IN  [k \in DOMAIN ies |-> Place[k]]

\* The members hold what was sent in the order of the row; only behind the last element
\* sent may something else be found
RECURSIVE Holds(_, _, _, _)
Holds(r, n, ies, slots) ==
    LET place == Places(r, ies)
        last == IF ies = <<>> THEN 0 ELSE place[Len(ies)]
    IN  \A i \in DOMAIN next[r] :
            LET ks == {k \in DOMAIN ies : place[k] = i}
            IN  IF ks = {} THEN Present(slots[i]) => last # -1 /\ i > last
                ELSE LET ie == ies[CHOOSE k \in ks : TRUE]
                     IN  IF ie.sub = <<>> THEN slots[i].v = 10 * n + ie.v
                         ELSE Holds(ie.type, n, ie.sub, slots[i].sub)

\* Elements sent in the order of the table all arrive, in their groups and in the order of
\* their repetitions; from the first one out of order on, the rest of its group is lost
\* (pfcp_message.c:211)
ParsedAsSent ==
    cur.phase = "parsed" /\ HasRow(cur.type) /\ cur.slots # <<>> =>
        Holds(Row(cur.type), cur.n, cur.sent, cur.slots)

\* The values of message n are 10n + k
Foreign(n, slot) == slot.sub = <<>> /\ Present(slot) /\ slot.v \div 10 # n
RECURSIVE AnyForeign(_, _)
AnyForeign(n, slots) ==
    \E i \in DOMAIN slots : Foreign(n, slots[i]) \/ AnyForeign(n, slots[i].sub)

\* The member a path leads to, and its type
RECURSIVE SlotAt(_, _)
SlotAt(slots, p) == IF Len(p) = 1 THEN slots[p[1]] ELSE SlotAt(slots[p[1]].sub, Tail(p))
RECURSIVE TypeAt(_, _)
TypeAt(r, p) == IF Len(p) = 1 THEN next[r][p[1]] ELSE TypeAt(next[r][p[1]], Tail(p))

\* An element sent once is found in one place, except for the flags of a modification
\* that follow the parameters of a FAR: the end of the group is not looked at, and the
\* flags are taken for its own as well (pfcp_message.c:236)
OneElementOnePlace ==
    cur.phase = "parsed" =>
        \A p, q \in Values(cur.slots) :
            LET v == SlotAt(cur.slots, p).v
            IN  p # q /\ v = SlotAt(cur.slots, q).v => TypeAt(Row(cur.type), p) = 49 \/ v \div 10 # cur.n

\* A message holds an element of an earlier one only if its buffer was used for a longer
\* message before: the end of a message is not looked at, what lies behind it is
\* (pfcp_message.c:206)
LeftoversNeedALongerMessage ==
    cur.phase = "parsed" /\ AnyForeign(cur.n, cur.slots) => longest[cur.buf] > cur.len

\* The types of the groups that outgrow the buffer they were begun in
RECURSIVE Outgrown(_, _)
Outgrown(r, slots) ==
    UNION {IF slots[i].sub = <<>> THEN {}
           ELSE Outgrown(next[r][i], slots[i].sub) \cup
                (IF Len(TlvBuildMessage(next[r][i], slots[i])) > GroupCap THEN {next[r][i]} ELSE {})
           : i \in DOMAIN slots}

\* What is built from a struct parses back to it, unless one of its groups outgrew its
\* first buffer: the length of that group is left zero (pfcp_message.c:435)
RoundTrip ==
    cur.phase = "parsed" /\ cur.slots # <<>> =>
        LET r == Row(cur.type)
        IN  \/ Outgrown(r, cur.slots) # {}
            \/ TlvParseMessage(r, 1, PfcpBuildMessage(cur.type, cur.slots), 1) = cur.slots

\* The elements the user plane sends carry the types of the members that were set; only
\* the cause of an association release response goes out as a node report type, since the
\* rows of types 9 to 15 are off by one (pfcp_message.c:177)
TypesMeanMembers ==
    \A i \in DOMAIN out.units :
        out.units[i].v # 0 =>
            \/ out.units[i - 1].type = out.units[i].v
            \/ out.type = PFCP_ASSOCIATION_RELEASE_RESPONSE /\ out.units[i].v = 19 /\ out.units[i - 1].type = 101

\* Every value the parser allocated, at whatever depth, is freed when the dispatcher is
\* done with the message (n4_dispatcher.c:173)
ValuesAreReturned == cur.phase \in {"idle", "received"} => live = {}
=============================================================================
