----------------------------- MODULE PdrRules -----------------------------
(***************************************************************************)
(* What a PDR becomes under the Create PDR and Update PDR elements of the  *)
(* SMF: the IEs that are present overwrite their fields in place, the FAR  *)
(* and the QERs are looked up, the QER that carries the QFI is chosen and  *)
(* the flow description is compiled for the user plane.  An IE is absent   *)
(* from a message or has a value; sent keeps the value of each IE that was *)
(* sent last.  A flow description is a sequence of words, stored without   *)
(* an end mark over the one before.                                        *)
(***************************************************************************)
EXTENDS Integers, Sequences, FiniteSets

CONSTANTS Messages,            \* functions from the names of the IEs present to their values
          Fars,                \* ids of FARs that exist
          QerIds,
          Port,                \* port by source interface, -1 for an unknown one
          MaxQers,             \* bound on the steps that create or change a QER
          Garbled              \* what a word run together with another may be taken for

VARIABLES pdr,                 \* the rule, or NoPdr
          qers,                \* the QERs of the session: whether each carries a QFI
          steps,
          sent, failed,        \* what the SMF sent, whether the last message failed
          shortened            \* a description was stored over a longer one

vars == <<pdr, qers, steps, sent, failed, shortened>>

NoPdr == [flags |-> {}, qer |-> 0]
Calloc ==
    [flags |-> {}, sourceInterface |-> 0, fTeid |-> [flags |-> {}, teid |-> 0, v4 |-> 0, v6 |-> 0],
     ueIp |-> [flags |-> {}, v4 |-> 0, v6 |-> 0],
     text |-> <<>>, farId |-> 0, far |-> 0, qerId |-> <<0, 0>>, qers |-> <<>>, qer |-> 0,
     has_fd |-> FALSE, fd_target |-> 0, meter_key |-> 0, has_to |-> FALSE, to |-> 0]

Has(m, ie) == ie \in DOMAIN m
-----------------------------------------------------------------------------
(* Conversion of the IEs.                                                  *)

\* Flags and TEID are copied, an address only if its flag is set
ConvertFTeid(old, ie) ==
    [flags |-> ie.flags, teid |-> ie.teid,
     v4 |-> IF "v4" \in ie.flags THEN ie.v4 ELSE old.v4,
     v6 |-> IF "v6" \in ie.flags THEN ie.v6 ELSE old.v6]

ConvertUeIp(old, ie) ==
    [flags |-> ie.flags,
     v4 |-> IF "v4" \in ie.flags THEN ie.v4 ELSE old.v4,
     v6 |-> IF "v6" \in ie.flags THEN ie.v6 ELSE old.v6]

\* strncpy over the description before: the last word runs into what is left of it
ConvertSdf(old, words, glued) ==
    IF Len(words) >= Len(old) THEN words
    ELSE [i \in 1 .. Len(old) |-> IF i < Len(words) THEN words[i]
                                  ELSE IF i = Len(words) THEN glued ELSE old[i]]

\* The fields that both conversions set alike
ConvertPdi(p, m, glued) ==
    [p EXCEPT !.flags = @ \union DOMAIN m,
              !.sourceInterface = IF Has(m, "sourceInterface") THEN m.sourceInterface ELSE @,
              !.fTeid = IF Has(m, "fTeid") THEN ConvertFTeid(@, m.fTeid) ELSE @,
              !.ueIp = IF Has(m, "ueIp") THEN ConvertUeIp(@, m.ueIp) ELSE @,
              !.text = IF Has(m, "sdf") THEN ConvertSdf(@, m.sdf, glued) ELSE @,
              !.farId = IF Has(m, "farId") THEN m.farId ELSE @]

ConvertCreatePDRTlvToRule(m, glued) ==
    [ConvertPdi(Calloc, m, glued) EXCEPT !.qerId = IF Has(m, "qerId") THEN m.qerId ELSE @]

\* Mutant: an id that is known already is added once more
AddQerIdTwice(ids, id) ==
    IF ids[1] = 0 THEN <<id, ids[2]>> ELSE IF ids[2] = 0 THEN <<ids[1], id>> ELSE ids

\* An update adds at most one QER to the two places
AddQerId(ids, id) ==
    IF id \in {ids[1], ids[2]} THEN ids
    ELSE IF ids[1] = 0 THEN <<id, ids[2]>> ELSE IF ids[2] = 0 THEN <<ids[1], id>> ELSE ids

ConvertUpdatePDRTlvToRule(p, m, glued) ==
    [ConvertPdi(p, m, glued) EXCEPT !.qerId = IF Has(m, "qerId") THEN AddQerId(@, m.qerId[1]) ELSE @]
-----------------------------------------------------------------------------
(* Derived fields.                                                         *)

\* The QERs of the ids, without the places that are empty
FoundQers(ids) == SelectSeq(ids, LAMBDA id : id # 0)

\* The first QER that carries a QFI, else the first one
SelectQfiQer(list, Q) ==
    LET with == SelectSeq(list, LAMBDA q : Q[q] = "qfi")
    IN  IF with # <<>> THEN with[1] ELSE IF list # <<>> THEN list[1] ELSE 0

\* The word behind the first occurrence of key
After(words, key) ==
    LET at == {i \in 1 .. Len(words) - 1 : words[i] = key}
    IN  IF at = {} THEN "none" ELSE words[(CHOOSE i \in at : \A j \in at : i <= j) + 1]

\* A word run together with another that still follows "from" is compiled to whatever
\* the address was before, which is taken to be the second network
IsNet(w) == w \in {"net1", "net2"}
Net(w) == IF w = "net1" THEN 1 ELSE 2

\* Mutant: the fields of the description before are kept when there is none
PrecompileSdfKeeps(p) ==
    LET from == After(p.text, "from")
    IN  IF ~IsNet(from) THEN p
        ELSE [p EXCEPT !.has_fd = TRUE, !.fd_target = Net(from), !.meter_key = Port[p.sourceInterface] + Net(from),
                       !.has_to = IsNet(After(p.text, "to")),
                       !.to = IF IsNet(After(p.text, "to")) THEN Net(After(p.text, "to")) ELSE 0]

\* Nothing is compiled unless the description names where packets come from
PrecompileSdf(p) ==
    LET from == After(p.text, "from")
        to == After(p.text, "to")
        cleared == [p EXCEPT !.has_fd = FALSE, !.fd_target = 0, !.meter_key = 0, !.has_to = FALSE, !.to = 0]
    IN  IF "sdf" \notin p.flags \/ from \in {"none", "any"} THEN cleared
        ELSE [cleared EXCEPT !.has_fd = TRUE, !.fd_target = Net(from),
                             !.meter_key = Port[p.sourceInterface] + Net(from),
                             !.has_to = IsNet(to), !.to = IF IsNet(to) THEN Net(to) ELSE 0]

FarMissing(p) == "farId" \in p.flags /\ p.farId \notin Fars
QerMissing(p) == "qerId" \in p.flags /\ \E i \in 1 .. 2 : p.qerId[i] # 0 /\ qers[p.qerId[i]] = "none"

WithQers(p) ==
    IF "qerId" \notin p.flags THEN p
    ELSE [p EXCEPT !.qers = FoundQers(p.qerId), !.qer = SelectQfiQer(FoundQers(p.qerId), qers)]
-----------------------------------------------------------------------------
Init ==
    /\ pdr = NoPdr
    /\ qers = [q \in QerIds |-> "none"]
    /\ steps = 0
    /\ sent = <<>>
    /\ failed = FALSE
    /\ shortened = FALSE

\* What the SMF sent last, by IE
Merge(a, b) == [ie \in DOMAIN a \union DOMAIN b |-> IF ie \in DOMAIN b THEN b[ie] ELSE a[ie]]

UpfN4HandleCreatePdr(m) ==
    LET p == ConvertCreatePDRTlvToRule(m, "none")
    IN  /\ pdr = NoPdr
        /\ Has(m, "sourceInterface")
        /\ failed' = (FarMissing(p) \/ QerMissing(p))
        /\ pdr' = IF FarMissing(p) \/ QerMissing(p) THEN NoPdr
                  ELSE PrecompileSdf(WithQers([p EXCEPT !.far = IF "farId" \in p.flags THEN p.farId ELSE 0]))
        /\ sent' = IF failed' THEN sent ELSE m
        /\ UNCHANGED <<qers, steps, shortened>>

\* The rule is changed in place: a look-up that fails leaves it half updated
UpfN4HandleUpdatePdr(m, glued) ==
    LET p == ConvertUpdatePDRTlvToRule(pdr, m, glued)
        q == [p EXCEPT !.far = IF "farId" \in p.flags THEN (IF FarMissing(p) THEN 0 ELSE p.farId) ELSE @]
    IN  /\ pdr # NoPdr
        /\ failed' = (FarMissing(p) \/ QerMissing(p))
        /\ pdr' = IF failed' THEN q ELSE PrecompileSdf(WithQers(q))
        /\ sent' = Merge(sent, m)
        /\ shortened' = (shortened \/ (Has(m, "sdf") /\ Len(m.sdf) < Len(pdr.text)))
        /\ UNCHANGED <<qers, steps>>

\* A QER is created or updated, with or without a QFI
SetQer(q, kind) ==
    /\ steps < MaxQers
    /\ qers[q] # kind
    /\ qers' = [qers EXCEPT ![q] = kind]
    /\ steps' = steps + 1
    /\ UNCHANGED <<pdr, sent, failed, shortened>>

Next ==
    \/ \E m \in Messages : UpfN4HandleCreatePdr(m) \/ \E g \in Garbled : UpfN4HandleUpdatePdr(m, g)
    \/ \E q \in QerIds, kind \in {"plain", "qfi"} : SetQer(q, kind)

Spec == Init /\ [][Next]_vars
-----------------------------------------------------------------------------
\* A field has the value of the last IE that set it, whichever messages carried the
\* IEs; an address that is flagged as present is the one sent last
FieldsAreLastSent ==
    pdr # NoPdr =>
        /\ pdr.flags = DOMAIN sent
        /\ \A ie \in DOMAIN sent \intersect {"sourceInterface", "farId"} : pdr[ie] = sent[ie]
        /\ Has(sent, "fTeid") => /\ pdr.fTeid.flags = sent.fTeid.flags
                                 /\ \A f \in sent.fTeid.flags : pdr.fTeid[f] = sent.fTeid[f]
        /\ Has(sent, "ueIp") => \A f \in sent.ueIp.flags : pdr.ueIp[f] = sent.ueIp[f]

\* After a message that succeeded the compiled filter is that of the description and of
\* the source interface in force, if no description was stored over a longer one
FilterIsCurrent ==
    pdr # NoPdr /\ ~failed /\ ~shortened =>
        LET from == IF Has(sent, "sdf") THEN After(sent.sdf, "from") ELSE "none"
            to == IF Has(sent, "sdf") THEN After(sent.sdf, "to") ELSE "none"
        IN  /\ pdr.has_fd = IsNet(from)
            /\ pdr.has_fd => pdr.fd_target = Net(from) /\ pdr.meter_key = Port[sent.sourceInterface] + Net(from)
            /\ pdr.has_to = (IsNet(from) /\ IsNet(to))
            /\ pdr.has_to => pdr.to = Net(to)

\* The QERs of a PDR are different ones that exist, packed, and the one chosen for the
\* QFI is among them; after a message that succeeded FAR and QERs are those of the ids
RulePointersAreSound ==
    pdr # NoPdr =>
        /\ \A i, j \in DOMAIN pdr.qers : pdr.qers[i] = pdr.qers[j] => i = j
        /\ \A i \in DOMAIN pdr.qers : qers[pdr.qers[i]] # "none"
        /\ IF pdr.qers = <<>> THEN pdr.qer = 0 ELSE \E i \in DOMAIN pdr.qers : pdr.qer = pdr.qers[i]
        /\ ~failed => /\ "farId" \in pdr.flags => pdr.far = pdr.farId
                      /\ "qerId" \in pdr.flags => pdr.qers = FoundQers(pdr.qerId)
=============================================================================
