----------------------------- MODULE ActiveUes ------------------------------
(***************************************************************************)
(* Which UE a worker's shaper drains next (upf_u.c): one bit per UE in     *)
(* words of fixed width, a cursor, and the scan from the cursor to the end *)
(* and from the start up to the cursor.  A drain visits a UE at most once, *)
(* sends some of its packets and may clear its bit; arrivals set bits.     *)
(***************************************************************************)
EXTENDS Integers, FiniteSets, FiniteSetsExt

CONSTANTS
    MaxUe,          \* MAX_UE
    W,              \* bits in a word: 64 in the code
    ScanBudget,     \* SHAPER_SCAN_BUDGET
    Budget          \* packets a drain may send

VARIABLES
    bitmap,         \* g_shaper_active_ue_bitmap: word -> set of bits
    cursor,         \* g_shaper_active_ue_cursor
    drain,          \* the drain under way: tried UEs, visits, budget left
    watched,        \* history: some UE, and the UEs visited since it was
    since           \*          visited or became active

activeVars == <<bitmap, cursor, drain, watched, since>>

Ues == 0..MaxUe - 1
Words == 0..((MaxUe + W - 1) \div W) - 1
Bits == 0..W - 1
NoDrain == [on |-> FALSE, tried |-> {}, visited |-> 0, budget |-> 0]

Init ==
    /\ bitmap = [w \in Words |-> {}]
    /\ cursor = 0
    /\ drain = NoDrain
    /\ watched \in Ues
    /\ since = {}

IsActive(u) == u % W \in bitmap[u \div W]

shaper_ue_bitmap_valid_mask(w) ==
    IF w + 1 < Cardinality(Words) \/ MaxUe % W = 0 THEN Bits ELSE 0..(MaxUe % W) - 1

\* The bits of word w that pass p of the scan looks at.
Candidates(p, w, skip) ==
    LET start == cursor % MaxUe
        word == {b \in bitmap[w] \cap shaper_ue_bitmap_valid_mask(w) : w * W + b \notin skip}
    IN  CASE p = 0 /\ w = start \div W -> {b \in word : b >= start % W}
          [] p = 1 /\ w = start \div W -> {b \in word : b < start % W}
          [] w # start \div W -> word

\* Mutant: the second pass ends before the word of the cursor.
NextWithoutLastWord(skip) ==
    LET startWord == (cursor % MaxUe) \div W
        scan == {<<0, w>> : w \in startWord..Cardinality(Words) - 1} \cup {<<1, w>> : w \in 0..startWord - 1}
        hits == {s \in scan : Candidates(s[1], s[2], skip) # {}}
        first == CHOOSE s \in hits : \A t \in hits : s[1] < t[1] \/ (s[1] = t[1] /\ s[2] <= t[2])
    IN  IF hits = {} THEN -1 ELSE first[2] * W + Min(Candidates(first[1], first[2], skip))

\* The next UE, -1 if there is none.
shaper_next_active_ue(skip) ==
    LET startWord == (cursor % MaxUe) \div W
        scan == {<<0, w>> : w \in startWord..Cardinality(Words) - 1} \cup {<<1, w>> : w \in 0..startWord}
        hits == {s \in scan : Candidates(s[1], s[2], skip) # {}}
        first == CHOOSE s \in hits : \A t \in hits : s[1] < t[1] \/ (s[1] = t[1] /\ s[2] <= t[2])
    IN  IF hits = {} THEN -1 ELSE first[2] * W + Min(Candidates(first[1], first[2], skip))

shaper_mark_ue_active(u) ==
    /\ ~drain.on
    /\ bitmap' = [bitmap EXCEPT ![u \div W] = @ \cup {u % W}]
    /\ since' = IF u = watched /\ ~IsActive(u) THEN {} ELSE since
    /\ UNCHANGED <<cursor, drain, watched>>

\* shaper_flush_ue when the session of the UE goes.
shaper_clear_ue_active(u) ==
    /\ ~drain.on
    /\ bitmap' = [bitmap EXCEPT ![u \div W] = @ \ {u % W}]
    /\ UNCHANGED <<cursor, drain, watched, since>>

drain_shaper_queues_budget ==
    /\ ~drain.on
    /\ drain' = [NoDrain EXCEPT !.on = TRUE, !.budget = Budget]
    /\ UNCHANGED <<bitmap, cursor, watched, since>>

\* Mutant: the cursor stays on the UE visited.
CursorStays(u) == u

CursorAfter(u) == (u + 1) % MaxUe

\* One turn of the loop: drain_ue_shaper sent n packets and left the bit set
\* if packets still wait.
Visit(n, waits) ==
    /\ drain.on /\ drain.visited < ScanBudget /\ drain.budget > 0
    /\ n <= drain.budget
    /\ LET u == shaper_next_active_ue(drain.tried)
       IN  /\ u >= 0
           /\ cursor' = CursorAfter(u)
           /\ drain' = [drain EXCEPT !.tried = @ \cup {u}, !.visited = @ + 1, !.budget = @ - n]
           /\ bitmap' = IF waits THEN bitmap ELSE [bitmap EXCEPT ![u \div W] = @ \ {u % W}]
           /\ since' = IF u = watched THEN {} ELSE since \cup {u}
    /\ UNCHANGED watched

DrainEnds ==
    /\ drain.on
    /\ drain.visited = ScanBudget \/ drain.budget = 0 \/ shaper_next_active_ue(drain.tried) = -1
    /\ drain' = NoDrain
    /\ UNCHANGED <<bitmap, cursor, watched, since>>

Next ==
    \/ \E u \in Ues : shaper_mark_ue_active(u) \/ shaper_clear_ue_active(u)
    \/ drain_shaper_queues_budget
    \/ \E n \in 0..Budget, waits \in BOOLEAN : Visit(n, waits)
    \/ DrainEnds

Spec == Init /\ [][Next]_activeVars

-----------------------------------------------------------------------------
\* The two passes over the words find the first active UE that was not tried,
\* at or after the cursor and then from the start: none is missed at a word's
\* edge, in the word of the cursor or in the last, shorter word.
ScanIsCyclic ==
    LET open == {u \in Ues \ drain.tried : IsActive(u)}
        distance(u) == (u - cursor + MaxUe) % MaxUe
        u0 == shaper_next_active_ue(drain.tried)
    IN  IF open = {} THEN u0 = -1
        ELSE u0 \in open /\ \A u \in open : distance(u0) <= distance(u)

VisitIsFirst ==
    \A u \in Ues : u \in drain'.tried \ drain.tried /\ IsActive(watched)
                     => u = watched \/ u \notin since

\* No UE is starved by the limits of a drain: while one is active and waits
\* for its visit, no other UE is visited twice.
NoneIsVisitedTwice == [][VisitIsFirst]_activeVars
=============================================================================
