----------------------------- MODULE RuleLists -----------------------------
(***************************************************************************)
(* The list of FARs of a session (QERs have the same code, PDRs ids of 16  *)
(* bits): a doubly linked list in the heap, searched from its head by an   *)
(* id that the search takes as 16 bits while the rule has 32, and changed  *)
(* by Create, Update and Remove FAR.  The other operations of the list     *)
(* library are actions too.                                                *)
(***************************************************************************)
EXTENDS Integers, Sequences, FiniteSets

CONSTANTS Ids,                 \* rule ids of messages
          Short,               \* 2^16: number of ids a search tells apart
          Cells, Null,         \* heap cells
          MaxOps

VARIABLES self,                \* [head, tail, len]
          heap,                \* [val, prev, next] per cell in use
          iterators,           \* list iterators that were never freed
          rules,               \* the ids a peer created and did not remove
          long,                \* some message had an id of more than 16 bits
          ops

vars == <<self, heap, iterators, rules, long, ops>>

list_new == [head |-> Null, tail |-> Null, len |-> 0]
Unused == [val |-> 0, prev |-> Null, next |-> Null, used |-> FALSE]
list_node_new(v) == [val |-> v, prev |-> Null, next |-> Null, used |-> TRUE]

Init ==
    /\ self = list_new
    /\ heap = [c \in Cells |-> Unused]
    /\ iterators = 0 /\ rules = {} /\ long = FALSE /\ ops = 0
-----------------------------------------------------------------------------
(* list.c and list_iterator.c, as functions of the list and the heap       *)

\* Mutant: the old tail is not told of the new one
PushUnlinked(l, h, c, v) ==
    [self |-> IF l.len > 0 THEN [l EXCEPT !.tail = c, !.len = @ + 1] ELSE [head |-> c, tail |-> c, len |-> 1],
     heap |-> [h EXCEPT ![c] = [list_node_new(v) EXCEPT !.prev = l.tail]]]

list_rpush(l, h, c, v) ==
    IF l.len > 0
    THEN [self |-> [l EXCEPT !.tail = c, !.len = @ + 1],
          heap |-> [h EXCEPT ![c] = [list_node_new(v) EXCEPT !.prev = l.tail], ![l.tail].next = c]]
    ELSE [self |-> [head |-> c, tail |-> c, len |-> 1], heap |-> [h EXCEPT ![c] = list_node_new(v)]]

list_lpush(l, h, c, v) ==
    IF l.len > 0
    THEN [self |-> [l EXCEPT !.head = c, !.len = @ + 1],
          heap |-> [h EXCEPT ![c] = [list_node_new(v) EXCEPT !.next = l.head], ![l.head].prev = c]]
    ELSE [self |-> [head |-> c, tail |-> c, len |-> 1], heap |-> [h EXCEPT ![c] = list_node_new(v)]]

\* The cell that is detached is freed by the caller
list_rpop(l, h) ==
    IF l.len > 1
    THEN [self |-> [l EXCEPT !.tail = h[l.tail].prev, !.len = @ - 1],
          heap |-> [h EXCEPT ![h[l.tail].prev].next = Null, ![l.tail] = Unused]]
    ELSE [self |-> list_new, heap |-> [h EXCEPT ![l.tail] = Unused]]

list_lpop(l, h) ==
    IF l.len > 1
    THEN [self |-> [l EXCEPT !.head = h[l.head].next, !.len = @ - 1],
          heap |-> [h EXCEPT ![h[l.head].next].prev = Null, ![l.head] = Unused]]
    ELSE [self |-> list_new, heap |-> [h EXCEPT ![l.head] = Unused]]

Relinked(h, n) ==
    [c \in Cells |-> IF c = n THEN Unused
                     ELSE [h[c] EXCEPT !.next = IF c = h[n].prev THEN h[n].next ELSE @,
                                       !.prev = IF c = h[n].next THEN h[n].prev ELSE @]]
list_remove(l, h, n) ==
    [self |-> [head |-> IF h[n].prev = Null THEN h[n].next ELSE l.head,
               tail |-> IF h[n].next = Null THEN h[n].prev ELSE l.tail, len |-> l.len - 1],
     heap |-> Relinked(h, n)]

\* The cells an iterator returns, from the head or from the tail
RECURSIVE list_iterator_next(_, _)
list_iterator_next(c, forth) ==
    IF c = Null THEN <<>> ELSE <<c>> \o list_iterator_next(IF forth THEN heap[c].next ELSE heap[c].prev, forth)

Walk == list_iterator_next(self.head, TRUE)

\* The node at an index, counted from the tail when it is negative
list_at(i) ==
    LET w == list_iterator_next(IF i < 0 THEN self.tail ELSE self.head, i >= 0)
        k == IF i < 0 THEN -i ELSE i + 1
    IN  IF k <= self.len THEN w[k] ELSE Null

\* The first cell that has the value
list_find(v, w) ==
    LET hits == {i \in DOMAIN w : heap[w[i]].val = v}
    IN  IF hits = {} THEN Null ELSE w[CHOOSE i \in hits : \A j \in hits : i <= j]
-----------------------------------------------------------------------------
(* Rules.  The id of a search has 16 bits.                                 *)

UpfFARFindByID(id) == list_find(id % Short, Walk)

\* The lists of a session and the global list of PDRs grow at their end
UpfFARRegisterToSession(c, id) == list_rpush(self, heap, c, id)

Step(r) == self' = r.self /\ heap' = r.heap /\ ops' = ops + 1

\* Create FAR is refused when the search finds the id
CreateFar(id) ==
    /\ ops < MaxOps
    /\ UpfFARFindByID(id) = Null
    /\ \E c \in Cells : ~heap[c].used /\ Step(UpfFARRegisterToSession(c, id))
    /\ rules' = rules \union {id} /\ long' = (long \/ id >= Short)
    /\ UNCHANGED iterators

\* Remove FAR: takes out what the search finds; the iterator of the search is not freed
UpfFARDeregisterToSessionByID(id) ==
    LET n == UpfFARFindByID(id)
    IN  /\ ops < MaxOps /\ id # 0
        /\ iterators' = iterators + 1 /\ long' = (long \/ id >= Short)
        /\ \/ n = Null /\ ops' = ops + 1 /\ UNCHANGED <<self, heap, rules>>
           \/ n # Null /\ Step(list_remove(self, heap, n)) /\ rules' = rules \ {id}

\* Remove PDR: found in the list, taken out; the publication that fails puts it back at the end
UpfPDRDeregisterToSessionByIDEx(id, published) ==
    LET n == UpfFARFindByID(id)
        out == list_remove(self, heap, n)
    IN  /\ ops < MaxOps /\ id \in 1 .. Short - 1
        /\ n # Null
        /\ IF published THEN Step(out) /\ rules' = rules \ {id}
           ELSE Step(list_rpush(out.self, out.heap, n, id)) /\ rules' = rules
        /\ UNCHANGED <<iterators, long>>

\* The list of all PDRs, which grows at its end too, loses the PDR itself, whatever its id
UpfPDRGlobalRemove(v) ==
    LET n == list_find(v, Walk)
    IN  /\ ops < MaxOps /\ ~long /\ n # Null
        /\ Step(list_remove(self, heap, n)) /\ rules' = rules \ {v}
        /\ UNCHANGED <<iterators, long>>

\* The session goes: as many cells as the list counts are freed, from the head
list_destroy ==
    /\ ops < MaxOps
    /\ Step([self |-> list_new,
             heap |-> [c \in Cells |-> IF \E i \in 1 .. self.len : Walk[i] = c THEN Unused ELSE heap[c]]])
    /\ rules' = {}
    /\ UNCHANGED <<iterators, long>>

\* The operations of the library that no rule needs: both ends
Pop(r) ==
    /\ ops < MaxOps /\ self.len > 0 /\ ~long
    /\ Step(r)
    /\ rules' = {r.heap[c].val : c \in {d \in Cells : r.heap[d].used}}
    /\ UNCHANGED <<iterators, long>>
Prepend(id) ==
    /\ ops < MaxOps /\ id < Short /\ UpfFARFindByID(id) = Null
    /\ \E c \in Cells : ~heap[c].used /\ Step(list_lpush(self, heap, c, id))
    /\ rules' = rules \union {id}
    /\ UNCHANGED <<iterators, long>>

Next ==
    \/ \E id \in Ids : CreateFar(id) \/ UpfFARDeregisterToSessionByID(id) \/ Prepend(id) \/ UpfPDRGlobalRemove(id)
    \/ \E id \in Ids, published \in BOOLEAN : UpfPDRDeregisterToSessionByIDEx(id, published)
    \/ Pop(list_rpop(self, heap)) \/ Pop(list_lpop(self, heap))
    \/ list_destroy

Spec == Init /\ [][Next]_vars
-----------------------------------------------------------------------------
Reversed(s) == [i \in DOMAIN s |-> s[Len(s) + 1 - i]]

\* The list read from its tail is the list read from its head backwards, as long as it
\* says it is, it holds every cell in use, and list_at agrees with both
ListIsLinked ==
    /\ Len(Walk) = self.len
    /\ Reversed(Walk) = list_iterator_next(self.tail, FALSE)
    /\ {Walk[i] : i \in DOMAIN Walk} = {c \in Cells : heap[c].used}
    /\ \A i \in 1 .. self.len : list_at(i - 1) = Walk[i] /\ list_at(-i) = Walk[self.len + 1 - i]

\* While all messages keep to ids of 16 bits, Create, Update and Remove agree with the peer:
\* the search returns the rule of an id exactly if the peer created it and did not remove it,
\* and there is never a second one
ShortIdsAreExact ==
    \A id \in Ids : (id < Short /\ ~long) =>
        /\ (UpfFARFindByID(id) # Null) = (id \in rules)
        /\ Cardinality({c \in Cells : heap[c].used /\ heap[c].val = id}) <= 1

\* With longer ids the rules of short ids are still never doubled, and what a search
\* returns has the low 16 bits of the id that was asked for
RulesAreNotDoubled ==
    \A id \in Ids :
        /\ Cardinality({c \in Cells : heap[c].used /\ heap[c].val = id % Short}) <= 1
        /\ LET n == UpfFARFindByID(id) IN n \in Cells => heap[n].val = id % Short
=============================================================================
