-------------------------------- MODULE Cmap --------------------------------
(***************************************************************************)
(* The cuckoo hash map of the TupleSpaceSearch classifier (cmap.cpp).  A   *)
(* hash has two buckets of CMAP_K slots; nodes of one hash are chained in  *)
(* one slot; an insertion into two full buckets moves other chains along   *)
(* a path found breadth first; the map grows, shrinks, and changes its     *)
(* hash functions (its basis) when it has to.  One thread builds the map:  *)
(* the snapshot that holds it is published afterwards.                     *)
(***************************************************************************)
EXTENDS Integers, Sequences, FiniteSets, TLC

CONSTANTS Nodes,      \* the nodes, and the hash of each of them
          HashOf,
          CMAP_K,     \* slots of a bucket
          MAX_DEPTH,  \* longest chain of displacements
          MaxMask,    \* bound on the number of buckets, minus one
          Bases,      \* the values random_uint32 may give
          Rehash      \* rehash and other_hash: basis, hash -> pair of numbers

VARIABLES impl, live   \* live: history, the nodes inserted and not removed

vars == <<impl, live>>

Hashes == {HashOf[n] : n \in Nodes}
Start == [bucket |-> 0, entry |-> 1, offset |-> 1]
EmptySlot == [hash |-> 0, chain |-> <<>>]
calc_max_n(mask) == ((mask + 1) * CMAP_K * 85) \div 100
calc_min_n(mask) == ((mask + 1) * CMAP_K * 20 - 1) \div 100

cmap_impl_create(mask, basis, n) ==
  [mask |-> mask, basis |-> basis, n |-> n,
   buckets |-> [at \in (0 .. mask) \X (1 .. CMAP_K) |-> EmptySlot]]

Bucket(m, h, i) == Rehash[m.basis][h][i] % (m.mask + 1)

\* The first slot of a bucket that satisfies a test, or 0
FirstSlot(m, b, Test(_)) ==
  LET hits == {i \in 1 .. CMAP_K : Test(m.buckets[b, i])}
  IN  IF hits = {} THEN 0 ELSE CHOOSE i \in hits : \A j \in hits : i <= j

cmap_find_empty_slot_protected(m, b) == FirstSlot(m, b, LAMBDA s : s.chain = <<>>)
SlotOfHash(m, b, h) == FirstSlot(m, b, LAMBDA s : s.hash = h)
cmap_find_slot_protected(m, b, h) == FirstSlot(m, b, LAMBDA s : s.hash = h /\ s.chain # <<>>)

cmap_find_in_bucket(m, b, h) ==
  LET i == SlotOfHash(m, b, h) IN IF i = 0 THEN <<>> ELSE m.buckets[b, i].chain

\* The second bucket is not searched
FindFirstOnly(m, h) == cmap_find_in_bucket(m, Bucket(m, h, 1), h)

\* cmap_find: the chain of a hash, in its first bucket or else in its second
cmap_find(m, h) ==
  LET first == cmap_find_in_bucket(m, Bucket(m, h, 1), h)
  IN  IF first # <<>> THEN first ELSE cmap_find_in_bucket(m, Bucket(m, h, 2), h)

\* cmap_find_batch: a round over the first buckets, then one over the second
\* buckets for the hashes not found yet; no bucket changes between them
cmap_find_batch(m, hashes) ==
  LET first == [h \in hashes |-> cmap_find_in_bucket(m, Bucket(m, h, 1), h)]
      missing == {h \in hashes : first[h] = <<>>}
      second == [h \in missing |-> cmap_find_in_bucket(m, Bucket(m, h, 2), h)]
  IN  [h \in hashes |-> IF h \in missing THEN second[h] ELSE first[h]]

RECURSIVE NextSkipsChain(_, _)
\* The offset survives the step to the next slot
NextSkipsChain(m, pos) ==
  LET chain == m.buckets[pos.bucket, pos.entry].chain
      slot == IF pos.entry < CMAP_K THEN [pos EXCEPT !.entry = @ + 1]
              ELSE [pos EXCEPT !.bucket = @ + 1, !.entry = 1]
  IN  IF pos.bucket > m.mask THEN [node |-> 0, pos |-> Start]
      ELSE IF pos.offset < Len(chain)
           THEN [node |-> chain[pos.offset], pos |-> [pos EXCEPT !.offset = @ + 1]]
      ELSE IF pos.offset = Len(chain) THEN [node |-> chain[pos.offset], pos |-> slot]
      ELSE NextSkipsChain(m, slot)

RECURSIVE cmap_next_position(_, _)
\* The node at a position or after it, with the position that follows it
cmap_next_position(m, pos) ==
  LET chain == m.buckets[pos.bucket, pos.entry].chain
      slot == IF pos.entry < CMAP_K THEN [pos EXCEPT !.entry = @ + 1, !.offset = 1]
              ELSE [bucket |-> pos.bucket + 1, entry |-> 1, offset |-> 1]
  IN  IF pos.bucket > m.mask THEN [node |-> 0, pos |-> Start]
      ELSE IF pos.offset < Len(chain)
           THEN [node |-> chain[pos.offset], pos |-> [pos EXCEPT !.offset = @ + 1]]
      ELSE IF pos.offset = Len(chain) THEN [node |-> chain[pos.offset], pos |-> slot]
      ELSE cmap_next_position(m, slot)

RECURSIVE Walk(_, _)
\* The nodes a loop of cmap_next_position, or a cursor, meets
Walk(m, pos) ==
  LET step == cmap_next_position(m, pos)
  IN  IF step.node = 0 THEN <<>> ELSE <<step.node>> \o Walk(m, step.pos)

\* The bucket in which the hash of a slot could be as well
other_bucket_protected(m, b, i) ==
  LET h == m.buckets[b, i].hash
  IN  IF Bucket(m, h, 1) = b THEN Bucket(m, h, 2) ELSE Bucket(m, h, 1)

cmap_set_bucket(m, b, i, slot) == [m EXCEPT !.buckets[b, i] = slot]

RECURSIVE MoveForgets(_, _, _, _)
\* Displacements from the front: each chain is moved over the next one
MoveForgets(m, bs, slots, k) ==
  IF k = Len(bs) THEN m
  ELSE MoveForgets(cmap_set_bucket(m, bs[k + 1], slots[k + 1], m.buckets[bs[k], slots[k]]),
                   bs, slots, k + 1)

RECURSIVE Displace(_, _, _, _)
\* The chains of a path move one bucket on, the last one first
Displace(m, bs, slots, k) ==
  IF k = 1 THEN m
  ELSE Displace(cmap_set_bucket(m, bs[k], slots[k], m.buckets[bs[k - 1], slots[k - 1]]),
                bs, slots, k - 1)

MovedForwards(m, bs, slots) == MoveForgets(m, bs, slots, 1)
Moved(m, bs, slots) == Displace(m, bs, slots, Len(bs))

RECURSIVE PathBuckets(_, _, _, _)
PathBuckets(m, b, slots, k) ==
  IF k > Len(slots) THEN <<b>>
  ELSE <<b>> \o PathBuckets(m, other_bucket_protected(m, b, slots[k]), slots, k + 1)

RECURSIVE Search(_, _)
\* The queue of cmap_insert_bfs: paths by their start, their end and their slots.
\* A slot of the last bucket whose other bucket has room ends the search
Search(m, queue) ==
  IF queue = <<>> THEN [found |-> FALSE]
  ELSE LET path == queue[1]
           hops == {i \in 1 .. CMAP_K : other_bucket_protected(m, path.end, i) # path.end}
           Next1(i) == other_bucket_protected(m, path.end, i)
           ends == {i \in hops : cmap_find_empty_slot_protected(m, Next1(i)) # 0}
           longer == SelectSeq([i \in 1 .. CMAP_K |-> i],
                               LAMBDA i : i \in hops /\ Len(path.slots) < MAX_DEPTH)
       IN  IF ends # {}
           THEN LET i == CHOOSE i \in ends : \A j \in ends : i <= j
                IN  [found |-> TRUE, start |-> path.start, slots |-> Append(path.slots, i),
                     last |-> cmap_find_empty_slot_protected(m, Next1(i))]
           ELSE Search(m, Tail(queue) \o
                          [k \in 1 .. Len(longer) |->
                             [start |-> path.start, end |-> Next1(longer[k]),
                              slots |-> Append(path.slots, longer[k])]])

\* Cuckoo displacement along a shortest path of slots: {} when there is none
cmap_insert_bfs(m, slot, b1, b2) ==
  LET from(b) == [start |-> b, end |-> b, slots |-> <<>>]
      r == Search(m, IF b1 = b2 THEN <<from(b1)>> ELSE <<from(b1), from(b2)>>)
  IN  IF ~r.found THEN {}
      ELSE LET bs == PathBuckets(m, r.start, r.slots, 1)
               slots == Append(r.slots, r.last)
           IN  {cmap_set_bucket(Moved(m, bs, slots), bs[1], slots[1], slot)}

\* The new chain goes before the chain of its hash
cmap_insert_dup(m, b, chain, h) ==
  {[m EXCEPT !.buckets[b, SlotOfHash(m, b, h)].chain = chain \o @]}

cmap_insert_bucket(m, b, slot) ==
  {cmap_set_bucket(m, b, cmap_find_empty_slot_protected(m, b), slot)}

\* The outcome of cmap_try_insert of a chain: {} when there is no room
cmap_try_insert(m, chain, h) ==
  LET b1 == Bucket(m, h, 1)
      b2 == Bucket(m, h, 2)
      slot == [hash |-> h, chain |-> chain]
  IN  IF SlotOfHash(m, b1, h) # 0 THEN cmap_insert_dup(m, b1, chain, h)
      ELSE IF SlotOfHash(m, b2, h) # 0 THEN cmap_insert_dup(m, b2, chain, h)
      ELSE IF cmap_find_empty_slot_protected(m, b1) # 0 THEN cmap_insert_bucket(m, b1, slot)
      ELSE IF cmap_find_empty_slot_protected(m, b2) # 0 THEN cmap_insert_bucket(m, b2, slot)
      ELSE cmap_insert_bfs(m, slot, b1, b2)

RECURSIVE Refill(_, _)
\* cmap_try_rehash: the chains of the old map go into the new one, in order
Refill(new, slots) ==
  IF slots = <<>> THEN {new}
  ELSE IF slots[1].chain = <<>> THEN Refill(new, Tail(slots))
  ELSE UNION {Refill(m, Tail(slots)) : m \in cmap_try_insert(new, slots[1].chain, slots[1].hash)}

RECURSIVE AllSlots(_, _)
AllSlots(m, b) ==
  IF b > m.mask THEN <<>>
  ELSE [i \in 1 .. CMAP_K |-> m.buckets[b, i]] \o AllSlots(m, b + 1)

\* cmap_rehash: a map of another size and basis, for any basis with which it fits
cmap_rehash(m, mask) ==
  UNION {Refill(cmap_impl_create(mask, basis, m.n), AllSlots(m, 0)) : basis \in Bases}
-----------------------------------------------------------------------------
Init ==
  /\ live = {}
  /\ \E basis \in Bases : impl = cmap_impl_create(0, basis, 0)

\* The map grows before it takes one node too many, and is hashed anew as often
\* as the node does not fit
cmap_insert(node) ==
  LET h == HashOf[node]
      grown == IF impl.n >= calc_max_n(impl.mask)
               THEN cmap_rehash(impl, 2 * impl.mask + 1) ELSE {impl}
      Tried(m) == LET t == cmap_try_insert(m, <<node>>, h)
                  IN  IF t # {} THEN t
                      ELSE UNION {cmap_try_insert(r, <<node>>, h) : r \in cmap_rehash(m, m.mask)}
  IN  /\ node \notin live
      /\ impl.n < calc_max_n(impl.mask) \/ 2 * impl.mask + 1 <= MaxMask
      /\ \E m \in UNION {Tried(g) : g \in grown} : impl' = [m EXCEPT !.n = @ + 1]
      /\ live' = live \cup {node}

WithoutNode(chain, node) == SelectSeq(chain, LAMBDA n : n # node)

\* cmap_remove, that is cmap_replace by nothing
cmap_remove(node) ==
  LET h == HashOf[node]
      s1 == cmap_find_slot_protected(impl, Bucket(impl, h, 1), h)
      b == Bucket(impl, h, IF s1 # 0 THEN 1 ELSE 2)
      i == cmap_find_slot_protected(impl, b, h)
      out == [impl EXCEPT !.buckets[b, i].chain = WithoutNode(@, node), !.n = @ - 1]
  IN  /\ node \in live
      /\ live' = live \ {node}
      /\ IF out.n < calc_min_n(out.mask)
         THEN impl' \in cmap_rehash(out, out.mask \div 2)
         ELSE impl' = out

Next == \E n \in Nodes : cmap_insert(n) \/ cmap_remove(n)

Spec == Init /\ [][Next]_vars
-----------------------------------------------------------------------------
Elements(s) == {s[i] : i \in 1 .. Len(s)}

\* A look-up finds exactly the nodes of its hash that were inserted and not
\* removed, however they were displaced and the map was hashed anew
FindIsExact ==
  \A h \in Hashes : /\ Elements(cmap_find(impl, h)) = {n \in live : HashOf[n] = h}
                    /\ Len(cmap_find(impl, h)) = Cardinality({n \in live : HashOf[n] = h})
                    /\ cmap_find_batch(impl, Hashes)[h] = cmap_find(impl, h)

\* A loop of cmap_next_position visits every node once and then starts over
WalksVisitAll ==
  Elements(Walk(impl, Start)) = live /\ Len(Walk(impl, Start)) = Cardinality(live)

\* A client hash is in one chain of one bucket only, and the count that decides
\* when the map grows and shrinks is the number of its nodes
OneChainPerHash ==
  /\ \A h \in Hashes : Cardinality({<<b, i>> \in (0 .. impl.mask) \X (1 .. CMAP_K) :
                          impl.buckets[b, i].hash = h /\ impl.buckets[b, i].chain # <<>>}) <= 1
  /\ impl.n = Cardinality(live)
=============================================================================
