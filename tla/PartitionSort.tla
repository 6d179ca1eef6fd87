---------------------------- MODULE PartitionSort ----------------------------
(***************************************************************************)
(* The PartitionSort classifier behind classifier_wrapper.cpp: a list of   *)
(* multi-field trees kept in decreasing order of their highest priority, a *)
(* vector of the rules with the tree each one went to, and the map from a  *)
(* rule's descriptor to its place in that vector.  A PDR becomes a rule by *)
(* updk_pdr_to_cls_rule and to_cpp_rule.  Addresses have Bits bits.        *)
(***************************************************************************)
EXTENDS Integers, Sequences, FiniteSets, TLC

CONSTANTS Fields,    \* CLS_FIELD_DEPTH: how many fields are classified on
          ANY32,     \* the packet value that is compared with nothing
          Pdrs,      \* the PDRs of the sessions (records)
          Bits,      \* width of an address
          MaxPrec,   \* INT32_MAX
          Packets    \* tuples of the classified fields, in CLS_FIELD_ORDER

VARIABLES mitrees,   \* the order of the trees
          trees,     \* tree id -> tree, priorityContainer, maxPriority
          rules,     \* sequence of <<rule, tree id>>
          descriptorIndexMap

vars == <<mitrees, trees, rules, descriptorIndexMap>>
-----------------------------------------------------------------------------
(* The multi-field tree (RBTree...WithPathCompression, red_black_tree.cpp):  *)
(* one ordered tree of disjoint boxes per field, the tree under a box        *)
(* holding the rules that share it.  A tree of one rule is not built: it     *)
(* keeps the rule's remaining boxes as a chain.  A level is a function from  *)
(* its boxes to their trees; RbTree models how one level is balanced and     *)
(* searched.                                                                 *)

Overlap(a, b) == a[1] <= b[2] /\ b[1] <= a[2]
Within(v, a) == v = ANY32 \/ (a[1] <= v /\ v <= a[2])

NoMatch == [priority |-> -1, descriptor |-> 0]

\* A tree: its rules, the chain of a single rule, the matches of a leaf, its boxes
EmptyTree == [count |-> 0, chain |-> <<>>, matches |-> <<>>, boxes |-> <<>>]
Single(chain, m) == [count |-> 1, chain |-> chain, matches |-> <<m>>, boxes |-> <<>>]

\* GetMaxMatch: the first of the matches of the highest priority
GetMaxMatch(ms) ==
  IF ms = <<>> THEN NoMatch
  ELSE ms[CHOOSE i \in 1 .. Len(ms) :
            \A j \in 1 .. Len(ms) : \/ ms[j].priority < ms[i].priority
                                    \/ ms[j].priority = ms[i].priority /\ i <= j]

\* PopMatch: the last match takes the place of the one that goes
PopMatch(ms, m) ==
  IF \A i \in 1 .. Len(ms) : ms[i] # m THEN ms
  ELSE LET i == CHOOSE i \in 1 .. Len(ms) : ms[i] = m /\ \A j \in 1 .. i - 1 : ms[j] # m
       IN  SubSeq([ms EXCEPT ![i] = ms[Len(ms)]], 1, Len(ms) - 1)

RECURSIVE RBTreeCanInsert(_, _, _)
\* A rule enters the tree unless its box overlaps another one on the way down
RBTreeCanInsert(t, key, l) ==
  IF l > Fields THEN TRUE
  ELSE IF t.count = 1
  THEN \A i \in l .. Fields :
         (\A j \in l .. i - 1 : key[j] = t.chain[j - l + 1]) =>
            \/ key[i] = t.chain[i - l + 1]
            \/ ~Overlap(key[i], t.chain[i - l + 1])
  ELSE IF key[l] \in DOMAIN t.boxes THEN RBTreeCanInsert(t.boxes[key[l]], key, l + 1)
  ELSE \A b \in DOMAIN t.boxes : ~Overlap(b, key[l])

RECURSIVE Unzip(_, _, _, _, _)
\* The chain of the first rule is built as far as the second rule shares it
Unzip(chain, xm, key, m, l) ==
  IF l > Fields THEN [EmptyTree EXCEPT !.count = 2, !.matches = <<m, xm>>]
  ELSE IF chain[1] = key[l]
  THEN [EmptyTree EXCEPT !.count = 2,
          !.boxes = key[l] :> Unzip(Tail(chain), xm, key, m, l + 1)]
  ELSE [EmptyTree EXCEPT !.count = 2,
          !.boxes = (chain[1] :> Single(Tail(chain), xm)) @@
                    (key[l] :> Single(SubSeq(key, l + 1, Fields), m))]

RECURSIVE InsertNoCount(_, _, _, _)
\* An insertion that forgets to count the rule in the trees it passes
InsertNoCount(t, key, m, l) ==
  IF l > Fields THEN [t EXCEPT !.count = @ + 1, !.matches = Append(@, m)]
  ELSE IF t.count = 0 THEN Single(SubSeq(key, l, Fields), m)
  ELSE IF t.count = 1 THEN Unzip(t.chain, GetMaxMatch(t.matches), key, m, l)
  ELSE LET next == IF key[l] \in DOMAIN t.boxes THEN t.boxes[key[l]] ELSE EmptyTree
       IN  [t EXCEPT !.boxes = (key[l] :> InsertNoCount(next, key, m, l + 1)) @@ @]

RECURSIVE RBTreeInsertWithPathCompression(_, _, _, _)
RBTreeInsertWithPathCompression(t, key, m, l) ==
  IF l > Fields THEN [t EXCEPT !.count = @ + 1, !.matches = Append(@, m)]
  ELSE IF t.count = 0 THEN Single(SubSeq(key, l, Fields), m)
  ELSE IF t.count = 1 THEN Unzip(t.chain, GetMaxMatch(t.matches), key, m, l)
  ELSE LET next == IF key[l] \in DOMAIN t.boxes THEN t.boxes[key[l]] ELSE EmptyTree
       IN  [t EXCEPT !.count = @ + 1,
              !.boxes = (key[l] :> RBTreeInsertWithPathCompression(next, key, m, l + 1)) @@ @]

RECURSIVE Survivor(_, _, _, _)
\* Of the two rules of a tree, the one that is not deleted: its chain and its match
Survivor(t, key, m, l) ==
  IF t.count = 1 \/ l > Fields
  THEN [chain |-> t.chain,
        match |-> GetMaxMatch(IF Len(t.matches) = 2 THEN PopMatch(t.matches, m) ELSE t.matches)]
  ELSE LET b == IF Cardinality(DOMAIN t.boxes) = 1 THEN CHOOSE b \in DOMAIN t.boxes : TRUE
                ELSE CHOOSE b \in DOMAIN t.boxes : b # key[l]
           s == Survivor(t.boxes[b], key, m, l + 1)
       IN  [s EXCEPT !.chain = <<b>> \o @]

RECURSIVE RBTreeDeleteWithPathCompression(_, _, _, _)
\* An empty tree under a box means that the tree and the box are gone
RBTreeDeleteWithPathCompression(t, key, m, l) ==
  IF l > Fields THEN [t EXCEPT !.count = @ - 1, !.matches = PopMatch(@, m)]
  ELSE IF t.count = 1 THEN EmptyTree
  ELSE IF t.count = 2 THEN LET s == Survivor(t, key, m, l) IN Single(s.chain, s.match)
  ELSE LET next == RBTreeDeleteWithPathCompression(t.boxes[key[l]], key, m, l + 1)
       IN  [t EXCEPT !.count = @ - 1,
              !.boxes = IF next.count = 0
                        THEN [b \in DOMAIN @ \ {key[l]} |-> @[b]]
                        ELSE [@ EXCEPT ![key[l]] = next]]

RECURSIVE RBExactQueryIterativeMod(_, _, _)
\* What a look-up may answer: the value ANY32 is taken to lie in the topmost box
\* of a level, and any box may be the topmost one
RBExactQueryIterativeMod(t, p, l) ==
  IF l > Fields THEN {GetMaxMatch(t.matches)}
  ELSE IF t.count = 1
  THEN {IF \A i \in l .. Fields : Within(p[i], t.chain[i - l + 1])
        THEN GetMaxMatch(t.matches) ELSE NoMatch}
  ELSE LET hit == {b \in DOMAIN t.boxes : Within(p[l], b)}
       IN  IF hit = {} THEN {NoMatch}
           ELSE UNION {RBExactQueryIterativeMod(t.boxes[b], p, l + 1) : b \in hit}

RECURSIVE RBSerializeIntoRules(_, _)
\* The rules of a tree, as their boxes and their matches
RBSerializeIntoRules(t, l) ==
  IF l > Fields \/ t.count = 1
  THEN {<<t.chain, t.matches[i]>> : i \in 1 .. Len(t.matches)}
  ELSE UNION {{<<<<b>> \o r[1], r[2]>> : r \in RBSerializeIntoRules(t.boxes[b], l + 1)}
              : b \in DOMAIN t.boxes}

-----------------------------------------------------------------------------
(* The classifier.                                                           *)

Full == <<0, 2^Bits - 1>>
AnyPrefix == <<0, 0>>

\* ip_range: the addresses of a prefix of len bits
ip_range(ip, len) ==
  LET size == 2^(Bits - len)
      lo == ip - (ip % size)
  IN  <<lo, lo + size - 1>>

\* updk_pdr_to_cls_rule: the source prefix of the flow description
SourcePrefix(pdr) ==
  LET ue == IF pdr.ue = {} THEN AnyPrefix ELSE <<CHOOSE a \in pdr.ue : TRUE, Bits>>
      flow == pdr.flow
  IN  IF flow = <<>> THEN AnyPrefix
      ELSE IF flow[1] = "any" /\ flow[2] = "assigned" THEN (IF pdr.uplink THEN ue ELSE AnyPrefix)
      ELSE IF flow[1] = "any" THEN AnyPrefix
      ELSE IF flow[1] = "assigned" THEN ue
      ELSE pdr.prefix

\* to_cpp_rule: the boxes of the classified fields; lower precedence wins
to_cpp_rule(pdr) ==
  LET sif == IF pdr.uplink THEN 0 ELSE 1
      src == SourcePrefix(pdr)
  IN  [range |-> << <<sif, sif>>,
                    <<pdr.teid, pdr.teid>>,
                    IF pdr.ue = {} THEN Full ELSE ip_range(CHOOSE a \in pdr.ue : TRUE, Bits),
                    IF src[2] = 0 THEN Full ELSE ip_range(src[1], src[2]) >>,
       match |-> [priority |-> MaxPrec - pdr.precedence, descriptor |-> pdr.descriptor]]

Priorities(prs) == {prs[i] : i \in 1 .. Len(prs)}
Highest(prs) == IF prs = <<>> THEN -1
                ELSE CHOOSE p \in Priorities(prs) : \A q \in Priorities(prs) : q <= p
Without(prs, p) == LET i == CHOOSE i \in 1 .. Len(prs) : prs[i] = p
                   IN  SubSeq(prs, 1, i - 1) \o SubSeq(prs, i + 1, Len(prs))

\* An insertion that leaves the trees in the order they are in
NoSort(order, ts) == order

\* InsertionSortMITrees: stable, in decreasing order of the highest priority
InsertionSortMITrees(order, ts) ==
  LET Before(i, j) == \/ ts[order[i]].maxPriority > ts[order[j]].maxPriority
                      \/ ts[order[i]].maxPriority = ts[order[j]].maxPriority /\ i < j
      sorted == SortSeq([i \in 1 .. Len(order) |-> i], Before)
  IN  [i \in 1 .. Len(order) |-> order[sorted[i]]]
-----------------------------------------------------------------------------
Init ==
  /\ mitrees = <<>> /\ trees = <<>> /\ rules = <<>>
  /\ descriptorIndexMap = <<>>

\* OptimizedMITree::TryInsertion on tree t
WithRule(t, r) ==
  [root |-> RBTreeInsertWithPathCompression(t.root, r.range, r.match, 1),
   priorityContainer |-> Append(t.priorityContainer, r.match.priority),
   maxPriority |-> IF r.match.priority > t.maxPriority THEN r.match.priority ELSE t.maxPriority]

NewTree == [root |-> EmptyTree, priorityContainer |-> <<>>, maxPriority |-> -1]

\* The first tree in order that takes the rule, or a new one
InsertRuleReturnDescriptor(pdr) ==
  LET r == to_cpp_rule(pdr)
      fits == {i \in 1 .. Len(mitrees) : RBTreeCanInsert(trees[mitrees[i]].root, r.range, 1)}
      fresh == CHOOSE n \in 1 .. Len(mitrees) + 1 : n \notin DOMAIN trees
      id == IF fits = {} THEN fresh
            ELSE mitrees[CHOOSE i \in fits : \A j \in fits : i <= j]
      old == IF fits = {} THEN NewTree ELSE trees[id]
      ts == (id :> WithRule(old, r)) @@ trees
      order == IF fits = {} THEN Append(mitrees, id) ELSE mitrees
      changed == r.match.priority > old.maxPriority
  IN  /\ \A i \in 1 .. Len(rules) : rules[i][1].match.descriptor # pdr.descriptor
      /\ trees' = ts
      /\ mitrees' = IF fits = {} \/ changed THEN InsertionSortMITrees(order, ts) ELSE order
      /\ rules' = Append(rules, <<r, id>>)
      /\ descriptorIndexMap' = (pdr.descriptor :> (Len(rules) + 1)) @@ descriptorIndexMap

\* OptimizedMITree::Deletion: the priority leaves the container, the rule the tree
WithoutRule(t, r) ==
  LET prs == Without(t.priorityContainer, r.match.priority)
  IN  [root |-> RBTreeDeleteWithPathCompression(t.root, r.range, r.match, 1),
       priorityContainer |-> prs,
       maxPriority |-> IF r.match.priority = t.maxPriority THEN Highest(prs) ELSE t.maxPriority]

\* The rule that moved into the gap keeps its old place in the map
NotReindexed(map, d, moved, i, n) == [k \in DOMAIN map \ {d} |-> map[k]]

\* The map keeps the place of the rule that moved into the gap
Reindexed(map, d, moved, i, n) ==
  LET left == [k \in DOMAIN map \ {d} |-> map[k]]
  IN  IF i < n THEN (moved :> i) @@ left ELSE left

\* The first tree is dropped instead of the last
DropFirst(order) == Tail(order)

\* A tree left empty is dropped: the last one of the order, after the sort
DropLast(order) == SubSeq(order, 1, Len(order) - 1)

DeleteRuleByDescriptor(d) ==
  /\ d \in DOMAIN descriptorIndexMap
  /\ LET i == descriptorIndexMap[d]
         n == Len(rules)
         r == rules[i][1]
         id == rules[i][2]
         t == WithoutRule(trees[id], r)
         ts == [trees EXCEPT ![id] = t]
         changed == r.match.priority = trees[id].maxPriority
         order == IF changed THEN InsertionSortMITrees(mitrees, ts) ELSE mitrees
         gone == t.priorityContainer = <<>>
     IN  /\ trees' = IF gone THEN [k \in DOMAIN ts \ {id} |-> ts[k]] ELSE ts
         /\ mitrees' = IF gone THEN DropLast(order) ELSE order
         /\ rules' = SubSeq([rules EXCEPT ![i] = rules[n]], 1, n - 1)
         /\ descriptorIndexMap' =
              Reindexed(descriptorIndexMap, r.match.descriptor,
                        rules[n][1].match.descriptor, i, n)

Next ==
  \/ \E pdr \in Pdrs : InsertRuleReturnDescriptor(pdr)
  \/ \E pdr \in Pdrs : DeleteRuleByDescriptor(pdr.descriptor)

Spec == Init /\ [][Next]_vars
-----------------------------------------------------------------------------
RECURSIVE Classify(_, _, _)
\* ClassifyAPacketMod from the i-th tree on, with the best match so far
Classify(p, i, best) ==
  IF i > Len(mitrees) \/ (best.priority > trees[mitrees[i]].maxPriority) THEN {best}
  ELSE UNION {Classify(p, i + 1, IF m.priority > best.priority THEN m ELSE best)
              : m \in RBExactQueryIterativeMod(trees[mitrees[i]].root, p, 1)}

ClassifyAPacketMod(p) == Classify(p, 1, NoMatch)

Matching(p) == {rules[i][1].match : i \in
                 {j \in 1 .. Len(rules) : \A f \in 1 .. Fields : Within(p[f], rules[j][1].range[f])}}

\* Whatever PDRs were installed and removed, a packet of a snapshot is
\* classified to a PDR that matches it, of the lowest precedence of those that
\* do, and misses only if none matches (cls_classify_packet)
LowestPrecedenceWins ==
  \A p \in Packets : (\A f \in 1 .. Fields : p[f] # ANY32) =>
     \A m \in ClassifyAPacketMod(p) :
        IF Matching(p) = {} THEN m = NoMatch
        ELSE m \in Matching(p) /\ \A q \in Matching(p) : q.priority <= m.priority

\* The descriptor map names the place of every rule, after any of them was
\* moved into a gap, and a rule is in the tree the vector says (DeleteRule)
RulesAreIndexed ==
  /\ DOMAIN descriptorIndexMap = {rules[i][1].match.descriptor : i \in 1 .. Len(rules)}
  /\ \A i \in 1 .. Len(rules) : descriptorIndexMap[rules[i][1].match.descriptor] = i
  /\ \A id \in DOMAIN trees :
       RBSerializeIntoRules(trees[id].root, 1) =
         {<<rules[i][1].range, rules[i][1].match>> : i \in {j \in 1 .. Len(rules) : rules[j][2] = id}}

\* The trees that are searched are exactly the trees that hold a rule, so the
\* tree freed when its last rule goes is never searched again (DeleteRule)
SearchedTreesAreLive ==
  /\ {mitrees[i] : i \in 1 .. Len(mitrees)} = DOMAIN trees
  /\ \A i, j \in 1 .. Len(mitrees) : mitrees[i] = mitrees[j] => i = j
=============================================================================
