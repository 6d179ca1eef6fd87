----------------------------- MODULE TupleSpace -----------------------------
(***************************************************************************)
(* TupleSpaceSearch and PriorityTupleSpaceSearch, the two other classifier *)
(* backends a build may select.  Rules with the same prefix lengths share  *)
(* a tuple, which is a hash map from the prefixes to the rules; a packet   *)
(* is looked up in every tuple, by decreasing maxPriority in the second    *)
(* variant, which stops early.  The map of a tuple is what Cmap promises:  *)
(* cmap_find gives the nodes of a hash, the newest first.                  *)
(***************************************************************************)
EXTENDS Integers, Sequences, FiniteSets, TLC

CONSTANTS Rules,     \* records: desc, priority, value and length by field
          Packets,   \* functions from fields to values of Bits bits
          Bits,
          Hash(_),   \* the hash of a sequence of values
          Builds     \* records: prioritised, dims, deletes

VARIABLES build, all_tuples, order, desc_map, rules

vars == <<build, all_tuples, order, desc_map, rules>>

Elements(s) == {s[i] : i \in 1 .. Len(s)}
Masked(v, len) == (v \div 2^(Bits - len)) * 2^(Bits - len)

KeyRulePrefix(r) == [i \in 1 .. Len(build.dims) |-> r.length[build.dims[i]]]
HashRule(r) == Hash([i \in 1 .. Len(build.dims) |-> r.value[build.dims[i]]])
HashPacketUnmasked(key, p) == Hash([i \in 1 .. Len(build.dims) |-> p[build.dims[i]]])
HashPacket(key, p) ==
  Hash([i \in 1 .. Len(build.dims) |-> Masked(p[build.dims[i]], key[i])])

MatchesPacket(r, p) == \A f \in DOMAIN p : Masked(p[f], r.length[f]) = r.value[f]

cmap_find(key, h) == SelectSeq(all_tuples[key].map, LAMBDA r : HashRule(r) = h)

NoMatch == [priority |-> -1, descriptor |-> 0]

RECURSIVE BestOf(_, _, _)
BestOf(nodes, p, best) ==
  IF nodes = <<>> THEN best
  ELSE BestOf(Tail(nodes), p,
              IF MatchesPacket(nodes[1], p) /\ nodes[1].priority > best.priority
              THEN [priority |-> nodes[1].priority, descriptor |-> nodes[1].desc] ELSE best)

\* The best rule of a tuple for a packet
FindMatchPacketMod(key, p) == BestOf(cmap_find(key, HashPacket(key, p)), p, NoMatch)

RECURSIVE Search(_, _, _)
Search(keys, p, best) ==
  IF keys = <<>> \/ (build.prioritised /\ best.priority > all_tuples[keys[1]].maxPriority)
  THEN best
  ELSE LET m == FindMatchPacketMod(keys[1], p)
       IN  Search(Tail(keys), p, IF m.priority > best.priority THEN m ELSE best)

\* The search of all tuples, that of the second variant in its sorted order
ClassifyAPacketMod(p) == Search(order, p, NoMatch)

MaxOf(S) == IF S = {} THEN -1 ELSE CHOOSE x \in S : \A y \in S : x >= y
Before(tuples, k, l) == tuples[k].maxPriority > tuples[l].maxPriority

KeepsVector(tuples, keys) == keys

\* The tuples by decreasing priority of their best rule
RetainInvaraintOfPriorityVector(tuples, keys) ==
  SortSeq(keys, LAMBDA k, l : Before(tuples, k, l))
-----------------------------------------------------------------------------
Init ==
  /\ build \in Builds
  /\ all_tuples = <<>> /\ order = <<>> /\ desc_map = <<>> /\ rules = <<>>

\* InsertRule of either variant: the tuple is found or made, and the vector of
\* tuples is sorted again when the largest priority of one has changed
InsertRule(r) ==
  LET key == KeyRulePrefix(r)
      old == key \in DOMAIN all_tuples
      max == IF old THEN all_tuples[key].maxPriority ELSE -1
      tuple == [map |-> <<r>> \o (IF old THEN all_tuples[key].map ELSE <<>>),
                maxPriority |-> IF r.priority > max THEN r.priority ELSE max]
      tuples == (key :> tuple) @@ all_tuples
      keys == IF old THEN order ELSE Append(order, key)
  IN  /\ r.desc \notin DOMAIN desc_map
      /\ all_tuples' = tuples
      /\ order' = IF build.prioritised /\ (~old \/ r.priority > max)
                  THEN RetainInvaraintOfPriorityVector(tuples, keys) ELSE keys
      /\ desc_map' = (r.desc :> [tuple |-> key, node |-> r]) @@ desc_map
      /\ rules' = Append(rules, r)
      /\ UNCHANGED build

PopBack(s, i) == SubSeq(s, 1, Len(s) - 1)

\* The last element moves to the place of the removed one
SwapOut(s, i) == [k \in 1 .. Len(s) - 1 |-> IF k = i THEN s[Len(s)] ELSE s[k]]

\* DeleteRuleByDescriptor of either variant
DeleteRuleByDescriptor(desc) ==
  LET key == desc_map[desc].tuple
      map == SelectSeq(all_tuples[key].map, LAMBDA n : n # desc_map[desc].node)
      \* the multiset of priorities loses one copy
      tuple == [map |-> map, maxPriority |-> MaxOf({n.priority : n \in Elements(map)})]
      i == CHOOSE k \in 1 .. Len(rules) : rules[k].desc = desc
  IN  /\ build.deletes
      /\ desc \in DOMAIN desc_map
      /\ desc_map' = [d \in DOMAIN desc_map \ {desc} |-> desc_map[d]]
      /\ IF map = <<>>
         THEN /\ all_tuples' = [k \in DOMAIN all_tuples \ {key} |-> all_tuples[k]]
              /\ order' = SelectSeq(order, LAMBDA k : k # key)
         ELSE all_tuples' = [all_tuples EXCEPT ![key] = tuple] /\ UNCHANGED order
      /\ rules' = SwapOut(rules, i)
      /\ UNCHANGED build

Next ==
  \/ \E r \in Rules : InsertRule(r)
  \/ \E d \in {r.desc : r \in Rules} : DeleteRuleByDescriptor(d)

Spec == Init /\ [][Next]_vars
-----------------------------------------------------------------------------
\* A look-up returns the largest priority of the rules that match, and a rule
\* that has it: the hash of a masked packet is that of the rules it may match,
\* and the search never stops before a better tuple
BestRuleIsFound ==
  \A p \in Packets :
    LET matching == {r \in Elements(rules) : MatchesPacket(r, p)}
        m == ClassifyAPacketMod(p)
    IN  /\ m.priority = MaxOf({r.priority : r \in matching})
        /\ matching # {} => \E r \in matching : r.desc = m.descriptor /\ r.priority = m.priority

\* The list of rules kept for monitoring, the index by descriptor and the tuples
\* hold the same rules, once each, and no tuple is empty
RuleListMirrorsTuples ==
  /\ Len(rules) = Cardinality(Elements(rules))
  /\ Elements(rules) = {desc_map[d].node : d \in DOMAIN desc_map}
  /\ Elements(rules) = UNION {Elements(all_tuples[k].map) : k \in DOMAIN all_tuples}
  /\ Elements(order) = DOMAIN all_tuples /\ Len(order) = Cardinality(DOMAIN all_tuples)
  /\ \A k \in DOMAIN all_tuples : all_tuples[k].map # <<>>
=============================================================================
