---------------------------- MODULE Partitioner ----------------------------
(***************************************************************************)
(* SortableRulesetPartitioner and the interval algorithms it rests on: a   *)
(* rule list is cut into buckets that one multi-level tree can hold, by    *)
(* repeated choice of intervals of the largest weight no two of which      *)
(* meet.  The list grows by one rule at a time; the algorithms are         *)
(* functions of it, compared with what they are meant to compute.          *)
(***************************************************************************)
EXTENDS Integers, Sequences, FiniteSets, TLC

CONSTANTS Boxes,     \* the ranges a rule may have, a pair <<low, high>> by field
          Dim,       \* number of fields
          MaxRules,  \* bound on the length of the rule list
          Scale      \* endpoints are perturbed by multiples of 1 / Scale

VARIABLE rules

vars == <<rules>>

ToSet(s) == {s[i] : i \in 1 .. Len(s)}

RECURSIVE WeightOf(_)
WeightOf(S) == IF S = {} THEN 0 ELSE LET w == CHOOSE w \in S : TRUE IN w.weight + WeightOf(S \ {w})

Low(r, f) == r.range[f][1]
High(r, f) == r.range[f][2]
SortBy(s, Less(_, _)) ==
  LET order == SortSeq([i \in 1 .. Len(s) |-> i],
                       LAMBDA i, j : Less(s[i], s[j]) \/ (~Less(s[j], s[i]) /\ i < j))
  IN  [i \in 1 .. Len(s) |-> s[order[i]]]

\* The distinct ranges of a field in order, each with its rules and its weight
CreateUniqueInterval(rs, f) ==
  LET all == SortBy([i \in 1 .. Len(rs) |-> rs[i].range[f]],
                    LAMBDA a, b : a[1] < b[1] \/ (a[1] = b[1] /\ a[2] < b[2]))
      first == SelectSeq([i \in 1 .. Len(all) |-> i], LAMBDA i : i = 1 \/ all[i] # all[i - 1])
      sorted == [i \in 1 .. Len(first) |-> all[first[i]]]
      Of(ival) == SelectSeq(rs, LAMBDA r : r.range[f] = ival)
  IN  [i \in 1 .. Len(sorted) |->
         [low |-> sorted[i][1], high |-> sorted[i][2], rules |-> Of(sorted[i]),
          weight |-> Len(Of(sorted[i])) + 1]]

RECURSIVE Overlap(_, _, _, _)
Overlap(starts, ends, current, max) ==
  IF starts = <<>> \/ ends = <<>> THEN max
  ELSE IF starts[1] <= ends[1]
       THEN Overlap(Tail(starts), ends, current + 1, IF current + 1 > max THEN current + 1 ELSE max)
       ELSE Overlap(starts, Tail(ends), current - 1, max)

\* Intervals that only share an endpoint are taken to be apart
TouchingApart(lows, highs) ==
  IF lows = <<>> THEN 0
  ELSE Overlap(SortBy([i \in 1 .. Len(lows) |-> lows[i] + 1], LAMBDA a, b : a < b),
               SortBy(highs, LAMBDA a, b : a < b), 0, -1)

\* How many intervals meet in one point at most
GetMaxOverlap(lows, highs) ==
  IF lows = <<>> THEN 0
  ELSE Overlap(SortBy(lows, LAMBDA a, b : a < b), SortBy(highs, LAMBDA a, b : a < b), 0, -1)

\* Endpoints that coincide stay where they are
NotPulledApart(ends) == ends

\* The endpoints of intervals sorted by their high end, ties pulled apart: a
\* left end moves left and a right end right, each by one step more than the last
PulledApart(ends) ==
  [k \in 1 .. Len(ends) |->
     LET ties == {j \in 1 .. Len(ends) : ends[j].val = ends[k].val}
         same == {j \in ties : j <= k /\ ends[j].right = ends[k].right}
         step == IF Cardinality(ties) = 1 THEN 0 ELSE Cardinality(same)
     IN  [ends[k] EXCEPT !.val = @ * Scale + (IF ends[k].right THEN step ELSE 0 - step)]]

Endpoints(sorted) ==
  LET raw == [k \in 1 .. 2 * Len(sorted) |->
                LET i == (k + 1) \div 2
                IN  [val |-> IF k % 2 = 1 THEN sorted[i].high ELSE sorted[i].low,
                     right |-> k % 2 = 1, id |-> i]]
      ByVal(e, d) == e.val < d.val
  IN  SortBy(PulledApart(SortBy(raw, ByVal)), ByVal)

\* One endpoint of the sweep: chi is the best weight of a set that ends with an
\* interval, max the best weight of a set that has ended
Sweep(sorted, state, e) ==
  IF ~e.right THEN [state EXCEPT !.chi[e.id] = state.max + sorted[e.id].weight]
  ELSE IF state.chi[e.id] > state.max
       THEN [state EXCEPT !.max = state.chi[e.id], !.last = e.id] ELSE state

RECURSIVE SweepAll(_, _, _)
SweepAll(sorted, state, ends) ==
  IF ends = <<>> THEN state ELSE SweepAll(sorted, Sweep(sorted, state, ends[1]), Tail(ends))

RECURSIVE Backtrack(_, _, _, _, _)
Backtrack(sorted, chi, j, last, left) ==
  IF j = 0 THEN {}
  ELSE IF chi[j] = left /\ sorted[j].high < sorted[last].low
       THEN {j} \cup Backtrack(sorted, chi, j - 1, j, left - sorted[j].weight)
       ELSE Backtrack(sorted, chi, j - 1, last, left)

\* What the sweep leads back to, and its weight
LedBack(sorted, swept) ==
  LET ids == {swept.last} \cup Backtrack(sorted, swept.chi, swept.last - 1, swept.last,
                                         swept.max - sorted[swept.last].weight)
  IN  [set |-> {sorted[i] : i \in ids}, weight |-> swept.max]

ChooseFrom(sorted) ==
  LedBack(sorted, SweepAll(sorted, [chi |-> [i \in 1 .. Len(sorted) |-> 0], max |-> 0, last |-> 1],
                           Endpoints(sorted)))

\* The chosen intervals, and their weight
MWISIntervals(I) == ChooseFrom(SortBy(I, LAMBDA a, b : a.high < b.high))
-----------------------------------------------------------------------------
\* A partition is a set of parts, a part a sequence of rules
MWISonPartition(part, f) == MWISIntervals(CreateUniqueInterval(part, f))

Joined(cuts) ==
  [parts |-> UNION {{w.rules : w \in c.set} : c \in cuts}, weight |-> WeightOf(cuts)]

MWISonEntirePartition(parts, f) == Joined({MWISonPartition(p, f) : p \in parts})

\* The parts of the first field are kept
KeepsParts(cut) ==
  [parts |-> cut.parts,
   fields |-> Append(cut.fields, CHOOSE f \in 1 .. Dim : f \notin ToSet(cut.fields))]

\* The field of the largest weight among those not taken, the last one of a tie
BestFieldAndConfiguration(cut) ==
  LET left == {f \in 1 .. Dim : f \notin ToSet(cut.fields)}
      Best(m) == CHOOSE f \in left : \A g \in left :
                   m[f].weight > m[g].weight \/ (m[f].weight = m[g].weight /\ f >= g)
      By(m) == [parts |-> m[Best(m)].parts, fields |-> Append(cut.fields, Best(m))]
  IN  By([f \in left |-> MWISonEntirePartition(cut.parts, f)])

RECURSIVE SelectFields(_, _)
SelectFields(cut, n) == IF n = 0 THEN cut ELSE SelectFields(BestFieldAndConfiguration(cut), n - 1)

GreedyFieldSelection(rs) ==
  LET cut == SelectFields([parts |-> {rs}, fields |-> <<>>], Dim)
  IN  [rules |-> UNION {ToSet(p) : p \in cut.parts}, fields |-> cut.fields]

RECURSIVE SortableRulesetPartitioningGFS(_)
\* The rules that are left are cut again, without those of the last bucket
SortableRulesetPartitioningGFS(rs) ==
  IF rs = <<>> THEN <<>>
  ELSE LET b == GreedyFieldSelection(rs)
       IN  <<b>> \o SortableRulesetPartitioningGFS(SelectSeq(rs, LAMBDA r : r \notin b.rules))

RECURSIVE IndependentRules(_, _, _)
\* MaximumIndependentSetGivenFieldRecursion: inner fields first, then the outer
IndependentRules(rs, fields, depth) ==
  LET wi == CreateUniqueInterval(rs, fields[depth])
      Inner(w) == LET kept == IndependentRules(w.rules, fields, depth + 1)
                  IN  [w EXCEPT !.rules = kept, !.weight = Len(kept) + 1]
      opt == IF depth < Dim THEN [i \in 1 .. Len(wi) |-> Inner(wi[i])] ELSE wi
  IN  SelectSeq(rs, LAMBDA r : \E w \in MWISIntervals(opt).set : r \in ToSet(w.rules))

\* MaximumIndependentSetAllFields: the first order of fields with the most rules
MaximumIndependentSetAllFields(rs) ==
  LET orders == {o \in [1 .. Dim -> 1 .. Dim] : \A i, j \in 1 .. Dim : o[i] = o[j] => i = j}
      Best(kept) == CHOOSE o \in orders : \A p \in orders : Len(kept[o]) >= Len(kept[p])
      By(kept) == [rules |-> ToSet(kept[Best(kept)]), fields |-> Best(kept)]
  IN  By([o \in orders |-> IndependentRules(rs, o, 1)])

RECURSIVE MaximumIndepdenentSetPartitioning(_)
MaximumIndepdenentSetPartitioning(rs) ==
  IF rs = <<>> THEN <<>>
  ELSE LET b == MaximumIndependentSetAllFields(rs)
       IN  <<b>> \o MaximumIndepdenentSetPartitioning(SelectSeq(rs, LAMBDA r : r \notin b.rules))

\* IsThisPartitionSortable: the distinct ranges of the field do not meet
IsThisPartitionSortable(part, f) ==
  LET wi == CreateUniqueInterval(part, f)
  IN  GetMaxOverlap([i \in 1 .. Len(wi) |-> wi[i].low], [i \in 1 .. Len(wi) |-> wi[i].high]) = 1

RECURSIVE SortableFrom(_, _, _)
SortableFrom(parts, fields, i) ==
  IF i > Len(fields) THEN TRUE
  ELSE /\ \A p \in parts : IsThisPartitionSortable(p, fields[i])
       /\ SortableFrom(UNION {LET wi == CreateUniqueInterval(p, fields[i])
                              IN  {wi[k].rules : k \in 1 .. Len(wi)} : p \in parts}, fields, i + 1)

IsBucketReallySortable(rs, fields) == SortableFrom({rs}, fields, 1)
-----------------------------------------------------------------------------
Max0(S) == IF S = {} THEN 0 ELSE CHOOSE x \in S : \A y \in S : x >= y

\* Equal boxes are counted each
KeepsDuplicates(rs) == rs

\* The first rule of each box
RedundancyRemoval(rs) ==
  SelectSeq(rs, LAMBDA r : ~\E i \in 1 .. Len(rs) : rs[i].range = r.range /\ rs[i].id < r.id)

RECURSIVE Sweeps(_, _)
\* ComputeMaxIntersectionRecursive: at every endpoint of the field, the rules
\* over it before and after those that end there are dropped
Sweeps(rs, depth) ==
  IF depth = 1
  THEN LET kept == RedundancyRemoval(rs)
       IN  GetMaxOverlap([i \in 1 .. Len(kept) |-> kept[i].range[1][1]],
                         [i \in 1 .. Len(kept) |-> kept[i].range[1][2]])
  ELSE LET starts == {Low(r, depth) : r \in ToSet(rs)}
           ends == {High(r, depth) : r \in ToSet(rs)}
           With(q) == SelectSeq(rs, LAMBDA r : Low(r, depth) <= q /\ q <= High(r, depth))
           After(q) == SelectSeq(With(q), LAMBDA r : High(r, depth) > q)
       IN  Max0({Sweeps(With(q), depth - 1) : q \in starts}
                \cup {Sweeps(After(q), depth - 1) : q \in ends})

ComputeMaxIntersection(rs) == Sweeps(rs, Dim)
-----------------------------------------------------------------------------
Init == rules = <<>>

AddRule(box) ==
  /\ Len(rules) < MaxRules
  /\ rules' = Append(rules, [id |-> Len(rules) + 1, range |-> box])

Next == \E box \in Boxes : AddRule(box)

Spec == Init /\ [][Next]_vars
-----------------------------------------------------------------------------
Disjoint(S) == \A v, w \in S : v # w => v.high < w.low \/ w.high < v.low

\* The intervals MWISIntervals picks do not meet, weigh what it reports, and no
\* other such choice weighs more, however many endpoints coincide
MwisIsMaximal ==
  \A f \in 1 .. Dim : rules # <<>> =>
    LET I == CreateUniqueInterval(rules, f)
        m == MWISIntervals(I)
    IN  /\ Disjoint(m.set) /\ WeightOf(m.set) = m.weight
        /\ \A S \in SUBSET ToSet(I) : Disjoint(S) => WeightOf(S) <= m.weight

Apart(r, s, f) == High(r, f) < Low(s, f) \/ High(s, f) < Low(r, f)

\* The buckets of either partitioning hold every rule once, and in the order of
\* fields of a bucket two of its rules are apart in the first field they differ in
BucketsAreSortable ==
  \A buckets \in {SortableRulesetPartitioningGFS(rules), MaximumIndepdenentSetPartitioning(rules)} :
    /\ UNION {buckets[i].rules : i \in 1 .. Len(buckets)} = ToSet(rules)
    /\ \A i, j \in 1 .. Len(buckets) : i # j => buckets[i].rules \cap buckets[j].rules = {}
    /\ \A i \in 1 .. Len(buckets), r, s \in ToSet(rules) :
         {r, s} \subseteq buckets[i].rules /\ r.range # s.range =>
           LET k == CHOOSE k \in 1 .. Dim :
                      /\ r.range[buckets[i].fields[k]] # s.range[buckets[i].fields[k]]
                      /\ \A l \in 1 .. k - 1 : r.range[buckets[i].fields[l]] = s.range[buckets[i].fields[l]]
           IN  Apart(r, s, buckets[i].fields[k])
    /\ \A i \in 1 .. Len(buckets) :
         IsBucketReallySortable(SelectSeq(rules, LAMBDA r : r \in buckets[i].rules), buckets[i].fields)

Points == {r.range[f][e] : r \in ToSet(rules), f \in 1 .. Dim, e \in 1 .. 2}

\* The sweep over all fields finds the largest number of distinct boxes that
\* share a point
MaxIntersectionIsExact ==
  ComputeMaxIntersection(rules) =
    Max0({Cardinality({b \in {r.range : r \in ToSet(rules)} :
             \A f \in 1 .. Dim : b[f][1] <= p[f] /\ p[f] <= b[f][2]}) : p \in [1 .. Dim -> Points]})
=============================================================================
