------------------------------- MODULE RbTree -------------------------------
(***************************************************************************)
(* One level of the PartitionSort classifier: the red-black tree of        *)
(* red_black_tree.cpp, with its two sentinels and its parent pointers.     *)
(* The boxes of one level are disjoint (RBTreeCanInsert refuses the rest), *)
(* so a node is named by the rank of its box.                              *)
(***************************************************************************)
EXTENDS Integers, FiniteSets

CONSTANT Keys            \* ranks of the boxes, positive integers

VARIABLES tree, stored   \* stored: history, the boxes inserted and not deleted

vars == <<tree, stored>>

Nil == 0
Root == -1
Nodes == Keys \cup {Nil, Root}
Other(s) == IF s = "left" THEN "right" ELSE "left"
Top(t) == t.kid["left"][Root]

RBTreeCreate == [kid    |-> [s \in {"left", "right"} |-> [n \in Nodes |-> Nil]],
                 parent |-> [n \in Nodes |-> Nil],
                 red    |-> [n \in Nodes |-> FALSE]]

\* The side of its parent on which x hangs
Side(t, x) == IF x = t.kid["left"][t.parent[x]] THEN "left" ELSE "right"

\* A rotation that keeps the parent pointer of the child it hands over
RotateNoParent(t, x, s) ==
  LET o == Other(s)
      y == t.kid[o][x]
      p == t.parent[x]
      t1 == [t EXCEPT !.kid[o][x] = t.kid[s][y],
                      !.kid[Side(t, x)][p] = y,
                      !.parent[y] = p,
                      !.parent[x] = y]
  IN  [t1 EXCEPT !.kid[s][y] = x]

\* LeftRotate (s = "left") and RightRotate (s = "right"): x goes down on side s
Rotate(t, x, s) ==
  LET o == Other(s)
      y == t.kid[o][x]
      inner == t.kid[s][y]
      p == t.parent[x]
      t1 == [t EXCEPT !.kid[o][x] = inner,
                      !.kid[Side(t, x)][p] = y,
                      !.parent[y] = p,
                      !.parent[x] = y]
      t2 == [t1 EXCEPT !.kid[s][y] = x]
  IN  IF inner = Nil THEN t2 ELSE [t2 EXCEPT !.parent[inner] = x]

Paint(t, x, isRed) == [t EXCEPT !.red[x] = isRed]

RECURSIVE InsertFixUp(_, _)
\* The loop of RBTreeInsert and of RBTreeInsertWithPathCompression
InsertFixUp(t, x) ==
  LET p == t.parent[x]
      g == t.parent[p]
      s == Side(t, p)
      y == t.kid[Other(s)][g]
  IN  IF ~t.red[p] THEN Paint(t, Top(t), FALSE)
      ELSE IF t.red[y]
      THEN InsertFixUp(Paint(Paint(Paint(t, p, FALSE), y, FALSE), g, TRUE), g)
      ELSE LET bent == x = t.kid[Other(s)][p]
               x1 == IF bent THEN p ELSE x
               t1 == IF bent THEN Rotate(t, p, s) ELSE t
               p1 == t1.parent[x1]
               g1 == t1.parent[p1]
           IN  InsertFixUp(Rotate(Paint(Paint(t1, p1, FALSE), g1, TRUE), g1, Other(s)), x1)

RECURSIVE Leaf(_, _, _, _)
\* The walk of TreeInsertHelp: the node under which k goes
Leaf(t, k, y, x) ==
  IF x = Nil THEN y
  ELSE Leaf(t, k, x, t.kid[IF x > k THEN "left" ELSE "right"][x])

RECURSIVE Contains(_, _, _)
\* The walk of RBExactQuery and RBTreeDeleteWithPathCompression to a box
Contains(t, k, x) ==
  /\ x # Nil
  /\ \/ x = k
     \/ Contains(t, k, t.kid[IF x > k THEN "left" ELSE "right"][x])

TreeInsertHelp(t, k) ==
  LET y == Leaf(t, k, Root, Top(t))
      s == IF y = Root \/ y > k THEN "left" ELSE "right"
  IN  [t EXCEPT !.kid = [d \in {"left", "right"} |->
                           [@[d] EXCEPT ![k] = Nil, ![y] = IF d = s THEN k ELSE @]],
                !.parent[k] = y,
                !.red[k] = TRUE]

RBTreeInsert(t, k) == InsertFixUp(TreeInsertHelp(t, k), k)

RECURSIVE Leftmost(_, _)
Leftmost(t, y) == IF t.kid["left"][y] = Nil THEN y ELSE Leftmost(t, t.kid["left"][y])
TreeSuccessor(t, x) == Leftmost(t, t.kid["right"][x])

\* A repair that forgets the case of a red brother
RECURSIVE FixUpNoRedBrother(_, _, _)
FixUpNoRedBrother(t, x, root) ==
  IF t.red[x] \/ x = root THEN Paint(t, x, FALSE)
  ELSE LET s == Side(t, x)
           o == Other(s)
           p == t.parent[x]
           w == t.kid[o][p]
       IN  IF ~t.red[t.kid[s][w]] /\ ~t.red[t.kid[o][w]]
           THEN FixUpNoRedBrother(Paint(t, w, TRUE), p, root)
           ELSE LET t1 == IF t.red[t.kid[o][w]] THEN t
                          ELSE Rotate(Paint(Paint(t, t.kid[s][w], FALSE), w, TRUE), w, o)
                    w1 == t1.kid[o][p]
                    t2 == [t1 EXCEPT !.red[w1] = t1.red[p]]
                    t3 == Paint(Paint(t2, p, FALSE), t2.kid[o][w1], FALSE)
                IN  Paint(Rotate(t3, p, s), root, FALSE)

RECURSIVE RBDeleteFixUp(_, _, _)
\* root is the top of the tree on entry: the code reads it once
RBDeleteFixUp(t, x, root) ==
  IF t.red[x] \/ x = root THEN Paint(t, x, FALSE)
  ELSE LET s == Side(t, x)
           o == Other(s)
           p == t.parent[x]
           w0 == t.kid[o][p]
           t1 == IF t.red[w0] THEN Rotate(Paint(Paint(t, w0, FALSE), p, TRUE), p, s) ELSE t
           w == t1.kid[o][p]
       IN  IF ~t1.red[t1.kid[s][w]] /\ ~t1.red[t1.kid[o][w]]
           THEN RBDeleteFixUp(Paint(t1, w, TRUE), p, root)
           ELSE LET t2 == IF t1.red[t1.kid[o][w]] THEN t1
                          ELSE Rotate(Paint(Paint(t1, t1.kid[s][w], FALSE), w, TRUE), w, o)
                    w2 == t2.kid[o][p]
                    t3 == [t2 EXCEPT !.red[w2] = t2.red[p]]
                    t4 == Paint(Paint(t3, p, FALSE), t3.kid[o][w2], FALSE)
                IN  Paint(Rotate(t4, p, s), root, FALSE)

\* y takes the place of z, after the repair
Replace(t, y, z) ==
  LET l == t.kid["left"][z]
      r == t.kid["right"][z]
      p == t.parent[z]
      t1 == [t EXCEPT !.kid["left"][y] = l, !.kid["right"][y] = r,
                      !.parent[y] = p, !.red[y] = t.red[z]]
      t2 == [t1 EXCEPT !.parent[r] = y]
      t3 == [t2 EXCEPT !.parent[l] = y]
  IN  [t3 EXCEPT !.kid[Side(t3, z)][p] = y]

\* The node of a box that is gone holds nothing
Free(t, z) == [t EXCEPT !.kid["left"][z] = Nil, !.kid["right"][z] = Nil,
                        !.parent[z] = Nil, !.red[z] = FALSE]

RBDelete(t, z) ==
  LET y == IF t.kid["left"][z] = Nil \/ t.kid["right"][z] = Nil THEN z
           ELSE TreeSuccessor(t, z)
      x == IF t.kid["left"][y] = Nil THEN t.kid["right"][y] ELSE t.kid["left"][y]
      p == t.parent[y]
      t1 == [t EXCEPT !.parent[x] = p]
      t2 == [t1 EXCEPT !.kid[IF p = Root THEN "left" ELSE Side(t, y)][p] = x]
      t3 == IF t2.red[y] THEN t2 ELSE RBDeleteFixUp(t2, x, Top(t2))
  IN  Free(IF y = z THEN t3 ELSE Replace(t3, y, z), z)
-----------------------------------------------------------------------------
Init == tree = RBTreeCreate /\ stored = {}

\* A box that is there already only takes its rule one level down
Insert(k) ==
  /\ ~Contains(tree, k, Top(tree))
  /\ tree' = RBTreeInsert(tree, k)
  /\ stored' = stored \cup {k}

\* The last rule of the box goes: RBTreeDeleteWithPathCompression drops the node
Delete(k) ==
  /\ Contains(tree, k, Top(tree))
  /\ tree' = RBDelete(tree, k)
  /\ stored' = stored \ {k}

Next == \E k \in Keys : Insert(k) \/ Delete(k)

Spec == Init /\ [][Next]_vars
-----------------------------------------------------------------------------
RECURSIVE Blacks(_, _)
\* Black nodes on a path from x down to Nil; -1 when two paths disagree
Blacks(t, x) ==
  IF x = Nil THEN 0
  ELSE LET l == Blacks(t, t.kid["left"][x])
           r == Blacks(t, t.kid["right"][x])
       IN  IF l = -1 \/ l # r THEN -1 ELSE l + (IF t.red[x] THEN 0 ELSE 1)

\* However boxes come and go, every path of the tree has as many black nodes,
\* no red node has a red child, and the sentinels and the top are black: the
\* look-up of a packet stays logarithmic (RBTreeInsert, RBDelete, RBDeleteFixUp)
TreeIsBalanced ==
  /\ Blacks(tree, Top(tree)) # -1
  /\ ~tree.red[Nil] /\ ~tree.red[Root] /\ ~tree.red[Top(tree)]
  /\ \A k \in stored : tree.red[k] =>
       \A s \in {"left", "right"} : ~tree.red[tree.kid[s][k]]

\* The walk by which packets, insertions and deletions look for a box finds
\* exactly the boxes inserted and not deleted, and the parent pointers the
\* repairs climb by agree with the children
BoxesAreFound ==
  /\ \A k \in Keys : Contains(tree, k, Top(tree)) <=> k \in stored
  /\ \A k \in stored : \A s \in {"left", "right"} :
       LET c == tree.kid[s][k] IN c # Nil => tree.parent[c] = k
=============================================================================
