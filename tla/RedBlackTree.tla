----------------------------- MODULE RedBlackTree -----------------------------
(* The red-black tree of xo-ordinaltree, with subtree sizes and partial sums. A    *)
(* node is the key it holds: erase exchanges the places of two nodes and never      *)
(* their contents. A tree is its nodes and the root pointer; operators take a tree  *)
(* and give the tree after the assignments of the code, parent pointers included.   *)
EXTENDS Integers, Sequences, FiniteSets

CONSTANTS TreeKey,     \* keys, positive
          ValueOf,     \* ValueOf[k]: the values that may be stored under k
          SizeLimit,   \* 2^64 in the code: size_ wraps around
          MaxIndexed   \* bound: nodes made by operator[] before a clear

ASSUME TreeAssumption ==
  /\ TreeKey \subseteq Nat \ {0} /\ IsFiniteSet(TreeKey)
  /\ ValueOf \in [TreeKey -> SUBSET Nat]
  /\ MaxIndexed \in Nat /\ SizeLimit \in Nat /\ SizeLimit > Cardinality(TreeKey) + MaxIndexed

NoKey == 0     \* a null pointer
NoSum == -1    \* SumReduce::nil, minus infinity
Left == 0
Right == 1

VARIABLES tree,        \* [root, n]: root_ and the nodes
          tree_size_,  \* size_
          tree_fault,  \* a null pointer is followed: nothing comes after it
          held,        \* history: the keys and values that are in the tree
          indexed      \* history: nodes made by operator[] since the last clear

treeVars == <<tree, tree_size_, tree_fault, held, indexed>>

Unused == [red |-> TRUE, size |-> 0, value |-> 0, r1 |-> NoSum, r2 |-> NoSum,
           parent |-> NoKey, child |-> [d \in {Left, Right} |-> NoKey]]
EmptyTree == [root |-> NoKey, n |-> [k \in TreeKey |-> Unused]]

Keys0 == TreeKey \cup {NoKey}
Dirs == {Left, Right}
Nodes == [red: BOOLEAN, size: Int, value: Int, r1: Int, r2: Int, parent: Keys0, child: [Dirs -> Keys0]]
Trees == [root: Keys0, n: [TreeKey -> Nodes]]

\* Where a loop from the state s ends that has no more iterations than the tree has
\* levels; step keeps a state in which the loop ends.
Loop(step, s) ==
  LET last == Cardinality(TreeKey) + 1
      at[i \in 0 .. last] == IF i = 0 THEN s ELSE step[at[i - 1]]
  IN  at[last]

TreeInit ==
  tree = EmptyTree /\ tree_size_ = 0 /\ tree_fault = "none" /\ held = <<>> /\ indexed = 0

-----------------------------------------------------------------------------
(* Node. *)

Red(T, x) == x # NoKey /\ T.n[x].red
Parent(T, x) == T.n[x].parent
Child(T, x, d) == T.n[x].child[d]
Other(d) == 1 - d
Paint(T, x, red) == [T EXCEPT !.n[x].red = red]
DirOf(T, p, x) == IF p # NoKey /\ Child(T, p, Right) = x THEN Right ELSE Left
RedViolation(T, x) == Red(T, x) /\ \E d \in {Left, Right}: Red(T, Child(T, x, d))

SetParent(T, x, p) == IF x = NoKey THEN T ELSE [T EXCEPT !.n[x].parent = p]

\* assign_child_reparent: an old child that was given another parent keeps it
Disown(T, x, d) ==
  LET old == Child(T, x, d) IN
  IF old # NoKey /\ Parent(T, old) = x THEN SetParent(T, old, NoKey) ELSE T
AssignChild(T, x, d, y) == SetParent([Disown(T, x, d) EXCEPT !.n[x].child[d] = y], y, x)

ReplaceChild(T, p, x, y) == AssignChild(T, p, DirOf(T, p, x), y)

\* replace x as a child of p, or as the root, which has no parent
Replace(T, p, x, y) ==
  IF p # NoKey THEN ReplaceChild(T, p, x, y) ELSE SetParent([T EXCEPT !.root = y], y, NoKey)

\* SumReduce::combine: a sum of nothing is left out
Plus(a, b) == IF a = NoSum THEN b ELSE IF b = NoSum THEN a ELSE a + b

TreeSize(T, x) == IF x = NoKey THEN 0 ELSE T.n[x].size
SumOf(T, x) == IF x = NoKey THEN NoSum ELSE T.n[x].r2

\* local_recalc_size
Recalc(T, x) ==
  LET l == Child(T, x, Left)
      r == Child(T, x, Right)
      r1 == Plus(SumOf(T, l), T.n[x].value)
  IN  [T EXCEPT !.n[x].size = 1 + TreeSize(T, l) + TreeSize(T, r),
                !.n[x].r1 = r1, !.n[x].r2 = Plus(r1, SumOf(T, r))]

\* fixup_ancestor_size
RecalcUp(T, x) ==
  Loop([s \in [T: Trees, x: Keys0] |->
          IF s.x = NoKey THEN s ELSE [T |-> Recalc(s.T, s.x), x |-> Parent(s.T, s.x)]],
       [T |-> T, x |-> x]).T

Rotate_top_first(T, d, a) ==
  LET b == Child(T, a, Other(d))
      T1 == AssignChild(AssignChild(T, a, Other(d), Child(T, b, d)), b, d, a)
  IN  Replace(Recalc(Recalc(T1, b), a), Parent(T, a), a, b)

\* rotate: the lower of the two is recalculated first
Rotate(T, d, a) ==
  LET b == Child(T, a, Other(d))
      T1 == Recalc(AssignChild(T, a, Other(d), Child(T, b, d)), a)
      T2 == Recalc(AssignChild(T1, b, d, a), b)
  IN  Replace(T2, Parent(T, a), a, b)

-----------------------------------------------------------------------------
(* Lookups. *)

Side(k, x) == IF k < x THEN Left ELSE Right

\* where the search for k from x ends: at k, or at the node that would be its parent
Find(T, x, k) ==
  Loop([y \in Keys0 |-> IF y \in {NoKey, k} \/ Child(T, y, Side(k, y)) = NoKey THEN y
                        ELSE Child(T, y, Side(k, y))], x)

\* find_leftmost, find_rightmost
Extreme(T, x, d) ==
  Loop([y \in Keys0 |-> IF y = NoKey \/ Child(T, y, d) = NoKey THEN y ELSE Child(T, y, d)], x)

\* the nearest ancestor of x that has x on its side d
Ancestor(T, x, d) ==
  Parent(T, Loop([y \in TreeKey |-> LET p == Parent(T, y) IN
                                    IF p = NoKey \/ Child(T, p, d) = y THEN y ELSE p], x))

\* next_inorder_node (d = Right), prev_inorder_node (d = Left)
Neighbour(T, x, d) ==
  IF Child(T, x, d) # NoKey THEN Extreme(T, Child(T, x, d), Other(d)) ELSE Ancestor(T, x, Other(d))

\* find_ith
Ith(T, x, i) ==
  Loop([s \in Keys0 \X Nat |->
          LET y    == s[1]
              j    == s[2]
              left == TreeSize(T, Child(T, y, Left))
          IN  CASE y = NoKey \/ j = left -> s
                [] y # NoKey /\ j < left -> <<Child(T, y, Left), j>>
                [] y # NoKey /\ j > left -> <<IF j < T.n[y].size THEN Child(T, y, Right) ELSE NoKey,
                                             j - (left + 1)>>],
       <<x, i>>)[1]

\* find_glb_aux: the best lower bound so far is h
Glb(T, x, h, k, closed) ==
  Loop([s \in Keys0 \X Keys0 |->
          LET y == s[1] IN
          CASE y = NoKey -> s
            [] y # NoKey /\ y < k -> <<Child(T, y, Right), y>>
            [] y = k /\ closed -> <<NoKey, y>>
            [] y > k \/ (y = k /\ ~closed) -> <<Child(T, y, Left), s[2]>>],
       <<x, h>>)[2]

ReduceLub(T, x, k, closed, sum) ==
  Loop([s \in Keys0 \X Int |->
          LET y == s[1] IN
          IF y = NoKey THEN s
          ELSE IF y < k \/ (closed /\ y = k) THEN <<Child(T, y, Right), Plus(s[2], T.n[y].r1)>>
          ELSE <<Child(T, y, Left), s[2]>>],
       <<x, sum>>)[2]

\* find_sum_glb
SumGlb(T, x, y) ==
  Loop([s \in Keys0 \X Int |->
          LET z == s[1] IN
          IF z = NoKey THEN s
          ELSE IF s[2] <= SumOf(T, Child(T, z, Left)) THEN <<Child(T, z, Left), s[2]>>
          ELSE IF s[2] <= T.n[z].r1 \/ Child(T, z, Right) = NoKey THEN s
          ELSE <<Child(T, z, Right), s[2] - T.n[z].r1>>],
       <<x, y>>)[1]

-----------------------------------------------------------------------------
(* Insertion. *)

\* the loop of fixup_red_shape, for g and its child p on side d: it climbs past a red g
\* that violates, and past the red children p and u of g
RedStep(T, d, g, p) ==
  LET up(T1) == [T |-> T1, d |-> DirOf(T1, Parent(T1, g), g), g |-> Parent(T1, g), p |-> g]
      u == Child(T, g, Other(d))
  IN  IF g # NoKey /\ RedViolation(T, g) THEN up(T)
      ELSE IF g # NoKey /\ RedViolation(T, p) /\ Red(T, u)
      THEN up(Paint(Paint(Paint(T, g, TRUE), p, FALSE), u, FALSE))
      ELSE [T |-> T, d |-> d, g |-> g, p |-> p]

\* how fixup_red_shape ends
RepairRed(T, d, g, p) ==
  LET s == Child(T, p, Other(d))
      T2 == IF Red(T, s) THEN Rotate(T, d, p) ELSE T
      top == IF Red(T, s) THEN s ELSE p
  IN  IF ~RedViolation(T, p) THEN T
      ELSE IF g = NoKey THEN Paint(T, p, FALSE)
      ELSE Rotate(Paint(Paint(T2, top, FALSE), g, TRUE), Other(d), g)

\* fixup_red_shape
FixRed(T, d, g, p) ==
  LET s == Loop([s \in [T: Trees, d: Dirs, g: Keys0, p: Keys0] |-> RedStep(s.T, s.d, s.g, s.p)],
                [T |-> T, d |-> d, g |-> g, p |-> p])
  IN  RepairRed(s.T, s.d, s.g, s.p)

\* insert_aux
InsertNode(T, k, v, replace) ==
  LET at == Find(T, T.root, k)
      leaf == [Unused EXCEPT !.size = 1, !.value = v, !.r1 = v, !.r2 = v]
      T1 == [T EXCEPT !.n[k] = leaf]
      d == Side(k, at)
  IN  IF at = NoKey THEN [Paint(T1, k, FALSE) EXCEPT !.root = k]
      ELSE IF at = k THEN RecalcUp(IF replace THEN [T EXCEPT !.n[k].value = v] ELSE T, k)
      ELSE FixRed(RecalcUp(AssignChild(T1, at, d, k), at), d, at, k)

-----------------------------------------------------------------------------
(* Removal. *)

Promote_keeps_red(T, p, d) ==
  LET s == Child(T, p, Other(d))
  IN  [Rotate(T, d, p) EXCEPT !.n[s].red = T.n[p].red, !.n[p].red = FALSE]

\* case 6: the far nephew is red, the sibling takes the place and colour of p
Promote(T, p, d) ==
  LET s == Child(T, p, Other(d))
      far == Child(T, s, Other(d))
      T1 == [Rotate(T, d, p) EXCEPT !.n[s].red = T.n[p].red, !.n[p].red = FALSE]
  IN  Paint(T1, far, FALSE)

\* cases 4 to 6: paths through the child of p on side d lack a black node
Restore(T, p, d) ==
  LET s == Child(T, p, Other(d))
      near == Child(T, s, d)
      far == Child(T, s, Other(d))
  IN  IF Red(T, p) /\ ~Red(T, near) /\ ~Red(T, far)
      THEN Paint(Paint(T, p, FALSE), s, TRUE)
      ELSE IF ~Red(T, far)
      THEN Promote(Paint(Paint(Rotate(T, Other(d), s), near, FALSE), s, TRUE), p, d)
      ELSE Promote(T, p, d)

\* the loop of remove_black_leaf: x is the child of p on side d; it climbs as long as
\* all nodes around p are black
BlackStep(T, x, p, d) ==
  LET s == Child(T, p, Other(d))
      black == \A y \in {p, s, Child(T, s, Left), Child(T, s, Right)}: ~Red(T, y)
  IN  IF p # NoKey /\ black
      THEN [T |-> Paint(T, s, TRUE), x |-> p, p |-> Parent(T, p), d |-> DirOf(T, Parent(T, p), p)]
      ELSE [T |-> T, x |-> x, p |-> p, d |-> d]

\* cases 3 to 6, or nothing below the root is left to repair
RepairBlack(T, x, p, d) ==
  LET s == Child(T, p, Other(d))
  IN  IF p = NoKey THEN [T EXCEPT !.root = x]
      ELSE IF Red(T, s)
      THEN Restore(Paint(Paint(Rotate(T, d, p), p, TRUE), s, FALSE), p, d)
      ELSE Restore(T, p, d)

\* remove_black_leaf, when the leaf is gone
Rebalance(T, x, p, d) ==
  LET s == Loop([s \in [T: Trees, x: Keys0, p: Keys0, d: Dirs] |-> BlackStep(s.T, s.x, s.p, s.d)],
                [T |-> T, x |-> x, p |-> p, d |-> d])
  IN  RepairBlack(s.T, s.x, s.p, s.d)

\* erase_1child_aux, remove_black_leaf: x has at most one child
EraseOneChild(T, x) ==
  LET p == Parent(T, x)
      d == DirOf(T, p, x)
      c == IF Child(T, x, Left) # NoKey THEN Child(T, x, Left) ELSE Child(T, x, Right)
      T1 == RecalcUp(Replace(IF c = NoKey THEN T ELSE Paint(T, c, FALSE), p, x, c), p)
      T2 == IF p # NoKey /\ c = NoKey /\ ~Red(T, x) THEN Rebalance(T1, NoKey, p, d) ELSE T1
  IN  [T2 EXCEPT !.n[x] = Unused]

SwapColorSize(T, x, y) ==
  [T EXCEPT !.n[x].red = T.n[y].red, !.n[y].red = T.n[x].red,
            !.n[x].size = T.n[y].size, !.n[y].size = T.n[x].size]

\* swap_locations, of a node and one below it that is not its child
SwapLocations(T, x, y) ==
  LET px == Parent(T, x)
      py == Parent(T, y)
      T1 == IF px = NoKey THEN T ELSE ReplaceChild(T, px, x, y)
      T2 == SwapColorSize(IF py = NoKey THEN T1 ELSE ReplaceChild(T1, py, y, x), x, y)
      T3 == AssignChild(AssignChild(T2, x, Left, Child(T2, y, Left)), x, Right, Child(T2, y, Right))
  IN  AssignChild(AssignChild(T3, y, Left, Child(T2, x, Left)), y, Right, Child(T2, x, Right))

\* the node before x, which is its left child, and x change places
SwapWithChild(T, x, r) ==
  LET p == Parent(T, x)
      T1 == IF p = NoKey THEN T ELSE ReplaceChild(T, p, x, r)
      T2 == AssignChild(AssignChild(T1, r, Left, x), r, Right, Child(T, x, Right))
      T3 == AssignChild(AssignChild(T2, x, Left, Child(T, r, Left)), x, Right, NoKey)
  IN  SwapColorSize(T3, r, x)

\* erase_aux of a node that is there: its place is taken by the one before it
EraseNode(T, x) ==
  LET l == Child(T, x, Left)
      r == Extreme(T, l, Right)
      T1 == IF Parent(T, x) = NoKey THEN [T EXCEPT !.root = r] ELSE T
  IN  IF l = NoKey THEN EraseOneChild(T, x)
      ELSE EraseOneChild(IF r = l THEN SwapWithChild(T1, x, r) ELSE SwapLocations(T1, r, x), x)

-----------------------------------------------------------------------------
(* The operations of RedBlackTree. *)

Holds(k) == k \in DOMAIN held
HeldWith(k, v) == [x \in DOMAIN held \cup {k} |-> IF x = k THEN v ELSE held[x]]

\* insert
TreeInsert(k, v) ==
  /\ tree' = InsertNode(tree, k, v, TRUE)
  /\ tree_size_' = IF Holds(k) THEN tree_size_ ELSE (tree_size_ + 1) % SizeLimit
  /\ held' = HeldWith(k, v)
  /\ UNCHANGED <<tree_fault, indexed>>

\* operator[]: a key that is not there is inserted with the value Value(), and size_
\* does not count it
Subscript(k) ==
  /\ ~Holds(k) => indexed < MaxIndexed
  /\ indexed' = IF Holds(k) THEN indexed ELSE indexed + 1
  /\ UNCHANGED <<tree_size_, tree_fault>>

Look(k) ==
  /\ Subscript(k)
  /\ tree' = InsertNode(tree, k, 0, FALSE)
  /\ held' = IF Holds(k) THEN held ELSE HeldWith(k, 0)

\* operator[] and RedBlackTreeLhs::operator=
SetValue(k, v) ==
  LET T1 == InsertNode(tree, k, 0, FALSE) IN
  /\ Subscript(k)
  /\ tree' = RecalcUp([T1 EXCEPT !.n[k].value = v], k)
  /\ held' = HeldWith(k, v)

\* erase looks at the key of the lower bound before it tests that there is one
TreeErase(k) ==
  LET x == Glb(tree, tree.root, NoKey, k, TRUE) IN
  IF x = NoKey
  THEN tree_fault' = "null" /\ UNCHANGED <<tree, tree_size_, held, indexed>>
  ELSE /\ IF x = k
          THEN /\ tree' = EraseNode(tree, k)
               /\ tree_size_' = (tree_size_ - 1) % SizeLimit
               /\ held' = [y \in DOMAIN held \ {k} |-> held[y]]
          ELSE UNCHANGED <<tree, tree_size_, held>>
       /\ UNCHANGED <<tree_fault, indexed>>

TreeClear ==
  /\ tree' = EmptyTree /\ tree_size_' = 0 /\ held' = <<>> /\ indexed' = 0
  /\ UNCHANGED tree_fault

TreeNext ==
  /\ tree_fault = "none"
  /\ \/ \E k \in TreeKey: Look(k) \/ TreeErase(k) \/ \E v \in ValueOf[k]: TreeInsert(k, v) \/ SetValue(k, v)
     \/ TreeClear

TreeSpec == TreeInit /\ [][TreeNext]_treeVars

-----------------------------------------------------------------------------
(* Properties. *)

Inorder(T, x) ==
  LET in[y \in Keys0] ==
        IF y = NoKey THEN <<>> ELSE in[Child(T, y, Left)] \o <<y>> \o in[Child(T, y, Right)]
  IN  in[x]

\* the counts of black nodes on the paths from x to the null pointers below it
BlackHeights(T, x) ==
  LET heights[y \in Keys0] ==
        IF y = NoKey THEN {0}
        ELSE {h + (IF Red(T, y) THEN 0 ELSE 1):
                h \in heights[Child(T, y, Left)] \cup heights[Child(T, y, Right)]}
  IN  heights[x]

KeysBelow(k) == {x \in DOMAIN held: x < k}
SortedKeys == [i \in 1 .. Cardinality(DOMAIN held) |->
                 CHOOSE k \in DOMAIN held: Cardinality(KeysBelow(k)) = i - 1]

\* After any calls the tree holds, in order, exactly the pairs that were put in and not
\* taken out; every path has the same number of black nodes and no two red ones in a row;
\* child and parent pointers agree; and size_ counts the nodes, but for those made by
\* operator[] (verify_ok RB0 to RB5 and RB8, with size_ as it should be).
TreeInShape ==
  /\ Inorder(tree, tree.root) = SortedKeys
  /\ \A k \in DOMAIN held: tree.n[k].value = held[k]
  /\ Cardinality(BlackHeights(tree, tree.root)) = 1
  /\ \A k \in DOMAIN held: ~RedViolation(tree, k)
  /\ tree.root # NoKey => Parent(tree, tree.root) = NoKey
  /\ \A k \in DOMAIN held, d \in {Left, Right}:
       Child(tree, k, d) # NoKey => Parent(tree, Child(tree, k, d)) = k
  /\ tree_size_ = (Cardinality(DOMAIN held) - indexed) % SizeLimit

\* The lookups that trust subtree sizes, partial sums and parent pointers, through every
\* rotation and exchange of nodes, give what they promise: the i'th key, the neighbours
\* of a key, greatest lower bounds, the sum below a key, and the key where a sum is
\* reached (find_ith, next_inorder_node, find_glb, reduce_lub, find_sum_glb).
OrderStatistics ==
  LET keys == SortedKeys
      n == Len(keys)
      sum[i \in 0 .. n] == IF i = 0 THEN NoSum ELSE Plus(sum[i - 1], held[keys[i]])
      below(k, closed) == Cardinality(KeysBelow(IF closed THEN k + 1 ELSE k))
      key(i) == IF i \in 1 .. n THEN keys[i] ELSE NoKey
      reached(y) == {i \in 1 .. n: y <= sum[i]}
  IN  /\ \A i \in 1 .. n + 1: Ith(tree, tree.root, i - 1) = key(i)
      /\ \A i \in 1 .. n: /\ Neighbour(tree, keys[i], Right) = key(i + 1)
                          /\ Neighbour(tree, keys[i], Left) = key(i - 1)
      /\ \A k \in TreeKey, closed \in BOOLEAN:
           /\ Glb(tree, tree.root, NoKey, k, closed) = key(below(k, closed))
           /\ ReduceLub(tree, tree.root, k, closed, NoSum) = sum[below(k, closed)]
      /\ \A y \in 0 .. (IF n = 0 THEN 0 ELSE sum[n]) + 1:
           SumGlb(tree, tree.root, y) =
             IF reached(y) = {} THEN key(n) ELSE keys[CHOOSE i \in reached(y): \A j \in reached(y): i <= j]

=============================================================================
