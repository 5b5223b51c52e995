------------------------------ MODULE BplusTree ------------------------------
(* The B+ tree of xo-ordinaltree, with subtree sizes, parent pointers and the chain *)
(* of leaves. Leaves and internal nodes both hold an array of items: a leaf's item  *)
(* is a key (its value travels with it and is left out), an internal node's item a  *)
(* child and the least key below it, as it was when it was last written. Operators  *)
(* take a tree and give the tree after the assignments of the code.                 *)
(*                                                                                  *)
(* Nothing compares addresses, so after every call the nodes are numbered afresh,   *)
(* in the order a walk from the root meets them.                                    *)
EXTENDS Integers, Sequences, FiniteSets
LOCAL INSTANCE SequencesExt

CONSTANTS BpKey,   \* keys
          Bf       \* branching factor

ASSUME BpAssumption == BpKey \subseteq Int /\ IsFiniteSet(BpKey) /\ Bf \in Nat /\ Bf >= 3

NoNode == 0        \* a null pointer
Dangling == -1     \* a pointer to a node that was deleted

VARIABLES bptree,     \* [root, node, begin, end, count]: root_, the nodes, leafnode_begin_,
                      \* leafnode_end_, n_element_
          bp_fault,   \* an assertion of the code fails: nothing comes after it
          bp_answer,  \* the last call answered as a sorted map does
          bp_held     \* history: the keys inserted and not erased since

bpVars == <<bptree, bp_fault, bp_answer, bp_held>>

NoTree == [root |-> NoNode, node |-> <<>>, begin |-> NoNode, end |-> NoNode, count |-> 0]

BpInit == bptree = NoTree /\ bp_fault = "none" /\ bp_answer = TRUE /\ bp_held = {}

-----------------------------------------------------------------------------
(* Nodes. *)

Item(k, c) == [key |-> k, child |-> c]
Leaf(items) == [leaf |-> TRUE, elt |-> items, size |-> 0, parent |-> NoNode,
                prev |-> NoNode, next |-> NoNode]
Internal(items, z) == [leaf |-> FALSE, elt |-> items, size |-> z, parent |-> NoNode,
                       prev |-> NoNode, next |-> NoNode]

Elts(T, x) == T.node[x].elt
NElt(T, x) == Len(Elts(T, x))
Above(T, x) == T.node[x].parent
Kid(T, x, i) == Elts(T, x)[i].child
GlbKey(T, x) == Elts(T, x)[1].key
NodeSize(T, x) == IF T.node[x].leaf THEN NElt(T, x) ELSE T.node[x].size
KidsSize(T, items) == FoldLeft(LAMBDA z, e: z + NodeSize(T, e.child), 0, items)
LocateChild(T, p, x) == CHOOSE i \in 1 .. NElt(T, p): Kid(T, p, i) = x

NewNode(T) == CHOOSE x \in 1 .. Cardinality(DOMAIN T.node) + 1: x \notin DOMAIN T.node
Put(T, x, n) == [T EXCEPT !.node = [y \in DOMAIN @ \cup {x} |-> IF y = x THEN n ELSE @[y]]]
Drop(T, x) == [T EXCEPT !.node = [y \in DOMAIN @ \ {x} |-> @[y]]]
SetElts(T, x, items) == [T EXCEPT !.node[x].elt = items]

\* find_lub_ix: how many of the keys, which are sorted, are at most k
LubIx(items, k) == Cardinality({i \in DOMAIN items: items[i].key <= k})
Present(T, x, k) == \E i \in 1 .. NElt(T, x): Elts(T, x)[i].key = k

\* set_parent on the children of items; a leaf's items have none
Adopt(T, p, items) ==
  LET kids == {items[i].child: i \in DOMAIN items} \ {NoNode}
  IN  [T EXCEPT !.node = [y \in DOMAIN @ |-> IF y \in kids THEN [@[y] EXCEPT !.parent = p]
                                             ELSE @[y]]]

AddNodeSize(T, x, z) == IF T.node[x].leaf THEN T ELSE [T EXCEPT !.node[x].size = @ + z]

RECURSIVE AddAncestorSize(_, _, _)
AddAncestorSize(T, x, z) ==
  IF x = NoNode THEN T ELSE AddAncestorSize([T EXCEPT !.node[x].size = @ + z], Above(T, x), z)

CorrectGlbKeys_never(T, x) == T

\* post_modify_correct_ancestor_glb_keys: from x up, until a key needs no change
RECURSIVE CorrectGlbKeys(_, _)
CorrectGlbKeys(T, x) ==
  LET p == Above(T, x)
      i == LocateChild(T, p, x)
  IN  IF p = NoNode THEN T
      ELSE IF Elts(T, p)[i].key = GlbKey(T, x) THEN T
      ELSE CorrectGlbKeys([T EXCEPT !.node[p].elt[i].key = GlbKey(T, x)], p)

RECURSIVE MinLeaf(_, _)
MinLeaf(T, x) == IF T.node[x].leaf THEN x ELSE MinLeaf(T, Kid(T, x, 1))
RECURSIVE MaxLeaf(_, _)
MaxLeaf(T, x) == IF T.node[x].leaf THEN x ELSE MaxLeaf(T, Kid(T, x, NElt(T, x)))

\* post_modify_correct_leafnode_endpoints
CorrectEndpoints(T) ==
  IF T.root = NoNode THEN [T EXCEPT !.begin = NoNode, !.end = NoNode]
  ELSE [T EXCEPT !.begin = MinLeaf(T, T.root), !.end = MaxLeaf(T, T.root)]

RECURSIVE FindLeafFrom(_, _, _)
FindLeafFrom(T, x, k) ==
  LET i == LubIx(Elts(T, x), k)
  IN  IF T.node[x].leaf THEN x ELSE FindLeafFrom(T, Kid(T, x, IF i > 0 THEN i ELSE 1), k)
FindLeafNode(T, k) == FindLeafFrom(T, T.root, k)

-----------------------------------------------------------------------------
(* Insertion. *)

\* insert_leaf_item
InsertLeafItem(T, x, ix, k) == SetElts(T, x, InsertAt(Elts(T, x), ix + 1, Item(k, NoNode)))

\* insert_node: sizes are left to the caller
InsertChild(T, x, ix, new) ==
  LET e == Item(GlbKey(T, new), new)
  IN  Adopt(SetElts(T, x, InsertAt(Elts(T, x), ix + 1, e)), x, <<e>>)

AssignSiblings_oneway(T, x, p, n) ==
  [T EXCEPT !.node = [y \in DOMAIN @ |->
     CASE y = x -> [@[y] EXCEPT !.prev = p, !.next = n]
       [] y = p -> [@[y] EXCEPT !.next = x]
       [] OTHER -> @[y]]]

\* assign_siblings
AssignSiblings(T, x, p, n) ==
  [T EXCEPT !.node = [y \in DOMAIN @ |->
     CASE y = x -> [@[y] EXCEPT !.prev = p, !.next = n]
       [] y = p -> [@[y] EXCEPT !.next = x]
       [] y = n -> [@[y] EXCEPT !.prev = x]
       [] OTHER -> @[y]]]

\* LeafNode::annex: x keeps one part of its items, the new leaf has the other
SplitLeafUpper(T, x, new) ==
  LET mid == NElt(T, x) \div 2
      T1 == Put(T, new, Leaf(SubSeq(Elts(T, x), mid + 1, NElt(T, x))))
  IN  AssignSiblings(SetElts(T1, x, SubSeq(Elts(T, x), 1, mid)), new, x, T.node[x].next)
SplitLeafLower(T, x, new) ==
  LET mid == NElt(T, x) \div 2
      T1 == Put(T, new, Leaf(SubSeq(Elts(T, x), 1, mid)))
  IN  AssignSiblings(SetElts(T1, x, SubSeq(Elts(T, x), mid + 1, NElt(T, x))),
                     new, T.node[x].prev, x)

\* InternalNode::annex
SplitInternal(T, x, new) ==
  LET mid == NElt(T, x) \div 2
      upper == SubSeq(Elts(T, x), mid + 1, NElt(T, x))
      z == KidsSize(T, upper)
      T1 == Adopt(Put(T, new, Internal(upper, z)), new, upper)
  IN  AddNodeSize(SetElts(T1, x, SubSeq(Elts(T, x), 1, mid)), x, -z)

\* make_2, and the new root
GrowRoot(T, new) ==
  LET r == NewNode(T)
      items == <<Item(GlbKey(T, T.root), T.root), Item(GlbKey(T, new), new)>>
  IN  CorrectEndpoints([Adopt(Put(T, r, Internal(items, KidsSize(T, items))), r, items)
                          EXCEPT !.root = r])

\* the loop of internal_insert_aux that finds a place for new among the ancestors
RECURSIVE Attach(_, _, _)
Attach(T, new, p) ==
  IF p = NoNode THEN GrowRoot(T, new)
  ELSE
    LET lub == LubIx(Elts(T, p), GlbKey(T, new))
        z == NodeSize(T, new)
        upper == NewNode(T)
        g == Above(T, p)
        S == SplitInternal(T, p, upper)
        U == AddAncestorSize(S, g, -NodeSize(S, upper))
    IN  IF NElt(T, p) < Bf
        THEN CorrectEndpoints(CorrectGlbKeys(
               AddAncestorSize(InsertChild(T, p, lub, new), p, z), p))
        ELSE IF lub <= NElt(U, p)
        THEN Attach(CorrectGlbKeys(AddAncestorSize(InsertChild(U, p, lub, new), p, z), p),
                    upper, g)
        ELSE Attach(AddNodeSize(InsertChild(U, upper, lub - NElt(U, p), new), upper, z),
                    upper, g)

\* set_glb_key on the ancestors whose least key is above k
RECURSIVE LowerGlbKeys(_, _, _)
LowerGlbKeys(T, x, k) ==
  IF x = NoNode THEN T
  ELSE IF k >= GlbKey(T, x) THEN T
  ELSE LowerGlbKeys([T EXCEPT !.node[x].elt[1].key = k], Above(T, x), k)

\* a call gives the tree, the leaf and the place that its iterator designates
Placed(T, x, ix, isnew) == [tree |-> T, leaf |-> x, ix |-> ix, isnew |-> isnew]

\* create_root_aux
CreateRoot(T, k) ==
  Placed([root |-> 1, node |-> <<Leaf(<<Item(k, NoNode)>>)>>, begin |-> 1, end |-> 1,
          count |-> 1], 1, 0, TRUE)

\* a full leaf that is the root
SplitRootLeaf(T, x, lub, k) ==
  LET upper == NewNode(T)
      S == SplitLeafUpper(T, x, upper)
      low == lub <= NElt(S, x)
      y == IF low THEN x ELSE upper
      ix == IF low THEN lub ELSE lub - NElt(S, x)
  IN  Placed(GrowRoot(InsertLeafItem(S, y, ix, k), upper), y, ix, TRUE)

\* a full leaf that has a parent: the new node leaves the sizes until it is attached
SplitInnerLeaf(T, x, lub, k) ==
  LET new == NewNode(T)
      p == Above(T, x)
      L == SplitLeafLower(T, x, new)
      S == SplitLeafUpper(T, x, new)
      ix == lub - NElt(S, x)
      Detached(V) == AddAncestorSize(V, p, -NodeSize(V, new))
  IN  IF lub < NElt(T, x) \div 2
      THEN Placed(Attach(CorrectGlbKeys(InsertLeafItem(Detached(L), new, lub, k), x), new, p),
                  new, lub, TRUE)
      ELSE Placed(Attach(InsertLeafItem(Detached(S), new, ix, k), new, p), new, ix, TRUE)

\* leaf_insert_aux and internal_insert_aux
KeyInserted(T, k) ==
  LET x == FindLeafNode(T, k)
      lub == LubIx(Elts(T, x), k)
      T1 == [T EXCEPT !.count = @ + 1]
      p == Above(T, x)
  IN  IF T.root = NoNode THEN CreateRoot(T, k)
      ELSE IF Present(T, x, k) THEN Placed(T, x, lub - 1, FALSE)
      ELSE IF NElt(T, x) < Bf
      THEN Placed(LowerGlbKeys(AddAncestorSize(InsertLeafItem(T1, x, lub, k), p, 1), p, k),
                  x, lub, TRUE)
      ELSE IF x = T.root THEN SplitRootLeaf(T1, x, lub, k)
      ELSE SplitInnerLeaf(T1, x, lub, k)

-----------------------------------------------------------------------------
(* Erasure. *)

\* append_from_rh_sibling: the first n items of rh go to the end of x
AppendFromRh(T, x, n, rh) ==
  LET moved == SubSeq(Elts(T, rh), 1, n)
      z == KidsSize(T, moved)
      T1 == SetElts(SetElts(T, x, Elts(T, x) \o moved), rh, SubSeq(Elts(T, rh), n + 1, NElt(T, rh)))
  IN  IF T.node[x].leaf THEN T1 ELSE AddNodeSize(AddNodeSize(Adopt(T1, x, moved), x, z), rh, -z)

\* prepend_from_lh_sibling: the last n items of lh go before those of x
PrependFromLh(T, x, n, lh) ==
  LET m == NElt(T, lh) - n
      moved == SubSeq(Elts(T, lh), m + 1, m + n)
      z == KidsSize(T, moved)
      T1 == SetElts(SetElts(T, x, moved \o Elts(T, x)), lh, SubSeq(Elts(T, lh), 1, m))
  IN  IF T.node[x].leaf THEN T1 ELSE AddNodeSize(AddNodeSize(Adopt(T1, x, moved), x, z), lh, -z)

\* remove_node: a leaf leaves the chain (notify_remove); the emptied node goes away
RemoveNode(T, p, ix) ==
  LET x == Kid(T, p, ix)
      n == T.node[x]
      Unlinked == [T EXCEPT !.node = [y \in DOMAIN @ |->
                     CASE y = n.prev -> [@[y] EXCEPT !.next = n.next]
                       [] y = n.next -> [@[y] EXCEPT !.prev = n.prev]
                       [] OTHER -> @[y]]]
  IN  Drop(SetElts(IF n.leaf THEN Unlinked ELSE T, p, RemoveAt(Elts(T, p), ix)), x)

\* What internal_erase_aux does with a leaf, and post_remove_shrink_ancestor_path with an
\* internal node, that has too few items: take some from a sibling, else merge with one.
Rebalanced(T, x) ==
  LET p == Above(T, x)
      i == LocateChild(T, p, x)
      right == IF i < NElt(T, p) THEN Kid(T, p, i + 1) ELSE NoNode
      left == IF i > 1 THEN Kid(T, p, i - 1) ELSE NoNode
      Both(s) == NElt(T, x) + NElt(T, s)
      Enough(s) == s # NoNode /\ Both(s) >= 2 * ((Bf + 1) \div 2)
      Share(s) == (Both(s) \div 2) - NElt(T, x)
      Moved(V) == [tree |-> V, how |-> "moved"]
      Merged(V) == [tree |-> V, how |-> "merged"]
  IN  CASE Enough(right) -> Moved(CorrectGlbKeys(AppendFromRh(T, x, Share(right), right), right))
        [] ~Enough(right) /\ Enough(left) ->
             Moved(CorrectGlbKeys(PrependFromLh(T, x, Share(left), left), x))
        [] ~Enough(right) /\ ~Enough(left) /\ right # NoNode ->
             Merged(RemoveNode(AppendFromRh(T, x, NElt(T, right), right), p, i + 1))
        [] ~Enough(left) /\ right = NoNode /\ left # NoNode ->
             Merged(RemoveNode(AppendFromRh(T, left, NElt(T, x), x), p, i))
        [] right = NoNode /\ left = NoNode -> [tree |-> T, how |-> "alone"]

\* post_remove_shrink_ancestor_path
RECURSIVE ShrinkPath(_, _)
ShrinkPath(T, x) ==
  LET r == Rebalanced(T, x)
      c == Kid(T, x, 1)
  IN  IF x # T.root /\ 2 * NElt(T, x) < Bf
      THEN IF r.how = "moved" THEN r.tree ELSE ShrinkPath(r.tree, Above(T, x))
      ELSE IF x = T.root /\ NElt(T, x) = 1
      THEN Drop([T EXCEPT !.root = c, !.node[c].parent = NoNode], x)
      ELSE T

\* leaf_erase_aux, of a key that is there
LeafErased(T, x, ix) ==
  CorrectEndpoints(IF NElt(T, x) > 1 THEN SetElts(T, x, RemoveAt(Elts(T, x), ix))
                   ELSE Drop([T EXCEPT !.root = NoNode], x))

\* internal_erase_aux, of a key that is there. A leaf that lost its only item has its first
\* slot read all the same: that still holds the key, and the parent's copy does not change.
InternalErased(T, x, ix) ==
  LET p == Above(T, x)
      T1 == SetElts(T, x, RemoveAt(Elts(T, x), ix))
      T2 == IF ix = 1 /\ NElt(T1, x) > 0 THEN CorrectGlbKeys(T1, x) ELSE T1
      T3 == AddAncestorSize(T2, p, -1)
      r == Rebalanced(T3, x)
  IN  IF 2 * NElt(T2, x) >= Bf THEN [tree |-> T3, how |-> "kept"]
      ELSE IF r.how = "merged"
      THEN [tree |-> CorrectEndpoints(ShrinkPath(r.tree, p)), how |-> "merged"]
      ELSE r

KeyErased(T, k) ==
  LET x == FindLeafNode(T, k)
      ix == LubIx(Elts(T, x), k)
      T1 == [T EXCEPT !.count = @ - 1]
  IN  IF T.root = NoNode THEN [tree |-> T, how |-> "absent"]
      ELSE IF ~Present(T, x, k) THEN [tree |-> T, how |-> "absent"]
      ELSE IF x = T.root THEN [tree |-> LeafErased(T1, x, ix), how |-> "kept"]
      ELSE InternalErased(T1, x, ix)

-----------------------------------------------------------------------------

RECURSIVE Walk(_, _)
Walk(T, x) ==
  IF T.node[x].leaf THEN <<x>>
  ELSE <<x>> \o FlattenSeq([i \in 1 .. NElt(T, x) |-> Walk(T, Kid(T, x, i))])

\* the same tree, its nodes numbered in the order of the walk
Renumbered(T) ==
  LET order == IF T.root = NoNode THEN <<>> ELSE Walk(T, T.root)
      name == [x \in {order[i]: i \in DOMAIN order} |-> CHOOSE i \in DOMAIN order: order[i] = x]
      To(x) == IF x = NoNode THEN x ELSE IF x \in DOMAIN name THEN name[x] ELSE Dangling
      Node(n) == [n EXCEPT !.elt = [i \in DOMAIN @ |-> [@[i] EXCEPT !.child = To(@)]],
                           !.parent = To(@), !.prev = To(@), !.next = To(@)]
  IN  [root |-> To(T.root), begin |-> To(T.begin), end |-> To(T.end), count |-> T.count,
       node |-> [i \in DOMAIN order |-> Node(T.node[order[i]])]]

\* insert: its iterator is at the key, and it says whether the key is new
BpInsert(k) ==
  LET r == KeyInserted(bptree, k)
  IN  /\ bp_fault = "none"
      /\ bptree' = Renumbered(r.tree)
      /\ bp_answer' = /\ r.ix + 1 \in 1 .. NElt(r.tree, r.leaf)
                      /\ Elts(r.tree, r.leaf)[r.ix + 1].key = k
                      /\ r.isnew = (k \notin bp_held)
      /\ bp_held' = bp_held \cup {k}
      /\ UNCHANGED bp_fault

BpErase(k) ==
  LET r == KeyErased(bptree, k)
  IN  /\ bp_fault = "none"
      /\ bptree' = Renumbered(r.tree)
      /\ bp_fault' = IF r.how = "alone" THEN "no sibling" ELSE "none"
      /\ bp_answer' = ((r.how # "absent") = (k \in bp_held))
      /\ bp_held' = bp_held \ {k}

BpClear ==
  /\ bp_fault = "none"
  /\ bptree' = NoTree /\ bp_answer' = TRUE /\ bp_held' = {}
  /\ UNCHANGED bp_fault

BpNext == (\E k \in BpKey: BpInsert(k) \/ BpErase(k)) \/ BpClear

BpSpec == BpInit /\ [][BpNext]_bpVars

-----------------------------------------------------------------------------
(* What verify_ok accepts, and the lookups. *)

Ids == DOMAIN bptree.node
LeavesOf(T) == IF T.root = NoNode THEN <<>> ELSE SelectSeq(Walk(T, T.root), LAMBDA x: T.node[x].leaf)
KeysOf(T) == FlattenSeq([i \in DOMAIN LeavesOf(T) |->
               [j \in 1 .. NElt(T, LeavesOf(T)[i]) |-> Elts(T, LeavesOf(T)[i])[j].key]])
RECURSIVE Depth(_, _)
Depth(T, x) == IF Above(T, x) = NoNode THEN 0 ELSE 1 + Depth(T, Above(T, x))

\* find, in a tree that is not empty
BpFind(T, k) == Present(T, FindLeafNode(T, k), k)

\* BplusTreeUtil::find_ith, i counted from 0
RECURSIVE FindIthFrom(_, _, _)
FindIthFrom(T, x, i) ==
  LET Before(j) == KidsSize(T, SubSeq(Elts(T, x), 1, j - 1))
      j == CHOOSE j \in 1 .. NElt(T, x): Before(j) <= i /\ i < Before(j) + NodeSize(T, Kid(T, x, j))
  IN  IF T.node[x].leaf THEN Elts(T, x)[i + 1].key ELSE FindIthFrom(T, Kid(T, x, j), i - Before(j))
FindIth(T, i) == FindIthFrom(T, T.root, i)

(* A leaf that an erasure leaves with too few items has a sibling to take some from or to *)
(* merge with (internal_erase_aux: "must have at least one sibling (else prior visit     *)
(* would have shrunk tree height)").                                                     *)
SiblingExists == bp_fault = "none"

(* Splits, redistributions, merges and a root that grows or goes keep what verify_ok and  *)
(* the header's invariants ask for: every leaf at the same depth, every node but the root *)
(* half full, children that know their parent, least keys and sizes exact in every        *)
(* ancestor, the leaves chained in key order with both ends known.                        *)
BpShape ==
  LET T == bptree
      leaves == LeavesOf(T)
      At(i) == IF i \in DOMAIN leaves THEN leaves[i] ELSE NoNode
  IN  /\ SiblingExists
      /\ (T.root = NoNode) = (T.count = 0)
      /\ T.begin = At(1) /\ T.end = At(Len(leaves))
      /\ \A i \in DOMAIN leaves: /\ T.node[leaves[i]].prev = At(i - 1)
                                 /\ T.node[leaves[i]].next = At(i + 1)
                                 /\ Depth(T, leaves[i]) = Depth(T, leaves[1])
      /\ \A x \in Ids:
           /\ NElt(T, x) <= Bf
           /\ IF x = T.root THEN Above(T, x) = NoNode /\ (T.node[x].leaf \/ NElt(T, x) > 1)
              ELSE 2 * NElt(T, x) >= Bf
           /\ ~T.node[x].leaf =>
                /\ T.node[x].size = KidsSize(T, Elts(T, x))
                /\ \A i \in 1 .. NElt(T, x):
                     /\ Above(T, Kid(T, x, i)) = x
                     /\ Elts(T, x)[i].key = GlbKey(T, MinLeaf(T, Kid(T, x, i)))

(* The tree is the sorted map of the keys inserted and not erased: find meets exactly     *)
(* them, find_ith(i) is the i-th of them, the leaves hold them in order, and insert and   *)
(* erase said whether the key was there, the iterator of insert being at the key.         *)
BpSortedMap ==
  LET T == bptree
      keys == KeysOf(T)
  IN  /\ bp_answer
      /\ {keys[i]: i \in DOMAIN keys} = bp_held
      /\ \A i \in 1 .. Len(keys) - 1: keys[i] < keys[i + 1]
      /\ T.count = Len(keys)
      /\ T.root # NoNode => \A k \in BpKey: BpFind(T, k) = (k \in bp_held)
      /\ \A i \in DOMAIN keys: FindIth(T, i - 1) = keys[i]
=============================================================================
