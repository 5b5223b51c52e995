-------------------------- MODULE RedBlackTreeProofs --------------------------
(* Proofs about the red-black tree, for every set of keys: after every call it holds, *)
(* in order and in balance, what was put in and not taken out.                        *)
EXTENDS RedBlackTree, FiniteSetTheorems, NaturalsInduction, WellFoundedInduction, TLAPS

-----------------------------------------------------------------------------
(* Loops.                                                                            *)

LEMMA NatSetInduction ==
  ASSUME NEW S \in SUBSET Nat, 0 \in S, \A n \in S: n + 1 \in S
  PROVE  S = Nat
<1> SUFFICES ASSUME Nat \ S # {} PROVE FALSE
  OBVIOUS
<1> DEFINE Q == Nat \ S
<1>1. \E x \in Q: \A y \in Q: ~(y < x)
  <2>1. Q \in SUBSET Nat /\ Q # {}
    OBVIOUS
  <2> HIDE DEF Q
  <2>2. \E x \in Q: \A y \in Q: <<y, x>> \notin OpToRel(<, Nat)
    BY <2>1, WFMin, NatLessThanWellFounded
  <2> QED
    BY <2>1, <2>2, Zenon DEF OpToRel
<1>2. PICK x \in Q: \A y \in Q: ~(y < x)
  BY <1>1
<1>3. x \in Nat /\ x \notin S /\ x # 0
  BY <1>2
<1>4. x - 1 \in Nat /\ x - 1 < x /\ (x - 1) + 1 = x
  BY <1>3
<1> QED
  BY <1>2, <1>3, <1>4

\* at is the loop from s, up to iteration n. (This recursive function exists.)
Iterates(at, n, step, s) == at = [i \in 0 .. n |-> IF i = 0 THEN s ELSE step[at[i - 1]]]

LEMMA IteratesExist ==
  ASSUME NEW step, NEW s, NEW n \in Nat
  PROVE  \E at: Iterates(at, n, step, s)
<1> DEFINE S == {k \in Nat: \E at: Iterates(at, k, step, s)}
<1>1. 0 \in S
  <2> DEFINE at == [i \in 0 .. 0 |-> s]
  <2>1. at = [i \in 0 .. 0 |-> IF i = 0 THEN s ELSE step[at[i - 1]]]
    OBVIOUS
  <2> QED
    BY <2>1 DEF Iterates
<1>2. ASSUME NEW k \in S PROVE k + 1 \in S
  <2>1. k \in Nat /\ k + 1 \in Nat
    OBVIOUS
  <2>2. PICK at: at = [i \in 0 .. k |-> IF i = 0 THEN s ELSE step[at[i - 1]]]
    BY DEF Iterates
  <2> DEFINE h == [i \in 0 .. k + 1 |-> IF i = 0 THEN s ELSE step[at[i - 1]]]
  <2>3. \A i \in 0 .. k + 1: i = 0 \/ i - 1 \in 0 .. k
    BY <2>1
  <2>4. \A i \in 0 .. k: h[i] = at[i]
    <3>1. \A i \in 0 .. k: i \in 0 .. k + 1
      BY <2>1
    <3> QED
      BY <2>2, <3>1
  <2>5. \A i \in 0 .. k + 1: i # 0 => h[i - 1] = at[i - 1]
    BY <2>3, <2>4
  <2>6. h = [i \in 0 .. k + 1 |-> IF i = 0 THEN s ELSE step[h[i - 1]]]
    <3> HIDE DEF h
    <3>1. [i \in 0 .. k + 1 |-> IF i = 0 THEN s ELSE step[at[i - 1]]]
          = [i \in 0 .. k + 1 |-> IF i = 0 THEN s ELSE step[h[i - 1]]]
      BY <2>5
    <3> QED
      BY <3>1 DEF h
  <2> HIDE DEF h
  <2>7. Iterates(h, k + 1, step, s)
    BY <2>6 DEF Iterates
  <2> QED
    BY <2>1, <2>7
<1>3. S \in SUBSET Nat
  OBVIOUS
<1> HIDE DEF S
<1>4. n \in S
  BY <1>1, <1>2, <1>3, NatSetInduction
<1> QED
  BY <1>4 DEF S

Last == Cardinality(TreeKey) + 1

LEMMA LastIsNat == Cardinality(TreeKey) \in Nat /\ Last \in Nat
  BY TreeAssumption, FS_CardinalityType DEF Last, TreeAssumption

LEMMA LoopIterates ==
  ASSUME NEW step, NEW s
  PROVE  \E at: /\ Loop(step, s) = at[Last] /\ at[0] = s
                /\ \A i \in 0 .. Last - 1: at[i + 1] = step[at[i]]
<1>1. PICK at: Iterates(at, Last, step, s) /\ Loop(step, s) = at[Last]
  <2>1. \E at: Iterates(at, Last, step, s)
    BY LastIsNat, IteratesExist
  <2>2. Loop(step, s) = (CHOOSE at: Iterates(at, Last, step, s))[Last]
    BY Zenon DEF Loop, Iterates, Last
  <2> HIDE DEF Iterates
  <2> QED
    BY <2>1, <2>2
<1>2. at = [i \in 0 .. Last |-> IF i = 0 THEN s ELSE step[at[i - 1]]]
  BY <1>1 DEF Iterates
<1>3. 0 \in 0 .. Last /\ \A i \in 0 .. Last - 1: i + 1 \in 0 .. Last /\ i + 1 # 0 /\ (i + 1) - 1 = i
  BY LastIsNat
<1>4. at[0] = s
  BY <1>2, <1>3
<1>5. ASSUME NEW i \in 0 .. Last - 1 PROVE at[i + 1] = step[at[i]]
  BY <1>2, <1>3
<1> QED
  BY <1>1, <1>4, <1>5

\* What each iteration keeps is so when the loop ends.
LEMMA LoopKeeps ==
  ASSUME NEW I, NEW step, NEW s \in I, \A t \in I: step[t] \in I
  PROVE  Loop(step, s) \in I
<1>1. PICK at: /\ Loop(step, s) = at[Last] /\ at[0] = s
               /\ \A i \in 0 .. Last - 1: at[i + 1] = step[at[i]]
  BY LoopIterates
<1> DEFINE S == {k \in Nat: k <= Last => at[k] \in I}
<1>2. 0 \in S
  BY <1>1
<1>3. ASSUME NEW k \in S PROVE k + 1 \in S
  <2>1. k + 1 <= Last => k \in 0 .. Last - 1 /\ k <= Last
    BY LastIsNat
  <2> QED
    BY <1>1, <2>1
<1>4. Last \in S
  <2>1. S \in SUBSET Nat
    OBVIOUS
  <2> HIDE DEF S
  <2> QED
    BY <1>2, <1>3, <2>1, LastIsNat, NatSetInduction
<1> QED
  BY <1>1, <1>4, LastIsNat

\* If each iteration that changes the state gets higher, the loop has an end.
LEMMA LoopEnds ==
  ASSUME NEW I, NEW step, NEW s \in I, \A t \in I: step[t] \in I,
         NEW rank, \A t \in I: rank[t] \in 0 .. Cardinality(TreeKey),
         \A t \in I: step[t] = t \/ rank[step[t]] > rank[t]
  PROVE  Loop(step, s) \in I /\ step[Loop(step, s)] = Loop(step, s)
<1>1. PICK at: /\ Loop(step, s) = at[Last] /\ at[0] = s
               /\ \A i \in 0 .. Last - 1: at[i + 1] = step[at[i]]
  BY LoopIterates
<1> DEFINE S == {k \in Nat: k <= Last => /\ at[k] \in I
                                         /\ step[at[k]] = at[k] \/ rank[at[k]] >= k}
<1>2. 0 \in S
  BY <1>1
<1>3. ASSUME NEW k \in S PROVE k + 1 \in S
  <2>1. SUFFICES ASSUME k + 1 <= Last
                 PROVE  /\ at[k + 1] \in I
                        /\ step[at[k + 1]] = at[k + 1] \/ rank[at[k + 1]] >= k + 1
    OBVIOUS
  <2>2. k \in 0 .. Last - 1 /\ k <= Last
    BY <2>1, LastIsNat
  <2>3. at[k + 1] = step[at[k]] /\ at[k] \in I
    BY <1>1, <2>2
  <2>4. at[k + 1] \in I /\ rank[at[k]] \in Int /\ rank[at[k + 1]] \in Int
    BY <2>3
  <2>5. CASE step[at[k]] = at[k]
    BY <2>3, <2>4, <2>5
  <2>6. CASE step[at[k]] # at[k]
    <3>1. rank[at[k + 1]] > rank[at[k]] /\ rank[at[k]] >= k
      BY <2>2, <2>3, <2>6
    <3> QED
      BY <2>2, <2>4, <3>1
  <2> QED
    BY <2>5, <2>6
<1>4. Last \in S
  <2>1. S \in SUBSET Nat
    OBVIOUS
  <2> HIDE DEF S
  <2> QED
    BY <1>2, <1>3, <2>1, LastIsNat, NatSetInduction
<1>5. at[Last] \in I /\ (step[at[Last]] = at[Last] \/ rank[at[Last]] >= Last)
  BY <1>4, LastIsNat
<1>6. ~(rank[at[Last]] >= Last)
  BY <1>5, LastIsNat DEF Last
<1> QED
  BY <1>1, <1>5, <1>6

-----------------------------------------------------------------------------
(* What the operations on one node do.                                               *)

LEMMA KeyFacts ==
  /\ NoKey \notin TreeKey /\ NoKey \in Keys0 /\ TreeKey \subseteq Keys0
  /\ \A k \in Keys0: k # NoKey => k \in TreeKey
  /\ Left \in Dirs /\ Right \in Dirs /\ Left # Right
  /\ \A k \in TreeKey: k \in Nat /\ k \in Int
BY TreeAssumption DEF TreeAssumption, NoKey, Keys0, Dirs, Left, Right

LEMMA DirFacts ==
  /\ Other(Left) = Right /\ Other(Right) = Left
  /\ \A d \in Dirs: Other(d) \in Dirs /\ Other(d) # d /\ Other(Other(d)) = d
  /\ \A d, e \in Dirs: e = d \/ e = Other(d)
BY DEF Dirs, Left, Right, Other

LEMMA TreeFacts ==
  ASSUME NEW T \in Trees
  PROVE  /\ T.root \in Keys0
         /\ \A k \in TreeKey: /\ Parent(T, k) \in Keys0 /\ T.n[k].red \in BOOLEAN
                              /\ \A d \in Dirs: Child(T, k, d) \in Keys0
         /\ \A k \in TreeKey: T.n[k].size \in Int /\ T.n[k].value \in Int
                              /\ T.n[k].r1 \in Int /\ T.n[k].r2 \in Int
BY DEF Trees, Nodes, Parent, Child

SameData(R, T) ==
  \A k \in TreeKey: /\ R.n[k].size = T.n[k].size /\ R.n[k].value = T.n[k].value
                    /\ R.n[k].r1 = T.n[k].r1 /\ R.n[k].r2 = T.n[k].r2
SameRed(R, T) == \A k \in TreeKey: R.n[k].red = T.n[k].red
SameChildren(R, T) == \A k \in TreeKey, e \in Dirs: Child(R, k, e) = Child(T, k, e)
SameParents(R, T) == \A k \in TreeKey: Parent(R, k) = Parent(T, k)

Written(T, k, m, R) == R = [T EXCEPT !.n[k] = m]

LEMMA NodeIs ==
  ASSUME NEW T \in Trees, NEW k \in TreeKey, NEW m \in Nodes, NEW R, Written(T, k, m, R)
  PROVE  R \in Trees /\ R.root = T.root /\ R.n[k] = m /\ \A j \in TreeKey \ {k}: R.n[j] = T.n[j]
BY DEF Trees, Written

Painted(R, T, x, c) ==
  /\ R \in Trees /\ R.root = T.root
  /\ SameData(R, T) /\ SameChildren(R, T) /\ SameParents(R, T)
  /\ \A k \in TreeKey: R.n[k].red = IF k = x THEN c ELSE T.n[k].red

LEMMA PaintIs ==
  ASSUME NEW T \in Trees, NEW x \in TreeKey, NEW c \in BOOLEAN
  PROVE  Painted(Paint(T, x, c), T, x, c)
<1>0. PICK R: R = Paint(T, x, c)
  OBVIOUS
<1> SUFFICES Painted(R, T, x, c)
  BY <1>0
<1> USE DEF Painted
<1>1. PICK m: m = [T.n[x] EXCEPT !.red = c]
  OBVIOUS
<1>2. T.n[x] \in Nodes
  BY DEF Trees
<1>3. /\ m \in Nodes /\ m.red = c /\ m.size = T.n[x].size /\ m.value = T.n[x].value
      /\ m.r1 = T.n[x].r1 /\ m.r2 = T.n[x].r2 /\ m.parent = T.n[x].parent /\ m.child = T.n[x].child
  BY <1>1, <1>2 DEF Nodes
<1>4. Written(T, x, m, R)
  BY <1>0, <1>1 DEF Paint, Written
<1>5. R \in Trees /\ R.root = T.root /\ R.n[x] = m /\ \A j \in TreeKey \ {x}: R.n[j] = T.n[j]
  BY <1>3, <1>4, NodeIs
<1> QED
  BY <1>3, <1>5 DEF SameData, SameChildren, SameParents, Child, Parent

Rooted(R, T, x) ==
  /\ R \in Trees /\ R.root = x
  /\ SameData(R, T) /\ SameChildren(R, T) /\ SameParents(R, T) /\ SameRed(R, T)

LEMMA SetRootIs ==
  ASSUME NEW T \in Trees, NEW x \in Keys0
  PROVE  Rooted([T EXCEPT !.root = x], T, x)
BY DEF Rooted, Trees, SameData, SameChildren, SameParents, SameRed, Child, Parent

ParentSet(R, T, x, p) ==
  /\ R \in Trees /\ R.root = T.root
  /\ SameData(R, T) /\ SameChildren(R, T) /\ SameRed(R, T)
  /\ \A k \in TreeKey: Parent(R, k) = IF k = x THEN p ELSE Parent(T, k)

LEMMA SetParentIs ==
  ASSUME NEW T \in Trees, NEW x \in Keys0, NEW p \in Keys0
  PROVE  ParentSet(SetParent(T, x, p), T, x, p)
<1>. PICK R: R = SetParent(T, x, p)
  OBVIOUS
<1>. SUFFICES ParentSet(R, T, x, p)
  OBVIOUS
<1>. USE DEF ParentSet
<1>1. CASE x = NoKey
  BY <1>1, KeyFacts DEF SetParent, SameData, SameChildren, SameRed
<1>2. CASE x # NoKey
  <2>1. PICK m: m = [T.n[x] EXCEPT !.parent = p]
    OBVIOUS
  <2>2. x \in TreeKey /\ T.n[x] \in Nodes
    BY <1>2, KeyFacts DEF Trees
  <2>3. /\ m \in Nodes /\ m.red = T.n[x].red /\ m.size = T.n[x].size /\ m.value = T.n[x].value
        /\ m.r1 = T.n[x].r1 /\ m.r2 = T.n[x].r2 /\ m.parent = p /\ m.child = T.n[x].child
    BY <2>1, <2>2 DEF Nodes
  <2>4. Written(T, x, m, R)
    BY <1>2, <2>1 DEF SetParent, Written
  <2>5. R \in Trees /\ R.root = T.root /\ R.n[x] = m /\ \A j \in TreeKey \ {x}: R.n[j] = T.n[j]
    BY <2>2, <2>3, <2>4, NodeIs
  <2> QED
    BY <2>3, <2>5 DEF SameData, SameChildren, SameRed, Child, Parent
<1> QED
  BY <1>1, <1>2

ChildSet(R, T, x, d, y) ==
  /\ R \in Trees /\ R.root = T.root
  /\ SameData(R, T) /\ SameParents(R, T) /\ SameRed(R, T)
  /\ \A k \in TreeKey, e \in Dirs: Child(R, k, e) = IF k = x /\ e = d THEN y ELSE Child(T, k, e)

LEMMA SetChildIs ==
  ASSUME NEW T \in Trees, NEW x \in TreeKey, NEW d \in Dirs, NEW y \in Keys0
  PROVE  ChildSet([T EXCEPT !.n[x].child[d] = y], T, x, d, y)
<1>0. PICK R: R = [T EXCEPT !.n[x].child[d] = y]
  OBVIOUS
<1> SUFFICES ChildSet(R, T, x, d, y)
  BY <1>0
<1> USE DEF ChildSet
<1>1. PICK c: c = [T.n[x].child EXCEPT ![d] = y]
  OBVIOUS
<1>2. PICK m: m = [T.n[x] EXCEPT !.child = c]
  OBVIOUS
<1>3. T.n[x] \in Nodes /\ T.n[x].child \in [Dirs -> Keys0]
  BY DEF Trees, Nodes
<1>4. c \in [Dirs -> Keys0] /\ \A e \in Dirs: c[e] = IF e = d THEN y ELSE T.n[x].child[e]
  BY <1>1, <1>3
<1>5. /\ m \in Nodes /\ m.red = T.n[x].red /\ m.size = T.n[x].size /\ m.value = T.n[x].value
      /\ m.r1 = T.n[x].r1 /\ m.r2 = T.n[x].r2 /\ m.parent = T.n[x].parent /\ m.child = c
  BY <1>2, <1>3, <1>4 DEF Nodes
<1>6. Written(T, x, m, R)
  BY <1>0, <1>1, <1>2 DEF Written
<1>7. R \in Trees /\ R.root = T.root /\ R.n[x] = m /\ \A j \in TreeKey \ {x}: R.n[j] = T.n[j]
  BY ONLY <1>5, <1>6, NodeIs
<1> QED
  BY <1>4, <1>5, <1>7 DEF SameData, SameParents, SameRed, Child, Parent

\* R is T, in which y has become the child of x on side d.
ChildAssigned(R, T, x, d, y) ==
  /\ R \in Trees /\ R.root = T.root /\ SameData(R, T) /\ SameRed(R, T)
  /\ \A k \in TreeKey, e \in Dirs: Child(R, k, e) = IF k = x /\ e = d THEN y ELSE Child(T, k, e)
  /\ \A k \in TreeKey: Parent(R, k) = IF k = y THEN x
                                      ELSE IF k = Child(T, x, d) /\ Parent(T, k) = x THEN NoKey
                                      ELSE Parent(T, k)

LEMMA AssignChildIs ==
  ASSUME NEW T \in Trees, NEW x \in TreeKey, NEW d \in Dirs, NEW y \in Keys0
  PROVE  ChildAssigned(AssignChild(T, x, d, y), T, x, d, y)
<1>0. PICK R: R = AssignChild(T, x, d, y)
  OBVIOUS
<1> SUFFICES ChildAssigned(R, T, x, d, y)
  BY <1>0
<1>1. PICK old: old = Child(T, x, d)
  OBVIOUS
<1>2. old \in Keys0
  BY <1>1, TreeFacts
<1>3. PICK T1: T1 = Disown(T, x, d)
  OBVIOUS
<1>4. /\ T1 \in Trees /\ T1.root = T.root
      /\ SameData(T1, T) /\ SameChildren(T1, T) /\ SameRed(T1, T)
      /\ \A k \in TreeKey: Parent(T1, k) = IF k = old /\ Parent(T, k) = x THEN NoKey ELSE Parent(T, k)
  <2>1. CASE old # NoKey /\ Parent(T, old) = x
    <3>1. T1 = SetParent(T, old, NoKey) /\ NoKey \in Keys0
      BY <1>1, <1>3, <2>1, KeyFacts DEF Disown
    <3>2. ParentSet(T1, T, old, NoKey)
      BY <1>2, <3>1, SetParentIs
    <3> QED
      BY <2>1, <3>2 DEF ParentSet
  <2>2. CASE ~(old # NoKey /\ Parent(T, old) = x)
    <3>1. T1 = T
      BY <1>1, <1>3, <2>2 DEF Disown
    <3> QED
      BY <2>2, <3>1, KeyFacts DEF SameData, SameChildren, SameRed
  <2> QED
    BY <2>1, <2>2
<1>5. PICK T2: T2 = [T1 EXCEPT !.n[x].child[d] = y]
  OBVIOUS
<1>6. /\ T2 \in Trees /\ T2.root = T1.root
      /\ SameData(T2, T1) /\ SameParents(T2, T1) /\ SameRed(T2, T1)
      /\ \A k \in TreeKey, e \in Dirs: Child(T2, k, e) = IF k = x /\ e = d THEN y ELSE Child(T1, k, e)
  <2>1. ChildSet(T2, T1, x, d, y)
    BY <1>4, <1>5, SetChildIs
  <2> QED
    BY <2>1 DEF ChildSet
<1>7. R = SetParent(T2, y, x)
  BY <1>0, <1>3, <1>5 DEF AssignChild
<1>8. /\ R \in Trees /\ R.root = T2.root
      /\ SameData(R, T2) /\ SameChildren(R, T2) /\ SameRed(R, T2)
      /\ \A k \in TreeKey: Parent(R, k) = IF k = y THEN x ELSE Parent(T2, k)
  <2>1. ParentSet(R, T2, y, x)
    BY <1>6, <1>7, SetParentIs, KeyFacts
  <2> QED
    BY <2>1 DEF ParentSet
<1> QED
  BY <1>1, <1>4, <1>6, <1>8 DEF ChildAssigned, SameData, SameRed, SameChildren, SameParents

Recalculated(R, T, x) ==
  /\ R \in Trees /\ R.root = T.root
  /\ SameChildren(R, T) /\ SameParents(R, T) /\ SameRed(R, T)
  /\ \A k \in TreeKey: R.n[k].value = T.n[k].value
  /\ \A k \in TreeKey \ {x}: R.n[k] = T.n[k]
  /\ R.n[x].size = 1 + TreeSize(T, Child(T, x, Left)) + TreeSize(T, Child(T, x, Right))
  /\ R.n[x].r1 = Plus(SumOf(T, Child(T, x, Left)), T.n[x].value)
  /\ R.n[x].r2 = Plus(R.n[x].r1, SumOf(T, Child(T, x, Right)))

LEMMA RecalcIs ==
  ASSUME NEW T \in Trees, NEW x \in TreeKey
  PROVE  Recalculated(Recalc(T, x), T, x)
<1>0. PICK R: R = Recalc(T, x)
  OBVIOUS
<1> SUFFICES Recalculated(R, T, x)
  BY <1>0
<1> USE DEF Recalculated
<1>1. PICK z, a, b: /\ z = 1 + TreeSize(T, Child(T, x, Left)) + TreeSize(T, Child(T, x, Right))
                    /\ a = Plus(SumOf(T, Child(T, x, Left)), T.n[x].value)
                    /\ b = Plus(a, SumOf(T, Child(T, x, Right)))
  OBVIOUS
<1>2. PICK m: m = [T.n[x] EXCEPT !.size = z, !.r1 = a, !.r2 = b]
  OBVIOUS
<1>3. T.n[x] \in Nodes /\ Child(T, x, Left) \in Keys0 /\ Child(T, x, Right) \in Keys0
  BY TreeFacts, KeyFacts DEF Trees
<1>4. \A c \in Keys0: TreeSize(T, c) \in Int /\ SumOf(T, c) \in Int
  BY TreeFacts, KeyFacts DEF TreeSize, SumOf, NoSum
<1>5. z \in Int
  BY <1>1, <1>3, <1>4
<1>6. \A i, j \in Int: Plus(i, j) \in Int
  BY DEF Plus
<1>7. a \in Int /\ b \in Int
  BY <1>1, <1>3, <1>4, <1>6, TreeFacts
<1>8. /\ m \in Nodes /\ m.red = T.n[x].red /\ m.size = z /\ m.value = T.n[x].value
      /\ m.r1 = a /\ m.r2 = b /\ m.parent = T.n[x].parent /\ m.child = T.n[x].child
  BY <1>2, <1>3, <1>5, <1>7 DEF Nodes
<1>9. Written(T, x, m, R)
  BY <1>0, <1>1, <1>2 DEF Recalc, Written
<1>10. R \in Trees /\ R.root = T.root /\ R.n[x] = m /\ \A j \in TreeKey \ {x}: R.n[j] = T.n[j]
  BY <1>8, <1>9, NodeIs
<1> QED
  BY <1>1, <1>8, <1>10 DEF SameChildren, SameParents, SameRed, Child, Parent

-----------------------------------------------------------------------------
(* The shape of a tree. N are its nodes, and sub the sets of nodes below each, with it. *)

SubOf(sub, c) == IF c = NoKey THEN {} ELSE sub[c]
Before(d, y, k) == IF d = Left THEN y < k ELSE k < y

Linked(T, N, sub) ==
  /\ T \in Trees /\ N \subseteq TreeKey /\ sub \in [N -> SUBSET N]
  /\ IF T.root = NoKey THEN N = {} ELSE T.root \in N /\ sub[T.root] = N
  /\ \A k \in N, d \in Dirs:
       Child(T, k, d) # NoKey => Child(T, k, d) \in N /\ Parent(T, Child(T, k, d)) = k
  /\ \A k \in N: IF k = T.root THEN Parent(T, k) = NoKey
                 ELSE Parent(T, k) \in N /\ \E d \in Dirs: Child(T, Parent(T, k), d) = k
  /\ \A k \in N, d \in Dirs:
       /\ sub[k] = {k} \cup SubOf(sub, Child(T, k, d)) \cup SubOf(sub, Child(T, k, Other(d)))
       /\ k \notin SubOf(sub, Child(T, k, d))
       /\ SubOf(sub, Child(T, k, d)) \cap SubOf(sub, Child(T, k, Other(d))) = {}

\* the order of the keys; the one of x does not count
Ordered(T, N, sub, x) ==
  \A k \in N \ {x}, d \in Dirs: \A y \in SubOf(sub, Child(T, k, d)) \ {x}: Before(d, y, k)

\* keys that are not in the tree have no children
Clean(T, N) == \A k \in TreeKey \ N, d \in Dirs: Child(T, k, d) = NoKey

LEMMA BeforeFacts ==
  /\ \A d \in Dirs, y, k \in TreeKey: Before(Other(d), y, k) <=> Before(d, k, y)
  /\ \A d \in Dirs, y, k, z \in TreeKey: Before(d, y, k) /\ Before(d, k, z) => Before(d, y, z)
  /\ \A d \in Dirs, y, k \in TreeKey: ~(Before(d, y, k) /\ Before(Other(d), y, k))
  /\ \A d \in Dirs, y \in TreeKey: ~Before(d, y, y)
  /\ \A y, k \in TreeKey: y # k => Before(Side(y, k), y, k)
BY KeyFacts DEF Before, Other, Dirs, Left, Right, Side

LEMMA LinkFacts ==
  ASSUME NEW T, NEW N, NEW sub, Linked(T, N, sub)
  PROVE  /\ T \in Trees /\ N \subseteq TreeKey
         /\ \A k \in N: /\ k \in TreeKey /\ k # NoKey /\ k \in sub[k] /\ sub[k] \subseteq N
                        /\ Parent(T, k) \in N \cup {NoKey}
         /\ \A k \in N, d \in Dirs: /\ Child(T, k, d) \in N \cup {NoKey}
                                    /\ Child(T, k, d) # k
                                    /\ SubOf(sub, Child(T, k, d)) \subseteq sub[k] \ {k}
                                    /\ Child(T, k, d) # NoKey => Child(T, k, d) # Child(T, k, Other(d))
         /\ \A k \in N, d \in Dirs: Child(T, k, d) # NoKey
              => Child(T, k, d) \in sub[Child(T, k, d)] /\ sub[Child(T, k, d)] \subseteq sub[k] \ {k}
<1>1. T \in Trees /\ N \subseteq TreeKey /\ sub \in [N -> SUBSET N]
  BY DEF Linked
<1>2. \A k \in N: k \in TreeKey /\ k # NoKey
  BY <1>1, KeyFacts
<1>3. ASSUME NEW k \in N PROVE k \in sub[k] /\ sub[k] \subseteq N
  BY <1>1, KeyFacts DEF Linked
<1>4. ASSUME NEW k \in N PROVE Parent(T, k) \in N \cup {NoKey}
  BY DEF Linked
<1>5. ASSUME NEW k \in N, NEW d \in Dirs
      PROVE  Child(T, k, d) \in N \cup {NoKey} /\ SubOf(sub, Child(T, k, d)) \subseteq sub[k] \ {k}
  BY DEF Linked
<1>6. ASSUME NEW k \in N, NEW d \in Dirs, Child(T, k, d) # NoKey
      PROVE  /\ Child(T, k, d) \in sub[Child(T, k, d)] /\ sub[Child(T, k, d)] \subseteq sub[k] \ {k}
             /\ Child(T, k, d) # k /\ Child(T, k, d) # Child(T, k, Other(d))
  <2>1. PICK c: c = Child(T, k, d)
    OBVIOUS
  <2>2. c \in N /\ SubOf(sub, c) = sub[c] /\ c \in sub[c]
    BY <1>3, <1>5, <1>6, <2>1 DEF SubOf
  <2>3. c # Child(T, k, Other(d))
    <3>1. SubOf(sub, c) \cap SubOf(sub, Child(T, k, Other(d))) = {}
      BY <2>1 DEF Linked
    <3> QED
      BY <2>2, <3>1
  <2> QED
    BY <1>5, <2>1, <2>2, <2>3
<1> QED
  BY <1>1, <1>2, <1>3, <1>4, <1>5, <1>6

\* Where a node hangs below its parent.
LEMMA DirOfIs ==
  ASSUME NEW T, NEW N, NEW sub, Linked(T, N, sub), NEW x \in N, Parent(T, x) # NoKey
  PROVE  /\ Parent(T, x) \in N /\ Parent(T, x) # x
         /\ DirOf(T, Parent(T, x), x) \in Dirs
         /\ Child(T, Parent(T, x), DirOf(T, Parent(T, x), x)) = x
         /\ x # T.root
         /\ sub[x] \subseteq sub[Parent(T, x)] \ {Parent(T, x)}
<1>1. PICK p: p = Parent(T, x)
  OBVIOUS
<1>2. x # T.root /\ p \in N /\ \E d \in Dirs: Child(T, p, d) = x
  BY <1>1 DEF Linked
<1>3. PICK d \in Dirs: Child(T, p, d) = x
  BY <1>2
<1>4. x # NoKey /\ p # NoKey /\ sub[x] \subseteq sub[p] \ {p} /\ x # p /\ x # Child(T, p, Other(d))
  BY <1>2, <1>3, LinkFacts
<1>5. DirOf(T, p, x) = d
  BY <1>3, <1>4 DEF DirOf, Dirs, Other, Left, Right
<1> QED
  BY <1>1, <1>2, <1>3, <1>4, <1>5

\* Only the pointers between nodes matter.
LEMMA SameLinks ==
  ASSUME NEW T, NEW N, NEW sub, Linked(T, N, sub), NEW R \in Trees, R.root = T.root,
         SameChildren(R, T), SameParents(R, T)
  PROVE  /\ Linked(R, N, sub)
         /\ \A x: Ordered(T, N, sub, x) => Ordered(R, N, sub, x)
         /\ Clean(T, N) => Clean(R, N)
<1>1. N \subseteq TreeKey
  BY DEF Linked
<1>2. \A k \in N, d \in Dirs: Child(R, k, d) = Child(T, k, d) /\ Child(R, k, Other(d)) = Child(T, k, Other(d))
  BY <1>1, DirFacts DEF SameChildren
<1>3. \A k \in N: Parent(R, k) = Parent(T, k)
  BY <1>1 DEF SameParents
<1>4. Linked(R, N, sub)
  <2>1. \A k \in N, d \in Dirs:
          Child(R, k, d) # NoKey => Child(R, k, d) \in N /\ Parent(R, Child(R, k, d)) = k
    BY <1>2, <1>3 DEF Linked
  <2>2. \A k \in N: IF k = R.root THEN Parent(R, k) = NoKey
                    ELSE Parent(R, k) \in N /\ \E d \in Dirs: Child(R, Parent(R, k), d) = k
    BY <1>2, <1>3 DEF Linked
  <2>3. \A k \in N, d \in Dirs:
          /\ sub[k] = {k} \cup SubOf(sub, Child(R, k, d)) \cup SubOf(sub, Child(R, k, Other(d)))
          /\ k \notin SubOf(sub, Child(R, k, d))
          /\ SubOf(sub, Child(R, k, d)) \cap SubOf(sub, Child(R, k, Other(d))) = {}
    BY <1>2 DEF Linked
  <2>4. /\ N \subseteq TreeKey /\ sub \in [N -> SUBSET N]
        /\ IF R.root = NoKey THEN N = {} ELSE R.root \in N /\ sub[R.root] = N
    BY DEF Linked
  <2> QED
    BY <2>1, <2>2, <2>3, <2>4 DEF Linked
<1>5. ASSUME NEW x, Ordered(T, N, sub, x) PROVE Ordered(R, N, sub, x)
  BY <1>2, <1>5 DEF Ordered
<1>6. Clean(T, N) => Clean(R, N)
  BY DEF Clean, SameChildren
<1> QED
  BY <1>4, <1>5, <1>6

-----------------------------------------------------------------------------
(* Rotation.                                                                         *)

SameValues(R, T) == \A k \in TreeKey: R.n[k].value = T.n[k].value

\* R is T, in which b, the child of a on the side other than d, has taken the place of a
\* (below p on side e, if p is a node), a is below b on side d, and m below a.
Rotated(R, T, d, a, b, m, p, e) ==
  /\ R \in Trees /\ SameRed(R, T) /\ SameValues(R, T)
  /\ R.root = IF p = NoKey THEN b ELSE T.root
  /\ Child(R, a, Other(d)) = m /\ Child(R, b, d) = a /\ (p # NoKey => Child(R, p, e) = b)
  /\ \A k \in TreeKey, f \in Dirs:
       ~(k = a /\ f = Other(d)) /\ ~(k = b /\ f = d) /\ ~(k = p /\ f = e)
         => Child(R, k, f) = Child(T, k, f)
  /\ Parent(R, a) = b /\ Parent(R, b) = p /\ (m # NoKey => Parent(R, m) = a)
  /\ \A k \in TreeKey \ {a, b, m}: Parent(R, k) = Parent(T, k)

\* the nodes around a rotation
Turn(T, N, d, a, b, m, p, e) ==
  /\ d \in Dirs /\ a \in N /\ b \in N /\ m \in N \cup {NoKey} /\ p \in N \cup {NoKey} /\ e \in Dirs
  /\ b = Child(T, a, Other(d)) /\ m = Child(T, b, d) /\ p = Parent(T, a) /\ e = DirOf(T, p, a)
  /\ a # b /\ m \notin {a, b} /\ p \notin {a, b} /\ (m = p => m = NoKey)
  /\ p = NoKey => a = T.root
  /\ p # NoKey => Child(T, p, e) = a /\ a # T.root
  /\ Parent(T, b) = a /\ (m # NoKey => Parent(T, m) = b)

LEMMA TurnIs ==
  ASSUME NEW T, NEW N, NEW sub, Linked(T, N, sub), NEW d \in Dirs, NEW a \in N,
         Child(T, a, Other(d)) # NoKey
  PROVE  LET b == Child(T, a, Other(d))
             p == Parent(T, a)
         IN  Turn(T, N, d, a, b, Child(T, b, d), p, DirOf(T, p, a))
<1>0. PICK b, m, p, e: /\ b = Child(T, a, Other(d)) /\ m = Child(T, b, d) /\ p = Parent(T, a)
                       /\ e = DirOf(T, p, a)
  OBVIOUS
<1> SUFFICES Turn(T, N, d, a, b, m, p, e)
  BY <1>0
<1>1. Other(d) \in Dirs /\ e \in Dirs
  BY <1>0, DirFacts DEF DirOf, Dirs
<1>2. /\ b \in N /\ b # NoKey /\ b # a /\ m \in N \cup {NoKey} /\ p \in N \cup {NoKey}
      /\ b \in sub[b] /\ sub[b] \subseteq sub[a] \ {a} /\ a # NoKey
  BY <1>0, <1>1, LinkFacts
<1>3. Parent(T, b) = a /\ (m # NoKey => Parent(T, m) = b)
  BY <1>0, <1>1, <1>2 DEF Linked
<1>4. m # b /\ m # a
  <2>1. m # NoKey => m \in sub[m] /\ sub[m] \subseteq sub[b] \ {b}
    BY <1>0, <1>2, LinkFacts
  <2> QED
    BY <1>2, <2>1
<1>5. CASE p = NoKey
  <2>1. a = T.root
    <3>1. NoKey \notin N
      BY LinkFacts
    <3>2. a # T.root => Parent(T, a) \in N
      BY DEF Linked
    <3> QED
      BY <1>0, <1>5, <3>1, <3>2
  <2> QED
    <3>1. p \notin {a, b} /\ (m = p => m = NoKey) /\ m \notin {a, b}
      BY <1>2, <1>4, <1>5
    <3>2. p # NoKey => Child(T, p, e) = a /\ a # T.root
      BY <1>5
    <3> QED
      BY <1>0, <1>1, <1>2, <1>3, <2>1, <3>1, <3>2 DEF Turn
<1>6. CASE p # NoKey
  <2>1. Child(T, p, e) = a /\ a # T.root /\ a \in sub[a] /\ sub[a] \subseteq sub[p] \ {p} /\ p \in sub[p] /\ p # a
    BY <1>0, <1>2, <1>6, DirOfIs, LinkFacts
  <2>2. p # b
    BY <1>2, <2>1
  <2>3. m # NoKey => m \in sub[a]
    BY <1>0, <1>2, LinkFacts
  <2>4. p \notin sub[a]
    BY <2>1
  <2> QED
    BY <1>0, <1>1, <1>2, <1>3, <1>4, <1>6, <2>1, <2>2, <2>3, <2>4 DEF Turn
<1> QED
  BY <1>5, <1>6

LEMMA RotateIs ==
  ASSUME NEW T \in Trees, NEW N \in SUBSET TreeKey, NEW d, NEW a, NEW b, NEW m, NEW p, NEW e,
         Turn(T, N, d, a, b, m, p, e)
  PROVE  Rotated(Rotate(T, d, a), T, d, a, b, m, p, e)
<1>0. PICK R: R = Rotate(T, d, a)
  OBVIOUS
<1> SUFFICES Rotated(R, T, d, a, b, m, p, e)
  BY <1>0
<1>1. /\ d \in Dirs /\ Other(d) \in Dirs /\ Other(d) # d /\ e \in Dirs
      /\ a \in TreeKey /\ b \in TreeKey /\ m \in Keys0 /\ p \in Keys0
      /\ a # NoKey /\ b # NoKey
      /\ b = Child(T, a, Other(d)) /\ m = Child(T, b, d) /\ p = Parent(T, a) /\ e = DirOf(T, p, a)
      /\ a # b /\ m \notin {a, b} /\ p \notin {a, b}
      /\ Parent(T, b) = a
      /\ p # NoKey => Child(T, p, e) = a
  BY KeyFacts, DirFacts DEF Turn, Keys0
<1>2. PICK A: A = AssignChild(T, a, Other(d), m)
  OBVIOUS
<1>3. PICK T1: T1 = Recalc(A, a)
  OBVIOUS
<1>4. PICK B: B = AssignChild(T1, b, d, a)
  OBVIOUS
<1>5. PICK T2: T2 = Recalc(B, b)
  OBVIOUS
<1>6. R = Replace(T2, p, a, b)
  BY <1>0, <1>1, <1>2, <1>3, <1>4, <1>5 DEF Rotate
<1>7. ChildAssigned(A, T, a, Other(d), m)
  BY <1>1, <1>2, AssignChildIs
<1>8. Recalculated(T1, A, a)
  BY <1>1, <1>3, <1>7, RecalcIs DEF ChildAssigned
<1>9. /\ T1 \in Trees /\ T1.root = T.root /\ SameValues(T1, T) /\ SameRed(T1, T)
      /\ \A k \in TreeKey, f \in Dirs: Child(T1, k, f) = IF k = a /\ f = Other(d) THEN m ELSE Child(T, k, f)
      /\ \A k \in TreeKey: Parent(T1, k) = IF k = m THEN a ELSE IF k = b THEN NoKey ELSE Parent(T, k)
  BY <1>1, <1>7, <1>8 DEF ChildAssigned, Recalculated, SameValues, SameRed, SameData, SameChildren, SameParents
<1>10. ChildAssigned(B, T1, b, d, a)
  BY <1>1, <1>4, <1>9, AssignChildIs, KeyFacts
<1>11. Recalculated(T2, B, b)
  BY <1>1, <1>5, <1>10, RecalcIs DEF ChildAssigned
<1>12. Child(T1, b, d) = m
  BY <1>1, <1>9
<1>13. /\ T2 \in Trees /\ T2.root = T.root /\ SameValues(T2, T) /\ SameRed(T2, T)
       /\ \A k \in TreeKey, f \in Dirs: Child(T2, k, f) = IF k = b /\ f = d THEN a ELSE Child(T1, k, f)
       /\ \A k \in TreeKey: Parent(T2, k) = IF k = a THEN b
                                            ELSE IF k = m /\ Parent(T1, k) = b THEN NoKey ELSE Parent(T1, k)
  BY <1>1, <1>9, <1>10, <1>11, <1>12
     DEF ChildAssigned, Recalculated, SameValues, SameRed, SameData, SameChildren, SameParents
<1>14. \A k \in TreeKey: Parent(T2, k) = IF k = a THEN b ELSE IF k = m THEN a
                                         ELSE IF k = b THEN NoKey ELSE Parent(T, k)
  BY <1>1, <1>9, <1>13
<1>15. \A k \in TreeKey, f \in Dirs:
         Child(T2, k, f) = IF k = b /\ f = d THEN a ELSE IF k = a /\ f = Other(d) THEN m ELSE Child(T, k, f)
  BY <1>1, <1>9, <1>13
<1>16. CASE p = NoKey
  <2>1. PICK C: C = [T2 EXCEPT !.root = b]
    OBVIOUS
  <2>2. Rooted(C, T2, b)
    BY <1>1, <1>13, <2>1, SetRootIs, KeyFacts
  <2>3. R = SetParent(C, b, NoKey)
    BY <1>6, <1>16, <2>1 DEF Replace
  <2>4. ParentSet(R, C, b, NoKey)
    BY <1>1, <2>2, <2>3, SetParentIs, KeyFacts DEF Rooted
  <2>5. /\ R \in Trees /\ R.root = b /\ SameValues(R, T2) /\ SameRed(R, T2) /\ SameChildren(R, T2)
        /\ \A k \in TreeKey: Parent(R, k) = IF k = b THEN NoKey ELSE Parent(T2, k)
    BY <2>2, <2>4 DEF Rooted, ParentSet, SameData, SameRed, SameValues, SameChildren, SameParents
  <2>6. SameValues(R, T) /\ SameRed(R, T)
    BY <1>13, <2>5 DEF SameValues, SameRed
  <2>7. \A k \in TreeKey, f \in Dirs:
          Child(R, k, f) = IF k = b /\ f = d THEN a ELSE IF k = a /\ f = Other(d) THEN m ELSE Child(T, k, f)
    BY <1>15, <2>5 DEF SameChildren
  <2>8. \A k \in TreeKey: Parent(R, k) = IF k = b THEN NoKey ELSE IF k = a THEN b ELSE IF k = m THEN a
                                         ELSE Parent(T, k)
    BY <1>14, <2>5
  <2> QED
    BY <1>1, <1>16, <2>5, <2>6, <2>7, <2>8, KeyFacts DEF Rotated
<1>17. CASE p # NoKey
  <2>1. p \in TreeKey
    BY <1>1, <1>17, KeyFacts
  <2>2. DirOf(T2, p, a) = e
    <3>1. Child(T2, p, Right) = Child(T, p, Right)
      BY <1>1, <1>15, <2>1, KeyFacts
    <3> QED
      BY <1>1, <3>1 DEF DirOf
  <2>3. R = AssignChild(T2, p, e, b)
    BY <1>6, <1>17, <2>2 DEF Replace, ReplaceChild
  <2>4. ChildAssigned(R, T2, p, e, b)
    BY <1>1, <1>13, <2>1, <2>3, AssignChildIs, KeyFacts
  <2>5. Child(T2, p, e) = a /\ Parent(T2, a) = b
    BY <1>1, <1>14, <1>15, <1>17, <2>1
  <2>6. /\ R \in Trees /\ R.root = T.root /\ SameValues(R, T) /\ SameRed(R, T)
        /\ \A k \in TreeKey, f \in Dirs: Child(R, k, f) = IF k = p /\ f = e THEN b ELSE Child(T2, k, f)
        /\ \A k \in TreeKey: Parent(R, k) = IF k = b THEN p ELSE Parent(T2, k)
    BY <1>1, <1>13, <2>4, <2>5 DEF ChildAssigned, SameValues, SameRed, SameData
  <2>7. \A k \in TreeKey, f \in Dirs:
          Child(R, k, f) = IF k = p /\ f = e THEN b ELSE
                           IF k = b /\ f = d THEN a ELSE IF k = a /\ f = Other(d) THEN m ELSE Child(T, k, f)
    BY <1>15, <2>6
  <2>8. \A k \in TreeKey: Parent(R, k) = IF k = b THEN p ELSE IF k = a THEN b ELSE IF k = m THEN a
                                         ELSE Parent(T, k)
    BY <1>14, <2>6
  <2> QED
    BY <1>1, <1>17, <2>1, <2>6, <2>7, <2>8, KeyFacts DEF Rotated
<1> QED
  BY <1>16, <1>17

\* Each node has one place.
LEMMA OnePlace ==
  ASSUME NEW T, NEW N, NEW sub, Linked(T, N, sub)
  PROVE  /\ \A k, j \in N, f, g \in Dirs:
              Child(T, k, f) = Child(T, j, g) /\ Child(T, k, f) # NoKey => k = j /\ f = g
         /\ \A k \in N, f \in Dirs: Child(T, k, f) # NoKey => Child(T, k, f) # T.root
<1>1. ASSUME NEW k \in N, NEW j \in N, NEW f \in Dirs, NEW g \in Dirs,
             Child(T, k, f) = Child(T, j, g), Child(T, k, f) # NoKey
      PROVE  k = j /\ f = g
  <2>1. k = j
    <3>1. Parent(T, Child(T, k, f)) = k
      BY <1>1 DEF Linked
    <3>2. Parent(T, Child(T, j, g)) = j
      BY <1>1 DEF Linked
    <3> QED
      BY <1>1, <3>1, <3>2
  <2>2. Child(T, k, f) # Child(T, k, Other(f))
    BY <1>1, LinkFacts
  <2> QED
    BY <1>1, <2>1, <2>2, DirFacts
<1>2. ASSUME NEW k \in N, NEW f \in Dirs, Child(T, k, f) # NoKey
      PROVE  Child(T, k, f) # T.root
  <2>1. Child(T, k, f) \in N /\ Parent(T, Child(T, k, f)) = k /\ k # NoKey
    BY <1>2, LinkFacts DEF Linked
  <2> QED
    BY <2>1 DEF Linked
<1> QED
  BY <1>1, <1>2

Turned(sub, T, d, a, b, m) ==
  [sub EXCEPT ![b] = sub[a], ![a] = {a} \cup SubOf(sub, Child(T, a, d)) \cup SubOf(sub, m)]

LEMMA RotateKeeps ==
  ASSUME NEW T, NEW N, NEW sub, Linked(T, N, sub), NEW R, NEW d, NEW a, NEW b, NEW m, NEW p, NEW e,
         Turn(T, N, d, a, b, m, p, e), Rotated(R, T, d, a, b, m, p, e)
  PROVE  \E sub2: /\ Linked(R, N, sub2)
                  /\ Ordered(T, N, sub, NoKey) => Ordered(R, N, sub2, NoKey)
<1>1. PICK c, o: c = Child(T, a, d) /\ o = Child(T, b, Other(d))
  OBVIOUS
<1>2. PICK sub2: sub2 = Turned(sub, T, d, a, b, m)
  OBVIOUS
<1>3. /\ d \in Dirs /\ Other(d) \in Dirs /\ Other(d) # d /\ Other(Other(d)) = d /\ e \in Dirs
      /\ \A f \in Dirs: f = d \/ f = Other(d)
      /\ a \in N /\ b \in N /\ m \in N \cup {NoKey} /\ p \in N \cup {NoKey}
      /\ b = Child(T, a, Other(d)) /\ m = Child(T, b, d) /\ p = Parent(T, a)
      /\ a # b /\ m \notin {a, b} /\ p \notin {a, b} /\ (m = p => m = NoKey)
      /\ p = NoKey => a = T.root
      /\ p # NoKey => Child(T, p, e) = a /\ a # T.root
      /\ Parent(T, b) = a /\ (m # NoKey => Parent(T, m) = b)
  BY DirFacts DEF Turn
<1>4. /\ NoKey \notin N /\ N \subseteq TreeKey /\ T \in Trees
      /\ c \in N \cup {NoKey} /\ o \in N \cup {NoKey}
  BY <1>1, <1>3, LinkFacts
<1>5. /\ \A k \in N, f \in Dirs: Child(T, k, f) = a => k = p /\ f = e
      /\ \A k \in N, f \in Dirs: Child(T, k, f) = b => k = a /\ f = Other(d)
      /\ \A k \in N, f \in Dirs: Child(T, k, f) = m /\ m # NoKey => k = b /\ f = d
      /\ b # T.root /\ (m # NoKey => m # T.root)
  <2>1. p # NoKey => p \in N
    BY <1>3
  <2>2. ASSUME NEW k \in N, NEW f \in Dirs, Child(T, k, f) = a PROVE k = p /\ f = e
    <3>1. Parent(T, a) = k
      BY <1>3, <1>4, <2>2 DEF Linked
    <3> QED
      BY <1>3, <1>4, <2>2, <3>1, OnePlace
  <2> QED
    BY <1>3, <1>4, <2>2, OnePlace
<1>6. /\ R \in Trees /\ R.root = IF p = NoKey THEN b ELSE T.root
      /\ Child(R, a, Other(d)) = m /\ Child(R, b, d) = a /\ (p # NoKey => Child(R, p, e) = b)
      /\ \A k \in N, f \in Dirs:
           ~(k = a /\ f = Other(d)) /\ ~(k = b /\ f = d) /\ ~(k = p /\ f = e)
             => Child(R, k, f) = Child(T, k, f)
      /\ Parent(R, a) = b /\ Parent(R, b) = p /\ (m # NoKey => Parent(R, m) = a)
      /\ \A k \in N \ {a, b, m}: Parent(R, k) = Parent(T, k)
  BY <1>4 DEF Rotated
<1>7. Child(R, a, d) = c /\ Child(R, b, Other(d)) = o
  BY <1>1, <1>3, <1>6
<1>8. c \notin {a, b} /\ (c # NoKey => c # m) /\ o \notin {a, b} /\ (o # NoKey => o # m)
  <2>1. c # a /\ c # b /\ o # b
    BY <1>1, <1>3, <1>4, <1>5, LinkFacts
  <2>2. o # a
    BY <1>1, <1>3, <1>5
  <2> QED
    BY <1>1, <1>3, <1>5, <2>1, <2>2
<1>9. /\ sub \in [N -> SUBSET N]
      /\ sub[a] = {a} \cup SubOf(sub, c) \cup sub[b] /\ sub[b] = {b} \cup SubOf(sub, m) \cup SubOf(sub, o)
      /\ a \notin SubOf(sub, c) /\ a \notin sub[b] /\ b \notin SubOf(sub, m) /\ b \notin SubOf(sub, o)
      /\ SubOf(sub, c) \cap sub[b] = {} /\ SubOf(sub, m) \cap SubOf(sub, o) = {}
  <2>1. SubOf(sub, b) = sub[b]
    BY <1>3, <1>4 DEF SubOf
  <2>2. sub \in [N -> SUBSET N]
    BY DEF Linked
  <2>3. /\ sub[a] = {a} \cup SubOf(sub, c) \cup SubOf(sub, b)
        /\ a \notin SubOf(sub, c) /\ SubOf(sub, c) \cap SubOf(sub, b) = {}
    BY <1>1, <1>3 DEF Linked
  <2>4. a \notin SubOf(sub, b)
    BY <1>3 DEF Linked
  <2>5. /\ sub[b] = {b} \cup SubOf(sub, m) \cup SubOf(sub, o)
        /\ b \notin SubOf(sub, m) /\ SubOf(sub, m) \cap SubOf(sub, o) = {}
    BY <1>1, <1>3 DEF Linked
  <2>6. b \notin SubOf(sub, o)
    BY <1>1, <1>3 DEF Linked
  <2> QED
    BY <2>1, <2>2, <2>3, <2>4, <2>5, <2>6
<1>10. /\ sub2 \in [N -> SUBSET N]
       /\ sub2[b] = sub[a] /\ sub2[a] = {a} \cup SubOf(sub, c) \cup SubOf(sub, m)
       /\ \A k \in N \ {a, b}: sub2[k] = sub[k]
  <2>1. {a} \cup SubOf(sub, c) \cup SubOf(sub, m) \in SUBSET N
    BY <1>3, <1>9
  <2> QED
    BY <1>1, <1>2, <1>3, <1>9, <2>1 DEF Turned
<1>11. \A x: x \in N \cup {NoKey} /\ x \notin {a, b} => SubOf(sub2, x) = SubOf(sub, x)
  BY <1>10 DEF SubOf
<1>12. SubOf(sub2, a) = sub2[a] /\ SubOf(sub2, b) = sub[a] /\ SubOf(sub, a) = sub[a]
  BY <1>3, <1>4, <1>10 DEF SubOf
<1>13. ASSUME NEW k \in N \ {a, b}, NEW f \in Dirs
       PROVE  /\ SubOf(sub2, Child(R, k, f)) = SubOf(sub, Child(T, k, f))
              /\ (k = p /\ f = e) \/ (Child(R, k, f) = Child(T, k, f) /\ Child(T, k, f) \notin {a, b})
  <2>1. CASE k = p /\ f = e
    <3>1. p # NoKey
      BY <1>4, <2>1
    <3>2. Child(R, p, e) = b /\ Child(T, p, e) = a
      BY <1>3, <1>6, <3>1
    <3> QED
      BY <1>12, <2>1, <3>2
  <2>2. CASE ~(k = p /\ f = e)
    <3>1. Child(R, k, f) = Child(T, k, f) /\ Child(T, k, f) \in N \cup {NoKey}
      BY <1>6, <2>2, LinkFacts
    <3>2. Child(T, k, f) \notin {a, b}
      BY <1>5, <2>2
    <3> QED
      BY <1>11, <3>1, <3>2
  <2> QED
    BY <2>1, <2>2
<1>14. IF R.root = NoKey THEN N = {} ELSE R.root \in N /\ sub2[R.root] = N
  <2>1. T.root # NoKey /\ T.root \in N /\ sub[T.root] = N
    BY <1>3 DEF Linked
  <2>2. CASE p = NoKey
    BY <1>3, <1>4, <1>6, <1>10, <2>1, <2>2
  <2>3. CASE p # NoKey
    BY <1>3, <1>4, <1>5, <1>6, <1>10, <2>1, <2>3
  <2> QED
    BY <2>2, <2>3
<1>15. ASSUME NEW k \in N, NEW f \in Dirs, Child(R, k, f) # NoKey
       PROVE  Child(R, k, f) \in N /\ Parent(R, Child(R, k, f)) = k
  <2>0. \A g \in Dirs: Child(T, k, g) # NoKey => Child(T, k, g) \in N /\ Parent(T, Child(T, k, g)) = k
    BY DEF Linked
  <2>1. CASE k = a
    <3>1. c # NoKey => c \in N /\ Parent(T, c) = a /\ c \notin {a, b, m}
      BY <1>1, <1>3, <1>8, <2>0, <2>1
    <3> QED
      BY <1>3, <1>6, <1>7, <1>15, <2>1, <3>1
  <2>2. CASE k = b
    <3>1. o # NoKey => o \in N /\ Parent(T, o) = b /\ o \notin {a, b, m}
      BY <1>1, <1>3, <1>8, <2>0, <2>2
    <3> QED
      BY <1>3, <1>6, <1>7, <1>15, <2>2, <3>1
  <2>3. CASE k \notin {a, b}
    <3>1. CASE k = p /\ f = e
      BY <1>3, <1>4, <1>6, <3>1
    <3>2. CASE ~(k = p /\ f = e)
      <4>1. Child(R, k, f) = Child(T, k, f) /\ Child(T, k, f) \notin {a, b}
        BY <1>13, <2>3, <3>2
      <4>2. Child(T, k, f) # m
        BY <1>5, <1>15, <2>3, <4>1
      <4> QED
        BY <1>6, <1>15, <2>0, <4>1, <4>2
    <3> QED
      BY <3>1, <3>2
  <2> QED
    BY <2>1, <2>2, <2>3
<1>16. ASSUME NEW k \in N
       PROVE  IF k = R.root THEN Parent(R, k) = NoKey
              ELSE Parent(R, k) \in N /\ \E f \in Dirs: Child(R, Parent(R, k), f) = k
  <2>1. CASE k = a
    <3>1. a # R.root
      BY <1>3, <1>6
    <3> QED
      BY <1>3, <1>6, <2>1, <3>1
  <2>2. CASE k = b
    BY <1>3, <1>4, <1>5, <1>6, <2>2
  <2>3. CASE k = m
    <3>1. m # R.root /\ m # NoKey
      BY <1>3, <1>4, <1>5, <1>6, <2>3
    <3> QED
      BY <1>3, <1>6, <2>3, <3>1
  <2>4. CASE k \notin {a, b, m}
    <3>1. Parent(R, k) = Parent(T, k) /\ (k = R.root <=> k = T.root)
      BY <1>3, <1>6, <2>4
    <3>2. CASE k = T.root
      BY <3>1, <3>2 DEF Linked
    <3>3. CASE k # T.root
      <4>1. Parent(T, k) \in N /\ \E f \in Dirs: Child(T, Parent(T, k), f) = k
        BY <3>3 DEF Linked
      <4>2. PICK f \in Dirs: Child(T, Parent(T, k), f) = k
        BY <4>1
      <4>3. Child(R, Parent(T, k), f) = k
        <5>1. Parent(T, k) # NoKey
          BY <1>4, <4>1
        <5>2. /\ ~(Parent(T, k) = a /\ f = Other(d)) /\ ~(Parent(T, k) = b /\ f = d)
              /\ ~(Parent(T, k) = p /\ f = e)
          BY <1>3, <2>4, <4>2, <5>1
        <5> QED
          BY <1>6, <4>1, <4>2, <5>2
      <4> QED
        BY <3>1, <3>3, <4>1, <4>3
    <3> QED
      BY <3>2, <3>3
  <2> QED
    BY <2>1, <2>2, <2>3, <2>4
<1>17. ASSUME NEW k \in N, NEW f \in Dirs
       PROVE  /\ sub2[k] = {k} \cup SubOf(sub2, Child(R, k, f)) \cup SubOf(sub2, Child(R, k, Other(f)))
              /\ k \notin SubOf(sub2, Child(R, k, f))
              /\ SubOf(sub2, Child(R, k, f)) \cap SubOf(sub2, Child(R, k, Other(f))) = {}
  <2>1. CASE k = a
    <3>1. SubOf(sub2, c) = SubOf(sub, c) /\ SubOf(sub2, m) = SubOf(sub, m)
      BY <1>3, <1>4, <1>8, <1>11
    <3>2. SubOf(sub, m) \subseteq sub[b]
      BY <1>9
    <3>3. f = d \/ f = Other(d)
      BY <1>3
    <3> QED
      BY <1>3, <1>6, <1>7, <1>9, <1>10, <2>1, <3>1, <3>2, <3>3
  <2>2. CASE k = b
    <3>1. SubOf(sub2, o) = SubOf(sub, o) /\ SubOf(sub2, a) = {a} \cup SubOf(sub, c) \cup SubOf(sub, m)
      BY <1>4, <1>8, <1>10, <1>11, <1>12
    <3>2. f = d \/ f = Other(d)
      BY <1>3
    <3>3. b \notin SubOf(sub2, a) /\ SubOf(sub2, a) \cap SubOf(sub, o) = {}
          /\ sub2[b] = {b} \cup SubOf(sub2, a) \cup SubOf(sub, o)
      BY <1>3, <1>9, <1>10, <3>1
    <3> QED
      BY <1>3, <1>6, <1>7, <1>9, <2>2, <3>1, <3>2, <3>3
  <2>3. CASE k \notin {a, b}
    <3>1. /\ SubOf(sub2, Child(R, k, f)) = SubOf(sub, Child(T, k, f))
          /\ SubOf(sub2, Child(R, k, Other(f))) = SubOf(sub, Child(T, k, Other(f)))
          /\ sub2[k] = sub[k]
      BY <1>10, <1>13, <2>3, DirFacts
    <3> QED
      BY <3>1 DEF Linked
  <2> QED
    BY <2>1, <2>2, <2>3
<1>18. Linked(R, N, sub2)
  BY <1>4, <1>6, <1>10, <1>14, <1>15, <1>16, <1>17 DEF Linked
<1>19. ASSUME Ordered(T, N, sub, NoKey) PROVE Ordered(R, N, sub2, NoKey)
  <2>0. \A k \in N, f \in Dirs: \A y \in SubOf(sub, Child(T, k, f)): Before(f, y, k)
    BY <1>4, <1>9, <1>19, LinkFacts DEF Ordered
  <2>1. SUFFICES ASSUME NEW k \in N, NEW f \in Dirs, NEW y \in SubOf(sub2, Child(R, k, f)), y \in TreeKey
                 PROVE  Before(f, y, k)
    <3>1. \A k \in N, f \in Dirs: SubOf(sub2, Child(R, k, f)) \subseteq TreeKey
      BY <1>4, <1>18, LinkFacts
    <3> QED
      BY <1>4, <2>1, <3>1 DEF Ordered
  <2>2. CASE k = a
    <3>1. (f = d /\ y \in SubOf(sub, c)) \/ (f = Other(d) /\ y \in SubOf(sub, m))
      <4>1. SubOf(sub2, c) = SubOf(sub, c) /\ SubOf(sub2, m) = SubOf(sub, m)
        BY <1>3, <1>4, <1>8, <1>11
      <4> QED
        BY <1>3, <1>6, <1>7, <2>1, <2>2, <4>1
    <3>2. y \in SubOf(sub, m) => y \in SubOf(sub, Child(T, a, Other(d)))
      BY <1>3, <1>4, <1>9 DEF SubOf
    <3> QED
      BY <1>1, <1>3, <2>0, <2>2, <3>1, <3>2
  <2>3. CASE k = b
    <3>1. b \in SubOf(sub, Child(T, a, Other(d)))
      BY <1>3, <1>4, <1>9 DEF SubOf
    <3>2. Before(d, a, b)
      BY <1>3, <1>4, <2>0, <3>1, BeforeFacts
    <3>3. CASE f = Other(d)
      BY <1>1, <1>3, <1>4, <1>7, <1>8, <1>11, <2>0, <2>1, <2>3, <3>3
    <3>4. CASE f = d
      <4>1. y = a \/ y \in SubOf(sub, c) \/ y \in SubOf(sub, m)
        BY <1>6, <1>10, <1>12, <2>1, <2>3, <3>4
      <4>2. CASE y \in SubOf(sub, c)
        <5>1. Before(d, y, a)
          BY <1>1, <1>3, <2>0, <4>2
        <5> QED
          BY <1>3, <1>4, <2>1, <2>3, <3>2, <3>4, <5>1, BeforeFacts
      <4>3. CASE y \in SubOf(sub, m)
        BY <1>3, <2>0, <2>3, <3>4, <4>3
      <4> QED
        BY <2>3, <3>2, <3>4, <4>1, <4>2, <4>3
    <3> QED
      BY <1>3, <3>3, <3>4
  <2>4. CASE k \notin {a, b}
    BY <1>13, <2>0, <2>1, <2>4
  <2> QED
    BY <2>2, <2>3, <2>4
<1> QED
  BY <1>18, <1>19

\* what a rotation does to children, and where else the nodes around it are
TurnedKids(R, T, N, d, a, b, p, e) ==
  /\ Child(T, a, Other(d)) = b
  /\ Child(R, a, d) = Child(T, a, d) /\ Child(R, a, Other(d)) = Child(T, b, d)
  /\ Child(R, b, d) = a /\ Child(R, b, Other(d)) = Child(T, b, Other(d))
  /\ Child(T, a, d) \notin {a, b} /\ \A f \in Dirs: Child(T, b, f) \notin {a, b}
  /\ \A f \in Dirs: Child(T, b, f) # NoKey => Child(T, a, d) # Child(T, b, f)
  /\ \A k \in N \ {a, b}, f \in Dirs:
       /\ \/ k = p /\ f = e /\ Child(T, k, f) = a /\ Child(R, k, f) = b
          \/ ~(k = p /\ f = e) /\ Child(R, k, f) = Child(T, k, f) /\ Child(T, k, f) \notin {a, b}
       /\ \A g \in Dirs: Child(T, b, g) # NoKey => Child(T, k, f) # Child(T, b, g)

LEMMA RotatedKids ==
  ASSUME NEW T, NEW N, NEW sub, Linked(T, N, sub), NEW R, NEW d, NEW a, NEW b, NEW m, NEW p, NEW e,
         Turn(T, N, d, a, b, m, p, e), Rotated(R, T, d, a, b, m, p, e)
  PROVE  TurnedKids(R, T, N, d, a, b, p, e)
<1>1. /\ d \in Dirs /\ Other(d) \in Dirs /\ Other(d) # d
      /\ a \in N /\ b \in N /\ a # b /\ a # NoKey /\ b # NoKey /\ p \notin {a, b}
      /\ b = Child(T, a, Other(d)) /\ m = Child(T, b, d) /\ p = Parent(T, a)
      /\ p # NoKey => Child(T, p, e) = a
      /\ p # NoKey => p \in N /\ e \in Dirs
      /\ Parent(T, b) = a /\ m \notin {a, b} /\ \A f \in Dirs: f = d \/ f = Other(d)
  BY LinkFacts, DirFacts DEF Turn
<1>2. N \subseteq TreeKey /\ NoKey \notin N
  BY LinkFacts
<1>3. /\ Child(R, a, Other(d)) = m /\ Child(R, b, d) = a /\ (p # NoKey => Child(R, p, e) = b)
      /\ \A k \in N, f \in Dirs:
           ~(k = a /\ f = Other(d)) /\ ~(k = b /\ f = d) /\ ~(k = p /\ f = e)
             => Child(R, k, f) = Child(T, k, f)
  BY <1>2 DEF Rotated
<1>4. \A k, j \in N, f, g \in Dirs:
        Child(T, k, f) = Child(T, j, g) /\ Child(T, k, f) # NoKey => k = j /\ f = g
  BY OnePlace
<1>5. ASSUME NEW k \in N, NEW f \in Dirs
      PROVE  (Child(T, k, f) = a => k = p) /\ (Child(T, k, f) = b => k = a /\ f = Other(d))
             /\ Child(T, k, f) # k
  <2>1. Child(T, k, f) = a => Parent(T, a) = k
    BY <1>1 DEF Linked
  <2>2. Child(T, k, f) = b => k = a /\ f = Other(d)
    BY <1>1, <1>4
  <2> QED
    BY <1>1, <2>1, <2>2, LinkFacts
<1>6. /\ Child(R, a, d) = Child(T, a, d) /\ Child(R, b, Other(d)) = Child(T, b, Other(d))
      /\ Child(T, a, d) \notin {a, b} /\ \A f \in Dirs: Child(T, b, f) \notin {a, b}
      /\ \A f \in Dirs: Child(T, b, f) # NoKey => Child(T, a, d) # Child(T, b, f)
  <2>1. Child(R, a, d) = Child(T, a, d) /\ Child(R, b, Other(d)) = Child(T, b, Other(d))
    BY <1>1, <1>3
  <2>2. Child(T, a, d) \notin {a, b} /\ \A f \in Dirs: Child(T, b, f) \notin {a, b}
    BY <1>1, <1>5
  <2>3. \A f \in Dirs: Child(T, b, f) # NoKey => Child(T, a, d) # Child(T, b, f)
    BY <1>1, <1>4
  <2> QED
    BY <2>1, <2>2, <2>3
<1>7. ASSUME NEW k \in N \ {a, b}, NEW f \in Dirs
      PROVE  /\ \/ k = p /\ f = e /\ Child(T, k, f) = a /\ Child(R, k, f) = b
                \/ ~(k = p /\ f = e) /\ Child(R, k, f) = Child(T, k, f) /\ Child(T, k, f) \notin {a, b}
             /\ \A g \in Dirs: Child(T, b, g) # NoKey => Child(T, k, f) # Child(T, b, g)
  <2>1. \A g \in Dirs: Child(T, b, g) # NoKey => Child(T, k, f) # Child(T, b, g)
    BY <1>1, <1>4
  <2>2. CASE k = p /\ f = e
    <3>1. p # NoKey
      BY <1>2, <2>2
    <3> QED
      BY <1>1, <1>3, <2>1, <2>2, <3>1
  <2>3. CASE ~(k = p /\ f = e)
    <3>1. Child(R, k, f) = Child(T, k, f)
      BY <1>3, <2>3
    <3>2. Child(T, k, f) # b
      BY <1>1, <1>5
    <3>3. Child(T, k, f) # a
      <4>1. SUFFICES ASSUME Child(T, k, f) = a PROVE FALSE
        OBVIOUS
      <4>2. k = p /\ p # NoKey
        BY <1>2, <1>5, <4>1
      <4>3. f = e
        BY <1>1, <1>4, <4>1, <4>2
      <4> QED
        BY <2>3, <4>2, <4>3
    <3> QED
      BY <2>1, <2>3, <3>1, <3>2, <3>3
  <2> QED
    BY <2>2, <2>3
<1> QED
  BY <1>1, <1>3, <1>6, <1>7 DEF TurnedKids

-----------------------------------------------------------------------------
(* Colours. bh[k] counts the black nodes on each path down from k; the paths through  *)
(* the child of p0 on side d0 lack one.                                              *)

BhOf(bh, c) == IF c = NoKey THEN 0 ELSE bh[c]
Black(T, k) == IF T.n[k].red THEN 0 ELSE 1
Lack(k, f, p0, d0) == IF k = p0 /\ f = d0 THEN 1 ELSE 0

Balanced(T, N, bh, p0, d0) ==
  /\ bh \in [N -> Nat]
  /\ \A k \in N, f \in Dirs: bh[k] = BhOf(bh, Child(T, k, f)) + Lack(k, f, p0, d0) + Black(T, k)

\* no two red nodes in a row, but for those of X with a child
Calm(T, N, X) == \A k \in N \ X: ~RedViolation(T, k)

LEMMA RedIs ==
  ASSUME NEW T \in Trees
  PROVE  /\ ~Red(T, NoKey)
         /\ \A k \in TreeKey: /\ Red(T, k) <=> T.n[k].red = TRUE
                              /\ ~Red(T, k) <=> T.n[k].red = FALSE
                              /\ Red(T, k) => Black(T, k) = 0
                              /\ ~Red(T, k) => Black(T, k) = 1
                              /\ Black(T, k) \in {0, 1}
BY KeyFacts, TreeFacts DEF Red, Black

LEMMA BhFacts ==
  ASSUME NEW N, NEW bh \in [N -> Nat]
  PROVE  \A c \in N \cup {NoKey}: BhOf(bh, c) \in Nat
BY DEF BhOf

Exchange(f, a, b) == [f EXCEPT ![a] = f[b], ![b] = f[a]]

LEMMA ExchangeIs ==
  ASSUME NEW S, NEW N, NEW f \in [N -> S], NEW a \in N, NEW b \in N, a # b
  PROVE  /\ Exchange(f, a, b) \in [N -> S]
         /\ Exchange(f, a, b)[a] = f[b] /\ Exchange(f, a, b)[b] = f[a]
         /\ \A k \in N \ {a, b}: Exchange(f, a, b)[k] = f[k]
BY DEF Exchange

\* A rotation keeps a tree balanced if the lower node is red and the two exchange colours.
LEMMA SwapBalanced ==
  ASSUME NEW T \in Trees, NEW N \in SUBSET TreeKey, NEW bh, NEW p0, NEW d0, Balanced(T, N, bh, p0, d0),
         NEW Q \in Trees, NEW d \in Dirs, NEW a \in N, NEW b \in N, NEW p, NEW e,
         a # b, TurnedKids(Q, T, N, d, a, b, p, e),
         \A k \in N, f \in Dirs: Child(T, k, f) \in N \cup {NoKey},
         Red(T, b), Red(Q, a), Red(Q, b) <=> Red(T, a), \A k \in N \ {a, b}: Red(Q, k) <=> Red(T, k),
         p0 # b, p0 = a => d0 = d, ~(p0 \in N /\ p0 = p /\ d0 = e)
  PROVE  Balanced(Q, N, Exchange(bh, a, b), p0, d0)
<1>1. /\ bh \in [N -> Nat]
      /\ \A k \in N, f \in Dirs: bh[k] = BhOf(bh, Child(T, k, f)) + Lack(k, f, p0, d0) + Black(T, k)
  BY DEF Balanced
<1>2. PICK bg: bg = Exchange(bh, a, b)
  OBVIOUS
<1>3. bg \in [N -> Nat] /\ bg[a] = bh[b] /\ bg[b] = bh[a] /\ \A k \in N \ {a, b}: bg[k] = bh[k]
  BY <1>1, <1>2, ExchangeIs
<1>4. NoKey \notin N /\ Other(d) \in Dirs /\ Other(d) # d /\ \A f \in Dirs: f = d \/ f = Other(d)
  BY KeyFacts, DirFacts
<1>5. \A c \in N \cup {NoKey}: c \notin {a, b} => BhOf(bg, c) = BhOf(bh, c)
  BY <1>3 DEF BhOf
<1>6. BhOf(bg, a) = bh[b] /\ BhOf(bg, b) = bh[a] /\ BhOf(bh, a) = bh[a] /\ BhOf(bh, b) = bh[b]
  BY <1>3, <1>4 DEF BhOf
<1>7. Black(T, b) = 0 /\ Black(Q, a) = 0 /\ Black(Q, b) = Black(T, a) /\ \A k \in N \ {a, b}: Black(Q, k) = Black(T, k)
  BY RedIs
<1>8. \A k \in N: Black(T, k) \in {0, 1} /\ Black(Q, k) \in {0, 1}
  BY RedIs
<1>9. \A k \in N, f \in Dirs: BhOf(bh, Child(T, k, f)) \in Nat
  BY <1>1, BhFacts
<1>10. bh[a] = bh[b] + Black(T, a)
  <2>1. Child(T, a, Other(d)) = b
    BY DEF TurnedKids
  <2>2. Lack(a, Other(d), p0, d0) = 0
    BY <1>4 DEF Lack
  <2>3. bh[a] = BhOf(bh, b) + 0 + Black(T, a)
    BY <1>1, <1>4, <2>1, <2>2
  <2> QED
    BY <1>1, <1>6, <1>8, <2>3
<1>11. ASSUME NEW f \in Dirs PROVE bh[b] = BhOf(bh, Child(T, b, f))
  <2>1. Lack(b, f, p0, d0) = 0
    BY DEF Lack
  <2>2. bh[b] = BhOf(bh, Child(T, b, f)) + 0 + 0
    BY <1>1, <1>7, <2>1
  <2> QED
    BY <1>9, <2>2
<1>12. ASSUME NEW k \in N, NEW f \in Dirs
       PROVE  bg[k] = BhOf(bg, Child(Q, k, f)) + Lack(k, f, p0, d0) + Black(Q, k)
  <2>1. CASE k = a /\ f = d
    <3>1. bh[a] = BhOf(bh, Child(T, a, d)) + Lack(a, d, p0, d0) + Black(T, a)
      BY <1>1
    <3>2. BhOf(bg, Child(Q, a, d)) = BhOf(bh, Child(T, a, d)) /\ BhOf(bh, Child(T, a, d)) \in Nat
      BY <1>5, <1>9 DEF TurnedKids
    <3>3. Lack(a, d, p0, d0) \in Nat
      BY DEF Lack
    <3>4. bh[a] \in Nat /\ bh[b] \in Nat
      BY <1>1
    <3> QED
      BY <1>3, <1>7, <1>8, <1>10, <2>1, <3>1, <3>2, <3>3, <3>4
  <2>2. CASE k = a /\ f = Other(d)
    <3>1. Child(Q, a, Other(d)) = Child(T, b, d) /\ Child(T, b, d) \notin {a, b}
      BY DEF TurnedKids
    <3>2. BhOf(bg, Child(Q, a, Other(d))) = bh[b]
      BY <1>5, <1>11, <3>1
    <3>3. Lack(a, Other(d), p0, d0) = 0
      BY <1>4 DEF Lack
    <3>4. bh[b] \in Nat
      BY <1>1
    <3> QED
      BY <1>3, <1>7, <2>2, <3>2, <3>3, <3>4
  <2>3. CASE k = b /\ f = d
    <3>1. Child(Q, b, d) = a /\ Lack(b, d, p0, d0) = 0
      BY DEF TurnedKids, Lack
    <3>2. bh[b] \in Nat
      BY <1>1
    <3> QED
      BY <1>3, <1>6, <1>7, <1>8, <1>10, <2>3, <3>1, <3>2
  <2>4. CASE k = b /\ f = Other(d)
    <3>1. Child(Q, b, Other(d)) = Child(T, b, Other(d)) /\ Child(T, b, Other(d)) \notin {a, b}
          /\ Lack(b, Other(d), p0, d0) = 0
      BY <1>4 DEF TurnedKids, Lack
    <3>2. BhOf(bg, Child(Q, b, Other(d))) = bh[b]
      BY <1>4, <1>5, <1>11, <3>1
    <3>3. bh[b] \in Nat
      BY <1>1
    <3> QED
      BY <1>3, <1>7, <1>8, <1>10, <2>4, <3>1, <3>2, <3>3
  <2>5. CASE k \notin {a, b}
    <3>1. \/ k = p /\ f = e /\ Child(T, k, f) = a /\ Child(Q, k, f) = b
          \/ ~(k = p /\ f = e) /\ Child(Q, k, f) = Child(T, k, f) /\ Child(T, k, f) \notin {a, b}
      BY <2>5 DEF TurnedKids
    <3>2. BhOf(bg, Child(Q, k, f)) = BhOf(bh, Child(T, k, f))
      BY <1>5, <1>6, <3>1
    <3> QED
      BY <1>1, <1>3, <1>7, <2>5, <3>2
  <2> QED
    BY <1>4, <2>1, <2>2, <2>3, <2>4, <2>5
<1> QED
  BY <1>2, <1>3, <1>12 DEF Balanced

\* Elsewhere no red node gets or loses a red child by such a rotation.
LEMMA SwapRed ==
  ASSUME NEW T \in Trees, NEW N \in SUBSET TreeKey,
         NEW Q \in Trees, NEW d \in Dirs, NEW a \in N, NEW b \in N, NEW p, NEW e,
         TurnedKids(Q, T, N, d, a, b, p, e),
         \A k \in N, f \in Dirs: Child(T, k, f) \in N \cup {NoKey},
         Red(Q, b) <=> Red(T, a),
         NEW o, \A k \in N \ {a, b, o}: Red(Q, k) <=> Red(T, k),
         o = NoKey \/ \E f \in Dirs: o = Child(T, b, f)
  PROVE  \A k \in N \ {a, b, o}: RedViolation(Q, k) => RedViolation(T, k)
<1>1. SUFFICES ASSUME NEW k \in N \ {a, b, o}, Red(Q, k), NEW f \in Dirs, Red(Q, Child(Q, k, f))
               PROVE  Red(T, k) /\ Red(T, Child(T, k, f))
  BY DEF RedViolation, Dirs
<1>2. Red(T, k)
  BY <1>1
<1>3. /\ \/ k = p /\ f = e /\ Child(T, k, f) = a /\ Child(Q, k, f) = b
         \/ ~(k = p /\ f = e) /\ Child(Q, k, f) = Child(T, k, f) /\ Child(T, k, f) \notin {a, b}
      /\ \A g \in Dirs: Child(T, b, g) # NoKey => Child(T, k, f) # Child(T, b, g)
  BY <1>1 DEF TurnedKids
<1>4. Child(T, k, f) \in N \cup {NoKey} /\ ~Red(Q, NoKey)
  BY <1>1, RedIs
<1>5. Red(T, Child(T, k, f))
  <2>1. CASE Child(Q, k, f) = b /\ Child(T, k, f) = a
    BY <1>1, <2>1
  <2>2. CASE Child(Q, k, f) = Child(T, k, f) /\ Child(T, k, f) \notin {a, b}
    <3>1. Child(T, k, f) # NoKey
      BY <1>1, <1>4, <2>2
    <3>2. Child(T, k, f) # o
      BY <1>3, <3>1
    <3> QED
      BY <1>1, <1>4, <2>2, <3>1, <3>2
  <2> QED
    BY <1>3, <2>1, <2>2
<1> QED
  BY <1>2, <1>5

\* A rotation gives the missing black node to the side that lacks one, if the lower node
\* takes the colour of the upper, its far child o is painted black and so is the upper.
LEMMA PromoteBalanced ==
  ASSUME NEW T \in Trees, NEW N \in SUBSET TreeKey, NEW bh, NEW d \in Dirs, NEW a \in N,
         Balanced(T, N, bh, a, d),
         NEW Q \in Trees, NEW b \in N, NEW o \in N, NEW p, NEW e,
         a # b, TurnedKids(Q, T, N, d, a, b, p, e), o = Child(T, b, Other(d)), o \notin {a, b}, Child(T, b, d) # o,
         \A k \in N, f \in Dirs: Child(T, k, f) \in (N \cup {NoKey}) \ {k},
         ~Red(T, b), Red(T, o), ~Red(Q, a), ~Red(Q, o), Red(Q, b) <=> Red(T, a),
         \A k \in N \ {a, b, o}: Red(Q, k) <=> Red(T, k)
  PROVE  \E bg: Balanced(Q, N, bg, NoKey, Left)
<1>1. /\ bh \in [N -> Nat]
      /\ \A k \in N, f \in Dirs: bh[k] = BhOf(bh, Child(T, k, f)) + Lack(k, f, a, d) + Black(T, k)
  BY DEF Balanced
<1>2. PICK bg: bg = [Exchange(bh, a, b) EXCEPT ![o] = bh[o] + 1]
  OBVIOUS
<1>3. bg \in [N -> Nat] /\ bg[a] = bh[b] /\ bg[b] = bh[a] /\ bg[o] = bh[o] + 1 /\ \A k \in N \ {a, b, o}: bg[k] = bh[k]
  <2>1. PICK h: h = Exchange(bh, a, b)
    OBVIOUS
  <2>2. h \in [N -> Nat] /\ h[a] = bh[b] /\ h[b] = bh[a] /\ \A k \in N \ {a, b}: h[k] = bh[k]
    BY <1>1, <2>1 DEF Exchange
  <2>3. bg = [h EXCEPT ![o] = bh[o] + 1] /\ bh[o] + 1 \in Nat
    BY <1>1, <1>2, <2>1
  <2> QED
    BY <2>2, <2>3
<1>4. NoKey \notin N /\ Other(d) \in Dirs /\ Other(d) # d /\ \A f \in Dirs: f = d \/ f = Other(d)
  BY KeyFacts, DirFacts
<1>5. \A c \in N \cup {NoKey}: c \notin {a, b, o} => BhOf(bg, c) = BhOf(bh, c)
  BY <1>3 DEF BhOf
<1>6. BhOf(bg, a) = bh[b] /\ BhOf(bg, b) = bh[a] /\ BhOf(bh, a) = bh[a] /\ BhOf(bh, b) = bh[b]
      /\ BhOf(bg, o) = bh[o] + 1 /\ BhOf(bh, o) = bh[o]
  BY <1>3, <1>4 DEF BhOf
<1>7. /\ Black(T, b) = 1 /\ Black(T, o) = 0 /\ Black(Q, a) = 1 /\ Black(Q, o) = 1 /\ Black(Q, b) = Black(T, a)
      /\ \A k \in N \ {a, b, o}: Black(Q, k) = Black(T, k)
  <2>1. \A k \in N: /\ (Red(T, k) => Black(T, k) = 0) /\ (~Red(T, k) => Black(T, k) = 1)
                    /\ (Red(Q, k) => Black(Q, k) = 0) /\ (~Red(Q, k) => Black(Q, k) = 1)
    <3>1. \A k \in N: (Red(T, k) => Black(T, k) = 0) /\ (~Red(T, k) => Black(T, k) = 1)
      BY RedIs
    <3>2. \A k \in N: (Red(Q, k) => Black(Q, k) = 0) /\ (~Red(Q, k) => Black(Q, k) = 1)
      BY RedIs
    <3> QED
      BY <3>1, <3>2
  <2> QED
    BY <2>1
<1>8. \A k \in N: Black(T, k) \in {0, 1} /\ Black(Q, k) \in {0, 1}
  BY RedIs
<1>9. \A k \in N, f \in Dirs: BhOf(bh, Child(T, k, f)) \in Nat
  BY <1>1, BhFacts
<1>10. bh[a] = bh[b] + Black(T, a)
  <2>1. Child(T, a, Other(d)) = b
    BY DEF TurnedKids
  <2>2. Lack(a, Other(d), a, d) = 0
    BY <1>4 DEF Lack
  <2>3. bh[a] = BhOf(bh, b) + 0 + Black(T, a)
    BY <1>1, <1>4, <2>1, <2>2
  <2> QED
    BY <1>1, <1>6, <1>8, <2>3
<1>11. ASSUME NEW k \in N \ {a}, NEW f \in Dirs PROVE bh[k] = BhOf(bh, Child(T, k, f)) + Black(T, k)
  <2>1. Lack(k, f, a, d) = 0
    BY DEF Lack
  <2>2. bh[k] = BhOf(bh, Child(T, k, f)) + 0 + Black(T, k)
    BY <1>1, <2>1
  <2> QED
    BY <1>8, <1>9, <2>2
<1>12. bh[a] = BhOf(bh, Child(T, a, d)) + 1 + Black(T, a)
  <2>1. Lack(a, d, a, d) = 1
    BY DEF Lack
  <2> QED
    BY <1>1, <2>1
<1>13. \A k \in N, f \in Dirs: Lack(k, f, NoKey, Left) = 0
  BY <1>4 DEF Lack
<1>14. ASSUME NEW k \in N, NEW f \in Dirs
       PROVE  bg[k] = BhOf(bg, Child(Q, k, f)) + Black(Q, k)
  <2>1. CASE k = a /\ f = d
    <3>1. Child(T, a, d) # o
      BY <1>4 DEF TurnedKids
    <3>2. BhOf(bg, Child(Q, a, d)) = BhOf(bh, Child(T, a, d)) /\ BhOf(bh, Child(T, a, d)) \in Nat
      BY <1>5, <1>9, <3>1 DEF TurnedKids
    <3>3. bh[a] \in Nat /\ bh[b] \in Nat
      BY <1>1
    <3> QED
      BY <1>3, <1>7, <1>8, <1>10, <1>12, <2>1, <3>2, <3>3
  <2>2. CASE k = a /\ f = Other(d)
    <3>1. Child(Q, a, Other(d)) = Child(T, b, d) /\ Child(T, b, d) \notin {a, b}
      BY DEF TurnedKids
    <3>3. BhOf(bg, Child(Q, a, Other(d))) = BhOf(bh, Child(T, b, d)) /\ BhOf(bh, Child(T, b, d)) \in Nat
      BY <1>5, <1>9, <3>1
    <3>4. bh[b] = BhOf(bh, Child(T, b, d)) + 1
      BY <1>7, <1>11
    <3> QED
      BY <1>3, <1>7, <2>2, <3>3, <3>4
  <2>3. CASE k = b /\ f = d
    <3>1. Child(Q, b, d) = a
      BY DEF TurnedKids
    <3> QED
      BY <1>3, <1>6, <1>7, <1>10, <2>3, <3>1
  <2>4. CASE k = b /\ f = Other(d)
    <3>1. Child(Q, b, Other(d)) = o
      BY DEF TurnedKids
    <3>2. bh[b] = bh[o] + 1
      BY <1>4, <1>6, <1>7, <1>11
    <3> QED
      BY <1>3, <1>6, <1>7, <1>10, <2>4, <3>1, <3>2
  <2>5. CASE k = o
    <3>1. /\ \/ k = p /\ f = e /\ Child(T, k, f) = a /\ Child(Q, k, f) = b
             \/ ~(k = p /\ f = e) /\ Child(Q, k, f) = Child(T, k, f) /\ Child(T, k, f) \notin {a, b}
      BY <2>5 DEF TurnedKids
    <3>2. Child(T, k, f) # o
      BY <2>5
    <3>3. BhOf(bg, Child(Q, k, f)) = BhOf(bh, Child(T, k, f))
      BY <1>5, <1>6, <3>1, <3>2
    <3>4. bh[o] = BhOf(bh, Child(T, k, f)) + 0
      BY <1>7, <1>11, <2>5
    <3>5. BhOf(bh, Child(T, k, f)) \in Nat
      BY <1>9
    <3> QED
      BY <1>3, <1>7, <2>5, <3>3, <3>4, <3>5
  <2>6. CASE k \notin {a, b, o}
    <3>1. /\ \/ k = p /\ f = e /\ Child(T, k, f) = a /\ Child(Q, k, f) = b
             \/ ~(k = p /\ f = e) /\ Child(Q, k, f) = Child(T, k, f) /\ Child(T, k, f) \notin {a, b}
          /\ Child(T, k, f) # o
      BY <1>4, <2>6 DEF TurnedKids
    <3>2. BhOf(bg, Child(Q, k, f)) = BhOf(bh, Child(T, k, f))
      BY <1>5, <1>6, <3>1
    <3> QED
      BY <1>3, <1>7, <1>11, <2>6, <3>2
  <2> QED
    BY <1>4, <2>1, <2>2, <2>3, <2>4, <2>5, <2>6
<1>15. ASSUME NEW k \in N, NEW f \in Dirs
       PROVE  bg[k] = BhOf(bg, Child(Q, k, f)) + Lack(k, f, NoKey, Left) + Black(Q, k)
  <2>1. bg[k] = BhOf(bg, Child(Q, k, f)) + Black(Q, k) /\ Lack(k, f, NoKey, Left) = 0
    BY <1>13, <1>14
  <2>2. BhOf(bg, Child(Q, k, f)) \in Int
    <3>1. Child(Q, k, f) \in N \cup {NoKey}
      <4>1. CASE k \in {a, b}
        BY <1>4, <4>1 DEF TurnedKids
      <4>2. CASE k \notin {a, b}
        BY <4>2 DEF TurnedKids
      <4> QED
        BY <4>1, <4>2
    <3> QED
      BY <1>3, <3>1, BhFacts
  <2> QED
    BY <1>8, <2>1, <2>2
<1> QED
  BY <1>3, <1>15 DEF Balanced

-----------------------------------------------------------------------------
(* Trees that differ in colours and sums only, and what every operation keeps.        *)

Alike(R, T) ==
  R \in Trees /\ R.root = T.root /\ SameValues(R, T) /\ SameChildren(R, T) /\ SameParents(R, T)

Kept(R, T, M) ==
  R \in Trees /\ SameValues(R, T) /\ \A k \in TreeKey \ M, f \in Dirs: Child(R, k, f) = Child(T, k, f)

Shape(T, N) == \E sub: Linked(T, N, sub) /\ Ordered(T, N, sub, NoKey)

LEMMA AlikeFacts ==
  /\ \A T \in Trees: Alike(T, T)
  /\ \A Q, R, T: Alike(Q, R) /\ Alike(R, T) => Alike(Q, T)
  /\ \A R, T: Painted(R, T, NoKey, TRUE) => Alike(R, T)
  /\ \A R, T, M: Alike(R, T) => Kept(R, T, M)
  /\ \A Q, R, T, M: Kept(Q, R, M) /\ Kept(R, T, M) => Kept(Q, T, M)
<1>1. \A T \in Trees: Alike(T, T)
  BY DEF Alike, SameValues, SameChildren, SameParents
<1>2. \A Q, R, T: Alike(Q, R) /\ Alike(R, T) => Alike(Q, T)
  BY DEF Alike, SameValues, SameChildren, SameParents
<1>3. \A R, T: Painted(R, T, NoKey, TRUE) => Alike(R, T)
  BY DEF Painted, Alike, SameValues, SameData
<1>4. \A R, T, M: Alike(R, T) => Kept(R, T, M)
  BY DEF Alike, Kept, SameChildren
<1>5. \A Q, R, T, M: Kept(Q, R, M) /\ Kept(R, T, M) => Kept(Q, T, M)
  BY DEF Kept, SameValues
<1> QED
  BY <1>1, <1>2, <1>3, <1>4, <1>5

LEMMA PaintAlike ==
  ASSUME NEW T \in Trees, NEW x \in TreeKey, NEW c \in BOOLEAN
  PROVE  /\ Alike(Paint(T, x, c), T) /\ Paint(T, x, c) \in Trees
         /\ Red(Paint(T, x, c), x) <=> c
         /\ \A k \in Keys0 \ {x}: Red(Paint(T, x, c), k) <=> Red(T, k)
<1>1. PICK R: R = Paint(T, x, c)
  OBVIOUS
<1>2. Painted(R, T, x, c)
  BY <1>1, PaintIs
<1>3. Alike(R, T) /\ R \in Trees
  BY <1>2 DEF Painted, Alike, SameValues, SameData
<1>4. (Red(R, x) <=> c) /\ \A k \in Keys0 \ {x}: Red(R, k) <=> Red(T, k)
  BY <1>2, KeyFacts DEF Painted, Red
<1> QED
  BY <1>1, <1>3, <1>4

LEMMA AlikeShape ==
  ASSUME NEW R, NEW T, Alike(R, T), NEW N
  PROVE  /\ \A sub: Linked(T, N, sub) => Linked(R, N, sub)
         /\ \A sub, x: Linked(T, N, sub) /\ Ordered(T, N, sub, x) => Ordered(R, N, sub, x)
         /\ Shape(T, N) => Shape(R, N)
<1>1. R \in Trees /\ R.root = T.root /\ SameChildren(R, T) /\ SameParents(R, T)
  BY DEF Alike
<1>2. \A sub: Linked(T, N, sub) => Linked(R, N, sub) /\ \A x: Ordered(T, N, sub, x) => Ordered(R, N, sub, x)
  BY <1>1, SameLinks
<1> QED
  BY <1>2 DEF Shape

\* Balance is a matter of children and colours.
LEMMA AlikeBalanced ==
  ASSUME NEW T \in Trees, NEW R, Alike(R, T), NEW N \in SUBSET TreeKey, \A k \in N: Red(R, k) <=> Red(T, k)
  PROVE  \A bh, p0, d0: Balanced(T, N, bh, p0, d0) => Balanced(R, N, bh, p0, d0)
<1>1. \A k \in N: Black(R, k) = Black(T, k)
  BY RedIs DEF Alike
<1>2. \A k \in N, f \in Dirs: Child(R, k, f) = Child(T, k, f)
  BY DEF Alike, SameChildren
<1> QED
  BY <1>1, <1>2 DEF Balanced

LEMMA RotateStep ==
  ASSUME NEW T, NEW N, Shape(T, N), NEW d \in Dirs, NEW a \in N, NEW b, b = Child(T, a, Other(d)), b # NoKey,
         NEW p, p = Parent(T, a), NEW R, R = Rotate(T, d, a)
  PROVE  /\ Shape(R, N) /\ Kept(R, T, N) /\ b \in N /\ a # b /\ R \in Trees
         /\ \A k \in Keys0: Red(R, k) <=> Red(T, k)
         /\ TurnedKids(R, T, N, d, a, b, p, DirOf(T, p, a))
         /\ Parent(R, a) = b
<1>1. PICK sub: Linked(T, N, sub) /\ Ordered(T, N, sub, NoKey)
  BY DEF Shape
<1>2. PICK m, e: m = Child(T, b, d) /\ e = DirOf(T, p, a)
  OBVIOUS
<1>3. Turn(T, N, d, a, b, m, p, e)
  BY <1>1, <1>2, TurnIs
<1>4. T \in Trees /\ N \in SUBSET TreeKey
  BY <1>1, LinkFacts
<1>5. Rotated(R, T, d, a, b, m, p, e)
  BY <1>3, <1>4, RotateIs
<1>6. Shape(R, N)
  BY <1>1, <1>3, <1>5, RotateKeeps DEF Shape
<1>7. TurnedKids(R, T, N, d, a, b, p, e)
  BY <1>1, <1>3, <1>5, RotatedKids
<1>8. Kept(R, T, N)
  <2>1. a \in N /\ b \in N /\ (p \in N \/ p = NoKey) /\ NoKey \notin TreeKey
    BY <1>3, KeyFacts DEF Turn
  <2> QED
    BY <1>5, <2>1 DEF Rotated, Kept
<1>9. \A k \in Keys0: Red(R, k) <=> Red(T, k)
  BY <1>5, KeyFacts DEF Rotated, SameRed, Red
<1>10. b \in N /\ a # b /\ Parent(R, a) = b /\ R \in Trees
  BY <1>3, <1>5 DEF Turn, Rotated
<1> QED
  BY <1>2, <1>6, <1>7, <1>8, <1>9, <1>10

LEMMA ShapeFacts ==
  ASSUME NEW T, NEW N, Shape(T, N)
  PROVE  /\ T \in Trees /\ N \in SUBSET TreeKey /\ NoKey \notin N
         /\ IF T.root = NoKey THEN N = {} ELSE T.root \in N /\ Parent(T, T.root) = NoKey
         /\ \A k \in N, f \in Dirs: Child(T, k, f) \in (N \cup {NoKey}) \ {k}
         /\ \A k \in N, f \in Dirs: Child(T, k, f) # NoKey
              => Parent(T, Child(T, k, f)) = k /\ Child(T, k, f) # T.root /\ Child(T, k, f) # Child(T, k, Other(f))
         /\ \A k, j \in N, f, g \in Dirs:
              Child(T, k, f) = Child(T, j, g) /\ Child(T, k, f) # NoKey => k = j /\ f = g
         /\ \A k \in N: /\ Parent(T, k) \in (N \cup {NoKey}) \ {k}
                        /\ DirOf(T, Parent(T, k), k) \in Dirs
                        /\ Parent(T, k) = NoKey => k = T.root
                        /\ Parent(T, k) # NoKey => Child(T, Parent(T, k), DirOf(T, Parent(T, k), k)) = k
<1>1. PICK sub: Linked(T, N, sub)
  BY DEF Shape
<1>2. T \in Trees /\ N \in SUBSET TreeKey /\ NoKey \notin N
  BY <1>1, LinkFacts
<1>3. IF T.root = NoKey THEN N = {} ELSE T.root \in N /\ Parent(T, T.root) = NoKey
  BY <1>1 DEF Linked
<1>4. \A k \in N, f \in Dirs: Child(T, k, f) \in (N \cup {NoKey}) \ {k}
  BY <1>1, LinkFacts
<1>5. ASSUME NEW k \in N, NEW f \in Dirs, Child(T, k, f) # NoKey
      PROVE  Parent(T, Child(T, k, f)) = k /\ Child(T, k, f) # T.root /\ Child(T, k, f) # Child(T, k, Other(f))
  <2>1. Parent(T, Child(T, k, f)) = k
    BY <1>1, <1>5 DEF Linked
  <2> QED
    BY <1>1, <1>5, <2>1, OnePlace, LinkFacts
<1>6. \A k, j \in N, f, g \in Dirs:
        Child(T, k, f) = Child(T, j, g) /\ Child(T, k, f) # NoKey => k = j /\ f = g
  BY <1>1, OnePlace
<1>7. ASSUME NEW k \in N
      PROVE  /\ Parent(T, k) \in (N \cup {NoKey}) \ {k}
             /\ DirOf(T, Parent(T, k), k) \in Dirs
             /\ Parent(T, k) = NoKey => k = T.root
             /\ Parent(T, k) # NoKey => Child(T, Parent(T, k), DirOf(T, Parent(T, k), k)) = k
  <2>1. Parent(T, k) # NoKey => Parent(T, k) \in N /\ Parent(T, k) # k
                                /\ Child(T, Parent(T, k), DirOf(T, Parent(T, k), k)) = k
    BY <1>1, DirOfIs
  <2>2. DirOf(T, Parent(T, k), k) \in Dirs
    BY KeyFacts DEF DirOf
  <2>3. k # T.root => Parent(T, k) \in N
    BY <1>1 DEF Linked
  <2>4. k # NoKey
    BY <1>2
  <2> QED
    BY <1>2, <2>1, <2>2, <2>3, <2>4
<1> QED
  BY <1>2, <1>3, <1>4, <1>5, <1>6, <1>7

LEMMA AlikeKids ==
  ASSUME NEW T, NEW R, Alike(R, T), NEW N \in SUBSET TreeKey, NEW a \in N, NEW b \in N, NEW d \in Dirs
  PROVE  \A Q, p, e: TurnedKids(Q, R, N, d, a, b, p, e) => TurnedKids(Q, T, N, d, a, b, p, e)
<1>1. \A k \in N, f \in Dirs: Child(R, k, f) = Child(T, k, f)
  BY DEF Alike, SameChildren
<1>2. d \in Dirs /\ Other(d) \in Dirs
  BY DirFacts
<1> QED
  BY <1>1, <1>2 DEF TurnedKids

Even(T, N, p0, d0) == \E bh: Balanced(T, N, bh, p0, d0)
RbTree(T, N) == Shape(T, N) /\ Even(T, N, NoKey, Left) /\ Calm(T, N, {})

LEMMA EvenAnyway ==
  ASSUME NEW T, NEW N, NoKey \notin N
  PROVE  \A d, e: Even(T, N, NoKey, d) => Even(T, N, NoKey, e)
<1>1. \A k \in N: \A f, d, e: Lack(k, f, NoKey, d) = Lack(k, f, NoKey, e)
  BY DEF Lack
<1> QED
  BY <1>1 DEF Even, Balanced

\* A red node and its red child on the outside: the two black nodes around it exchange
\* colours with it and turn.
LEMMA TopIs ==
  ASSUME NEW T, NEW N, Shape(T, N), Even(T, N, NoKey, Left),
         NEW d \in Dirs, NEW g \in N, NEW q, q = Child(T, g, Other(d)), Red(T, q), ~Red(T, g),
         ~Red(T, Child(T, g, d)), ~Red(T, Child(T, q, d)), Calm(T, N, {q}),
         NEW R, R = Rotate(Paint(Paint(T, q, FALSE), g, TRUE), d, g)
  PROVE  RbTree(R, N) /\ Kept(R, T, N)
<1>0. /\ T \in Trees /\ N \in SUBSET TreeKey /\ NoKey \notin N
      /\ \A k \in N, f \in Dirs: Child(T, k, f) \in (N \cup {NoKey}) \ {k}
  BY ShapeFacts
<1>1. q \in N /\ q # NoKey /\ q # g /\ Other(d) \in Dirs /\ \A f \in Dirs: f = d \/ f = Other(d)
  BY <1>0, DirFacts DEF Red
<1>2. PICK T1: T1 = Paint(T, q, FALSE)
  OBVIOUS
<1>3. PICK T2: T2 = Paint(T1, g, TRUE)
  OBVIOUS
<1>4. q \in TreeKey /\ g \in TreeKey /\ FALSE \in BOOLEAN /\ TRUE \in BOOLEAN
  BY <1>0, <1>1
<1>5. T1 \in Trees /\ Alike(T1, T) /\ ~Red(T1, q) /\ \A k \in Keys0 \ {q}: Red(T1, k) <=> Red(T, k)
  BY <1>0, <1>2, <1>4, PaintAlike
<1>6. T2 \in Trees /\ Alike(T2, T1) /\ Red(T2, g) /\ \A k \in Keys0 \ {g}: Red(T2, k) <=> Red(T1, k)
  BY <1>3, <1>4, <1>5, PaintAlike
<1>7. Alike(T2, T) /\ Shape(T2, N)
  BY <1>5, <1>6, AlikeFacts, AlikeShape
<1>8. PICK p, e: p = Parent(T2, g) /\ e = DirOf(T2, p, g)
  OBVIOUS
<1>9. q = Child(T2, g, Other(d)) /\ R = Rotate(T2, d, g)
  BY <1>1, <1>2, <1>3, <1>4, <1>7 DEF Alike, SameChildren
<1>10. /\ Shape(R, N) /\ Kept(R, T2, N) /\ R \in Trees
       /\ \A k \in Keys0: Red(R, k) <=> Red(T2, k)
       /\ TurnedKids(R, T2, N, d, g, q, p, e)
  <2>1. q # NoKey /\ Shape(T2, N)
    BY <1>1, <1>7
  <2> QED
    BY ONLY <1>8, <1>9, <2>1, d \in Dirs, g \in N, RotateStep
<1>11. TurnedKids(R, T, N, d, g, q, p, e)
  BY <1>0, <1>1, <1>7, <1>10, AlikeKids
<1>12. Kept(R, T, N)
  <2>1. Kept(T2, T, N)
    BY <1>7, AlikeFacts
  <2> QED
    BY <1>10, <2>1, AlikeFacts
<1>13. /\ Red(R, g) /\ (Red(R, q) <=> Red(T, g)) /\ ~Red(R, q)
       /\ \A k \in Keys0 \ {g, q}: Red(R, k) <=> Red(T, k)
  BY <1>1, <1>4, <1>5, <1>6, <1>10, KeyFacts
<1>14. \A k \in N \ {g, q}: Red(R, k) <=> Red(T, k)
  BY <1>0, <1>13, KeyFacts
<1>15. Even(R, N, NoKey, Left)
  <2>1. PICK bh: Balanced(T, N, bh, NoKey, Left)
    BY DEF Even
  <2>2. NoKey # q /\ (NoKey = g => Left = d) /\ ~(NoKey \in N /\ NoKey = p /\ Left = e)
    BY <1>0, <1>1
  <2>3. Balanced(R, N, Exchange(bh, g, q), NoKey, Left)
    BY <1>0, <1>1, <1>10, <1>11, <1>13, <1>14, <2>1, <2>2, SwapBalanced
  <2> QED
    BY <2>3 DEF Even
<1>16. Calm(R, N, {})
  <2>1. SUFFICES ASSUME NEW k \in N PROVE ~RedViolation(R, k)
    BY DEF Calm
  <2>2. CASE k = q
    BY <1>13, <2>2 DEF RedViolation
  <2>3. CASE k = g
    <3>1. Child(R, g, d) = Child(T, g, d) /\ Child(R, g, Other(d)) = Child(T, q, d)
          /\ Child(T, g, d) \notin {g, q} /\ Child(T, q, d) \notin {g, q}
      BY <1>11 DEF TurnedKids
    <3>2. Child(T, g, d) \in Keys0 /\ Child(T, q, d) \in Keys0
      BY <1>0, <1>1, KeyFacts
    <3>3. ~Red(R, Child(R, g, d)) /\ ~Red(R, Child(R, g, Other(d)))
      BY <1>13, <3>1, <3>2
    <3> QED
      BY <1>1, <2>3, <3>3 DEF RedViolation, Dirs
  <2>4. CASE k \notin {g, q}
    <3>1. \A j \in N \ {g, q, NoKey}: RedViolation(R, j) => RedViolation(T, j)
      <4>1. \A j \in N \ {g, q, NoKey}: Red(R, j) <=> Red(T, j)
        BY <1>14
      <4>2. q \in N /\ R \in Trees /\ (Red(R, q) <=> Red(T, g)) /\ \A j \in N, f \in Dirs: Child(T, j, f) \in N \cup {NoKey}
        BY <1>0, <1>1, <1>10, <1>13
      <4> QED
        BY ONLY <1>0, g \in N, d \in Dirs, <1>11, <4>1, <4>2, SwapRed
    <3>2. ~RedViolation(T, k)
      BY <2>4 DEF Calm
    <3> QED
      BY <1>0, <2>4, <3>1, <3>2
  <2> QED
    BY <2>2, <2>3, <2>4
<1> QED
  BY <1>10, <1>12, <1>15, <1>16 DEF RbTree

\* the rotation before it, if the red child is on the inside
TurnedInside(R, T, N, d, g, s) ==
  /\ Shape(R, N) /\ Even(R, N, NoKey, Left) /\ Kept(R, T, N) /\ R \in Trees
  /\ Child(R, g, d) = s /\ Child(R, g, Other(d)) = Child(T, g, Other(d))
  /\ ~Red(R, Child(R, s, Other(d)))
  /\ Calm(R, N, {s}) /\ \A k \in Keys0: Red(R, k) <=> Red(T, k)

LEMMA InnerIs ==
  ASSUME NEW T, NEW N, Shape(T, N), Even(T, N, NoKey, Left),
         NEW d \in Dirs, NEW g \in N, NEW p, p = Child(T, g, d), Red(T, p),
         NEW s, s = Child(T, p, Other(d)), Red(T, s), ~Red(T, Child(T, p, d)), Calm(T, N, {p}),
         NEW R, R = Rotate(T, d, p)
  PROVE  TurnedInside(R, T, N, d, g, s)
<1>0. /\ T \in Trees /\ N \in SUBSET TreeKey /\ NoKey \notin N
      /\ \A k \in N, f \in Dirs: Child(T, k, f) \in (N \cup {NoKey}) \ {k}
  BY ShapeFacts
<1>1. /\ p \in N /\ p # NoKey /\ p # g /\ Other(d) \in Dirs /\ Other(d) # d /\ \A f \in Dirs: f = d \/ f = Other(d)
      /\ s \in N /\ s # NoKey /\ s # p
  BY <1>0, DirFacts DEF Red
<1>2. Parent(T, p) = g /\ DirOf(T, g, p) = d
  <2>1. Parent(T, p) = g
    BY <1>0, <1>1, ShapeFacts
  <2>2. DirOf(T, g, p) \in Dirs /\ Child(T, g, DirOf(T, g, p)) = p
    BY <1>0, <1>1, <2>1, ShapeFacts
  <2>3. \A k, j \in N, f, h \in Dirs:
        Child(T, k, f) = Child(T, j, h) /\ Child(T, k, f) # NoKey => k = j /\ f = h
    BY ShapeFacts
  <2> QED
    BY <1>1, <2>1, <2>2, <2>3
<1>3. /\ Shape(R, N) /\ Kept(R, T, N) /\ R \in Trees
      /\ \A k \in Keys0: Red(R, k) <=> Red(T, k)
      /\ TurnedKids(R, T, N, d, p, s, g, d)
  BY <1>1, <1>2, RotateStep
<1>4. \A k \in N: Red(R, k) <=> Red(T, k)
  BY <1>0, <1>3, KeyFacts
<1>5. s # g
  <2>1. Parent(T, s) = p /\ Parent(T, p) = g
    BY <1>0, <1>1, <1>2, ShapeFacts
  <2>2. PICK sub: Linked(T, N, sub)
    BY DEF Shape
  <2>3. s \in sub[s] /\ sub[s] \subseteq sub[p] \ {p} /\ sub[p] \subseteq sub[g] \ {g}
    BY <1>1, <2>2, LinkFacts
  <2> QED
    BY <2>3
<1>6. Child(R, g, d) = s /\ Child(R, g, Other(d)) = Child(T, g, Other(d))
  <2>1. g \in N \ {p, s}
    BY <1>1, <1>5
  <2>2. \A f \in Dirs:
          \/ g = g /\ f = d /\ Child(T, g, f) = p /\ Child(R, g, f) = s
          \/ ~(g = g /\ f = d) /\ Child(R, g, f) = Child(T, g, f) /\ Child(T, g, f) \notin {p, s}
    BY <1>3, <2>1 DEF TurnedKids
  <2> QED
    BY <1>1, <2>2
<1>7. Child(R, s, Other(d)) = Child(T, s, Other(d)) /\ ~Red(R, Child(R, s, Other(d))) /\ ~Red(T, Child(T, s, d))
  <2>1. Child(R, s, Other(d)) = Child(T, s, Other(d))
    BY <1>3 DEF TurnedKids
  <2>2. ~Red(T, Child(T, s, Other(d))) /\ ~Red(T, Child(T, s, d))
    BY <1>1 DEF Calm, RedViolation, Dirs
  <2>3. Child(T, s, Other(d)) \in Keys0
    BY <1>0, <1>1, KeyFacts
  <2> QED
    BY <1>3, <2>1, <2>2, <2>3
<1>8. Even(R, N, NoKey, Left)
  <2>1. PICK bh: Balanced(T, N, bh, NoKey, Left)
    BY DEF Even
  <2>2. NoKey # s /\ (NoKey = p => Left = d) /\ ~(NoKey \in N /\ NoKey = g /\ Left = d)
    BY <1>0, <1>1
  <2>3. /\ Red(R, p) /\ (Red(R, s) <=> Red(T, p)) /\ \A k \in N \ {p, s}: Red(R, k) <=> Red(T, k)
    BY <1>1, <1>4
  <2>4. Balanced(R, N, Exchange(bh, p, s), NoKey, Left)
    BY <1>0, <1>1, <1>3, <2>1, <2>2, <2>3, SwapBalanced
  <2> QED
    BY <2>4 DEF Even
<1>9. Calm(R, N, {s})
  <2>1. SUFFICES ASSUME NEW k \in N \ {s} PROVE ~RedViolation(R, k)
    BY DEF Calm
  <2>2. CASE k = p
    <3>1. Child(R, p, d) = Child(T, p, d) /\ Child(R, p, Other(d)) = Child(T, s, d)
      BY <1>3 DEF TurnedKids
    <3>2. Child(T, p, d) \in Keys0 /\ Child(T, s, d) \in Keys0
      BY <1>0, <1>1, KeyFacts
    <3>3. ~Red(R, Child(R, p, d)) /\ ~Red(R, Child(R, p, Other(d)))
      BY <1>3, <1>7, <3>1, <3>2
    <3> QED
      BY <1>1, <2>2, <3>3 DEF RedViolation, Dirs
  <2>3. CASE k # p
    <3>1. \A j \in N \ {p, s, NoKey}: RedViolation(R, j) => RedViolation(T, j)
      <4>1. /\ \A j \in N \ {p, s, NoKey}: Red(R, j) <=> Red(T, j)
            /\ (Red(R, s) <=> Red(T, p))
        BY <1>1, <1>4
      <4> QED
        BY <1>0, <1>1, <1>3, <4>1, SwapRed
    <3>2. ~RedViolation(T, k)
      BY <2>3 DEF Calm
    <3> QED
      BY <1>0, <2>1, <2>3, <3>1, <3>2
  <2> QED
    BY <2>2, <2>3
<1> QED
  BY <1>3, <1>6, <1>7, <1>8, <1>9 DEF TurnedInside

-----------------------------------------------------------------------------
(* The repair after an insertion.                                                    *)

OneRed(T, N) == \A k \in N: Red(T, k) => \E f \in Dirs: ~Red(T, Child(T, k, f))

\* What the loop of fixup_red_shape keeps: only g or its child p is red with a red child.
RedReady(T, N, d, g, p) ==
  /\ Shape(T, N) /\ Even(T, N, NoKey, Left) /\ OneRed(T, N)
  /\ d \in Dirs /\ p \in N /\ g = Parent(T, p) /\ (g # NoKey => Child(T, g, d) = p)
  /\ \E w \in {g, p}: Calm(T, N, {w})

RedDone(T, d, g, p) ==
  g # NoKey => ~RedViolation(T, g) /\ ~(RedViolation(T, p) /\ Red(T, Child(T, g, Other(d))))

LEMMA ViolationIs ==
  ASSUME NEW T, NEW k
  PROVE  RedViolation(T, k) <=> Red(T, k) /\ \E f \in Dirs: Red(T, Child(T, k, f))
BY DEF RedViolation, Dirs

\* The root of a balanced tree can be painted black.
LEMMA BlackRoot ==
  ASSUME NEW T, NEW N, Shape(T, N), Even(T, N, NoKey, Left), NEW p \in N, Parent(T, p) = NoKey,
         Red(T, p), Calm(T, N, {p}), NEW R, R = Paint(T, p, FALSE)
  PROVE  RbTree(R, N) /\ Kept(R, T, N)
<1>0. T \in Trees /\ N \in SUBSET TreeKey /\ NoKey \notin N /\ p \in TreeKey /\ FALSE \in BOOLEAN
  BY ShapeFacts
<1>1. Alike(R, T) /\ R \in Trees /\ ~Red(R, p) /\ \A k \in Keys0 \ {p}: Red(R, k) <=> Red(T, k)
  BY <1>0, PaintAlike
<1>2. Shape(R, N) /\ Kept(R, T, N)
  BY <1>1, AlikeShape, AlikeFacts
<1>3. \A k \in N, f \in Dirs: Child(R, k, f) = Child(T, k, f)
  BY <1>0, <1>1 DEF Alike, SameChildren
<1>4. \A k \in N, f \in Dirs: Child(T, k, f) # p /\ Child(T, k, f) \in N \cup {NoKey}
  <2>1. p = T.root /\ p # NoKey
    BY <1>0, ShapeFacts
  <2> QED
    BY <1>0, <2>1, ShapeFacts
<1>5. Even(R, N, NoKey, Left)
  <2>1. PICK bh: Balanced(T, N, bh, NoKey, Left)
    BY DEF Even
  <2>2. /\ bh \in [N -> Nat]
        /\ \A k \in N, f \in Dirs: bh[k] = BhOf(bh, Child(T, k, f)) + Lack(k, f, NoKey, Left) + Black(T, k)
    BY <2>1 DEF Balanced
  <2>3. PICK bg: bg = [bh EXCEPT ![p] = bh[p] + 1]
    OBVIOUS
  <2>4. bg \in [N -> Nat] /\ bg[p] = bh[p] + 1 /\ \A k \in N \ {p}: bg[k] = bh[k]
    BY <2>2, <2>3
  <2>5. \A k \in N, f \in Dirs: BhOf(bg, Child(R, k, f)) = BhOf(bh, Child(T, k, f))
    BY <1>3, <1>4, <2>4 DEF BhOf
  <2>6. Black(R, p) = 1 /\ Black(T, p) = 0 /\ \A k \in N \ {p}: Black(R, k) = Black(T, k)
    <3>1. \A k \in N: Black(R, k) = IF Red(R, k) THEN 0 ELSE 1
      BY <1>0, <1>1, RedIs
    <3>2. \A k \in N: Black(T, k) = IF Red(T, k) THEN 0 ELSE 1
      BY <1>0, RedIs
    <3>3. \A k \in N \ {p}: Red(R, k) <=> Red(T, k)
      BY <1>0, <1>1, KeyFacts
    <3> QED
      BY <1>1, <3>1, <3>2, <3>3
  <2>7. ASSUME NEW k \in N, NEW f \in Dirs
        PROVE  bg[k] = BhOf(bg, Child(R, k, f)) + Lack(k, f, NoKey, Left) + Black(R, k)
    <3>1. BhOf(bh, Child(T, k, f)) \in Nat /\ Lack(k, f, NoKey, Left) \in Nat
      BY <1>4, <2>2, BhFacts DEF Lack
    <3>2. bh[k] = BhOf(bh, Child(T, k, f)) + Lack(k, f, NoKey, Left) + Black(T, k) /\ bh[k] \in Nat
          /\ BhOf(bg, Child(R, k, f)) = BhOf(bh, Child(T, k, f))
      BY <2>2, <2>5
    <3>3. CASE k = p
      <4>1. bg[k] = bh[k] + 1 /\ Black(R, k) = 1 /\ Black(T, k) = 0
        BY <2>4, <2>6, <3>3
      <4>2. bh[k] = BhOf(bh, Child(T, k, f)) + Lack(k, f, NoKey, Left)
        BY <3>1, <3>2, <4>1
      <4> QED
        BY <3>1, <3>2, <4>1, <4>2
    <3>4. CASE k # p
      BY <2>4, <2>6, <3>1, <3>2, <3>4
    <3> QED
      BY <3>3, <3>4
  <2> QED
    BY <2>4, <2>7 DEF Even, Balanced
<1>6. Calm(R, N, {})
  <2>1. SUFFICES ASSUME NEW k \in N, Red(R, k), NEW f \in Dirs, Red(R, Child(R, k, f)) PROVE FALSE
    BY ViolationIs DEF Calm
  <2>2. k # p /\ Red(T, k)
    BY <1>0, <1>1, <2>1, KeyFacts
  <2>3. Red(T, Child(T, k, f))
    BY <1>0, <1>1, <1>3, <1>4, <2>1, KeyFacts
  <2> QED
    BY <2>1, <2>2, <2>3, ViolationIs DEF Calm
<1> QED
  BY <1>2, <1>5, <1>6 DEF RbTree

LEMMA RepairRedIs ==
  ASSUME NEW T, NEW N, NEW d, NEW g, NEW p, RedReady(T, N, d, g, p), RedDone(T, d, g, p),
         NEW R, R = RepairRed(T, d, g, p)
  PROVE  RbTree(R, N) /\ Kept(R, T, N)
<1>0. /\ Shape(T, N) /\ Even(T, N, NoKey, Left) /\ OneRed(T, N)
      /\ d \in Dirs /\ p \in N /\ g = Parent(T, p) /\ (g # NoKey => Child(T, g, d) = p)
      /\ \E w \in {g, p}: Calm(T, N, {w})
  BY DEF RedReady
<1>1. T \in Trees /\ N \in SUBSET TreeKey /\ NoKey \notin N /\ (g # NoKey => g \in N)
  BY <1>0, ShapeFacts
<1>2. CASE ~RedViolation(T, p)
  <2>1. Calm(T, N, {})
    <3>1. PICK w \in {g, p}: Calm(T, N, {w})
      BY <1>0
    <3>2. w \in N => ~RedViolation(T, w)
      BY <1>1, <1>2 DEF RedDone
    <3> QED
      BY <3>1, <3>2 DEF Calm
  <2>2. R = T
    BY <1>2 DEF RepairRed
  <2>3. Kept(T, T, N)
    BY <1>1, AlikeFacts
  <2> QED
    BY <1>0, <2>1, <2>2, <2>3 DEF RbTree
<1>3. CASE RedViolation(T, p)
  <2>1. Red(T, p) /\ p # NoKey /\ (g # NoKey => ~Red(T, g) /\ ~Red(T, Child(T, g, Other(d))))
    <3>1. Red(T, p)
      BY <1>3 DEF RedViolation
    <3>2. g # NoKey => ~RedViolation(T, g) /\ ~Red(T, Child(T, g, Other(d)))
      BY <1>3 DEF RedDone
    <3> QED
      BY <1>0, <1>1, <3>1, <3>2, ViolationIs
  <2>2. Calm(T, N, {p})
    <3>1. PICK w \in {g, p}: Calm(T, N, {w})
      BY <1>0
    <3>2. \A k \in N \ {w}: ~RedViolation(T, k)
      BY <3>1 DEF Calm
    <3>3. w = p
      BY <1>0, <1>3, <3>2
    <3> QED
      BY <3>1, <3>3
  <2>3. CASE g = NoKey
    <3>1. R = Paint(T, p, FALSE)
      BY <1>3, <2>3 DEF RepairRed
    <3> QED
      BY <1>0, <2>1, <2>2, <2>3, <3>1, BlackRoot
  <2>4. CASE g # NoKey
    <3>0. g \in N /\ Child(T, g, d) = p /\ ~Red(T, g) /\ ~Red(T, Child(T, g, Other(d)))
          /\ Other(d) \in Dirs /\ Other(Other(d)) = d /\ Other(d) # d
      BY <1>0, <1>1, <2>1, <2>4, DirFacts
    <3>1. PICK s: s = Child(T, p, Other(d))
      OBVIOUS
    <3>2. CASE Red(T, s)
      <4>1. PICK T2: T2 = Rotate(T, d, p)
        OBVIOUS
      <4>2. R = Rotate(Paint(Paint(T2, s, FALSE), g, TRUE), Other(d), g)
        BY <1>3, <2>4, <3>1, <3>2, <4>1 DEF RepairRed
      <4>3. ~Red(T, Child(T, p, d))
        <5>1. \E f \in Dirs: ~Red(T, Child(T, p, f))
          BY <1>0, <2>1 DEF OneRed
        <5> QED
          BY <1>0, <3>1, <3>2, <5>1, DirFacts
      <4>4. /\ Shape(T2, N) /\ Even(T2, N, NoKey, Left) /\ Kept(T2, T, N) /\ T2 \in Trees
            /\ Child(T2, g, d) = s /\ Child(T2, g, Other(d)) = Child(T, g, Other(d))
            /\ ~Red(T2, Child(T2, s, Other(d)))
            /\ Calm(T2, N, {s}) /\ \A k \in Keys0: Red(T2, k) <=> Red(T, k)
        <5>1. Shape(T, N) /\ Even(T, N, NoKey, Left) /\ d \in Dirs /\ g \in N /\ p = Child(T, g, d)
              /\ Red(T, p) /\ Calm(T, N, {p})
          BY <1>0, <2>1, <2>2, <3>0
        <5>2. TurnedInside(T2, T, N, d, g, s)
          BY ONLY <3>1, <3>2, <4>1, <4>3, <5>1, InnerIs
        <5> QED
          BY <5>2 DEF TurnedInside
      <4>5. Red(T2, s) /\ ~Red(T2, g) /\ ~Red(T2, Child(T2, g, Other(d)))
        <5>1. s \in Keys0 /\ g \in Keys0 /\ Child(T, g, Other(d)) \in Keys0
          BY <1>0, <1>1, <3>0, <3>1, ShapeFacts, KeyFacts
        <5> QED
          BY <3>0, <3>2, <4>4, <5>1
      <4>6. RbTree(R, N) /\ Kept(R, T2, N)
        BY <3>0, <4>2, <4>4, <4>5, TopIs
      <4> QED
        BY <4>4, <4>6, AlikeFacts
    <3>3. CASE ~Red(T, s)
      <4>1. R = Rotate(Paint(Paint(T, p, FALSE), g, TRUE), Other(d), g)
        BY <1>3, <2>4, <3>1, <3>3 DEF RepairRed
      <4>2. p = Child(T, g, Other(Other(d))) /\ ~Red(T, Child(T, p, Other(d)))
        BY <3>0, <3>1, <3>3
      <4> QED
        BY <1>0, <2>1, <2>2, <3>0, <4>1, <4>2, TopIs
    <3> QED
      BY <3>2, <3>3
  <2> QED
    BY <2>3, <2>4
<1> QED
  BY <1>2, <1>3

LEMMA NoCycle ==
  ASSUME NEW T, NEW N, Shape(T, N), NEW k \in N, NEW f \in Dirs, Child(T, k, f) # NoKey
  PROVE  /\ Child(T, k, f) \in N /\ Parent(T, k) # Child(T, k, f)
         /\ \A h \in Dirs: Child(T, Child(T, k, f), h) # k
<1>1. PICK sub: Linked(T, N, sub)
  BY DEF Shape
<1>2. PICK c: c = Child(T, k, f)
  OBVIOUS
<1>3. c \in N /\ c # NoKey /\ c \in sub[c] /\ sub[c] \subseteq sub[k] \ {k} /\ k \in sub[k]
  BY <1>1, <1>2, LinkFacts
<1>4. ASSUME Parent(T, k) = c PROVE FALSE
  <2>1. sub[k] \subseteq sub[c] \ {c}
    BY <1>1, <1>3, <1>4, DirOfIs
  <2> QED
    BY <1>3, <2>1
<1>5. ASSUME NEW h \in Dirs, Child(T, c, h) = k PROVE FALSE
  <2>1. k # NoKey
    BY <1>1, LinkFacts
  <2>2. sub[k] \subseteq sub[c] \ {c}
    BY <1>1, <1>3, <1>5, <2>1, LinkFacts
  <2> QED
    BY <1>3, <2>2
<1> QED
  BY <1>2, <1>3, <1>4, <1>5

\* The colours after a step over a red uncle: g is red, p and u are black.
Recoloured(R, T, g, p, u) ==
  /\ Alike(R, T) /\ R \in Trees /\ Red(R, g) /\ ~Red(R, p) /\ ~Red(R, u)
  /\ \A k \in Keys0 \ {g, p, u}: Red(R, k) <=> Red(T, k)

LEMMA RecolourIs ==
  ASSUME NEW T \in Trees, NEW g \in TreeKey, NEW p \in TreeKey, NEW u \in TreeKey, g # p, g # u,
         NEW R, R = Paint(Paint(Paint(T, g, TRUE), p, FALSE), u, FALSE)
  PROVE  Recoloured(R, T, g, p, u)
<1>1. TRUE \in BOOLEAN /\ FALSE \in BOOLEAN
  OBVIOUS
<1>2. PICK A: A = Paint(T, g, TRUE)
  OBVIOUS
<1>3. A \in Trees /\ Alike(A, T) /\ Red(A, g) /\ \A k \in Keys0 \ {g}: Red(A, k) <=> Red(T, k)
  BY <1>1, <1>2, PaintAlike
<1>4. PICK B: B = Paint(A, p, FALSE)
  OBVIOUS
<1>5. B \in Trees /\ Alike(B, A) /\ ~Red(B, p) /\ \A k \in Keys0 \ {p}: Red(B, k) <=> Red(A, k)
  BY <1>1, <1>3, <1>4, PaintAlike
<1>6. R = Paint(B, u, FALSE)
  BY <1>2, <1>4
<1>7. R \in Trees /\ Alike(R, B) /\ ~Red(R, u) /\ \A k \in Keys0 \ {u}: Red(R, k) <=> Red(B, k)
  BY ONLY <1>1, <1>5, <1>6, u \in TreeKey, PaintAlike
<1>8. Alike(R, T)
  <2>1. Alike(B, T)
    BY <1>3, <1>5, AlikeFacts
  <2> QED
    BY <1>7, <2>1, AlikeFacts
<1>9. g \in Keys0 /\ p \in Keys0 /\ u \in Keys0
  BY KeyFacts
<1>10. Red(R, g) /\ ~Red(R, p)
  BY <1>3, <1>5, <1>7, <1>9
<1>11. \A k \in Keys0 \ {g, p, u}: Red(R, k) <=> Red(T, k)
  BY <1>3, <1>5, <1>7
<1> QED
  BY <1>7, <1>8, <1>10, <1>11 DEF Recoloured

\* The black of g is given to both its children.
LEMMA RecolourEven ==
  ASSUME NEW T, NEW N, Shape(T, N), Even(T, N, NoKey, Left), NEW d \in Dirs, NEW g \in N, NEW p \in N,
         NEW u \in N, p = Child(T, g, d), u = Child(T, g, Other(d)), ~Red(T, g), Red(T, p), Red(T, u),
         NEW R, Recoloured(R, T, g, p, u)
  PROVE  Even(R, N, NoKey, Left)
<1>0. /\ T \in Trees /\ R \in Trees /\ N \in SUBSET TreeKey /\ NoKey \notin N /\ Other(d) \in Dirs
      /\ \A f \in Dirs: f = d \/ f = Other(d)
      /\ \A k \in N, f \in Dirs: Child(T, k, f) \in (N \cup {NoKey}) \ {k}
      /\ p # g /\ u # g /\ p # u /\ p # NoKey /\ u # NoKey
  <2>1. T \in Trees /\ N \in SUBSET TreeKey /\ NoKey \notin N
        /\ \A k \in N, f \in Dirs: Child(T, k, f) \in (N \cup {NoKey}) \ {k}
    BY ShapeFacts
  <2>2. p # g /\ u # g /\ p # NoKey /\ u # NoKey /\ Other(d) \in Dirs /\ \A f \in Dirs: f = d \/ f = Other(d)
    BY <2>1, DirFacts
  <2>3. p # u
    BY <2>2, ShapeFacts
  <2> QED
    BY <2>1, <2>2, <2>3 DEF Recoloured
<1>1. PICK bh: Balanced(T, N, bh, NoKey, Left)
  BY DEF Even
<1>2. /\ bh \in [N -> Nat]
      /\ \A k \in N, f \in Dirs: bh[k] = BhOf(bh, Child(T, k, f)) + Lack(k, f, NoKey, Left) + Black(T, k)
  BY <1>1 DEF Balanced
<1>3. \A k \in N, f \in Dirs: Lack(k, f, NoKey, Left) = 0
  BY <1>0 DEF Lack
<1>4. \A k \in N: Black(T, k) = (IF Red(T, k) THEN 0 ELSE 1) /\ Black(R, k) = (IF Red(R, k) THEN 0 ELSE 1)
  <2>1. \A k \in N: Black(T, k) = IF Red(T, k) THEN 0 ELSE 1
    BY <1>0, RedIs
  <2>2. \A k \in N: Black(R, k) = IF Red(R, k) THEN 0 ELSE 1
    BY <1>0, RedIs
  <2> QED
    BY <2>1, <2>2
<1>5. \A k \in N, f \in Dirs: BhOf(bh, Child(T, k, f)) \in Nat
  BY <1>0, <1>2, BhFacts
<1>6. ASSUME NEW k \in N, NEW f \in Dirs
      PROVE  bh[k] = BhOf(bh, Child(T, k, f)) + Black(T, k)
  <2>1. bh[k] = BhOf(bh, Child(T, k, f)) + 0 + Black(T, k) /\ Black(T, k) \in {0, 1}
    BY <1>2, <1>3, <1>4
  <2> QED
    BY <1>5, <2>1
<1>7. PICK bg: bg = [bh EXCEPT ![p] = bh[p] + 1, ![u] = bh[u] + 1]
  OBVIOUS
<1>8. /\ bg \in [N -> Nat] /\ bg[p] = bh[p] + 1 /\ bg[u] = bh[u] + 1
      /\ \A k \in N \ {p, u}: bg[k] = bh[k]
  BY <1>0, <1>2, <1>7
<1>9. \A k \in N, f \in Dirs: Child(R, k, f) = Child(T, k, f)
  BY <1>0 DEF Recoloured, Alike, SameChildren
<1>10. \A k \in N \ {g}, f \in Dirs: Child(T, k, f) \notin {p, u}
  <2>1. \A k, j \in N, f, h \in Dirs:
          Child(T, k, f) = Child(T, j, h) /\ Child(T, k, f) # NoKey => k = j /\ f = h
    BY ShapeFacts
  <2> QED
    BY <1>0, <2>1
<1>11. Black(R, g) = 0 /\ Black(R, p) = 1 /\ Black(R, u) = 1 /\ Black(T, g) = 1 /\ Black(T, p) = 0 /\ Black(T, u) = 0
  BY <1>4 DEF Recoloured
<1>12. \A k \in N \ {g, p, u}: Black(R, k) = Black(T, k)
  <2>1. \A k \in N \ {g, p, u}: Red(R, k) <=> Red(T, k)
    BY <1>0, KeyFacts DEF Recoloured
  <2> QED
    BY <1>4, <2>1
<1>13. ASSUME NEW k \in N, NEW f \in Dirs
       PROVE  bg[k] = BhOf(bg, Child(R, k, f)) + Black(R, k)
  <2>1. CASE k = g
    <3>1. Child(R, k, f) = p \/ Child(R, k, f) = u
      BY <1>0, <1>9, <2>1
    <3>2. bh[g] = bh[p] + 1 /\ bh[g] = bh[u] + 1
      <4>1. bh[g] = BhOf(bh, p) + 1 /\ bh[g] = BhOf(bh, u) + 1
        BY <1>0, <1>6, <1>11
      <4> QED
        BY <1>0, <4>1 DEF BhOf
    <3>3. BhOf(bg, p) = bh[p] + 1 /\ BhOf(bg, u) = bh[u] + 1
      BY <1>0, <1>8 DEF BhOf
    <3>4. bg[g] = bh[g] /\ bh[p] \in Nat /\ bh[u] \in Nat
      BY <1>0, <1>2, <1>8
    <3>5. CASE Child(R, k, f) = p
      BY <1>11, <2>1, <3>2, <3>3, <3>4, <3>5
    <3>6. CASE Child(R, k, f) = u
      BY <1>11, <2>1, <3>2, <3>3, <3>4, <3>6
    <3> QED
      BY <3>1, <3>5, <3>6
  <2>2. CASE k # g
    <3>1. BhOf(bg, Child(R, k, f)) = BhOf(bh, Child(T, k, f)) /\ BhOf(bh, Child(T, k, f)) \in Nat
      <4>1. Child(T, k, f) \notin {p, u} /\ Child(T, k, f) \in N \cup {NoKey}
        BY <1>0, <1>10, <2>2
      <4> QED
        BY <1>5, <1>8, <1>9, <4>1 DEF BhOf
    <3>2. bh[k] = BhOf(bh, Child(T, k, f)) + Black(T, k)
      BY <1>6
    <3>3. CASE k \in {p, u}
      <4>1. bg[k] = bh[k] + 1 /\ Black(T, k) = 0 /\ Black(R, k) = 1
        BY <1>8, <1>11, <3>3
      <4>2. bh[k] = BhOf(bh, Child(T, k, f))
        BY <3>1, <3>2, <4>1
      <4> QED
        BY <3>1, <4>1, <4>2
    <3>4. CASE k \notin {p, u}
      BY <1>8, <1>12, <2>2, <3>1, <3>2, <3>4
    <3> QED
      BY <3>3, <3>4
  <2> QED
    BY <2>1, <2>2
<1>14. ASSUME NEW k \in N, NEW f \in Dirs
       PROVE  bg[k] = BhOf(bg, Child(R, k, f)) + Lack(k, f, NoKey, Left) + Black(R, k)
  <2>1. BhOf(bg, Child(R, k, f)) \in Nat
    <3>1. Child(R, k, f) \in N \cup {NoKey}
      BY <1>0, <1>9
    <3> QED
      BY <1>8, <3>1, BhFacts
  <2>2. Black(R, k) \in {0, 1}
    BY <1>4
  <2> QED
    BY <1>3, <1>13, <2>1, <2>2
<1> QED
  BY <1>8, <1>14 DEF Even, Balanced

LEMMA RedStepIs ==
  ASSUME NEW T, NEW N, NEW d, NEW g, NEW p, RedReady(T, N, d, g, p), ~RedDone(T, d, g, p),
         NEW z, z = RedStep(T, d, g, p)
  PROVE  /\ z \in [T: Trees, d: Dirs, g: Keys0, p: Keys0] /\ z.p = g /\ g \in N /\ Child(T, g, d) = p
         /\ Alike(z.T, T) /\ RedReady(z.T, N, z.d, z.g, z.p)
<1>0. /\ Shape(T, N) /\ Even(T, N, NoKey, Left) /\ OneRed(T, N)
      /\ d \in Dirs /\ p \in N /\ g = Parent(T, p) /\ (g # NoKey => Child(T, g, d) = p)
  BY DEF RedReady
<1>1. PICK w \in {g, p}: Calm(T, N, {w})
  BY DEF RedReady
<1>2. PICK u: u = Child(T, g, Other(d))
  OBVIOUS
<1>3. g # NoKey /\ (RedViolation(T, g) \/ (RedViolation(T, p) /\ Red(T, u)))
  BY <1>2 DEF RedDone
<1>4. /\ T \in Trees /\ N \in SUBSET TreeKey /\ NoKey \notin N /\ g \in N /\ Child(T, g, d) = p /\ p # g
      /\ Other(d) \in Dirs /\ \A f \in Dirs: f = d \/ f = Other(d)
      /\ u \in N \cup {NoKey}
      /\ \A k \in N, f \in Dirs: Child(T, k, f) \in (N \cup {NoKey}) \ {k}
  <2>1. /\ T \in Trees /\ N \in SUBSET TreeKey /\ NoKey \notin N /\ g \in N /\ Child(T, g, d) = p /\ p # g
        /\ \A k \in N, f \in Dirs: Child(T, k, f) \in (N \cup {NoKey}) \ {k}
    BY <1>0, <1>3, ShapeFacts
  <2> QED
    BY <1>0, <1>2, <2>1, DirFacts
<1>5. \A k \in N \ {w}, f \in Dirs: Red(T, k) => ~Red(T, Child(T, k, f))
  BY <1>1, ViolationIs DEF Calm
<1>6. ASSUME NEW R, Alike(R, T), Even(R, N, NoKey, Left), OneRed(R, N), NEW v \in {g, Parent(T, g)}, Calm(R, N, {v}),
             z = [T |-> R, d |-> DirOf(R, Parent(R, g), g), g |-> Parent(R, g), p |-> g]
      PROVE  /\ z \in [T: Trees, d: Dirs, g: Keys0, p: Keys0] /\ z.p = g
             /\ Alike(z.T, T) /\ RedReady(z.T, N, z.d, z.g, z.p)
  <2>1. Shape(R, N) /\ R \in Trees
    BY <1>0, <1>6, AlikeShape DEF Alike
  <2>2. PICK q, e: q = Parent(R, g) /\ e = DirOf(R, q, g)
    OBVIOUS
  <2>3. q \in N \cup {NoKey} /\ e \in Dirs /\ (q # NoKey => Child(R, q, e) = g)
    BY <1>4, <2>1, <2>2, ShapeFacts
  <2>4. v \in {q, g}
    BY <1>4, <1>6, <2>2 DEF Alike, SameParents
  <2>5. RedReady(R, N, e, q, g)
    BY <1>4, <1>6, <2>1, <2>2, <2>3, <2>4 DEF RedReady
  <2>6. z.T = R /\ z.d = e /\ z.g = q /\ z.p = g
    BY <1>6, <2>2
  <2>7. q \in Keys0 /\ g \in Keys0
    BY <1>4, <2>3, KeyFacts
  <2>8. z \in [T: Trees, d: Dirs, g: Keys0, p: Keys0]
    BY <1>6, <2>1, <2>2, <2>3, <2>7
  <2> QED
    BY <1>6, <2>5, <2>6, <2>8
<1>7. CASE RedViolation(T, g)
  <2>1. w = g
    BY <1>1, <1>4, <1>7 DEF Calm
  <2>2. z = [T |-> T, d |-> DirOf(T, Parent(T, g), g), g |-> Parent(T, g), p |-> g]
    BY <1>3, <1>7 DEF RedStep
  <2>3. Alike(T, T)
    BY <1>4, AlikeFacts
  <2> QED
    BY <1>0, <1>1, <1>4, <1>6, <2>1, <2>2, <2>3
<1>8. CASE ~RedViolation(T, g)
  <2>1. RedViolation(T, p) /\ Red(T, p) /\ Red(T, u) /\ ~Red(T, g) /\ u \in N /\ w = p
    <3>1. RedViolation(T, p) /\ Red(T, u)
      BY <1>3, <1>8
    <3>2. Red(T, p)
      BY <3>1 DEF RedViolation
    <3>3. ~Red(T, g)
      BY <1>0, <1>4, <1>8, <3>2, ViolationIs
    <3>4. w = p
      BY <1>0, <1>1, <3>1 DEF Calm
    <3>5. u \in N
      BY <1>4, <3>1 DEF Red
    <3> QED
      BY <3>1, <3>2, <3>3, <3>4, <3>5
  <2>2. u # g
    BY <1>2, <1>4
  <2>3. PICK R: R = Paint(Paint(Paint(T, g, TRUE), p, FALSE), u, FALSE)
    OBVIOUS
  <2>4. Recoloured(R, T, g, p, u)
    <3>1. g \in TreeKey /\ p \in TreeKey /\ u \in TreeKey
      BY <1>0, <1>4, <2>1
    <3> QED
      BY <1>4, <2>2, <2>3, <3>1, RecolourIs
  <2>5. Even(R, N, NoKey, Left)
    BY <1>0, <1>2, <1>4, <2>1, <2>4, RecolourEven
  <2>6. /\ Alike(R, T) /\ R \in Trees /\ Red(R, g) /\ ~Red(R, p) /\ ~Red(R, u)
        /\ \A k \in Keys0 \ {g, p, u}: Red(R, k) <=> Red(T, k)
    BY <2>4 DEF Recoloured
  <2>7. \A k \in N, f \in Dirs: Child(R, k, f) = Child(T, k, f)
    BY <1>4, <2>6 DEF Alike, SameChildren
  <2>8. \A c \in N \cup {NoKey}: c # g /\ Red(R, c) => Red(T, c) /\ c \notin {p, u}
    BY <1>4, <2>6, KeyFacts
  <2>9. PICK q: q = Parent(T, g)
    OBVIOUS
  <2>10. /\ q # p
         /\ \A k \in N \ {q}, f \in Dirs: Child(T, k, f) # g
         /\ q \in N => \E f \in Dirs: Child(T, q, f) # g
    <3>1. q # p
      BY <1>0, <1>4, <2>1, <2>9, NoCycle
    <3>2. \A k \in N, f \in Dirs: Child(T, k, f) = g => Parent(T, g) = k /\ Child(T, k, f) # Child(T, k, Other(f))
      <4>1. \A k \in N, f \in Dirs: Child(T, k, f) # NoKey
              => Parent(T, Child(T, k, f)) = k /\ Child(T, k, f) # Child(T, k, Other(f))
        BY <1>0, ShapeFacts
      <4> QED
        BY <1>3, <4>1
    <3>3. \A k \in N \ {q}, f \in Dirs: Child(T, k, f) # g
      BY <2>9, <3>2
    <3>4. q \in N => \E f \in Dirs: Child(T, q, f) # g
      BY <1>0, <1>4, <3>2
    <3> QED
      BY <3>1, <3>3, <3>4
  <2>11. Calm(R, N, {q})
    <3>1. SUFFICES ASSUME NEW k \in N \ {q}, Red(R, k), NEW f \in Dirs, Red(R, Child(R, k, f)) PROVE FALSE
      BY ViolationIs DEF Calm
    <3>2. CASE k = g
      BY <1>2, <1>4, <2>6, <2>7, <3>1, <3>2
    <3>3. CASE k # g
      <4>1. Red(T, k) /\ k # p
        BY <2>8, <3>1, <3>3
      <4>2. Child(T, k, f) # g /\ Red(R, Child(T, k, f)) /\ Child(T, k, f) \in N \cup {NoKey}
        BY <1>4, <2>7, <2>10, <3>1
      <4>3. Red(T, Child(T, k, f))
        BY <2>8, <4>2
      <4> QED
        BY <1>5, <2>1, <3>1, <4>1, <4>3
    <3> QED
      BY <3>2, <3>3
  <2>12. OneRed(R, N)
    <3>1. SUFFICES ASSUME NEW k \in N, Red(R, k) PROVE \E f \in Dirs: ~Red(R, Child(R, k, f))
      BY DEF OneRed
    <3>2. CASE k = g
      BY <1>0, <1>4, <2>6, <2>7, <3>2
    <3>3. CASE k # g
      <4>1. Red(T, k) /\ k # p
        BY <2>8, <3>1, <3>3
      <4>2. PICK f \in Dirs: Child(T, k, f) # g
        BY <2>10, <1>0
      <4>3. ~Red(T, Child(T, k, f)) /\ Child(T, k, f) \in N \cup {NoKey}
        BY <1>4, <1>5, <2>1, <4>1
      <4>4. ~Red(R, Child(T, k, f))
        BY <2>8, <4>2, <4>3
      <4> QED
        BY <2>7, <4>4
    <3> QED
      BY <3>2, <3>3
  <2>13. z = [T |-> R, d |-> DirOf(R, Parent(R, g), g), g |-> Parent(R, g), p |-> g]
    BY <1>2, <1>3, <1>8, <2>1, <2>3 DEF RedStep
  <2> QED
    BY <1>4, <1>6, <2>5, <2>6, <2>9, <2>11, <2>12, <2>13
<1> QED
  BY <1>4, <1>7, <1>8

\* Where fixup_red_shape ends the tree is a red-black tree again.
LEMMA FixRedIs ==
  ASSUME NEW T, NEW N, NEW d, NEW g, NEW p, RedReady(T, N, d, g, p), NEW R, R = FixRed(T, d, g, p)
  PROVE  RbTree(R, N) /\ Kept(R, T, N)
<1>1. PICK sub: Linked(T, N, sub)
  BY DEF RedReady, Shape
<1>2. T \in Trees /\ N \in SUBSET TreeKey /\ NoKey \notin N /\ sub \in [N -> SUBSET N] /\ IsFiniteSet(TreeKey)
  BY <1>1, ShapeFacts, TreeAssumption DEF RedReady, TreeAssumption, Linked
<1> DEFINE States == [T: Trees, d: Dirs, g: Keys0, p: Keys0]
           step == [s \in States |-> RedStep(s.T, s.d, s.g, s.p)]
           I == {s \in States: Alike(s.T, T) /\ RedReady(s.T, N, s.d, s.g, s.p)}
           rank == [s \in I |-> Cardinality(sub[s.p])]
           s0 == [T |-> T, d |-> d, g |-> g, p |-> p]
<1>3. s0 \in I
  <2>1. p \in N /\ d \in Dirs /\ g \in N \cup {NoKey} /\ p \in Keys0 /\ g \in Keys0
    BY <1>2, ShapeFacts, KeyFacts DEF RedReady
  <2>2. Alike(T, T)
    BY <1>2, AlikeFacts
  <2> QED
    BY <1>2, <2>1, <2>2
<1>4. ASSUME NEW t \in I, RedDone(t.T, t.d, t.g, t.p)
      PROVE  step[t] = t
  <2>1. step[t] = RedStep(t.T, t.d, t.g, t.p)
    OBVIOUS
  <2>2. RedStep(t.T, t.d, t.g, t.p) = [T |-> t.T, d |-> t.d, g |-> t.g, p |-> t.p]
    BY <1>4 DEF RedStep, RedDone
  <2>3. t = [T |-> t.T, d |-> t.d, g |-> t.g, p |-> t.p]
    OBVIOUS
  <2> QED
    BY <2>1, <2>2, <2>3
<1>5. ASSUME NEW t \in I, ~RedDone(t.T, t.d, t.g, t.p)
      PROVE  /\ step[t] \in I /\ step[t] # t /\ t.p \in N /\ step[t].p \in N
             /\ sub[t.p] \subseteq sub[step[t].p] /\ step[t].p \in sub[step[t].p] /\ step[t].p \notin sub[t.p]
  <2>1. step[t] = RedStep(t.T, t.d, t.g, t.p)
    OBVIOUS
  <2>2. PICK A, e, h, q: A = t.T /\ e = t.d /\ h = t.g /\ q = t.p
    OBVIOUS
  <2>3. PICK z: z = step[t]
    OBVIOUS
  <2>4. z = RedStep(A, e, h, q) /\ RedReady(A, N, e, h, q) /\ ~RedDone(A, e, h, q) /\ Alike(A, T)
    BY <1>5, <2>1, <2>2, <2>3
  <2>5. /\ z \in States /\ z.p = h /\ h \in N /\ Child(A, h, e) = q
        /\ Alike(z.T, A) /\ RedReady(z.T, N, z.d, z.g, z.p)
    BY <2>4, RedStepIs
  <2>6. z \in I
    BY <2>4, <2>5, AlikeFacts
  <2>7. q \in N /\ e \in Dirs
    BY <2>4 DEF RedReady
  <2>8. Child(T, h, e) = q /\ q # NoKey /\ h \in sub[h]
    BY <1>1, <1>2, <2>4, <2>5, <2>7, LinkFacts DEF Alike, SameChildren
  <2>9. sub[q] \subseteq sub[h] \ {h} /\ q \in sub[q]
    BY <1>1, <2>5, <2>7, <2>8, LinkFacts
  <2>10. z.p # q
    BY <2>5, <2>8, <2>9
  <2> QED
    BY <2>2, <2>3, <2>5, <2>6, <2>7, <2>8, <2>9, <2>10
<1>6. \A t \in I: step[t] \in I
  BY <1>4, <1>5
<1>7. \A k \in N: Cardinality(sub[k]) \in 0 .. Cardinality(TreeKey) /\ IsFiniteSet(sub[k])
  <2>1. \A k \in N: sub[k] \subseteq TreeKey
    BY <1>2
  <2> QED
    BY <1>2, <2>1, FS_Subset, FS_CardinalityType
<1>8. \A t \in I: t.p \in N
  BY DEF RedReady
<1>9. \A t \in I: rank[t] \in 0 .. Cardinality(TreeKey)
  BY <1>7, <1>8
<1>10. \A t \in I: step[t] = t \/ rank[step[t]] > rank[t]
  <2>1. SUFFICES ASSUME NEW t \in I, ~RedDone(t.T, t.d, t.g, t.p) PROVE rank[step[t]] > rank[t]
    BY <1>4
  <2>2. PICK q, h: q = t.p /\ h = step[t].p
    OBVIOUS
  <2>3. q \in N /\ h \in N /\ sub[q] \subseteq sub[h] /\ h \in sub[h] /\ h \notin sub[q] /\ step[t] \in I
    BY <1>5, <2>1, <2>2
  <2>4. Cardinality(sub[q]) < Cardinality(sub[h])
    <3>1. sub[q] # sub[h] /\ IsFiniteSet(sub[h]) /\ Cardinality(sub[h]) \in Nat /\ Cardinality(sub[q]) \in Nat
      BY <1>2, <1>7, <2>3, FS_CardinalityType
    <3> QED
      BY <2>3, <3>1, FS_Subset
  <2>5. Cardinality(sub[h]) \in Int /\ Cardinality(sub[q]) \in Int
    BY <1>7, <2>3
  <2> QED
    BY <2>2, <2>3, <2>4, <2>5
<1> HIDE DEF I, step, rank, s0
<1>11. Loop(step, s0) \in I /\ step[Loop(step, s0)] = Loop(step, s0)
  BY <1>3, <1>6, <1>9, <1>10, LoopEnds
<1>12. PICK s: s = Loop(step, s0)
  OBVIOUS
<1>13. s \in I /\ RedDone(s.T, s.d, s.g, s.p)
  BY <1>5, <1>11, <1>12
<1>14. R = RepairRed(s.T, s.d, s.g, s.p)
  <2>1. s = Loop([t \in [T: Trees, d: Dirs, g: Keys0, p: Keys0] |-> RedStep(t.T, t.d, t.g, t.p)],
                 [T |-> T, d |-> d, g |-> g, p |-> p])
    BY <1>12 DEF step, s0
  <2> QED
    BY <2>1 DEF FixRed
<1>15. Alike(s.T, T) /\ RedReady(s.T, N, s.d, s.g, s.p)
  BY <1>13 DEF I
<1>16. RbTree(R, N) /\ Kept(R, s.T, N)
  BY <1>13, <1>14, <1>15, RepairRedIs
<1>17. Kept(s.T, T, N)
  BY <1>15, AlikeFacts
<1> QED
  BY <1>16, <1>17, AlikeFacts

-----------------------------------------------------------------------------
(* Induction over the nodes of a tree, from the leaves up.                           *)

LEMMA UpInduction ==
  ASSUME NEW T, NEW N, NEW sub, Linked(T, N, sub), NEW S,
         \A k \in N: (\A f \in Dirs: Child(T, k, f) # NoKey => Child(T, k, f) \in S) => k \in S
  PROVE  N \subseteq S
<1>1. N \subseteq TreeKey /\ sub \in [N -> SUBSET N] /\ IsFiniteSet(N)
  BY TreeAssumption, FS_Subset DEF Linked, TreeAssumption
<1>2. \A k \in N: IsFiniteSet(sub[k]) /\ Cardinality(sub[k]) \in Nat
  BY <1>1, FS_Subset, FS_CardinalityType
<1>3. ASSUME NEW k \in N, NEW f \in Dirs, Child(T, k, f) # NoKey
      PROVE  Child(T, k, f) \in N /\ Cardinality(sub[Child(T, k, f)]) < Cardinality(sub[k])
  <2>1. PICK c: c = Child(T, k, f)
    OBVIOUS
  <2>2. c \in N /\ sub[c] \subseteq sub[k] \ {k} /\ k \in sub[k]
    BY <1>3, <2>1, LinkFacts
  <2>3. sub[c] # sub[k] /\ sub[c] \in SUBSET sub[k]
    BY <2>2
  <2>4. Cardinality(sub[c]) <= Cardinality(sub[k]) /\ Cardinality(sub[c]) # Cardinality(sub[k])
    BY <1>2, <2>3, FS_Subset
  <2> QED
    BY <1>2, <2>1, <2>2, <2>4
<1> DEFINE Q == {n \in Nat: \A k \in N: Cardinality(sub[k]) <= n => k \in S}
<1>4. 0 \in Q
  <2>1. SUFFICES ASSUME NEW k \in N, Cardinality(sub[k]) <= 0 PROVE k \in S
    OBVIOUS
  <2>2. \A f \in Dirs: Child(T, k, f) = NoKey
    BY <1>2, <1>3, <2>1
  <2> QED
    BY <2>2
<1>5. ASSUME NEW n \in Q PROVE n + 1 \in Q
  <2>1. SUFFICES ASSUME NEW k \in N, Cardinality(sub[k]) <= n + 1 PROVE k \in S
    OBVIOUS
  <2>2. ASSUME NEW f \in Dirs, Child(T, k, f) # NoKey PROVE Child(T, k, f) \in S
    <3>1. PICK c: c = Child(T, k, f)
      OBVIOUS
    <3>2. c \in N /\ Cardinality(sub[c]) <= n
      BY <1>2, <1>3, <2>1, <2>2, <3>1
    <3> QED
      BY <3>1, <3>2
  <2> QED
    BY <2>2
<1>6. Q \in SUBSET Nat
  OBVIOUS
<1>7. ASSUME NEW k \in N PROVE k \in S
  <2>1. Cardinality(sub[k]) \in Q
    <3> HIDE DEF Q
    <3> QED
      BY <1>2, <1>4, <1>5, <1>6, NatSetInduction
  <2> QED
    BY <1>2, <2>1
<1> QED
  BY <1>7

LEMMA SubFacts ==
  ASSUME NEW T, NEW N, NEW sub, Linked(T, N, sub)
  PROVE  \A k \in N: \A u \in sub[k]: u \in N /\ sub[u] \subseteq sub[k] /\ (u # k => Parent(T, u) \in sub[k])
<1>1. sub \in [N -> SUBSET N] /\ NoKey \notin N
  BY LinkFacts DEF Linked
<1> DEFINE S == {k \in N: \A u \in sub[k]: sub[u] \subseteq sub[k] /\ (u # k => Parent(T, u) \in sub[k])}
<1>2. ASSUME NEW k \in N, \A f \in Dirs: Child(T, k, f) # NoKey => Child(T, k, f) \in S
      PROVE  k \in S
  <2>1. SUFFICES ASSUME NEW u \in sub[k], u # k PROVE sub[u] \subseteq sub[k] /\ Parent(T, u) \in sub[k]
    OBVIOUS
  <2>2. PICK f \in Dirs: u \in SubOf(sub, Child(T, k, f))
    <3>1. sub[k] = {k} \cup SubOf(sub, Child(T, k, Left)) \cup SubOf(sub, Child(T, k, Other(Left)))
      BY KeyFacts DEF Linked
    <3> QED
      BY <2>1, <3>1, KeyFacts, DirFacts
  <2>3. PICK c: c = Child(T, k, f)
    OBVIOUS
  <2>4. c # NoKey /\ u \in sub[c]
    BY <2>2, <2>3 DEF SubOf
  <2>5. c \in S /\ sub[c] \subseteq sub[k] /\ Parent(T, c) = k /\ k \in sub[k]
    BY <1>2, <2>3, <2>4, LinkFacts DEF Linked
  <2> QED
    BY <2>4, <2>5
<1>3. N \subseteq S
  <2> HIDE DEF S
  <2> QED
    BY <1>2, UpInduction
<1> QED
  BY <1>1, <1>3

-----------------------------------------------------------------------------
(* fixup_ancestor_size and the search for a key.                                     *)

SameReds(R, T) == \A k \in Keys0: Red(R, k) <=> Red(T, k)

LEMMA RecalcUpIs ==
  ASSUME NEW T \in Trees, NEW x \in Keys0
  PROVE  Alike(RecalcUp(T, x), T) /\ SameReds(RecalcUp(T, x), T)
<1> DEFINE States == [T: Trees, x: Keys0]
           step == [s \in States |-> IF s.x = NoKey THEN s ELSE [T |-> Recalc(s.T, s.x), x |-> Parent(s.T, s.x)]]
           I == {s \in States: Alike(s.T, T) /\ SameReds(s.T, T)}
           s0 == [T |-> T, x |-> x]
<1>1. s0 \in I
  BY AlikeFacts DEF SameReds
<1>2. ASSUME NEW t \in I PROVE step[t] \in I
  <2>1. CASE t.x = NoKey
    BY <2>1
  <2>2. CASE t.x # NoKey
    <3>1. PICK A, y: A = t.T /\ y = t.x
      OBVIOUS
    <3>2. A \in Trees /\ y \in TreeKey /\ Alike(A, T) /\ SameReds(A, T)
      BY <2>2, <3>1, KeyFacts
    <3>3. PICK B: B = Recalc(A, y)
      OBVIOUS
    <3>4. Recalculated(B, A, y)
      BY <3>2, <3>3, RecalcIs
    <3>5. B \in Trees /\ Alike(B, A) /\ SameReds(B, A)
      BY <3>4, KeyFacts DEF Recalculated, Alike, SameReds, SameRed, SameValues, Red
    <3>6. Alike(B, T) /\ SameReds(B, T)
      BY <3>2, <3>5, AlikeFacts DEF SameReds
    <3>7. step[t] = [T |-> B, x |-> Parent(A, y)] /\ Parent(A, y) \in Keys0
      BY <2>2, <3>1, <3>2, <3>3, TreeFacts
    <3> HIDE DEF step
    <3> QED
      BY <3>5, <3>6, <3>7
  <2> QED
    BY <2>1, <2>2
<1>3. RecalcUp(T, x) = Loop(step, s0).T
  BY DEF RecalcUp
<1> HIDE DEF step, s0
<1>4. Loop(step, s0) \in I
  <2> HIDE DEF I
  <2> QED
    BY <1>1, <1>2, LoopKeeps
<1> QED
  BY <1>3, <1>4

\* k belongs below y, if at all.
Placed(T, N, sub, k, y) == \A j \in N, f \in Dirs: y \in SubOf(sub, Child(T, j, f)) => Before(f, k, j)

LEMMA FindIs ==
  ASSUME NEW T, NEW N, NEW sub, Linked(T, N, sub), Ordered(T, N, sub, NoKey), T.root # NoKey,
         NEW k \in TreeKey, NEW y, y = Find(T, T.root, k)
  PROVE  /\ y \in N /\ (k \in N => y = k)
         /\ k \notin N => y # k /\ Child(T, y, Side(k, y)) = NoKey /\ Placed(T, N, sub, k, y)
<1>1. /\ T \in Trees /\ N \subseteq TreeKey /\ NoKey \notin N /\ T.root \in N /\ sub[T.root] = N
      /\ sub \in [N -> SUBSET N] /\ IsFiniteSet(TreeKey)
  <2>1. T \in Trees /\ N \subseteq TreeKey /\ T.root \in N /\ sub[T.root] = N /\ sub \in [N -> SUBSET N]
    BY DEF Linked
  <2> QED
    BY <2>1, KeyFacts, TreeAssumption DEF TreeAssumption
<1>2. /\ \A j \in N, f \in Dirs: \A z \in SubOf(sub, Child(T, j, f)): Before(f, z, j)
      /\ \A j \in N: Side(k, j) \in Dirs
  <2>1. \A j \in N, f \in Dirs: SubOf(sub, Child(T, j, f)) \subseteq N
    BY <1>1, LinkFacts
  <2> QED
    BY <1>1, <2>1, KeyFacts DEF Ordered, Side
<1> DEFINE step == [z \in Keys0 |-> IF z \in {NoKey, k} \/ Child(T, z, Side(k, z)) = NoKey THEN z
                                    ELSE Child(T, z, Side(k, z))]
           I == {z \in N: IF k \in N THEN k \in sub[z] ELSE Placed(T, N, sub, k, z)}
           rank == [z \in I |-> Cardinality(TreeKey) - Cardinality(sub[z])]
<1>3. T.root \in I
  <2>1. ASSUME NEW j \in N, NEW f \in Dirs, T.root \in SubOf(sub, Child(T, j, f)) PROVE FALSE
    <3>1. PICK c: c = Child(T, j, f)
      OBVIOUS
    <3>2. c \in N /\ T.root \in sub[c] /\ sub[c] \subseteq sub[j] \ {j} /\ sub[j] \subseteq N
      BY <2>1, <3>1, LinkFacts DEF SubOf
    <3>3. sub[T.root] \subseteq sub[c]
      BY <3>2, SubFacts
    <3> QED
      BY <1>1, <3>2, <3>3
  <2> QED
    BY <1>1, <2>1 DEF Placed
<1>4. ASSUME NEW z \in I, step[z] # z
      PROVE  /\ step[z] \in I /\ z # k /\ step[z] = Child(T, z, Side(k, z)) /\ step[z] # NoKey
  <2>1. PICK c, e: c = Child(T, z, e) /\ e = Side(k, z)
    OBVIOUS
  <2>2. z \in N /\ z \in TreeKey /\ z \in Keys0 /\ e \in Dirs
    BY <1>1, <1>2, <2>1, KeyFacts
  <2>3. z # k /\ z # NoKey /\ c # NoKey /\ step[z] = c
    BY <1>4, <2>1, <2>2
  <2>4. c \in N /\ Before(e, k, z) /\ SubOf(sub, c) = sub[c] /\ c \in sub[c]
    BY <1>1, <2>1, <2>2, <2>3, LinkFacts, BeforeFacts DEF SubOf
  <2>5. CASE k \in N
    <3>1. k \in sub[z] /\ sub[z] = {z} \cup sub[c] \cup SubOf(sub, Child(T, z, Other(e)))
      BY <2>1, <2>2, <2>4, <2>5 DEF Linked
    <3>2. k \notin SubOf(sub, Child(T, z, Other(e)))
      BY <1>2, <2>2, <2>4, BeforeFacts, DirFacts
    <3>3. k \in sub[c]
      BY <2>3, <3>1, <3>2
    <3> QED
      BY <2>1, <2>3, <2>4, <2>5, <3>3
  <2>6. CASE k \notin N
    <3>1. ASSUME NEW j \in N, NEW f \in Dirs, c \in SubOf(sub, Child(T, j, f)) PROVE Before(f, k, j)
      <4>1. PICK x: x = Child(T, j, f)
        OBVIOUS
      <4>2. x # NoKey /\ x \in N /\ c \in sub[x] /\ SubOf(sub, x) = sub[x]
        BY <3>1, <4>1, LinkFacts DEF SubOf
      <4>3. CASE c = x
        <5>1. j = z /\ f = e
          <6>1. \A i, j1 \in N, h, g \in Dirs:
                  Child(T, i, h) = Child(T, j1, g) /\ Child(T, i, h) # NoKey => i = j1 /\ h = g
            BY OnePlace
          <6>2. Child(T, z, e) = Child(T, j, f) /\ Child(T, z, e) # NoKey /\ z \in N /\ e \in Dirs
            BY <2>1, <2>2, <2>3, <4>1, <4>3
          <6> QED
            BY ONLY <6>1, <6>2, j \in N, f \in Dirs
        <5> QED
          BY <2>4, <5>1
      <4>4. CASE c # x
        <5>1. Parent(T, c) = z
          BY <2>1, <2>2, <2>3 DEF Linked
        <5>2. z \in sub[x]
          BY <4>2, <4>4, <5>1, SubFacts
        <5>3. Placed(T, N, sub, k, z)
          BY <2>6
        <5> QED
          BY <4>1, <4>2, <5>2, <5>3 DEF Placed
      <4> QED
        BY <4>3, <4>4
    <3>2. Placed(T, N, sub, k, c)
      BY <3>1 DEF Placed
    <3> QED
      BY <2>1, <2>3, <2>4, <2>6, <3>2
  <2> QED
    BY <2>5, <2>6
<1>5. \A z \in I: step[z] \in I
  BY <1>4
<1>6. \A z \in N: Cardinality(sub[z]) \in 0 .. Cardinality(TreeKey) /\ IsFiniteSet(sub[z])
  <2>1. \A z \in N: sub[z] \subseteq TreeKey
    BY <1>1
  <2> QED
    BY <1>1, <2>1, FS_Subset, FS_CardinalityType
<1>7. \A z \in I: rank[z] \in 0 .. Cardinality(TreeKey)
  BY <1>6, LastIsNat
<1>8. \A z \in I: step[z] = z \/ rank[step[z]] > rank[z]
  <2>1. SUFFICES ASSUME NEW z \in I, step[z] # z PROVE rank[step[z]] > rank[z]
    OBVIOUS
  <2>2. PICK c: c = step[z]
    OBVIOUS
  <2>3. c \in I /\ c \in N /\ z \in N /\ c = Child(T, z, Side(k, z)) /\ c # NoKey /\ Side(k, z) \in Dirs
    BY <1>2, <1>4, <2>1, <2>2
  <2>4. sub[c] \subseteq sub[z] \ {z} /\ z \in sub[z]
    BY <2>3, LinkFacts
  <2>5. sub[c] \in SUBSET sub[z] /\ sub[c] # sub[z]
    BY <2>4
  <2>6. Cardinality(sub[c]) <= Cardinality(sub[z]) /\ Cardinality(sub[c]) # Cardinality(sub[z])
    BY <1>6, <2>3, <2>5, FS_Subset
  <2>7. rank[c] = Cardinality(TreeKey) - Cardinality(sub[c]) /\ rank[z] = Cardinality(TreeKey) - Cardinality(sub[z])
    BY <2>3
  <2> QED
    BY <1>6, <2>2, <2>3, <2>6, <2>7, LastIsNat
<1>9. y = Loop(step, T.root)
  BY DEF Find
<1> HIDE DEF I, step, rank
<1>10. y \in I /\ step[y] = y
  BY <1>3, <1>5, <1>7, <1>8, <1>9, LoopEnds
<1>11. y \in N /\ (IF k \in N THEN k \in sub[y] ELSE Placed(T, N, sub, k, y))
  BY <1>10 DEF I
<1>12. y = k \/ Child(T, y, Side(k, y)) = NoKey
  <2>1. y \in Keys0 /\ y # NoKey /\ Side(k, y) \in Dirs
    BY <1>1, <1>2, <1>11, KeyFacts
  <2>2. Child(T, y, Side(k, y)) # y
    BY <1>11, <2>1, LinkFacts
  <2> QED
    BY <1>10, <2>1, <2>2 DEF step
<1>13. ASSUME k \in N, y # k PROVE FALSE
  <2>1. PICK e \in Dirs: e = Side(k, y)
    BY <1>2, <1>11
  <2>2. Child(T, y, e) = NoKey /\ Before(e, k, y)
    BY <1>1, <1>11, <1>12, <1>13, <2>1, BeforeFacts
  <2>3. sub[y] = {y} \cup SubOf(sub, Child(T, y, e)) \cup SubOf(sub, Child(T, y, Other(e)))
    BY <1>11 DEF Linked
  <2>4. k \in SubOf(sub, Child(T, y, Other(e)))
    BY <1>11, <1>13, <2>2, <2>3 DEF SubOf
  <2>5. Before(Other(e), k, y)
    BY <1>2, <1>11, <2>4, DirFacts
  <2> QED
    BY <1>1, <1>11, <2>2, <2>5, BeforeFacts
<1> QED
  BY <1>11, <1>12, <1>13

-----------------------------------------------------------------------------
(* Insertion.                                                                        *)

Leaf(v) == [Unused EXCEPT !.size = 1, !.value = v, !.r1 = v, !.r2 = v]

LEMMA LeafIs ==
  ASSUME NEW v \in Int
  PROVE  /\ Leaf(v) \in Nodes /\ Leaf(v).red = TRUE /\ Leaf(v).value = v /\ Leaf(v).parent = NoKey
         /\ \A f \in Dirs: Leaf(v).child[f] = NoKey
         /\ Unused \in Nodes /\ Unused.red = TRUE /\ \A f \in Dirs: Unused.child[f] = NoKey
<1>1. /\ Unused \in Nodes /\ Unused.red = TRUE /\ Unused.parent = NoKey
      /\ \A f \in Dirs: Unused.child[f] = NoKey
  BY KeyFacts DEF Unused, Nodes, Dirs, NoSum
<1>2. PICK m: m = Leaf(v)
  OBVIOUS
<1>3. /\ m \in Nodes /\ m.red = TRUE /\ m.value = v /\ m.parent = NoKey /\ m.child = Unused.child
  <2>1. PICK u: u = Unused
    OBVIOUS
  <2>2. u \in Nodes /\ u.red = TRUE /\ u.parent = NoKey
    BY <1>1, <2>1
  <2>3. m = [u EXCEPT !.size = 1, !.value = v, !.r1 = v, !.r2 = v]
    BY <1>2, <2>1 DEF Leaf
  <2>4. m \in Nodes /\ m.red = u.red /\ m.value = v /\ m.parent = u.parent /\ m.child = u.child
    <3>1. m.red = u.red /\ m.value = v /\ m.parent = u.parent /\ m.child = u.child
      BY <2>2, <2>3 DEF Nodes
    <3>2. m \in Nodes
      <4>1. PICK a: a = [u EXCEPT !.size = 1]
        OBVIOUS
      <4>2. PICK b: b = [a EXCEPT !.value = v]
        OBVIOUS
      <4>3. PICK c: c = [b EXCEPT !.r1 = v]
        OBVIOUS
      <4>4. a \in Nodes
        BY <2>2, <4>1 DEF Nodes
      <4>5. b \in Nodes
        BY <4>4, <4>2 DEF Nodes
      <4>6. c \in Nodes
        BY <4>5, <4>3 DEF Nodes
      <4>7. m = [c EXCEPT !.r2 = v]
        BY <2>3, <4>1, <4>2, <4>3
      <4> QED
        BY <4>6, <4>7 DEF Nodes
    <3> QED
      BY <3>1, <3>2
  <2> QED
    BY <2>1, <2>2, <2>4
<1> QED
  BY <1>1, <1>2, <1>3

\* R is T with the new leaf k below y on side d.
Grafted(R, T, k, y, d, v) ==
  /\ R \in Trees /\ R.root = T.root
  /\ \A f \in Dirs: Child(R, k, f) = NoKey
  /\ Parent(R, k) = y /\ Red(R, k) /\ R.n[k].value = v
  /\ \A j \in TreeKey \ {k}: /\ (Red(R, j) <=> Red(T, j)) /\ R.n[j].value = T.n[j].value
                             /\ Parent(R, j) = Parent(T, j)
                             /\ \A f \in Dirs: Child(R, j, f) = IF j = y /\ f = d THEN k ELSE Child(T, j, f)

LEMMA GraftIs ==
  ASSUME NEW T \in Trees, NEW k \in TreeKey, NEW y \in TreeKey, y # k, NEW d \in Dirs, NEW v \in Int,
         Child(T, y, d) = NoKey
  PROVE  Grafted(AssignChild([T EXCEPT !.n[k] = Leaf(v)], y, d, k), T, k, y, d, v)
<1>0. PICK T1: T1 = [T EXCEPT !.n[k] = Leaf(v)]
  OBVIOUS
<1>1. PICK m: m = Leaf(v)
  OBVIOUS
<1>2. /\ m \in Nodes /\ m.red = TRUE /\ m.value = v /\ m.parent = NoKey /\ \A f \in Dirs: m.child[f] = NoKey
  BY <1>1, LeafIs
<1>3. Written(T, k, m, T1)
  BY <1>0, <1>1 DEF Written
<1>4. T1 \in Trees /\ T1.root = T.root /\ T1.n[k] = m /\ \A j \in TreeKey \ {k}: T1.n[j] = T.n[j]
  BY <1>2, <1>3, NodeIs
<1>5. PICK R: R = AssignChild(T1, y, d, k)
  OBVIOUS
<1>6. ChildAssigned(R, T1, y, d, k)
  BY <1>4, <1>5, AssignChildIs, KeyFacts
<1>7. Child(T1, y, d) = NoKey
  BY <1>4 DEF Child
<1>8. /\ R \in Trees /\ R.root = T1.root /\ \A j \in TreeKey: R.n[j].value = T1.n[j].value /\ R.n[j].red = T1.n[j].red
      /\ \A j \in TreeKey, e \in Dirs: Child(R, j, e) = IF j = y /\ e = d THEN k ELSE Child(T1, j, e)
      /\ \A j \in TreeKey: Parent(R, j) = IF j = k THEN y ELSE Parent(T1, j)
  BY <1>6, <1>7, KeyFacts DEF ChildAssigned, SameData, SameRed
<1>9. /\ \A j \in TreeKey \ {k}: /\ (Red(R, j) <=> Red(T, j)) /\ R.n[j].value = T.n[j].value
                                 /\ Parent(R, j) = Parent(T, j)
                                 /\ \A f \in Dirs: Child(R, j, f) = IF j = y /\ f = d THEN k ELSE Child(T, j, f)
  BY <1>4, <1>8 DEF Red, Child, Parent
<1>10. /\ \A f \in Dirs: Child(R, k, f) = NoKey
       /\ Parent(R, k) = y /\ Red(R, k) /\ R.n[k].value = v
  BY <1>2, <1>4, <1>8, KeyFacts DEF Child, Red
<1> QED
  BY <1>0, <1>4, <1>5, <1>8, <1>9, <1>10 DEF Grafted

LEMMA GraftLinks ==
  ASSUME NEW T, NEW N, NEW sub, Linked(T, N, sub), Ordered(T, N, sub, NoKey), T.root # NoKey,
         NEW k \in TreeKey \ N, NEW y \in N, NEW d \in Dirs, d = Side(k, y),
         Child(T, y, d) = NoKey, Placed(T, N, sub, k, y),
         NEW R, NEW v, Grafted(R, T, k, y, d, v)
  PROVE  Shape(R, N \cup {k})
<1>0. /\ T \in Trees /\ N \subseteq TreeKey /\ NoKey \notin N /\ sub \in [N -> SUBSET N]
      /\ y # k /\ k # NoKey /\ y # NoKey /\ Other(d) \in Dirs /\ Other(d) # d /\ Other(Other(d)) = d
  BY KeyFacts, DirFacts DEF Linked
<1>1. PICK M: M = N \cup {k}
  OBVIOUS
<1>2. PICK sub2: sub2 = [j \in M |-> IF j = k THEN {k} ELSE IF y \in sub[j] THEN sub[j] \cup {k} ELSE sub[j]]
  OBVIOUS
<1>3. /\ sub2 \in [M -> SUBSET M] /\ sub2[k] = {k}
      /\ \A j \in N: sub2[j] = IF y \in sub[j] THEN sub[j] \cup {k} ELSE sub[j]
      /\ \A j \in N: k \notin sub[j]
  BY <1>0, <1>1, <1>2
<1>4. /\ R \in Trees /\ R.root = T.root
      /\ \A f \in Dirs: Child(R, k, f) = NoKey
      /\ Parent(R, k) = y
      /\ \A j \in N: /\ Parent(R, j) = Parent(T, j)
                     /\ \A f \in Dirs: Child(R, j, f) = IF j = y /\ f = d THEN k ELSE Child(T, j, f)
  BY <1>0 DEF Grafted
<1>5. \A j \in N, f \in Dirs: Child(T, j, f) \in N \cup {NoKey} /\ k \notin SubOf(sub, Child(T, j, f))
                              /\ SubOf(sub, Child(T, j, f)) \subseteq N
  BY <1>0, LinkFacts
<1>6. \A c \in N \cup {NoKey}: SubOf(sub2, c) = IF y \in SubOf(sub, c) THEN SubOf(sub, c) \cup {k} ELSE SubOf(sub, c)
  BY <1>0, <1>3 DEF SubOf
<1>7. SubOf(sub2, k) = {k} /\ SubOf(sub2, NoKey) = {} /\ SubOf(sub, NoKey) = {}
  BY <1>0, <1>3 DEF SubOf
<1>8. ASSUME NEW j \in N, NEW f \in Dirs
      PROVE  /\ sub[j] = {j} \cup SubOf(sub, Child(T, j, f)) \cup SubOf(sub, Child(T, j, Other(f)))
             /\ j \notin SubOf(sub, Child(T, j, f)) /\ j \notin SubOf(sub, Child(T, j, Other(f)))
             /\ SubOf(sub, Child(T, j, f)) \cap SubOf(sub, Child(T, j, Other(f))) = {}
  BY DirFacts DEF Linked
<1>9. R.root \in M /\ sub2[R.root] = M
  <2>1. T.root \in N /\ sub[T.root] = N
    BY DEF Linked
  <2> QED
    BY <1>1, <1>3, <1>4, <2>1
<1>10. ASSUME NEW j \in M, NEW f \in Dirs, Child(R, j, f) # NoKey
       PROVE  Child(R, j, f) \in M /\ Parent(R, Child(R, j, f)) = j
  <2>1. j \in N
    BY <1>1, <1>4, <1>10
  <2>2. CASE j = y /\ f = d
    BY <1>1, <1>4, <2>1, <2>2
  <2>3. CASE ~(j = y /\ f = d)
    <3>1. Child(R, j, f) = Child(T, j, f)
      BY <1>4, <2>1, <2>3
    <3>2. Child(T, j, f) \in N /\ Parent(T, Child(T, j, f)) = j
      BY <1>10, <2>1, <3>1 DEF Linked
    <3> QED
      BY <1>1, <1>4, <3>1, <3>2
  <2> QED
    BY <2>2, <2>3
<1>11. ASSUME NEW j \in M
       PROVE  IF j = R.root THEN Parent(R, j) = NoKey
              ELSE Parent(R, j) \in M /\ \E f \in Dirs: Child(R, Parent(R, j), f) = j
  <2>0. T.root \in N
    BY DEF Linked
  <2>1. CASE j = k
    BY <1>0, <1>1, <1>4, <2>0, <2>1
  <2>2. CASE j # k
    <3>1. j \in N /\ Parent(R, j) = Parent(T, j)
      BY <1>1, <1>4, <2>2
    <3>2. CASE j = R.root
      <4>1. Parent(T, j) = NoKey
        BY <1>4, <3>1, <3>2 DEF Linked
      <4> QED
        BY <3>1, <3>2, <4>1
    <3>3. CASE j # R.root
      <4>1. PICK f \in Dirs: Parent(T, j) \in N /\ Child(T, Parent(T, j), f) = j
        BY <1>4, <3>1, <3>3 DEF Linked
      <4>2. Child(R, Parent(T, j), f) = j
        BY <1>0, <1>4, <3>1, <4>1
      <4> QED
        BY <1>1, <3>1, <3>3, <4>1, <4>2
    <3> QED
      BY <3>2, <3>3
  <2> QED
    BY <2>1, <2>2
<1>12. ASSUME NEW j \in M, NEW f \in Dirs
       PROVE  /\ sub2[j] = {j} \cup SubOf(sub2, Child(R, j, f)) \cup SubOf(sub2, Child(R, j, Other(f)))
              /\ j \notin SubOf(sub2, Child(R, j, f))
              /\ SubOf(sub2, Child(R, j, f)) \cap SubOf(sub2, Child(R, j, Other(f))) = {}
  <2>0. Other(f) \in Dirs
    BY DirFacts
  <2>1. CASE j = k
    BY <1>3, <1>4, <1>7, <2>0, <2>1
  <2>2. CASE j = y
    <3>1. PICK c: c = Child(T, y, Other(d))
      OBVIOUS
    <3>2. Child(R, y, d) = k /\ Child(R, y, Other(d)) = c
      BY <1>0, <1>4, <3>1
    <3>3. sub[y] = {y} \cup SubOf(sub, c) /\ y \notin SubOf(sub, c) /\ k \notin SubOf(sub, c)
      BY <1>0, <1>5, <1>7, <1>8, <3>1
    <3>4. SubOf(sub2, c) = SubOf(sub, c) /\ sub2[y] = {y} \cup SubOf(sub, c) \cup {k}
      <4>1. c \in N \cup {NoKey}
        BY <1>0, <1>5, <3>1
      <4> QED
        BY <1>3, <1>6, <3>3, <4>1
    <3>5. f = d \/ f = Other(d)
      BY DirFacts
    <3> QED
      BY <1>0, <1>7, <2>2, <3>2, <3>3, <3>4, <3>5
  <2>3. CASE j \notin {k, y}
    <3>1. j \in N /\ Child(R, j, f) = Child(T, j, f) /\ Child(R, j, Other(f)) = Child(T, j, Other(f))
      BY <1>1, <1>4, <2>0, <2>3
    <3>2. PICK a, b: a = Child(T, j, f) /\ b = Child(T, j, Other(f))
      OBVIOUS
    <3>3. /\ a \in N \cup {NoKey} /\ b \in N \cup {NoKey} /\ k \notin SubOf(sub, a) /\ k \notin SubOf(sub, b)
          /\ sub[j] = {j} \cup SubOf(sub, a) \cup SubOf(sub, b)
          /\ j \notin SubOf(sub, a) /\ SubOf(sub, a) \cap SubOf(sub, b) = {}
      BY <1>5, <1>8, <2>0, <3>1, <3>2
    <3>4. /\ SubOf(sub2, a) = IF y \in SubOf(sub, a) THEN SubOf(sub, a) \cup {k} ELSE SubOf(sub, a)
          /\ SubOf(sub2, b) = IF y \in SubOf(sub, b) THEN SubOf(sub, b) \cup {k} ELSE SubOf(sub, b)
          /\ sub2[j] = IF y \in sub[j] THEN sub[j] \cup {k} ELSE sub[j]
      BY <1>3, <1>6, <3>1, <3>3
    <3>5. CASE y \in SubOf(sub, a)
      BY <2>3, <3>1, <3>2, <3>3, <3>4, <3>5
    <3>6. CASE y \in SubOf(sub, b)
      BY <2>3, <3>1, <3>2, <3>3, <3>4, <3>6
    <3>7. CASE y \notin SubOf(sub, a) /\ y \notin SubOf(sub, b)
      BY <2>3, <3>1, <3>2, <3>3, <3>4, <3>7
    <3> QED
      BY <3>5, <3>6, <3>7
  <2> QED
    BY <2>1, <2>2, <2>3
<1>13. Linked(R, M, sub2)
  <2>1. M \subseteq TreeKey /\ R.root # NoKey
    BY <1>0, <1>1, <1>4
  <2> QED
    BY <1>3, <1>4, <1>9, <1>10, <1>11, <1>12, <2>1 DEF Linked
<1>14. Ordered(R, M, sub2, NoKey)
  <2>0. \A j \in N, f \in Dirs: \A z \in SubOf(sub, Child(T, j, f)): Before(f, z, j)
    BY <1>0, <1>5 DEF Ordered
  <2>1. SUFFICES ASSUME NEW j \in M, NEW f \in Dirs, NEW z \in SubOf(sub2, Child(R, j, f)) PROVE Before(f, z, j)
    BY DEF Ordered
  <2>2. j \in N
    BY <1>1, <1>4, <1>7, <2>1
  <2>3. CASE j = y /\ f = d
    <3>1. z = k
      BY <1>4, <1>7, <2>1, <2>2, <2>3
    <3> QED
      BY <1>0, <2>3, <3>1, BeforeFacts
  <2>4. CASE ~(j = y /\ f = d)
    <3>1. Child(R, j, f) = Child(T, j, f) /\ Child(T, j, f) \in N \cup {NoKey}
      BY <1>4, <1>5, <2>2, <2>4
    <3>2. z \in SubOf(sub, Child(T, j, f)) \/ (z = k /\ y \in SubOf(sub, Child(T, j, f)))
      BY <1>6, <2>1, <3>1
    <3> QED
      BY <2>0, <2>2, <3>2 DEF Placed
  <2> QED
    BY <2>3, <2>4
<1> QED
  BY <1>1, <1>13, <1>14 DEF Shape

LEMMA GraftReady ==
  ASSUME NEW T, NEW N, RbTree(T, N), NEW k \in TreeKey \ N, NEW y \in N, NEW d \in Dirs,
         Child(T, y, d) = NoKey, NEW R, NEW v, Grafted(R, T, k, y, d, v), Shape(R, N \cup {k})
  PROVE  RedReady(R, N \cup {k}, d, y, k)
<1>0. /\ T \in Trees /\ N \in SUBSET TreeKey /\ NoKey \notin N /\ y # NoKey /\ k # NoKey /\ y # k /\ NoKey \in Keys0
      /\ \A j \in N, f \in Dirs: Child(T, j, f) \in N \cup {NoKey}
      /\ R \in Trees /\ N \subseteq Keys0 /\ Other(d) # d /\ Other(d) \in Dirs
  BY ShapeFacts, KeyFacts, DirFacts DEF RbTree, Grafted
<1>1. PICK M: M = N \cup {k}
  OBVIOUS
<1>2. /\ \A f \in Dirs: Child(R, k, f) = NoKey
      /\ Parent(R, k) = y /\ Red(R, k)
      /\ \A j \in N: /\ (Red(R, j) <=> Red(T, j))
                     /\ \A f \in Dirs: Child(R, j, f) = IF j = y /\ f = d THEN k ELSE Child(T, j, f)
  BY <1>0 DEF Grafted
<1>3. Child(R, y, d) = k
  BY <1>2
<1>5. ~Red(R, NoKey) /\ ~Red(T, NoKey)
  BY <1>0, RedIs
<1>4. \A c \in N \cup {NoKey}: Red(R, c) <=> Red(T, c)
  BY <1>2, <1>5
<1>6. Even(R, M, NoKey, Left)
  <2>1. PICK bh: Balanced(T, N, bh, NoKey, Left)
    BY DEF RbTree, Even
  <2>2. /\ bh \in [N -> Nat]
        /\ \A j \in N, f \in Dirs: bh[j] = BhOf(bh, Child(T, j, f)) + Lack(j, f, NoKey, Left) + Black(T, j)
    BY <2>1 DEF Balanced
  <2>3. PICK bg: bg = [j \in M |-> IF j = k THEN 0 ELSE bh[j]]
    OBVIOUS
  <2>4. bg \in [M -> Nat] /\ bg[k] = 0 /\ \A j \in N: bg[j] = bh[j]
    BY <1>1, <2>2, <2>3
  <2>5. \A c \in N \cup {NoKey}: BhOf(bg, c) = BhOf(bh, c)
    BY <1>0, <2>4 DEF BhOf
  <2>6. BhOf(bg, k) = 0 /\ BhOf(bh, NoKey) = 0 /\ BhOf(bg, NoKey) = 0
    BY <1>0, <2>4 DEF BhOf
  <2>7. Black(R, k) = 0 /\ \A j \in N: Black(R, j) = Black(T, j)
    <3>1. \A j \in M: Black(R, j) = IF Red(R, j) THEN 0 ELSE 1
      BY <1>0, <1>1, RedIs
    <3>2. \A j \in N: Black(T, j) = IF Red(T, j) THEN 0 ELSE 1
      BY <1>0, RedIs
    <3> QED
      BY <1>1, <1>2, <3>1, <3>2
  <2>8. ASSUME NEW j \in M, NEW f \in Dirs
        PROVE  bg[j] = BhOf(bg, Child(R, j, f)) + Lack(j, f, NoKey, Left) + Black(R, j)
    <3>1. CASE j = k
      <4>1. Lack(k, f, NoKey, Left) = 0
        BY <1>0 DEF Lack
      <4> QED
        BY <1>2, <2>4, <2>6, <2>7, <3>1, <4>1
    <3>2. CASE j # k
      <4>1. j \in N /\ BhOf(bg, Child(R, j, f)) = BhOf(bh, Child(T, j, f))
        <5>1. j \in N
          BY <1>1, <3>2
        <5>2. CASE j = y /\ f = d
          BY <1>2, <2>6, <5>1, <5>2
        <5>3. CASE ~(j = y /\ f = d)
          BY <1>0, <1>2, <2>5, <5>1, <5>3
        <5> QED
          BY <5>1, <5>2, <5>3
      <4> QED
        BY <2>2, <2>4, <2>7, <4>1
    <3> QED
      BY <3>1, <3>2
  <2> QED
    BY <2>4, <2>8 DEF Even, Balanced
<1>7. \A j \in N, f \in Dirs: Red(T, j) => ~Red(T, Child(T, j, f))
  BY ViolationIs DEF RbTree, Calm
<1>8. Calm(R, M, {y})
  <2>1. SUFFICES ASSUME NEW j \in M \ {y}, Red(R, j), NEW f \in Dirs, Red(R, Child(R, j, f)) PROVE FALSE
    BY ViolationIs DEF Calm
  <2>2. j # k
    BY <1>2, <1>5, <2>1
  <2>3. j \in N /\ Child(R, j, f) = Child(T, j, f)
    BY <1>1, <1>2, <2>1, <2>2
  <2> QED
    BY <1>0, <1>4, <1>7, <2>1, <2>3
<1>9. OneRed(R, M)
  <2>1. SUFFICES ASSUME NEW j \in M, Red(R, j) PROVE \E f \in Dirs: ~Red(R, Child(R, j, f))
    BY DEF OneRed
  <2>2. CASE j = k
    BY <1>2, <1>5, <2>2
  <2>3. CASE j # k
    <3>1. j \in N /\ Child(R, j, Other(d)) = Child(T, j, Other(d)) /\ Child(T, j, Other(d)) \in N \cup {NoKey}
      BY <1>0, <1>1, <1>2, <2>3
    <3> QED
      BY <1>0, <1>4, <1>7, <2>1, <3>1
  <2> QED
    BY <2>2, <2>3
<1> QED
  BY <1>0, <1>1, <1>2, <1>3, <1>6, <1>8, <1>9 DEF RedReady

LEMMA AlikeRb ==
  ASSUME NEW T, NEW R, Alike(R, T), SameReds(R, T), NEW N, Shape(T, N)
  PROVE  /\ Shape(R, N)
         /\ \A p0, d0: Even(T, N, p0, d0) => Even(R, N, p0, d0)
         /\ \A X: Calm(T, N, X) => Calm(R, N, X)
         /\ OneRed(T, N) => OneRed(R, N)
         /\ RbTree(T, N) => RbTree(R, N)
         /\ \A d, g, p: RedReady(T, N, d, g, p) => RedReady(R, N, d, g, p)
<1>1. /\ T \in Trees /\ R \in Trees /\ N \in SUBSET TreeKey /\ N \subseteq Keys0 /\ NoKey \notin N
      /\ \A k \in N, f \in Dirs: Child(T, k, f) \in Keys0
  BY ShapeFacts, KeyFacts DEF Alike
<1>2. Shape(R, N)
  BY AlikeShape
<1>3. \A k \in N: Red(R, k) <=> Red(T, k)
  BY <1>1 DEF SameReds
<1>4. ASSUME NEW p0, NEW d0, Even(T, N, p0, d0) PROVE Even(R, N, p0, d0)
  BY <1>1, <1>3, <1>4, AlikeBalanced DEF Even
<1>5. \A k \in N, f \in Dirs: /\ Child(R, k, f) = Child(T, k, f)
                              /\ Red(R, Child(R, k, f)) <=> Red(T, Child(T, k, f))
  BY <1>1 DEF Alike, SameChildren, SameReds
<1>6. ASSUME NEW X, Calm(T, N, X) PROVE Calm(R, N, X)
  BY <1>3, <1>5, <1>6, ViolationIs DEF Calm
<1>7. ASSUME OneRed(T, N) PROVE OneRed(R, N)
  BY <1>3, <1>5, <1>7 DEF OneRed
<1>8. RbTree(T, N) => RbTree(R, N)
  BY <1>2, <1>4, <1>6 DEF RbTree
<1>9. ASSUME NEW d, NEW g, NEW p, RedReady(T, N, d, g, p) PROVE RedReady(R, N, d, g, p)
  <2>1. /\ Even(T, N, NoKey, Left) /\ OneRed(T, N)
        /\ d \in Dirs /\ p \in N /\ g = Parent(T, p) /\ (g # NoKey => Child(T, g, d) = p)
        /\ \E w \in {g, p}: Calm(T, N, {w})
    BY <1>9 DEF RedReady
  <2>2. Parent(R, p) = g
    BY <1>1, <2>1 DEF Alike, SameParents
  <2>3. g # NoKey => Child(R, g, d) = p
    BY <1>1, <1>5, <2>1, ShapeFacts
  <2>4. \E w \in {g, p}: Calm(R, N, {w})
    BY <1>6, <2>1
  <2> QED
    BY <1>2, <1>4, <1>7, <2>1, <2>2, <2>3, <2>4 DEF RedReady
<1> QED
  BY <1>2, <1>4, <1>6, <1>7, <1>8, <1>9

\* The first node is the root.
First(T, k, v) == [Paint([T EXCEPT !.n[k] = Leaf(v)], k, FALSE) EXCEPT !.root = k]

Planted(R, T, k, v) ==
  /\ RbTree(R, {k}) /\ R.n[k].value = v
  /\ \A j \in TreeKey \ {k}: /\ R.n[j].value = T.n[j].value
                             /\ \A f \in Dirs: Child(R, j, f) = Child(T, j, f)

LEMMA FirstIs ==
  ASSUME NEW T \in Trees, T.root = NoKey, NEW k \in TreeKey, NEW v \in Int,
         NEW R, R = First(T, k, v)
  PROVE  Planted(R, T, k, v)
<1>0. PICK T1: T1 = [T EXCEPT !.n[k] = Leaf(v)]
  OBVIOUS
<1>1. PICK m: m = Leaf(v)
  OBVIOUS
<1>2. /\ m \in Nodes /\ m.value = v /\ m.parent = NoKey /\ \A f \in Dirs: m.child[f] = NoKey
  BY <1>1, LeafIs
<1>3. Written(T, k, m, T1)
  BY <1>0, <1>1 DEF Written
<1>4. T1 \in Trees /\ T1.root = T.root /\ T1.n[k] = m /\ \A j \in TreeKey \ {k}: T1.n[j] = T.n[j]
  BY <1>2, <1>3, NodeIs
<1>5. PICK T2: T2 = Paint(T1, k, FALSE)
  OBVIOUS
<1>6. Painted(T2, T1, k, FALSE)
  BY <1>4, <1>5, PaintIs
<1>7. Rooted(R, T2, k)
  <2>1. R = [T2 EXCEPT !.root = k]
    BY <1>0, <1>5 DEF First
  <2> QED
    BY <1>6, <2>1, SetRootIs, KeyFacts DEF Painted
<1>8. /\ R \in Trees /\ R.root = k /\ R.n[k].red = FALSE
      /\ \A j \in TreeKey: R.n[j].value = T1.n[j].value /\ Parent(R, j) = Parent(T1, j)
      /\ \A j \in TreeKey, f \in Dirs: Child(R, j, f) = Child(T1, j, f)
  BY <1>6, <1>7 DEF Rooted, Painted, SameData, SameRed, SameParents, SameChildren
<1>9. /\ R.n[k].value = v /\ Parent(R, k) = NoKey /\ \A f \in Dirs: Child(R, k, f) = NoKey
      /\ \A j \in TreeKey \ {k}: /\ R.n[j].value = T.n[j].value
                                 /\ \A f \in Dirs: Child(R, j, f) = Child(T, j, f)
  <2>1. Parent(T1, k) = NoKey /\ \A f \in Dirs: Child(T1, k, f) = NoKey
    BY <1>2, <1>4 DEF Parent, Child
  <2>2. \A j \in TreeKey \ {k}, f \in Dirs: Child(T1, j, f) = Child(T, j, f)
    BY <1>4 DEF Child
  <2>3. T1.n[k].value = v /\ \A j \in TreeKey \ {k}: T1.n[j].value = T.n[j].value
    BY <1>2, <1>4
  <2> QED
    BY <1>8, <2>1, <2>2, <2>3
<1>10. k # NoKey /\ \A f \in Dirs: Other(f) \in Dirs
  BY KeyFacts, DirFacts
<1>11. Shape(R, {k})
  <2>1. PICK sub: sub = [j \in {k} |-> {k}]
    OBVIOUS
  <2>2. sub \in [{k} -> SUBSET {k}] /\ sub[k] = {k} /\ SubOf(sub, NoKey) = {}
    BY <2>1 DEF SubOf
  <2>3. Linked(R, {k}, sub)
    BY <1>8, <1>9, <1>10, <2>2 DEF Linked
  <2>4. Ordered(R, {k}, sub, NoKey)
    BY <1>9, <2>2 DEF Ordered
  <2> QED
    BY <2>3, <2>4 DEF Shape
<1>12. Even(R, {k}, NoKey, Left)
  <2>1. PICK bh: bh = [j \in {k} |-> 1]
    OBVIOUS
  <2>2. bh \in [{k} -> Nat] /\ bh[k] = 1 /\ BhOf(bh, NoKey) = 0 /\ Black(R, k) = 1
    BY <1>8, <2>1 DEF BhOf, Black
  <2>3. \A f \in Dirs: Lack(k, f, NoKey, Left) = 0
    BY <1>10 DEF Lack
  <2>4. ASSUME NEW f \in Dirs
        PROVE  bh[k] = BhOf(bh, Child(R, k, f)) + Lack(k, f, NoKey, Left) + Black(R, k)
    <3>1. PICK a, b, c: a = BhOf(bh, Child(R, k, f)) /\ b = Lack(k, f, NoKey, Left) /\ c = Black(R, k)
      OBVIOUS
    <3>2. a = 0 /\ b = 0 /\ c = 1
      BY <1>9, <2>2, <2>3, <3>1
    <3> QED
      BY <2>2, <3>1, <3>2
  <2>5. Balanced(R, {k}, bh, NoKey, Left)
    BY <2>2, <2>4 DEF Balanced
  <2> QED
    BY <2>5 DEF Even
<1>13. Calm(R, {k}, {})
  BY <1>8 DEF Calm, RedViolation, Red
<1> QED
  BY <1>9, <1>11, <1>12, <1>13 DEF RbTree, Planted

ValueSet(R, T, x, v) ==
  /\ R \in Trees /\ R.root = T.root
  /\ SameChildren(R, T) /\ SameParents(R, T) /\ SameRed(R, T)
  /\ \A k \in TreeKey: R.n[k].value = IF k = x THEN v ELSE T.n[k].value

LEMMA SetValueIs ==
  ASSUME NEW T \in Trees, NEW x \in TreeKey, NEW v \in Int
  PROVE  ValueSet([T EXCEPT !.n[x].value = v], T, x, v)
<1>0. PICK R: R = [T EXCEPT !.n[x].value = v]
  OBVIOUS
<1>1. PICK m: m = [T.n[x] EXCEPT !.value = v]
  OBVIOUS
<1>2. T.n[x] \in Nodes
  BY DEF Trees
<1>3. /\ m \in Nodes /\ m.red = T.n[x].red /\ m.value = v
      /\ m.parent = T.n[x].parent /\ m.child = T.n[x].child
  BY <1>1, <1>2 DEF Nodes
<1>4. Written(T, x, m, R)
  BY <1>0, <1>1 DEF Written
<1>5. R \in Trees /\ R.root = T.root /\ R.n[x] = m /\ \A j \in TreeKey \ {x}: R.n[j] = T.n[j]
  BY <1>3, <1>4, NodeIs
<1>6. ValueSet(R, T, x, v)
  BY <1>3, <1>5 DEF ValueSet, SameChildren, SameParents, SameRed, Child, Parent
<1> QED
  BY <1>0, <1>6

\* What a tree of the nodes N with other values has in common with it.
LEMMA ValueSetRb ==
  ASSUME NEW T, NEW N, RbTree(T, N), Clean(T, N), NEW R, NEW x, NEW v, ValueSet(R, T, x, v)
  PROVE  RbTree(R, N) /\ Clean(R, N)
<1>1. T \in Trees /\ R \in Trees /\ N \in SUBSET TreeKey /\ \A k \in N, f \in Dirs: Child(T, k, f) \in Keys0
  BY ShapeFacts, KeyFacts DEF RbTree, ValueSet
<1>2. Shape(R, N) /\ Clean(R, N)
  <2>1. PICK sub: Linked(T, N, sub) /\ Ordered(T, N, sub, NoKey)
    BY DEF RbTree, Shape
  <2> QED
    BY <1>1, <2>1, SameLinks DEF ValueSet, Shape
<1>3. \A k \in Keys0: Red(R, k) <=> Red(T, k)
  BY KeyFacts DEF ValueSet, SameRed, Red
<1>4. \A k \in N, f \in Dirs: Child(R, k, f) = Child(T, k, f)
  BY <1>1 DEF ValueSet, SameChildren
<1>5. Even(R, N, NoKey, Left)
  <2>1. PICK bh: Balanced(T, N, bh, NoKey, Left)
    BY DEF RbTree, Even
  <2>2. \A k \in N: Black(R, k) = Black(T, k)
    BY <1>1 DEF ValueSet, SameRed, Black
  <2>3. Balanced(R, N, bh, NoKey, Left)
    BY <1>4, <2>1, <2>2 DEF Balanced
  <2> QED
    BY <2>3 DEF Even
<1>6. Calm(R, N, {})
  <2>1. SUFFICES ASSUME NEW k \in N, Red(R, k), NEW f \in Dirs, Red(R, Child(R, k, f)) PROVE FALSE
    BY ViolationIs DEF Calm
  <2>2. Red(T, k) /\ Red(T, Child(T, k, f)) /\ k \in Keys0
    BY <1>1, <1>3, <1>4, <2>1, KeyFacts
  <2> QED
    BY <2>1, <2>2, ViolationIs DEF RbTree, Calm
<1> QED
  BY <1>2, <1>5, <1>6 DEF RbTree

LEMMA FindNothing ==
  ASSUME NEW T, NEW k
  PROVE  Find(T, NoKey, k) = NoKey
<1> DEFINE step == [y \in Keys0 |-> IF y \in {NoKey, k} \/ Child(T, y, Side(k, y)) = NoKey THEN y
                                    ELSE Child(T, y, Side(k, y))]
<1>1. \A t \in {NoKey}: step[t] \in {NoKey}
  BY KeyFacts
<1>2. Find(T, NoKey, k) = Loop(step, NoKey)
  BY DEF Find
<1> HIDE DEF step
<1>3. Loop(step, NoKey) \in {NoKey}
  BY <1>1, LoopKeeps
<1> QED
  BY <1>2, <1>3

-----------------------------------------------------------------------------
(* insert_aux: the tree R is T with k, whose value is v unless it was there and stays. *)

Inserted(R, T, N, k, v, replace) ==
  /\ RbTree(R, N \cup {k}) /\ Clean(R, N \cup {k}) /\ R \in Trees
  /\ \A j \in TreeKey \ {k}: R.n[j].value = T.n[j].value
  /\ R.n[k].value = IF k \in N /\ ~replace THEN T.n[k].value ELSE v

LEMMA InsertFound ==
  ASSUME NEW T, NEW N, RbTree(T, N), Clean(T, N), NEW k \in N, NEW v \in Int, NEW replace \in BOOLEAN,
         NEW R, R = RecalcUp(IF replace THEN [T EXCEPT !.n[k].value = v] ELSE T, k)
  PROVE  Inserted(R, T, N, k, v, replace)
<1>0. T \in Trees /\ N \in SUBSET TreeKey /\ k \in TreeKey /\ k \in Keys0
  BY ShapeFacts, KeyFacts DEF RbTree
<1>1. PICK A: A = IF replace THEN [T EXCEPT !.n[k].value = v] ELSE T
  OBVIOUS
<1>2. /\ A \in Trees /\ RbTree(A, N) /\ Clean(A, N)
      /\ \A j \in TreeKey: A.n[j].value = IF j = k /\ replace THEN v ELSE T.n[j].value
  <2>1. CASE replace
    <3>0. A = [T EXCEPT !.n[k].value = v]
      BY <1>1, <2>1, Zenon
    <3>1. ValueSet(A, T, k, v)
      BY <1>0, <3>0, SetValueIs, Zenon
    <3>2. RbTree(A, N) /\ Clean(A, N)
      BY <3>1, ValueSetRb
    <3> QED
      BY <2>1, <3>1, <3>2 DEF ValueSet
  <2>2. CASE ~replace
    BY <1>0, <1>1, <2>2
  <2> QED
    BY <2>1, <2>2
<1>3. Alike(R, A) /\ SameReds(R, A)
  BY <1>0, <1>1, <1>2, RecalcUpIs
<1>4. RbTree(R, N)
  BY <1>2, <1>3, AlikeRb DEF RbTree
<1>5. Clean(R, N)
  BY <1>2, <1>3 DEF Clean, Alike, SameChildren
<1>6. N \cup {k} = N
  OBVIOUS
<1>7. \A j \in TreeKey: R.n[j].value = IF j = k /\ replace THEN v ELSE T.n[j].value
  BY <1>2, <1>3 DEF Alike, SameValues
<1> QED
  BY <1>0, <1>3, <1>4, <1>5, <1>6, <1>7 DEF Inserted, Alike

LEMMA InsertNodeIs ==
  ASSUME NEW T, NEW N, RbTree(T, N), Clean(T, N), NEW k \in TreeKey, NEW v \in Int, NEW replace \in BOOLEAN
  PROVE  Inserted(InsertNode(T, k, v, replace), T, N, k, v, replace)
<1>0. PICK R, y: R = InsertNode(T, k, v, replace) /\ y = Find(T, T.root, k)
  OBVIOUS
<1>1. T \in Trees /\ N \in SUBSET TreeKey /\ NoKey \notin N /\ (T.root = NoKey => N = {})
  BY ShapeFacts DEF RbTree
<1>2. PICK T1: T1 = [T EXCEPT !.n[k] = Leaf(v)]
  OBVIOUS
<1>3. R = IF y = NoKey THEN [Paint(T1, k, FALSE) EXCEPT !.root = k]
          ELSE IF y = k THEN RecalcUp(IF replace THEN [T EXCEPT !.n[k].value = v] ELSE T, k)
          ELSE FixRed(RecalcUp(AssignChild(T1, y, Side(k, y), k), y), Side(k, y), y, k)
  BY <1>0, <1>2 DEF InsertNode, Leaf
<1>4. CASE T.root = NoKey
  <2>1. y = NoKey
    BY <1>0, <1>4, FindNothing
  <2>2. R = First(T, k, v)
    BY <1>2, <1>3, <2>1 DEF First
  <2>3. /\ RbTree(R, {k}) /\ R.n[k].value = v
        /\ \A j \in TreeKey \ {k}: /\ R.n[j].value = T.n[j].value
                                   /\ \A f \in Dirs: Child(R, j, f) = Child(T, j, f)
    <3>1. Planted(R, T, k, v)
      BY <1>1, <1>4, <2>2, FirstIs
    <3> QED
      BY <3>1 DEF Planted
  <2>4. N = {} /\ N \cup {k} = {k} /\ R \in Trees
    BY <1>1, <1>4, <2>3, ShapeFacts DEF RbTree
  <2>5. Clean(R, {k})
    BY <2>3, <2>4 DEF Clean
  <2>6. Inserted(R, T, N, k, v, replace)
    BY <2>3, <2>4, <2>5 DEF Inserted
  <2> QED
    BY <1>0, <2>6
<1>5. CASE T.root # NoKey
  <2>1. PICK sub: Linked(T, N, sub) /\ Ordered(T, N, sub, NoKey)
    BY DEF RbTree, Shape
  <2>2. /\ y \in N /\ (k \in N => y = k)
        /\ k \notin N => y # k /\ Child(T, y, Side(k, y)) = NoKey /\ Placed(T, N, sub, k, y)
    BY <1>0, <1>5, <2>1, FindIs
  <2>3. CASE y = k
    <3>1. R = RecalcUp(IF replace THEN [T EXCEPT !.n[k].value = v] ELSE T, k)
      BY <1>1, <1>3, <2>2, <2>3
    <3> QED
      BY <1>0, <2>2, <2>3, <3>1, InsertFound
  <2>4. CASE y # k
    <3>1. PICK d: d = Side(k, y)
      OBVIOUS
    <3>2. d \in Dirs /\ k \notin N /\ y \in TreeKey /\ Child(T, y, d) = NoKey /\ y \in Keys0
      BY <1>1, <2>2, <2>4, <3>1, KeyFacts DEF Side
    <3>3. PICK A: A = AssignChild([T EXCEPT !.n[k] = Leaf(v)], y, d, k)
      OBVIOUS
    <3>4. Grafted(A, T, k, y, d, v)
      BY <1>1, <2>4, <3>2, <3>3, GraftIs
    <3>5. PICK M: M = N \cup {k}
      OBVIOUS
    <3>6. Shape(A, M)
      BY <1>5, <2>1, <2>2, <3>1, <3>2, <3>4, <3>5, GraftLinks
    <3>7. RedReady(A, M, d, y, k)
      BY <2>2, <3>2, <3>4, <3>5, <3>6, GraftReady
    <3>8. PICK B: B = RecalcUp(A, y)
      OBVIOUS
    <3>9. Alike(B, A) /\ SameReds(B, A)
      BY <3>2, <3>4, <3>8, RecalcUpIs DEF Grafted
    <3>10. RedReady(B, M, d, y, k)
      BY <3>6, <3>7, <3>9, AlikeRb
    <3>11. R = FixRed(B, d, y, k)
      BY <1>1, <1>2, <1>3, <2>2, <2>4, <3>1, <3>3, <3>8
    <3>12. RbTree(R, M) /\ Kept(R, B, M)
      BY <3>10, <3>11, FixRedIs
    <3>13. /\ R \in Trees /\ R.n[k].value = v
           /\ \A j \in TreeKey \ {k}: R.n[j].value = T.n[j].value
      BY <3>4, <3>9, <3>12 DEF Kept, Alike, SameValues, Grafted
    <3>14. Clean(R, M)
      <4>1. SUFFICES ASSUME NEW j \in TreeKey \ M, NEW f \in Dirs PROVE Child(R, j, f) = NoKey
        BY DEF Clean
      <4>2. Child(R, j, f) = Child(A, j, f)
        BY <3>9, <3>12 DEF Kept, Alike, SameChildren
      <4>3. j # k /\ j # y /\ j \notin N
        BY <2>2, <3>5
      <4>4. Child(A, j, f) = Child(T, j, f)
        BY <3>4, <4>3 DEF Grafted
      <4> QED
        BY <4>2, <4>3, <4>4 DEF Clean
    <3>15. Inserted(R, T, N, k, v, replace)
      BY <3>2, <3>5, <3>12, <3>13, <3>14 DEF Inserted
    <3> QED
      BY <1>0, <3>15
  <2> QED
    BY <2>3, <2>4
<1> QED
  BY <1>4, <1>5

-----------------------------------------------------------------------------
(* Rebalancing after a removal: paths through the child of p on side d lack a black  *)
(* node, and are given one.                                                          *)

LEMMA SiblingIs ==
  ASSUME NEW T, NEW N, Shape(T, N), NEW p \in N, NEW d \in Dirs, NEW bh, Balanced(T, N, bh, p, d)
  PROVE  /\ Child(T, p, Other(d)) \in N
         /\ bh[Child(T, p, Other(d))] = BhOf(bh, Child(T, p, d)) + 1
<1>1. PICK s, x: s = Child(T, p, Other(d)) /\ x = Child(T, p, d)
  OBVIOUS
<1>2. s \in N \cup {NoKey} /\ x \in N \cup {NoKey} /\ NoKey \notin N /\ T \in Trees /\ p \in TreeKey
  BY <1>1, ShapeFacts, DirFacts
<1>3. /\ bh \in [N -> Nat]
      /\ \A k \in N, f \in Dirs: bh[k] = BhOf(bh, Child(T, k, f)) + Lack(k, f, p, d) + Black(T, k)
  BY DEF Balanced
<1>4. PICK a, b, c: a = BhOf(bh, s) /\ b = BhOf(bh, x) /\ c = Black(T, p)
  OBVIOUS
<1>5. Lack(p, d, p, d) = 1 /\ Lack(p, Other(d), p, d) = 0
  BY DirFacts DEF Lack
<1>6. a \in Nat /\ b \in Nat /\ c \in Nat
  <2>1. a \in Nat /\ b \in Nat
    BY <1>2, <1>3, <1>4, BhFacts
  <2> QED
    BY <1>4, <2>1 DEF Black
<1>7. bh[p] = b + 1 + c
  BY <1>1, <1>3, <1>4, <1>5
<1>8. bh[p] = a + 0 + c
  BY <1>1, <1>3, <1>4, <1>5, DirFacts
<1>9. a = b + 1
  BY <1>6, <1>7, <1>8
<1>10. s # NoKey
  BY <1>4, <1>6, <1>9 DEF BhOf
<1>11. a = bh[s]
  BY <1>4, <1>10 DEF BhOf
<1> QED
  BY <1>1, <1>2, <1>4, <1>9, <1>10, <1>11

\* What the loop of remove_black_leaf keeps: the child x of p on side d is black, and
\* paths through it lack a black node.
BlackReady(T, N, x, p, d) ==
  /\ Shape(T, N) /\ Calm(T, N, {}) /\ Even(T, N, p, d)
  /\ d \in Dirs /\ p \in N \cup {NoKey} /\ x \in N \cup {NoKey} /\ ~Red(T, x)
  /\ p # NoKey => Child(T, p, d) = x
  /\ x # NoKey => Parent(T, x) = p
  /\ p = NoKey => x = T.root

\* cases 4 to 6: the sibling s of x is black, and p or a child of s is red
RestoreReady(T, N, p, d, s) ==
  /\ Shape(T, N) /\ Calm(T, N, {}) /\ Even(T, N, p, d)
  /\ d \in Dirs /\ p \in N /\ s = Child(T, p, Other(d)) /\ ~Red(T, s) /\ ~Red(T, Child(T, p, d))
  /\ Red(T, p) \/ \E f \in Dirs: Red(T, Child(T, s, f))

\* case 4: p and its black sibling exchange colours
LEMMA RestoreRed ==
  ASSUME NEW T, NEW N, NEW p, NEW d, NEW s, RestoreReady(T, N, p, d, s), Red(T, p),
         \A f \in Dirs: ~Red(T, Child(T, s, f)),
         NEW R, R = Paint(Paint(T, p, FALSE), s, TRUE)
  PROVE  RbTree(R, N) /\ Kept(R, T, N)
<1>1. PICK bh: Balanced(T, N, bh, p, d)
  BY DEF RestoreReady, Even
<1>2. /\ T \in Trees /\ N \in SUBSET TreeKey /\ NoKey \notin N /\ p \in N /\ d \in Dirs /\ N \subseteq Keys0
      /\ \A k \in N, f \in Dirs: Child(T, k, f) \in (N \cup {NoKey}) \ {k}
      /\ s = Child(T, p, Other(d)) /\ s # p /\ Other(d) \in Dirs /\ Other(d) # d
      /\ \A f \in Dirs: f = d \/ f = Other(d)
  BY ShapeFacts, KeyFacts, DirFacts DEF RestoreReady
<1>3. s \in N /\ bh[s] = BhOf(bh, Child(T, p, d)) + 1
  BY <1>1, SiblingIs DEF RestoreReady
<1>4. PICK A: A = Paint(T, p, FALSE)
  OBVIOUS
<1>5. /\ A \in Trees /\ Alike(A, T) /\ ~Red(A, p) /\ \A k \in Keys0 \ {p}: Red(A, k) <=> Red(T, k)
  BY <1>2, <1>4, PaintAlike
<1>6. /\ R \in Trees /\ Alike(R, A) /\ Red(R, s) /\ \A k \in Keys0 \ {s}: Red(R, k) <=> Red(A, k)
  BY <1>2, <1>3, <1>4, <1>5, PaintAlike
<1>7. /\ Alike(R, T) /\ Red(R, s) /\ ~Red(R, p) /\ \A k \in Keys0 \ {p, s}: Red(R, k) <=> Red(T, k)
  BY <1>2, <1>5, <1>6, KeyFacts, AlikeFacts
<1>8. Shape(R, N) /\ Kept(R, T, N)
  BY <1>7, AlikeShape, AlikeFacts DEF RestoreReady
<1>9. \A k \in N, f \in Dirs: Child(R, k, f) = Child(T, k, f)
  BY <1>2, <1>7 DEF Alike, SameChildren
<1>10. Even(R, N, NoKey, Left)
  <2>1. /\ bh \in [N -> Nat]
        /\ \A k \in N, f \in Dirs: bh[k] = BhOf(bh, Child(T, k, f)) + Lack(k, f, p, d) + Black(T, k)
    BY <1>1 DEF Balanced
  <2>2. PICK bg: bg = [bh EXCEPT ![s] = bh[s] - 1]
    OBVIOUS
  <2>3. bg \in [N -> Nat] /\ bg[s] = bh[s] - 1 /\ \A k \in N \ {s}: bg[k] = bh[k]
    <3>1. bh[s] - 1 \in Nat
      <4>1. BhOf(bh, Child(T, p, d)) \in Nat
        BY <1>2, <2>1, BhFacts
      <4> QED
        BY <1>3, <4>1
    <3> QED
      BY <1>3, <2>1, <2>2, <3>1
  <2>4. \A c \in N \cup {NoKey}: c # s => BhOf(bg, c) = BhOf(bh, c)
    BY <2>3 DEF BhOf
  <2>5. BhOf(bg, s) = bh[s] - 1 /\ BhOf(bh, s) = bh[s]
    BY <1>2, <1>3, <2>3 DEF BhOf
  <2>6. /\ Black(R, s) = 0 /\ Black(T, s) = 1 /\ Black(R, p) = 1 /\ Black(T, p) = 0
        /\ \A k \in N \ {p, s}: Black(R, k) = Black(T, k)
    <3>1. \A k \in N: /\ (Red(T, k) => Black(T, k) = 0) /\ (~Red(T, k) => Black(T, k) = 1)
      BY <1>2, RedIs
    <3>2. \A k \in N: /\ (Red(R, k) => Black(R, k) = 0) /\ (~Red(R, k) => Black(R, k) = 1)
      BY <1>2, <1>6, RedIs
    <3> QED
      BY <1>2, <1>3, <1>7, <3>1, <3>2 DEF RestoreReady
  <2>7. \A k \in N, f \in Dirs: Lack(k, f, NoKey, Left) = 0
    BY <1>2 DEF Lack
  <2>8. \A k \in N, f \in Dirs: Lack(k, f, p, d) = IF k = p /\ f = d THEN 1 ELSE 0
    BY DEF Lack
  <2>9. \A k \in N, f \in Dirs: Child(T, k, f) = s => k = p /\ f = Other(d)
    <3>1. \A k, j \in N, f, g \in Dirs:
            Child(T, k, f) = Child(T, j, g) /\ Child(T, k, f) # NoKey => k = j /\ f = g
      BY ShapeFacts DEF RestoreReady
    <3> QED
      BY <1>2, <1>3, <3>1
  <2>10. ASSUME NEW k \in N, NEW f \in Dirs
         PROVE  bg[k] = BhOf(bg, Child(T, k, f)) + Lack(k, f, NoKey, Left) + Black(R, k)
    <3>1. PICK c, w, z, l0, b0, b1, h0, h1: /\ c = Child(T, k, f) /\ w = BhOf(bh, c) /\ z = BhOf(bg, c)
                                            /\ l0 = Lack(k, f, p, d) /\ b0 = Black(T, k) /\ b1 = Black(R, k)
                                            /\ h0 = bh[k] /\ h1 = bg[k]
      OBVIOUS
    <3>2. c \in N \cup {NoKey} /\ w \in Nat /\ h0 \in Nat /\ bh[s] \in Nat
          /\ (c # s => z = w) /\ (c = s => z = bh[s] - 1 /\ w = bh[s])
      BY <1>2, <1>3, <2>1, <2>3, <2>4, <2>5, <3>1, BhFacts
    <3>3. h0 = w + l0 + b0
      BY <2>1, <3>1
    <3>4. h1 = z + b1
      <4>1. CASE k = p /\ f = d
        <5>1. l0 = 1 /\ b0 = 0 /\ c # s /\ h1 = h0 /\ b1 = 1
          BY <1>2, <2>3, <2>6, <2>8, <2>9, <3>1, <4>1
        <5> QED
          BY <3>2, <3>3, <5>1
      <4>2. CASE k = p /\ f = Other(d)
        <5>1. l0 = 0 /\ b0 = 0 /\ c = s /\ h1 = h0 /\ b1 = 1
          BY <1>2, <2>3, <2>6, <2>8, <3>1, <4>2
        <5> QED
          BY <3>2, <3>3, <5>1
      <4>3. CASE k = s
        <5>1. l0 = 0 /\ b0 = 1 /\ c # s /\ h1 = h0 - 1 /\ b1 = 0
          BY <1>2, <1>3, <2>3, <2>6, <2>8, <3>1, <4>3
        <5> QED
          BY <3>2, <3>3, <5>1
      <4>4. CASE k \notin {p, s}
        <5>1. l0 = 0 /\ c # s /\ h1 = h0 /\ b1 = b0 /\ b0 \in Nat
          BY <2>3, <2>6, <2>8, <2>9, <3>1, <4>4 DEF Black
        <5> QED
          BY <3>2, <3>3, <5>1
      <4> QED
        BY <1>2, <4>1, <4>2, <4>3, <4>4
    <3>5. z \in Int /\ b1 \in Nat /\ Lack(k, f, NoKey, Left) = 0
      BY <2>7, <3>1, <3>2 DEF Black
    <3>6. z + b1 = z + 0 + b1
      BY <3>5
    <3> QED
      BY <3>1, <3>4, <3>5, <3>6
  <2>11. Balanced(R, N, bg, NoKey, Left)
    BY <1>9, <2>3, <2>10 DEF Balanced
  <2> QED
    BY <2>11 DEF Even
<1>11. Calm(R, N, {})
  <2>1. SUFFICES ASSUME NEW k \in N, Red(R, k), NEW f \in Dirs, Red(R, Child(R, k, f)) PROVE FALSE
    BY ViolationIs DEF Calm
  <2>2. PICK c: c = Child(T, k, f)
    OBVIOUS
  <2>3. Red(R, c) /\ c \in Keys0 /\ c # k /\ k # p /\ c # p
    <3>1. c = Child(R, k, f) /\ c \in (N \cup {NoKey}) \ {k}
      BY <1>2, <1>9, <2>1, <2>2
    <3> QED
      BY <1>2, <1>7, <2>1, <3>1, KeyFacts
  <2>4. CASE k = s
    BY <1>7, <2>2, <2>3, <2>4
  <2>5. CASE k # s
    <3>1. Red(T, k) /\ k \in Keys0
      BY <1>2, <1>7, <2>1, <2>3, <2>5
    <3>2. CASE c = s
      <4>1. \A j, h \in N, g, e \in Dirs:
              Child(T, j, g) = Child(T, h, e) /\ Child(T, j, g) # NoKey => j = h /\ g = e
        BY ShapeFacts DEF RestoreReady
      <4>2. Child(T, k, f) = Child(T, p, Other(d)) /\ Child(T, k, f) # NoKey
        BY <1>2, <1>3, <2>2, <3>2
      <4>3. k = p
        BY <1>2, <4>1, <4>2
      <4> QED
        BY <2>3, <4>3
    <3>3. CASE c # s
      <4>1. Red(T, c)
        BY <1>7, <2>3, <3>3
      <4> QED
        BY <2>2, <3>1, <4>1, ViolationIs DEF RestoreReady, Calm
    <3> QED
      BY <3>2, <3>3
  <2> QED
    BY <2>4, <2>5
<1> QED
  BY <1>8, <1>10, <1>11 DEF RbTree

\* case 6: the sibling takes the place and the colour of p
LEMMA PromoteIs ==
  ASSUME NEW T, NEW N, NEW p, NEW d, NEW s, RestoreReady(T, N, p, d, s), Red(T, Child(T, s, Other(d))),
         NEW R, R = Promote(T, p, d)
  PROVE  RbTree(R, N) /\ Kept(R, T, N)
<1>1. PICK bh: Balanced(T, N, bh, p, d)
  BY DEF RestoreReady, Even
<1>2. /\ T \in Trees /\ N \in SUBSET TreeKey /\ NoKey \notin N /\ p \in N /\ d \in Dirs /\ N \subseteq Keys0
      /\ \A k \in N, f \in Dirs: Child(T, k, f) \in (N \cup {NoKey}) \ {k}
      /\ s = Child(T, p, Other(d)) /\ s # p /\ Other(d) \in Dirs /\ Other(d) # d
      /\ \A f \in Dirs: f = d \/ f = Other(d)
  BY ShapeFacts, KeyFacts, DirFacts DEF RestoreReady
<1>3. s \in N /\ s # NoKey
  BY <1>1, <1>2, SiblingIs DEF RestoreReady
<1>4. PICK o: o = Child(T, s, Other(d))
  OBVIOUS
<1>5. o \in N /\ o # s /\ o # p /\ o # NoKey /\ Child(T, s, d) # o
  <2>1. ~Red(T, NoKey)
    BY <1>2, RedIs
  <2>2. o \in N /\ o # s /\ o # NoKey
    BY <1>2, <1>3, <1>4, <2>1
  <2>3. o # p
    BY <1>2, <1>3, <1>4, NoCycle DEF RestoreReady
  <2>4. \A j, h \in N, g, e \in Dirs:
          Child(T, j, g) = Child(T, h, e) /\ Child(T, j, g) # NoKey => j = h /\ g = e
    BY ShapeFacts DEF RestoreReady
  <2>5. Child(T, s, d) # o
    BY <1>2, <1>3, <1>4, <2>2, <2>4
  <2> QED
    BY <2>2, <2>3, <2>5
<1>6. PICK A, q, e: A = Rotate(T, d, p) /\ q = Parent(T, p) /\ e = DirOf(T, q, p)
  OBVIOUS
<1>7. /\ Shape(A, N) /\ Kept(A, T, N) /\ A \in Trees
      /\ \A k \in Keys0: Red(A, k) <=> Red(T, k)
      /\ TurnedKids(A, T, N, d, p, s, q, e)
  BY <1>2, <1>3, <1>6, RotateStep DEF RestoreReady
<1>8. PICK c: c = T.n[p].red
  OBVIOUS
<1>9. c \in BOOLEAN /\ (Red(T, p) <=> c)
  <2>1. p \in TreeKey
    BY <1>2
  <2> QED
    BY <1>2, <1>8, <2>1, TreeFacts, KeyFacts DEF Red
<1>10. PICK B, C: B = Paint(A, s, c) /\ C = Paint(B, p, FALSE)
  OBVIOUS
<1>11. R = Paint(C, o, FALSE)
  <2>1. [A EXCEPT !.n[s].red = c, !.n[p].red = FALSE] = C
    BY <1>10 DEF Paint
  <2> QED
    BY <1>2, <1>4, <1>6, <1>8, <2>1 DEF Promote
<1>12. /\ B \in Trees /\ Alike(B, A) /\ (Red(B, s) <=> c) /\ \A k \in Keys0 \ {s}: Red(B, k) <=> Red(A, k)
  BY <1>2, <1>3, <1>7, <1>9, <1>10, PaintAlike
<1>13. /\ C \in Trees /\ Alike(C, B) /\ ~Red(C, p) /\ \A k \in Keys0 \ {p}: Red(C, k) <=> Red(B, k)
  BY <1>2, <1>10, <1>12, PaintAlike
<1>14. /\ R \in Trees /\ Alike(R, C) /\ ~Red(R, o) /\ \A k \in Keys0 \ {o}: Red(R, k) <=> Red(C, k)
  <2>1. o \in TreeKey /\ FALSE \in BOOLEAN
    BY <1>2, <1>5
  <2> QED
    BY ONLY <1>11, <1>13, <2>1, PaintAlike
<1>15. /\ Alike(R, A) /\ ~Red(R, p) /\ ~Red(R, o) /\ (Red(R, s) <=> Red(T, p))
       /\ \A k \in Keys0 \ {p, s, o}: Red(R, k) <=> Red(T, k)
  <2>1. Alike(R, A)
    BY <1>12, <1>13, <1>14, AlikeFacts
  <2>2. p \in Keys0 /\ s \in Keys0 /\ o \in Keys0
    BY <1>2, <1>3, <1>5
  <2>3. ~Red(R, p) /\ ~Red(R, o)
    BY <1>5, <1>13, <1>14, <2>2
  <2>4. Red(R, s) <=> Red(T, p)
    BY <1>2, <1>5, <1>9, <1>12, <1>13, <1>14, <2>2
  <2>5. \A k \in Keys0 \ {p, s, o}: Red(R, k) <=> Red(T, k)
    BY <1>7, <1>12, <1>13, <1>14
  <2> QED
    BY <2>1, <2>3, <2>4, <2>5
<1>16. Shape(R, N) /\ Kept(R, T, N)
  <2>1. Kept(R, A, N) /\ Shape(R, N)
    BY <1>7, <1>15, AlikeShape, AlikeFacts
  <2> QED
    BY <1>7, <2>1, AlikeFacts
<1>17. TurnedKids(R, T, N, d, p, s, q, e)
  <2>1. \A k \in N, f \in Dirs: Child(R, k, f) = Child(A, k, f)
    BY <1>2, <1>15 DEF Alike, SameChildren
  <2> QED
    BY <1>2, <1>3, <1>7, <2>1 DEF TurnedKids
<1>18. \A k \in N \ {p, s, o}: Red(R, k) <=> Red(T, k)
  BY <1>2, <1>15
<1>19. ~Red(T, s) /\ Red(T, o)
  BY <1>4 DEF RestoreReady
<1>20. Even(R, N, NoKey, Left)
  <2>1. \E bg: Balanced(R, N, bg, NoKey, Left)
    BY <1>1, <1>2, <1>3, <1>4, <1>5, <1>14, <1>15, <1>17, <1>18, <1>19, PromoteBalanced
  <2> QED
    BY <2>1 DEF Even
<1>21. \A k \in N \ {p, s, o}: RedViolation(R, k) => RedViolation(T, k)
  <2>1. \A k \in N, f \in Dirs: Child(T, k, f) \in N \cup {NoKey}
    BY <1>2
  <2>2. \E f \in Dirs: o = Child(T, s, f)
    BY <1>2, <1>4
  <2> QED
    <3>1. /\ R \in Trees /\ (Red(R, s) <=> Red(T, p)) /\ T \in Trees /\ N \in SUBSET TreeKey
          /\ d \in Dirs /\ p \in N /\ s \in N
      BY <1>2, <1>3, <1>14, <1>15
    <3>2. o = NoKey \/ \E f \in Dirs: o = Child(T, s, f)
      BY <2>2
    <3> QED
      BY ONLY <3>1, <1>17, <1>18, <2>1, <3>2, SwapRed
<1>22. Calm(R, N, {})
  <2>1. SUFFICES ASSUME NEW k \in N, RedViolation(R, k) PROVE FALSE
    BY DEF Calm
  <2>2. k = s
    BY <1>15, <1>21, <2>1, ViolationIs DEF RestoreReady, Calm
  <2>3. Child(R, s, d) = p /\ Child(R, s, Other(d)) = o
    BY <1>4, <1>17 DEF TurnedKids
  <2> QED
    BY <1>2, <1>15, <2>1, <2>2, <2>3, ViolationIs
<1> QED
  BY <1>16, <1>20, <1>22 DEF RbTree

\* case 5: the near nephew is red; turned above the sibling, it leaves case 6
NearUp(T, s, d) == LET near == Child(T, s, d) IN
  Paint(Paint(Rotate(T, Other(d), s), near, FALSE), s, TRUE)

LEMMA NearIs ==
  ASSUME NEW T, NEW N, NEW p, NEW d, NEW s, RestoreReady(T, N, p, d, s), NEW near, near = Child(T, s, d),
         Red(T, near), ~Red(T, Child(T, s, Other(d))), NEW R, R = NearUp(T, s, d)
  PROVE  RestoreReady(R, N, p, d, near) /\ Red(R, Child(R, near, Other(d))) /\ Kept(R, T, N)
<1>1. PICK bh: Balanced(T, N, bh, p, d)
  BY DEF RestoreReady, Even
<1>2. /\ T \in Trees /\ N \in SUBSET TreeKey /\ NoKey \notin N /\ p \in N /\ d \in Dirs /\ N \subseteq Keys0
      /\ \A k \in N, f \in Dirs: Child(T, k, f) \in (N \cup {NoKey}) \ {k}
      /\ s = Child(T, p, Other(d)) /\ s # p /\ Other(d) \in Dirs /\ Other(d) # d /\ Other(Other(d)) = d
      /\ \A f \in Dirs: f = d \/ f = Other(d)
  BY ShapeFacts, KeyFacts, DirFacts DEF RestoreReady
<1>3. s \in N /\ s # NoKey
  BY <1>1, <1>2, SiblingIs DEF RestoreReady
<1>4. near \in N /\ near # s /\ near # NoKey /\ near # p /\ Parent(T, s) = p /\ near # Child(T, p, d) /\ s # Child(T, p, d)
  <2>1. ~Red(T, NoKey)
    BY <1>2, RedIs
  <2>2. near \in N /\ near # s /\ near # NoKey
    BY <1>2, <1>3, <2>1
  <2>3. near # p
    BY <1>2, <1>3, <2>2, NoCycle DEF RestoreReady
  <2>4. Parent(T, s) = p
    BY <1>2, <1>3, ShapeFacts DEF RestoreReady
  <2>5. near # Child(T, p, d)
    BY <2>1 DEF RestoreReady
  <2>6. Parent(T, near) = s
    BY <1>2, <1>3, <2>2, ShapeFacts DEF RestoreReady
  <2>7. s # Child(T, p, d)
    <3>1. Child(T, p, Other(d)) # Child(T, p, Other(Other(d)))
      BY <1>2, <1>3, ShapeFacts DEF RestoreReady
    <3> QED
      BY <1>2, <3>1
  <2> QED
    BY <2>2, <2>3, <2>4, <2>5, <2>7
<1>5. PICK A, e: A = Rotate(T, Other(d), s) /\ e = DirOf(T, p, s)
  OBVIOUS
<1>6. /\ Shape(A, N) /\ Kept(A, T, N) /\ A \in Trees
      /\ \A k \in Keys0: Red(A, k) <=> Red(T, k)
      /\ TurnedKids(A, T, N, Other(d), s, near, p, e)
  <2>1. near = Child(T, s, Other(Other(d))) /\ p = Parent(T, s)
    BY <1>2, <1>4
  <2> QED
    BY <1>2, <1>3, <1>4, <1>5, <2>1, RotateStep DEF RestoreReady
<1>7. e = Other(d)
  <2>1. Child(T, p, e) = s /\ e \in Dirs
    BY <1>2, <1>3, <1>4, <1>5, ShapeFacts DEF RestoreReady
  <2> QED
    BY <1>2, <1>4, <2>1
<1>8. PICK B: B = Paint(A, near, FALSE)
  OBVIOUS
<1>9. B \in Trees /\ Alike(B, A) /\ ~Red(B, near) /\ \A k \in Keys0 \ {near}: Red(B, k) <=> Red(A, k)
  <2>1. near \in TreeKey /\ FALSE \in BOOLEAN
    BY <1>2, <1>4
  <2> QED
    BY ONLY <1>6, <1>8, <2>1, PaintAlike
<1>10. R = Paint(B, s, TRUE)
  BY <1>5, <1>8 DEF NearUp
<1>11. R \in Trees /\ Alike(R, B) /\ Red(R, s) /\ \A k \in Keys0 \ {s}: Red(R, k) <=> Red(B, k)
  <2>1. s \in TreeKey /\ TRUE \in BOOLEAN
    BY <1>2, <1>3
  <2> QED
    BY ONLY <1>9, <1>10, <2>1, PaintAlike
<1>12. /\ Alike(R, A) /\ Red(R, s) /\ ~Red(R, near)
       /\ \A k \in Keys0 \ {s, near}: Red(R, k) <=> Red(T, k)
  <2>1. Alike(R, A)
    BY <1>9, <1>11, AlikeFacts
  <2>2. ~Red(R, near)
    BY <1>2, <1>4, <1>9, <1>11
  <2> QED
    BY <1>6, <1>9, <1>11, <2>1, <2>2
<1>13. Shape(R, N) /\ Kept(R, T, N)
  <2>1. Kept(R, A, N) /\ Shape(R, N)
    BY <1>6, <1>12, AlikeShape, AlikeFacts
  <2> QED
    BY <1>6, <2>1, AlikeFacts
<1>14. TurnedKids(R, T, N, Other(d), s, near, p, Other(d))
  <2>1. \A k \in N, f \in Dirs: Child(R, k, f) = Child(A, k, f)
    BY <1>2, <1>12 DEF Alike, SameChildren
  <2> QED
    BY <1>2, <1>3, <1>4, <1>6, <1>7, <2>1 DEF TurnedKids
<1>15. \A k \in N \ {s, near}: Red(R, k) <=> Red(T, k)
  BY <1>2, <1>12
<1>16. /\ ~Red(T, s) /\ (Red(R, near) <=> Red(T, s)) /\ \A k \in N, f \in Dirs: Child(T, k, f) \in N \cup {NoKey}
  BY <1>2, <1>12 DEF RestoreReady
<1>17. Even(R, N, p, d)
  <2>1. p # near /\ (p = s => d = Other(d)) /\ ~(p \in N /\ p = p /\ d = Other(d))
    BY <1>2, <1>4
  <2>2. T \in Trees /\ N \in SUBSET TreeKey /\ R \in Trees /\ Other(d) \in Dirs /\ s \in N /\ near \in N /\ s # near
        /\ Red(T, near) /\ Red(R, s)
    BY <1>2, <1>3, <1>4, <1>11
  <2>3. Balanced(R, N, Exchange(bh, s, near), p, d)
    BY ONLY <1>1, <1>14, <1>15, <1>16, <2>1, <2>2, SwapBalanced
  <2> QED
    BY <2>3 DEF Even
<1>18. /\ Child(R, p, d) = Child(T, p, d) /\ Child(R, p, Other(d)) = near
       /\ Child(R, near, Other(d)) = s
  BY <1>2, <1>4, <1>14 DEF TurnedKids
<1>19. /\ Child(R, s, Other(d)) = Child(T, s, Other(d)) /\ Child(R, s, d) = Child(T, near, Other(d))
  BY <1>2, <1>14 DEF TurnedKids
<1>20. \A k \in N \ {s, near, NoKey}: RedViolation(R, k) => RedViolation(T, k)
  <2>1. /\ R \in Trees /\ T \in Trees /\ N \in SUBSET TreeKey /\ Other(d) \in Dirs /\ s \in N /\ near \in N
    BY <1>2, <1>3, <1>4, <1>11
  <2>2. \A k \in N \ {s, near, NoKey}: Red(R, k) <=> Red(T, k)
    BY <1>15
  <2> QED
    BY ONLY <1>14, <1>16, <2>1, <2>2, SwapRed
<1>21. Calm(R, N, {})
  <2>1. SUFFICES ASSUME NEW k \in N, RedViolation(R, k) PROVE FALSE
    BY DEF Calm
  <2>2. k = s
    BY <1>2, <1>12, <1>20, <2>1, ViolationIs DEF RestoreReady, Calm
  <2>3. PICK f \in Dirs: Red(R, Child(R, s, f))
    BY <2>1, <2>2, ViolationIs
  <2>4. PICK c: c = Child(R, s, f)
    OBVIOUS
  <2>5. c = Child(T, s, Other(d)) \/ c = Child(T, near, Other(d))
    BY <1>2, <1>19, <2>4
  <2>6. c \notin {s, near} /\ c \in Keys0
    <3>1. \A g \in Dirs: Child(T, near, g) \notin {s, near}
      BY <1>14 DEF TurnedKids
    <3>2. Child(T, s, Other(d)) \notin {s, near}
      BY <1>14 DEF TurnedKids
    <3>3. Child(T, s, Other(d)) \in Keys0 /\ Child(T, near, Other(d)) \in Keys0
      BY <1>2, <1>3, <1>4, KeyFacts
    <3> QED
      BY <1>2, <2>5, <3>1, <3>2, <3>3
  <2>7. Red(T, c)
    BY <1>12, <2>3, <2>4, <2>6
  <2>8. c = Child(T, near, Other(d))
    BY <2>5, <2>7
  <2> QED
    BY <1>2, <1>4, <2>7, <2>8, ViolationIs DEF RestoreReady, Calm
<1>22. ~Red(R, Child(R, p, d))
  <2>1. PICK x: x = Child(T, p, d)
    OBVIOUS
  <2>2. x \in Keys0 /\ x \notin {s, near} /\ ~Red(T, x)
    BY <1>2, <1>4, <2>1, KeyFacts DEF RestoreReady
  <2> QED
    BY <1>12, <1>18, <2>1, <2>2
<1>23. \E f \in Dirs: Red(R, Child(R, near, f))
  BY <1>2, <1>12, <1>18
<1> QED
  BY <1>2, <1>12, <1>13, <1>17, <1>18, <1>21, <1>22, <1>23 DEF RestoreReady

LEMMA RestoreIs ==
  ASSUME NEW T, NEW N, NEW p, NEW d, NEW s, RestoreReady(T, N, p, d, s), NEW R, R = Restore(T, p, d)
  PROVE  RbTree(R, N) /\ Kept(R, T, N)
<1>1. PICK near, far: near = Child(T, s, d) /\ far = Child(T, s, Other(d))
  OBVIOUS
<1>2. s = Child(T, p, Other(d)) /\ Dirs = {d, Other(d)}
  BY DirFacts DEF RestoreReady
<1>3. R = IF Red(T, p) /\ ~Red(T, near) /\ ~Red(T, far) THEN Paint(Paint(T, p, FALSE), s, TRUE)
          ELSE IF ~Red(T, far) THEN Promote(NearUp(T, s, d), p, d)
          ELSE Promote(T, p, d)
  BY <1>1, <1>2 DEF Restore, NearUp
<1>4. CASE Red(T, p) /\ ~Red(T, near) /\ ~Red(T, far)
  <2>1. R = Paint(Paint(T, p, FALSE), s, TRUE) /\ \A f \in Dirs: ~Red(T, Child(T, s, f))
    BY <1>1, <1>2, <1>3, <1>4
  <2> QED
    BY <1>4, <2>1, RestoreRed
<1>5. CASE ~(Red(T, p) /\ ~Red(T, near) /\ ~Red(T, far)) /\ ~Red(T, far)
  <2>1. PICK A: A = NearUp(T, s, d)
    OBVIOUS
  <2>2. Red(T, near) /\ R = Promote(A, p, d)
    <3>1. Red(T, p) \/ Red(T, near) \/ Red(T, far)
      BY <1>1, <1>2 DEF RestoreReady
    <3> QED
      BY <1>3, <1>5, <2>1, <3>1
  <2>3. RestoreReady(A, N, p, d, near) /\ Red(A, Child(A, near, Other(d))) /\ Kept(A, T, N)
    BY <1>1, <1>5, <2>1, <2>2, NearIs
  <2>4. RbTree(R, N) /\ Kept(R, A, N)
    BY <2>2, <2>3, PromoteIs
  <2> QED
    BY <2>3, <2>4, AlikeFacts
<1>6. CASE Red(T, far)
  <2>1. R = Promote(T, p, d)
    BY <1>3, <1>6
  <2> QED
    BY <1>1, <1>6, <2>1, PromoteIs
<1> QED
  BY <1>4, <1>5, <1>6

\* case 3: a red sibling is turned above p, and leaves a black one
RedSibling(T, p, d, s) == Paint(Paint(Rotate(T, d, p), p, TRUE), s, FALSE)

LEMMA RedSiblingIs ==
  ASSUME NEW T, NEW N, NEW x, NEW p \in N, NEW d, BlackReady(T, N, x, p, d),
         NEW s, s = Child(T, p, Other(d)), Red(T, s), NEW R, R = RedSibling(T, p, d, s)
  PROVE  RestoreReady(R, N, p, d, Child(R, p, Other(d))) /\ Kept(R, T, N)
<1>1. PICK bh: Balanced(T, N, bh, p, d)
  BY DEF BlackReady, Even
<1>2. /\ T \in Trees /\ N \in SUBSET TreeKey /\ NoKey \notin N /\ p \in N /\ d \in Dirs /\ N \subseteq Keys0
      /\ \A k \in N, f \in Dirs: Child(T, k, f) \in (N \cup {NoKey}) \ {k}
      /\ s # p /\ Other(d) \in Dirs /\ Other(d) # d /\ Other(Other(d)) = d
      /\ \A f \in Dirs: f = d \/ f = Other(d)
      /\ p # NoKey /\ Child(T, p, d) = x /\ ~Red(T, x)
  BY ShapeFacts, KeyFacts, DirFacts DEF BlackReady
<1>3. s \in N /\ s # NoKey
  BY <1>1, <1>2, SiblingIs DEF BlackReady
<1>4. PICK A, q, e: A = Rotate(T, d, p) /\ q = Parent(T, p) /\ e = DirOf(T, q, p)
  OBVIOUS
<1>5. /\ Shape(A, N) /\ Kept(A, T, N) /\ A \in Trees
      /\ \A k \in Keys0: Red(A, k) <=> Red(T, k)
      /\ TurnedKids(A, T, N, d, p, s, q, e)
  BY <1>2, <1>3, <1>4, RotateStep DEF BlackReady
<1>6. PICK B: B = Paint(A, p, TRUE)
  OBVIOUS
<1>7. B \in Trees /\ Alike(B, A) /\ Red(B, p) /\ \A k \in Keys0 \ {p}: Red(B, k) <=> Red(A, k)
  <2>1. p \in TreeKey /\ TRUE \in BOOLEAN
    BY <1>2
  <2> QED
    BY ONLY <1>5, <1>6, <2>1, PaintAlike
<1>8. R = Paint(B, s, FALSE)
  BY <1>4, <1>6 DEF RedSibling
<1>9. R \in Trees /\ Alike(R, B) /\ ~Red(R, s) /\ \A k \in Keys0 \ {s}: Red(R, k) <=> Red(B, k)
  <2>1. s \in TreeKey /\ FALSE \in BOOLEAN
    BY <1>2, <1>3
  <2> QED
    BY ONLY <1>7, <1>8, <2>1, PaintAlike
<1>10. /\ Alike(R, A) /\ Red(R, p) /\ ~Red(R, s)
       /\ \A k \in Keys0 \ {s, p}: Red(R, k) <=> Red(T, k)
  <2>1. Alike(R, A)
    BY <1>7, <1>9, AlikeFacts
  <2>2. Red(R, p)
    BY <1>2, <1>7, <1>9
  <2> QED
    BY <1>5, <1>7, <1>9, <2>1, <2>2
<1>11. Shape(R, N) /\ Kept(R, T, N)
  <2>1. Kept(R, A, N) /\ Shape(R, N)
    BY <1>5, <1>10, AlikeShape, AlikeFacts
  <2> QED
    BY <1>5, <2>1, AlikeFacts
<1>12. TurnedKids(R, T, N, d, p, s, q, e)
  <2>1. \A k \in N, f \in Dirs: Child(R, k, f) = Child(A, k, f)
    BY <1>2, <1>10 DEF Alike, SameChildren
  <2> QED
    BY <1>2, <1>3, <1>5, <2>1 DEF TurnedKids
<1>13. \A k \in N \ {p, s}: Red(R, k) <=> Red(T, k)
  BY <1>2, <1>10
<1>14. ~Red(T, p)
  BY <1>2, ViolationIs DEF BlackReady, Calm
<1>15. (Red(R, s) <=> Red(T, p)) /\ \A k \in N, f \in Dirs: Child(T, k, f) \in N \cup {NoKey}
  BY <1>2, <1>10, <1>14
<1>16. Even(R, N, p, d)
  <2>1. p # s /\ (p = p => d = d) /\ ~(p \in N /\ p = q /\ d = e)
    <3>1. q # p
      BY <1>4, ShapeFacts DEF BlackReady
    <3> QED
      BY <1>2, <3>1
  <2>2. T \in Trees /\ N \in SUBSET TreeKey /\ R \in Trees /\ d \in Dirs /\ p \in N /\ s \in N
        /\ Red(T, s) /\ Red(R, p)
    BY <1>2, <1>3, <1>9, <1>10
  <2>3. Balanced(R, N, Exchange(bh, p, s), p, d)
    BY ONLY <1>1, <1>12, <1>13, <1>15, <2>1, <2>2, SwapBalanced
  <2> QED
    BY <2>3 DEF Even
<1>17. PICK near: near = Child(T, s, d)
  OBVIOUS
<1>18. /\ Child(R, p, d) = x /\ Child(R, p, Other(d)) = near
       /\ x \notin {p, s} /\ near \notin {p, s}
  BY <1>2, <1>12, <1>17 DEF TurnedKids
<1>19. ~Red(R, x) /\ ~Red(R, near)
  <2>1. x \in Keys0 /\ near \in Keys0
    BY <1>2, <1>3, <1>17, KeyFacts
  <2>2. ~Red(T, near)
    BY <1>2, <1>3, <1>17, ViolationIs DEF BlackReady, Calm
  <2> QED
    BY <1>2, <1>10, <1>18, <2>1, <2>2
<1>20. \A k \in N \ {p, s, NoKey}: RedViolation(R, k) => RedViolation(T, k)
  <2>1. /\ R \in Trees /\ T \in Trees /\ N \in SUBSET TreeKey /\ d \in Dirs /\ s \in N /\ p \in N
    BY <1>2, <1>3, <1>9
  <2>2. \A k \in N \ {p, s, NoKey}: Red(R, k) <=> Red(T, k)
    BY <1>13
  <2> QED
    BY ONLY <1>12, <1>15, <2>1, <2>2, SwapRed
<1>21. Calm(R, N, {})
  <2>1. SUFFICES ASSUME NEW k \in N, RedViolation(R, k) PROVE FALSE
    BY DEF Calm
  <2>2. k = p
    BY <1>2, <1>10, <1>20, <2>1, ViolationIs DEF BlackReady, Calm
  <2> QED
    BY <1>2, <1>18, <1>19, <2>1, <2>2, ViolationIs
<1> QED
  BY <1>2, <1>10, <1>11, <1>16, <1>18, <1>19, <1>21 DEF RestoreReady

BlackDone(T, p, d) == p # NoKey =>
  LET s == Child(T, p, Other(d)) IN \E y \in {p, s, Child(T, s, Left), Child(T, s, Right)}: Red(T, y)

LEMMA RepairBlackIs ==
  ASSUME NEW T, NEW N, NEW x, NEW p, NEW d, BlackReady(T, N, x, p, d), BlackDone(T, p, d),
         NEW R, R = RepairBlack(T, x, p, d)
  PROVE  RbTree(R, N) /\ Kept(R, T, N)
<1>1. T \in Trees /\ NoKey \notin N
  BY ShapeFacts DEF BlackReady
<1>2. CASE p = NoKey
  <2>1. R = [T EXCEPT !.root = T.root]
    BY <1>2 DEF RepairBlack, BlackReady
  <2>2. R = T
    BY <1>1, <2>1 DEF Trees
  <2>3. Even(T, N, NoKey, Left)
    BY <1>1, <1>2, EvenAnyway DEF BlackReady
  <2>4. Kept(T, T, N)
    BY <1>1, AlikeFacts
  <2> QED
    BY <2>2, <2>3, <2>4 DEF RbTree, BlackReady
<1>3. CASE p # NoKey
  <2>1. PICK s: s = Child(T, p, Other(d))
    OBVIOUS
  <2>2. R = IF Red(T, s) THEN Restore(RedSibling(T, p, d, s), p, d) ELSE Restore(T, p, d)
    BY <1>3, <2>1 DEF RepairBlack, RedSibling
  <2>3. p \in N
    BY <1>3 DEF BlackReady
  <2>4. CASE Red(T, s)
    <3>1. PICK A: A = RedSibling(T, p, d, s)
      OBVIOUS
    <3>2. RestoreReady(A, N, p, d, Child(A, p, Other(d))) /\ Kept(A, T, N)
      BY <2>1, <2>3, <2>4, <3>1, RedSiblingIs
    <3>3. R = Restore(A, p, d)
      BY <2>2, <2>4, <3>1
    <3>4. RbTree(R, N) /\ Kept(R, A, N)
      BY <3>2, <3>3, RestoreIs
    <3> QED
      BY <3>2, <3>4, AlikeFacts
  <2>5. CASE ~Red(T, s)
    <3>1. Red(T, p) \/ \E f \in Dirs: Red(T, Child(T, s, f))
      BY <1>3, <2>1, <2>5, KeyFacts DEF BlackDone
    <3>2. RestoreReady(T, N, p, d, s)
      BY <1>3, <2>1, <2>3, <2>5, <3>1 DEF RestoreReady, BlackReady
    <3> QED
      BY <2>2, <2>5, <3>2, RestoreIs
  <2> QED
    BY <2>4, <2>5
<1> QED
  BY <1>2, <1>3

\* One step up: the sibling is painted red, and paths through p lack a black node.
Pale(T, s) == Paint(T, s, TRUE)

LEMMA PaleIs ==
  ASSUME NEW T, NEW N, NEW x, NEW p \in N, NEW d, BlackReady(T, N, x, p, d), ~BlackDone(T, p, d),
         NEW s, s = Child(T, p, Other(d)), NEW R, R = Pale(T, s),
         NEW q, q = Parent(T, p), NEW e, e = DirOf(T, q, p)
  PROVE  Alike(R, T) /\ BlackReady(R, N, p, q, e)
<1>1. PICK bh: Balanced(T, N, bh, p, d)
  BY DEF BlackReady, Even
<1>2. /\ T \in Trees /\ N \in SUBSET TreeKey /\ NoKey \notin N /\ d \in Dirs /\ N \subseteq Keys0
      /\ \A k \in N, f \in Dirs: Child(T, k, f) \in (N \cup {NoKey}) \ {k}
      /\ s # p /\ Other(d) \in Dirs /\ Other(d) # d /\ \A f \in Dirs: f = d \/ f = Other(d)
      /\ p # NoKey /\ Child(T, p, d) = x /\ q \in (N \cup {NoKey}) \ {p} /\ e \in Dirs
      /\ (q # NoKey => Child(T, q, e) = p) /\ (q = NoKey => p = T.root)
  BY ShapeFacts, KeyFacts, DirFacts DEF BlackReady
<1>3. s \in N /\ s # NoKey /\ s # x /\ bh[s] = BhOf(bh, x) + 1 /\ s # q
  <2>1. s \in N /\ s # NoKey /\ bh[s] = BhOf(bh, x) + 1
    BY <1>1, <1>2, SiblingIs DEF BlackReady
  <2>2. s # x
    BY <1>2, <2>1, ShapeFacts DEF BlackReady
  <2>3. s # q
    BY <1>2, <2>1, NoCycle DEF BlackReady
  <2> QED
    BY <2>1, <2>2, <2>3
<1>4. ~Red(T, p) /\ ~Red(T, s) /\ \A f \in Dirs: ~Red(T, Child(T, s, f))
  BY <1>2 DEF BlackDone, Dirs
<1>5. R \in Trees /\ Alike(R, T) /\ Red(R, s) /\ \A k \in Keys0 \ {s}: Red(R, k) <=> Red(T, k)
  <2>1. s \in TreeKey /\ TRUE \in BOOLEAN
    BY <1>2, <1>3
  <2> QED
    BY <1>2, <2>1, PaintAlike DEF Pale
<1>a. /\ T \in Trees /\ R \in Trees /\ N \in SUBSET TreeKey /\ p \in Keys0 \ {s} /\ p \in N /\ s \in N
      /\ p # NoKey /\ d # Other(d) /\ d \in Dirs /\ Other(d) \in Dirs
  BY <1>2, <1>3, <1>5
<1>c. q \in N \cup {NoKey} /\ q # p /\ q # s /\ s # p
  BY <1>2, <1>3
<1>b. ~Red(R, p)
  BY ONLY <1>4, <1>5, <1>a
<1>6. \A k \in N, f \in Dirs: Child(R, k, f) = Child(T, k, f)
  BY <1>2, <1>5 DEF Alike, SameChildren
<1>7. \A k, j \in N, f, g \in Dirs: Child(T, k, f) = Child(T, j, g) /\ Child(T, k, f) # NoKey => k = j /\ f = g
  BY ShapeFacts DEF BlackReady
<1>8. Shape(R, N)
  BY <1>5, AlikeShape DEF BlackReady
<1>9. Calm(R, N, {})
  <2>1. SUFFICES ASSUME NEW k \in N, Red(R, k), NEW f \in Dirs, Red(R, Child(R, k, f)) PROVE FALSE
    BY ViolationIs DEF Calm
  <2>2. PICK c: c = Child(T, k, f)
    OBVIOUS
  <2>3. Red(R, c) /\ c \in Keys0 /\ c # k /\ k # p /\ k \in Keys0
    <3>1. c = Child(R, k, f) /\ c \in (N \cup {NoKey}) \ {k}
      BY <1>2, <1>6, <2>1, <2>2
    <3>2. k # p
      BY ONLY <1>b, <2>1
    <3> QED
      BY <1>2, <2>1, <3>1, <3>2, KeyFacts
  <2>4. CASE k = s
    BY <1>4, <1>5, <2>2, <2>3, <2>4
  <2>5. CASE k # s
    <3>1. Red(T, k)
      BY <1>5, <2>1, <2>3, <2>5
    <3>2. CASE c = s
      <4>1. Child(T, k, f) = Child(T, p, Other(d)) /\ Child(T, k, f) # NoKey
        BY <1>3, <2>2, <3>2
      <4>2. k = p
        BY <1>2, <1>7, <4>1
      <4> QED
        BY <2>3, <4>2
    <3>3. CASE c # s
      <4>1. Red(T, c)
        BY <1>5, <2>3, <3>3
      <4> QED
        BY <2>2, <3>1, <4>1, ViolationIs DEF BlackReady, Calm
    <3> QED
      BY <3>2, <3>3
  <2> QED
    BY <2>4, <2>5
<1>10. Even(R, N, q, e)
  <2>1. /\ bh \in [N -> Nat]
        /\ \A k \in N, f \in Dirs: bh[k] = BhOf(bh, Child(T, k, f)) + Lack(k, f, p, d) + Black(T, k)
    BY <1>1 DEF Balanced
  <2>2. PICK bg: bg = [k \in N |-> IF k \in {p, s} THEN bh[k] - 1 ELSE bh[k]]
    OBVIOUS
  <2>3. /\ Black(R, s) = 0 /\ Black(T, s) = 1 /\ Black(R, p) = 1 /\ Black(T, p) = 1
        /\ \A k \in N \ {p, s}: Black(R, k) = Black(T, k)
    <3>1. \A k \in N: /\ (Red(T, k) => Black(T, k) = 0) /\ (~Red(T, k) => Black(T, k) = 1)
      BY ONLY <1>a, RedIs
    <3>2. \A k \in N: /\ (Red(R, k) => Black(R, k) = 0) /\ (~Red(R, k) => Black(R, k) = 1)
      BY ONLY <1>a, RedIs
    <3>3. \A k \in N \ {s}: Red(R, k) <=> Red(T, k)
      BY <1>2, <1>5
    <3>4. Red(R, s)
      BY <1>5
    <3> QED
      BY ONLY <1>4, <1>a, <1>b, <3>1, <3>2, <3>3, <3>4
  <2>4. bh[s] - 1 \in Nat /\ bh[p] - 1 \in Nat
    <3>1. PICK w: w = BhOf(bh, x)
      OBVIOUS
    <3>2. w \in Nat
      BY <1>2, <2>1, <3>1, BhFacts
    <3>3. Lack(p, d, p, d) = 1
      BY DEF Lack
    <3>4. bh[p] = w + 1 + 1
      BY <1>2, <2>1, <2>3, <3>1, <3>3
    <3> QED
      BY <1>3, <3>1, <3>2, <3>4
  <2>5. bg \in [N -> Nat] /\ bg[s] = bh[s] - 1 /\ bg[p] = bh[p] - 1 /\ \A k \in N \ {p, s}: bg[k] = bh[k]
    BY <1>3, <2>1, <2>2, <2>4
  <2>6. \A c \in N \cup {NoKey}: c \notin {p, s} => BhOf(bg, c) = BhOf(bh, c)
    BY <2>5 DEF BhOf
  <2>7. BhOf(bg, s) = bh[s] - 1 /\ BhOf(bh, s) = bh[s] /\ BhOf(bg, p) = bh[p] - 1 /\ BhOf(bh, p) = bh[p]
    BY <1>2, <1>3, <2>5 DEF BhOf
  <2>8. /\ \A k \in N, f \in Dirs: Lack(k, f, p, d) = IF k = p /\ f = d THEN 1 ELSE 0
        /\ \A k \in N, f \in Dirs: Lack(k, f, q, e) = IF k = q /\ f = e THEN 1 ELSE 0
    BY DEF Lack
  <2>9. \A k \in N, f \in Dirs: Child(T, k, f) = s => k = p /\ f = Other(d)
    BY <1>2, <1>3, <1>7
  <2>10. \A k \in N, f \in Dirs: Child(T, k, f) = p <=> k = q /\ f = e
    <3>1. \A k \in N, f \in Dirs: Child(T, k, f) = p => k = q
      BY <1>2, ShapeFacts DEF BlackReady
    <3> QED
      BY <1>2, <1>7, <3>1
  <2>11. ASSUME NEW k \in N, NEW f \in Dirs
         PROVE  bg[k] = BhOf(bg, Child(T, k, f)) + Lack(k, f, q, e) + Black(R, k)
    <3>1. PICK c, w, z, l0, l1, b0, b1, h0, h1: /\ c = Child(T, k, f) /\ w = BhOf(bh, c) /\ z = BhOf(bg, c)
                                                /\ l0 = Lack(k, f, p, d) /\ l1 = Lack(k, f, q, e)
                                                /\ b0 = Black(T, k) /\ b1 = Black(R, k)
                                                /\ h0 = bh[k] /\ h1 = bg[k]
      OBVIOUS
    <3>2. /\ c \in (N \cup {NoKey}) \ {k} /\ w \in Nat /\ h0 \in Nat /\ bh[s] \in Nat /\ bh[p] \in Nat
          /\ (c \notin {p, s} => z = w) /\ (c = s => z = bh[s] - 1 /\ w = bh[s])
          /\ (c = p => z = bh[p] - 1 /\ w = bh[p])
      BY <1>2, <1>3, <2>1, <2>5, <2>6, <2>7, <3>1, BhFacts
    <3>3. h0 = w + l0 + b0
      BY <2>1, <3>1
    <3>4. h1 = z + l1 + b1
      <4>1. CASE k = p /\ f = d
        <5>1. l0 = 1 /\ l1 = 0 /\ b0 = 1 /\ h1 = h0 - 1 /\ b1 = 1
          BY ONLY <1>c, <1>a, <2>3, <2>5, <2>8, <3>1, <4>1, f \in Dirs
        <5>2. c # s /\ c # p
          BY ONLY <1>a, <2>9, <3>1, <3>2, <4>1, f \in Dirs
        <5> QED
          BY <3>2, <3>3, <5>1, <5>2
      <4>2. CASE k = p /\ f = Other(d)
        <5>1. l0 = 0 /\ l1 = 0 /\ b0 = 1 /\ c = s /\ h1 = h0 - 1 /\ b1 = 1
          BY <1>2, <2>3, <2>5, <2>8, <3>1, <4>2
        <5> QED
          BY <3>2, <3>3, <5>1
      <4>3. CASE k = s
        <5>1. l0 = 0 /\ l1 = 0 /\ b0 = 1 /\ h1 = h0 - 1 /\ b1 = 0
          BY ONLY <1>c, <1>a, <2>3, <2>5, <2>8, <3>1, <4>3, f \in Dirs
        <5>2. c # s /\ c # p
          <6>1. c # s
            BY ONLY <3>2, <4>3
          <6>2. k # q
            BY ONLY <1>c, <4>3
          <6> QED
            BY ONLY <2>10, <3>1, <6>1, <6>2, k \in N, f \in Dirs
        <5> QED
          BY <3>2, <3>3, <5>1, <5>2
      <4>4. CASE k \notin {p, s} /\ c = p
        <5>1. l0 = 0 /\ l1 = 1 /\ h1 = h0 /\ b1 = b0 /\ b0 \in Nat
          BY <2>3, <2>5, <2>8, <2>10, <3>1, <4>4 DEF Black
        <5> QED
          BY <3>2, <3>3, <4>4, <5>1
      <4>5. CASE k \notin {p, s} /\ c # p
        <5>1. l0 = 0 /\ l1 = 0 /\ h1 = h0 /\ b1 = b0 /\ b0 \in Nat /\ c # s
          BY <2>3, <2>5, <2>8, <2>9, <2>10, <3>1, <4>5 DEF Black
        <5> QED
          BY <3>2, <3>3, <4>5, <5>1
      <4> QED
        BY <1>2, <4>1, <4>2, <4>3, <4>4, <4>5
    <3> QED
      BY <3>1, <3>4
  <2>12. Balanced(R, N, bg, q, e)
    BY <1>6, <2>5, <2>11 DEF Balanced
  <2> QED
    BY <2>12 DEF Even
<1>11. ~Red(R, p) /\ Parent(R, p) = q /\ R.root = T.root
  BY <1>2, <1>b, <1>5 DEF Alike, SameParents
<1>12. /\ e \in Dirs /\ p \in N \cup {NoKey} /\ Alike(R, T) /\ (q = NoKey => p = R.root)
  BY <1>2, <1>5, <1>11
<1>13. q # NoKey => Child(R, q, e) = p
  BY ONLY <1>2, <1>6
<1> QED
  BY ONLY <1>c, <1>8, <1>9, <1>10, <1>11, <1>12, <1>13 DEF BlackReady

LEMMA BlackStepIs ==
  ASSUME NEW T, NEW N, NEW x, NEW p, NEW d, BlackReady(T, N, x, p, d), ~BlackDone(T, p, d),
         NEW z, z = BlackStep(T, x, p, d)
  PROVE  /\ z \in [T: Trees, x: Keys0, p: Keys0, d: Dirs] /\ p \in N /\ z.p = Parent(T, p)
         /\ Alike(z.T, T) /\ BlackReady(z.T, N, z.x, z.p, z.d)
<1>1. p # NoKey /\ p \in N
  BY DEF BlackDone, BlackReady
<1>2. PICK s, q, e, R: s = Child(T, p, Other(d)) /\ q = Parent(T, p) /\ e = DirOf(T, q, p) /\ R = Pale(T, s)
  OBVIOUS
<1>3. Alike(R, T) /\ BlackReady(R, N, p, q, e)
  BY ONLY <1>1, <1>2, BlackReady(T, N, x, p, d), ~BlackDone(T, p, d), PaleIs
<1>4. \A y \in {p, s, Child(T, s, Left), Child(T, s, Right)}: ~Red(T, y)
  BY <1>2 DEF BlackDone
<1>5. z = [T |-> R, x |-> p, p |-> q, d |-> e]
  BY <1>1, <1>2, <1>4 DEF BlackStep, Pale
<1>6. R \in Trees /\ N \subseteq Keys0 /\ NoKey \in Keys0 /\ q \in N \cup {NoKey} /\ e \in Dirs
  BY <1>3, ShapeFacts, KeyFacts DEF BlackReady, Alike
<1>7. z \in [T: Trees, x: Keys0, p: Keys0, d: Dirs] /\ z.T = R /\ z.x = p /\ z.p = q /\ z.d = e
  BY ONLY <1>1, <1>5, <1>6
<1> QED
  BY ONLY <1>1, <1>2, <1>3, <1>7

\* remove_black_leaf gives a red-black tree of the nodes that are left.
LEMMA RebalanceIs ==
  ASSUME NEW T, NEW N, NEW x, NEW p, NEW d, BlackReady(T, N, x, p, d), NEW R, R = Rebalance(T, x, p, d)
  PROVE  RbTree(R, N) /\ Kept(R, T, N)
<1>1. PICK sub: Linked(T, N, sub)
  BY DEF BlackReady, Shape
<1>2. T \in Trees /\ N \in SUBSET TreeKey /\ NoKey \notin N /\ sub \in [N -> SUBSET N] /\ IsFiniteSet(TreeKey)
  BY <1>1, ShapeFacts, TreeAssumption DEF BlackReady, TreeAssumption, Linked
<1> DEFINE States == [T: Trees, x: Keys0, p: Keys0, d: Dirs]
           step == [s \in States |-> BlackStep(s.T, s.x, s.p, s.d)]
           I == {s \in States: Alike(s.T, T) /\ BlackReady(s.T, N, s.x, s.p, s.d)}
           rank == [s \in I |-> IF s.p = NoKey THEN Cardinality(TreeKey) ELSE Cardinality(sub[s.p]) - 1]
           s0 == [T |-> T, x |-> x, p |-> p, d |-> d]
<1>3. s0 \in I
  <2>1. x \in Keys0 /\ d \in Dirs /\ p \in Keys0
    BY <1>2, KeyFacts DEF BlackReady
  <2>2. Alike(T, T)
    BY <1>2, AlikeFacts
  <2> QED
    BY <1>2, <2>1, <2>2
<1>4. ASSUME NEW t \in I, BlackDone(t.T, t.p, t.d)
      PROVE  step[t] = t
  <2>1. step[t] = BlackStep(t.T, t.x, t.p, t.d)
    OBVIOUS
  <2>2. BlackStep(t.T, t.x, t.p, t.d) = [T |-> t.T, x |-> t.x, p |-> t.p, d |-> t.d]
    BY <1>4 DEF BlackStep, BlackDone
  <2>3. t = [T |-> t.T, x |-> t.x, p |-> t.p, d |-> t.d]
    OBVIOUS
  <2> QED
    BY <2>1, <2>2, <2>3
<1>5. ASSUME NEW t \in I, ~BlackDone(t.T, t.p, t.d)
      PROVE  /\ step[t] \in I /\ t.p \in N /\ t.p # NoKey /\ step[t].p # t.p
             /\ step[t].p # NoKey => /\ step[t].p \in N /\ sub[t.p] \subseteq sub[step[t].p]
                                     /\ step[t].p \in sub[step[t].p] /\ step[t].p \notin sub[t.p]
  <2>1. step[t] = BlackStep(t.T, t.x, t.p, t.d)
    OBVIOUS
  <2>2. PICK A, y, q, e: A = t.T /\ y = t.x /\ q = t.p /\ e = t.d
    OBVIOUS
  <2>3. PICK z: z = step[t]
    OBVIOUS
  <2>4. z = BlackStep(A, y, q, e) /\ BlackReady(A, N, y, q, e) /\ ~BlackDone(A, q, e) /\ Alike(A, T)
    BY <1>5, <2>1, <2>2, <2>3
  <2>5. /\ z \in States /\ q \in N /\ z.p = Parent(A, q)
        /\ Alike(z.T, A) /\ BlackReady(z.T, N, z.x, z.p, z.d)
    BY <2>4, BlackStepIs
  <2>6. z \in I
    BY <2>4, <2>5, AlikeFacts
  <2>7. z.p = Parent(T, q) /\ q # NoKey
    BY <1>2, <2>4, <2>5 DEF Alike, SameParents
  <2>8. z.p # q
    BY <2>5, <2>7, ShapeFacts DEF BlackReady
  <2>9. z.p # NoKey => z.p \in N /\ sub[q] \subseteq sub[z.p] \ {z.p} /\ z.p \in sub[z.p]
    BY <1>1, <2>5, <2>7, DirOfIs, LinkFacts
  <2> QED
    BY <2>2, <2>3, <2>5, <2>6, <2>7, <2>8, <2>9
<1>6. \A t \in I: step[t] \in I
  BY <1>4, <1>5
<1>7. \A k \in N: Cardinality(sub[k]) \in 1 .. Cardinality(TreeKey) /\ IsFiniteSet(sub[k])
  <2>1. \A k \in N: sub[k] \subseteq TreeKey /\ sub[k] # {}
    BY <1>1, <1>2, LinkFacts
  <2>2. \A k \in N: IsFiniteSet(sub[k]) /\ Cardinality(sub[k]) \in Nat /\ Cardinality(sub[k]) <= Cardinality(TreeKey)
    BY <1>2, <2>1, FS_Subset, FS_CardinalityType
  <2>3. \A k \in N: Cardinality(sub[k]) # 0
    BY <2>1, <2>2, FS_EmptySet
  <2> QED
    BY <2>2, <2>3, LastIsNat
<1>8. \A t \in I: t.p \in N \cup {NoKey}
  BY DEF BlackReady
<1>9. \A t \in I: rank[t] \in 0 .. Cardinality(TreeKey)
  BY <1>7, <1>8, LastIsNat
<1>10. \A t \in I: step[t] = t \/ rank[step[t]] > rank[t]
  <2>1. SUFFICES ASSUME NEW t \in I, ~BlackDone(t.T, t.p, t.d) PROVE rank[step[t]] > rank[t]
    BY <1>4
  <2>2. PICK q, h: q = t.p /\ h = step[t].p
    OBVIOUS
  <2>3. /\ q \in N /\ q # NoKey /\ step[t] \in I
        /\ h # NoKey => h \in N /\ sub[q] \subseteq sub[h] /\ h \in sub[h] /\ h \notin sub[q]
    BY <1>5, <2>1, <2>2
  <2>4. rank[t] = Cardinality(sub[q]) - 1 /\ rank[step[t]] = IF h = NoKey THEN Cardinality(TreeKey) ELSE Cardinality(sub[h]) - 1
    BY <2>2, <2>3
  <2>5. CASE h = NoKey
    BY <1>7, <2>3, <2>4, <2>5, LastIsNat
  <2>6. CASE h # NoKey
    <3>1. sub[q] # sub[h] /\ sub[q] \subseteq sub[h] /\ h \in N
      BY <2>3, <2>6
    <3>2. Cardinality(sub[q]) <= Cardinality(sub[h]) /\ Cardinality(sub[q]) # Cardinality(sub[h])
      BY <1>7, <3>1, FS_Subset
    <3> QED
      BY <1>7, <2>3, <2>4, <2>6, <3>1, <3>2
  <2> QED
    BY <2>5, <2>6
<1> HIDE DEF I, step, rank, s0
<1>11. Loop(step, s0) \in I /\ step[Loop(step, s0)] = Loop(step, s0)
  BY <1>3, <1>6, <1>9, <1>10, LoopEnds
<1>12. PICK s: s = Loop(step, s0)
  OBVIOUS
<1>13. s \in I /\ BlackDone(s.T, s.p, s.d)
  BY <1>5, <1>11, <1>12
<1>14. R = RepairBlack(s.T, s.x, s.p, s.d)
  <2>1. s = Loop([t \in [T: Trees, x: Keys0, p: Keys0, d: Dirs] |-> BlackStep(t.T, t.x, t.p, t.d)],
                 [T |-> T, x |-> x, p |-> p, d |-> d])
    BY <1>12 DEF step, s0
  <2> QED
    BY <2>1 DEF Rebalance
<1>15. Alike(s.T, T) /\ BlackReady(s.T, N, s.x, s.p, s.d)
  BY <1>13 DEF I
<1>16. RbTree(R, N) /\ Kept(R, s.T, N)
  BY <1>13, <1>14, <1>15, RepairBlackIs
<1>17. Kept(s.T, T, N)
  BY <1>15, AlikeFacts
<1> QED
  BY <1>16, <1>17, AlikeFacts

-----------------------------------------------------------------------------
(* erase_1child_aux: a node with at most one child is taken out. Its own key need not  *)
(* be in order: it has changed places with the key that is to go.                      *)

OnlyChild(T, x, c) == \E e \in Dirs: c = Child(T, x, e) /\ Child(T, x, Other(e)) = NoKey

\* A is T without x: its child c, if any, is in its place, painted black.
Removed(A, T, x, p, d, c) ==
  /\ A \in Trees /\ SameValues(A, T) /\ A.root = IF p = NoKey THEN c ELSE T.root
  /\ \A k \in TreeKey, f \in Dirs: Child(A, k, f) = IF k = p /\ f = d THEN c ELSE Child(T, k, f)
  /\ \A k \in TreeKey \ {x}: Parent(A, k) = IF k = c THEN p ELSE Parent(T, k)
  /\ \A k \in TreeKey: Red(A, k) <=> (k # c /\ Red(T, k))

Unhook(T, p, x, c) == Replace(IF c = NoKey THEN T ELSE Paint(T, c, FALSE), p, x, c)

LEMMA UnhookIs ==
  ASSUME NEW T, NEW N, NEW sub, Linked(T, N, sub), NEW x \in N, NEW p, p = Parent(T, x),
         NEW d, d = DirOf(T, p, x), NEW c \in N \cup {NoKey}, c # x, NEW A, A = Unhook(T, p, x, c)
  PROVE  Removed(A, T, x, p, d, c)
<1>1. /\ T \in Trees /\ N \subseteq TreeKey /\ NoKey \notin N /\ x \in TreeKey /\ c \in Keys0 /\ p \in N \cup {NoKey}
      /\ FALSE \in BOOLEAN /\ NoKey \in Keys0 /\ NoKey \notin TreeKey
  BY LinkFacts, KeyFacts DEF Keys0
<1>2. p # NoKey => d \in Dirs /\ Child(T, p, d) = x /\ p # x
  BY DirOfIs
<1>3. PICK B: B = IF c = NoKey THEN T ELSE Paint(T, c, FALSE)
  OBVIOUS
<1>4. /\ B \in Trees /\ B.root = T.root /\ SameValues(B, T) /\ SameChildren(B, T) /\ SameParents(B, T)
      /\ \A k \in TreeKey: Red(B, k) <=> (k # c /\ Red(T, k))
  <2>1. CASE c = NoKey
    <3>1. B = T
      BY <1>3, <2>1
    <3> QED
      BY <1>1, <2>1, <3>1 DEF SameValues, SameChildren, SameParents
  <2>2. CASE c # NoKey
    <3>1. B = Paint(T, c, FALSE) /\ c \in TreeKey
      BY <1>1, <1>3, <2>2
    <3>2. Painted(B, T, c, FALSE)
      BY <1>1, <3>1, PaintIs
    <3> QED
      BY <1>1, <3>1, <3>2 DEF Painted, SameData, SameValues, Red
  <2> QED
    BY <2>1, <2>2
<1>5. A = Replace(B, p, x, c)
  BY <1>3 DEF Unhook
<1>6. CASE p = NoKey
  <2>1. PICK C: C = [B EXCEPT !.root = c]
    OBVIOUS
  <2>2. Rooted(C, B, c)
    BY <1>1, <1>4, <2>1, SetRootIs
  <2>3. A = SetParent(C, c, NoKey)
    BY <1>5, <1>6, <2>1 DEF Replace
  <2>4. ParentSet(A, C, c, NoKey)
    BY <1>1, <2>2, <2>3, SetParentIs DEF Rooted
  <2>5. /\ A \in Trees /\ A.root = c /\ SameValues(A, T)
        /\ \A k \in TreeKey, f \in Dirs: Child(A, k, f) = Child(T, k, f)
        /\ \A k \in TreeKey: Parent(A, k) = IF k = c THEN NoKey ELSE Parent(T, k)
        /\ \A k \in TreeKey: A.n[k].red = B.n[k].red
    BY <1>4, <2>2, <2>4 DEF Rooted, ParentSet, SameData, SameRed, SameValues, SameChildren, SameParents
  <2>6. \A k \in TreeKey: Red(A, k) <=> (k # c /\ Red(T, k))
    BY <1>4, <2>5 DEF Red
  <2> QED
    BY <1>1, <1>6, <2>5, <2>6 DEF Removed
<1>7. CASE p # NoKey
  <2>1. p \in TreeKey /\ d \in Dirs /\ Child(T, p, d) = x
    BY <1>1, <1>2, <1>7
  <2>2. DirOf(B, p, x) = d
    <3>1. Child(B, p, Right) = Child(T, p, Right)
      BY <1>4, <2>1, KeyFacts DEF SameChildren
    <3> QED
      BY <3>1 DEF DirOf
  <2>3. A = AssignChild(B, p, d, c)
    BY <1>5, <1>7, <2>2 DEF Replace, ReplaceChild
  <2>4. ChildAssigned(A, B, p, d, c)
    BY <1>1, <1>4, <2>1, <2>3, AssignChildIs
  <2>5. /\ A \in Trees /\ A.root = T.root /\ SameValues(A, T)
        /\ \A k \in TreeKey, f \in Dirs: Child(A, k, f) = IF k = p /\ f = d THEN c ELSE Child(T, k, f)
        /\ \A k \in TreeKey: A.n[k].red = B.n[k].red
    BY <1>4, <2>4 DEF ChildAssigned, SameData, SameRed, SameValues, SameChildren
  <2>6. \A k \in TreeKey \ {x}: Parent(A, k) = IF k = c THEN p ELSE Parent(T, k)
    <3>1. Child(B, p, d) = x
      BY <1>4, <2>1 DEF SameChildren
    <3> QED
      BY <1>4, <2>4, <3>1 DEF ChildAssigned, SameParents
  <2>7. \A k \in TreeKey: Red(A, k) <=> (k # c /\ Red(T, k))
    BY <1>4, <2>5 DEF Red
  <2> QED
    BY <1>7, <2>5, <2>6, <2>7 DEF Removed
<1> QED
  BY <1>6, <1>7

LEMMA RemovedShape ==
  ASSUME NEW T, NEW N, NEW sub, NEW x \in N, Linked(T, N, sub), Ordered(T, N, sub, x),
         NEW p, p = Parent(T, x), NEW d, d = DirOf(T, p, x),
         NEW c, OnlyChild(T, x, c), NEW A, Removed(A, T, x, p, d, c)
  PROVE  Shape(A, N \ {x})
<1>0. PICK e \in Dirs: c = Child(T, x, e) /\ Child(T, x, Other(e)) = NoKey
  BY DEF OnlyChild
<1>1. /\ T \in Trees /\ N \subseteq TreeKey /\ NoKey \notin N /\ sub \in [N -> SUBSET N] /\ p \in N \cup {NoKey}
      /\ c \in (N \cup {NoKey}) \ {x} /\ (p # NoKey => d \in Dirs /\ Child(T, p, d) = x /\ p # x /\ x # T.root)
      /\ \A k \in N, f \in Dirs: Child(T, k, f) \in (N \cup {NoKey}) \ {k}
      /\ (p = NoKey => x = T.root) /\ (c # NoKey => Parent(T, c) = x)
      /\ (IF T.root = NoKey THEN N = {} ELSE T.root \in N /\ sub[T.root] = N)
  <2>1. T \in Trees /\ N \subseteq TreeKey /\ NoKey \notin N /\ p \in N \cup {NoKey}
        /\ \A k \in N, f \in Dirs: Child(T, k, f) \in (N \cup {NoKey}) \ {k}
    BY LinkFacts
  <2>2. p # NoKey => d \in Dirs /\ Child(T, p, d) = x /\ p # x /\ x # T.root
    BY DirOfIs
  <2>3. p = NoKey => x = T.root
    <3>1. x # T.root => Parent(T, x) \in N
      BY DEF Linked
    <3> QED
      BY <2>1, <3>1
  <2>4. c # NoKey => Parent(T, c) = x
    BY <1>0 DEF Linked
  <2>5. sub \in [N -> SUBSET N] /\ IF T.root = NoKey THEN N = {} ELSE T.root \in N /\ sub[T.root] = N
    BY DEF Linked
  <2> QED
    BY <1>0, <2>1, <2>2, <2>3, <2>4, <2>5
<1>2. PICK M: M = N \ {x}
  OBVIOUS
<1>3. PICK sub2: sub2 = [k \in M |-> sub[k] \ {x}]
  OBVIOUS
<1>4. sub2 \in [M -> SUBSET M] /\ \A k \in M: sub2[k] = sub[k] \ {x}
  BY <1>1, <1>2, <1>3
<1>5. /\ A \in Trees /\ A.root = IF p = NoKey THEN c ELSE T.root
      /\ \A k \in M, f \in Dirs: Child(A, k, f) = IF k = p /\ f = d THEN c ELSE Child(T, k, f)
      /\ \A k \in M: Parent(A, k) = IF k = c THEN p ELSE Parent(T, k)
  BY <1>1, <1>2 DEF Removed
<1>6. sub[x] = {x} \cup SubOf(sub, c) /\ x \notin SubOf(sub, c)
  <2>1. SubOf(sub, NoKey) = {}
    BY DEF SubOf
  <2> QED
    BY <1>0, <2>1 DEF Linked
<1>7. \A k, j \in N, f, g \in Dirs: Child(T, k, f) = Child(T, j, g) /\ Child(T, k, f) # NoKey => k = j /\ f = g
  BY OnePlace
<1>8. ASSUME NEW k \in M, NEW f \in Dirs
      PROVE  /\ SubOf(sub2, Child(A, k, f)) = SubOf(sub, Child(T, k, f)) \ {x}
             /\ Child(A, k, f) \in M \cup {NoKey}
  <2>1. CASE k = p /\ f = d
    <3>1. Child(A, k, f) = c /\ Child(T, k, f) = x /\ x # NoKey /\ c \in M \cup {NoKey}
      BY <1>1, <1>2, <1>5, <2>1
    <3>2. SubOf(sub2, c) = SubOf(sub, c) \ {x}
      BY <1>4, <3>1 DEF SubOf
    <3>3. SubOf(sub, x) = sub[x]
      BY <3>1 DEF SubOf
    <3> QED
      BY <1>6, <3>1, <3>2, <3>3
  <2>2. CASE ~(k = p /\ f = d)
    <3>1. Child(A, k, f) = Child(T, k, f) /\ k \in N
      BY <1>2, <1>5, <2>2
    <3>2. Child(T, k, f) # x
      <4>1. SUFFICES ASSUME Child(T, k, f) = x PROVE FALSE
        OBVIOUS
      <4>2. x # NoKey
        BY <1>1
      <4>3. p = k
        BY <3>1, <4>1, <4>2 DEF Linked
      <4>4. Child(T, p, d) = x /\ d \in Dirs
        BY <1>1, <3>1, <4>3
      <4>5. f = d
        BY <1>7, <3>1, <4>1, <4>2, <4>3, <4>4
      <4> QED
        BY <2>2, <4>3, <4>5
    <3>3. Child(T, k, f) \in M \cup {NoKey}
      BY <1>1, <1>2, <3>1, <3>2
    <3> QED
      BY <1>4, <3>1, <3>3 DEF SubOf
  <2> QED
    BY <2>1, <2>2
<1>9. IF A.root = NoKey THEN M = {} ELSE A.root \in M /\ sub2[A.root] = M
  <2>1. CASE p = NoKey
    <3>1. A.root = c /\ sub[x] = N
      BY <1>1, <1>5, <2>1
    <3>2. M = SubOf(sub, c)
      BY <1>2, <1>6, <3>1
    <3> QED
      BY <1>1, <1>2, <1>4, <1>6, <3>1, <3>2 DEF SubOf
  <2>2. CASE p # NoKey
    <3>1. A.root = T.root /\ T.root # NoKey /\ T.root \in M
      BY <1>1, <1>2, <1>5, <2>2
    <3> QED
      BY <1>1, <1>2, <1>4, <3>1
  <2> QED
    BY <2>1, <2>2
<1>10. ASSUME NEW k \in M, NEW f \in Dirs, Child(A, k, f) # NoKey
       PROVE  Child(A, k, f) \in M /\ Parent(A, Child(A, k, f)) = k
  <2>1. PICK b: b = Child(A, k, f)
    OBVIOUS
  <2>2. b \in M
    BY <1>8, <1>10, <2>1
  <2>3. CASE k = p /\ f = d
    BY <1>5, <2>1, <2>2, <2>3
  <2>4. CASE ~(k = p /\ f = d)
    <3>1. b = Child(T, k, f) /\ k \in N /\ b # NoKey
      BY <1>2, <1>5, <1>10, <2>1, <2>4
    <3>2. Parent(T, b) = k /\ k # x
      BY <1>2, <3>1 DEF Linked
    <3>3. b # c
      BY <1>1, <3>1, <3>2
    <3> QED
      BY <1>5, <2>1, <2>2, <3>2, <3>3
  <2> QED
    BY <2>3, <2>4
<1>11. ASSUME NEW k \in M
       PROVE  IF k = A.root THEN Parent(A, k) = NoKey
              ELSE Parent(A, k) \in M /\ \E f \in Dirs: Child(A, Parent(A, k), f) = k
  <2>1. CASE k = c
    <3>1. Parent(A, k) = p /\ k # NoKey
      BY <1>1, <1>2, <1>5, <2>1
    <3>2. CASE p = NoKey
      BY <1>5, <2>1, <3>1, <3>2
    <3>3. CASE p # NoKey
      <4>1. A.root = T.root /\ d \in Dirs /\ p \in M
        BY <1>1, <1>2, <1>5, <3>3
      <4>2. Child(A, p, d) = c
        BY <1>5, <4>1
      <4>3. k # T.root
        <5>1. Parent(T, c) = x /\ x # NoKey
          BY <1>1, <2>1, <3>1
        <5> QED
          BY <1>2, <2>1, <5>1 DEF Linked
      <4> QED
        BY <2>1, <3>1, <4>1, <4>2, <4>3
    <3> QED
      BY <3>2, <3>3
  <2>2. CASE k # c
    <3>1. Parent(A, k) = Parent(T, k) /\ k \in N /\ k # x /\ k # NoKey
      BY <1>1, <1>2, <1>5, <2>2
    <3>2. CASE k = T.root
      <4>1. p # NoKey /\ A.root = T.root
        BY <1>1, <1>5, <3>1, <3>2
      <4>2. Parent(T, k) = NoKey
        BY <3>1, <3>2 DEF Linked
      <4> QED
        BY <3>1, <3>2, <4>1, <4>2
    <3>3. CASE k # T.root
      <4>1. PICK f \in Dirs: Parent(T, k) \in N /\ Child(T, Parent(T, k), f) = k
        BY <3>1, <3>3 DEF Linked
      <4>2. Parent(T, k) # x
        <5>1. SUFFICES ASSUME Parent(T, k) = x PROVE FALSE
          OBVIOUS
        <5>2. f = e \/ f = Other(e)
          BY DirFacts
        <5> QED
          BY <1>0, <2>2, <3>1, <4>1, <5>1, <5>2
      <4>3. ~(Parent(T, k) = p /\ f = d)
        BY <1>1, <3>1, <4>1
      <4>4. Child(A, Parent(T, k), f) = k /\ Parent(T, k) \in M
        BY <1>2, <1>5, <4>1, <4>2, <4>3
      <4>5. k # A.root
        BY <1>1, <1>5, <2>2, <3>3
      <4> QED
        BY <3>1, <4>4, <4>5
    <3> QED
      BY <3>2, <3>3
  <2> QED
    BY <2>1, <2>2
<1>12. ASSUME NEW k \in M, NEW f \in Dirs
       PROVE  /\ sub2[k] = {k} \cup SubOf(sub2, Child(A, k, f)) \cup SubOf(sub2, Child(A, k, Other(f)))
              /\ k \notin SubOf(sub2, Child(A, k, f))
              /\ SubOf(sub2, Child(A, k, f)) \cap SubOf(sub2, Child(A, k, Other(f))) = {}
  <2>1. Other(f) \in Dirs /\ k \in N /\ k # x
    BY <1>2, DirFacts
  <2>2. /\ sub[k] = {k} \cup SubOf(sub, Child(T, k, f)) \cup SubOf(sub, Child(T, k, Other(f)))
        /\ k \notin SubOf(sub, Child(T, k, f))
        /\ SubOf(sub, Child(T, k, f)) \cap SubOf(sub, Child(T, k, Other(f))) = {}
    BY <2>1 DEF Linked
  <2>3. /\ SubOf(sub2, Child(A, k, f)) = SubOf(sub, Child(T, k, f)) \ {x}
        /\ SubOf(sub2, Child(A, k, Other(f))) = SubOf(sub, Child(T, k, Other(f))) \ {x}
    BY <1>8, <2>1
  <2> QED
    BY <1>4, <2>1, <2>2, <2>3
<1>13. Linked(A, M, sub2)
  <2>1. A \in Trees /\ M \subseteq TreeKey
    BY <1>1, <1>2, <1>5
  <2> QED
    BY <1>4, <1>9, <1>10, <1>11, <1>12, <2>1 DEF Linked
<1>14. Ordered(A, M, sub2, NoKey)
  <2>1. \A k \in N \ {x}, f \in Dirs: \A y \in SubOf(sub, Child(T, k, f)) \ {x}: Before(f, y, k)
    BY DEF Ordered
  <2> QED
    BY <1>2, <1>8, <2>1 DEF Ordered
<1> QED
  BY <1>2, <1>13, <1>14 DEF Shape

\* The black nodes when x is gone: a child took its place and its colour, or the paths
\* through its place lack a black node.
RemovedBlacks(A, T, N, x, p, d, c) ==
  /\ Calm(A, N \ {x}, {})
  /\ c # NoKey \/ Red(T, x) \/ p = NoKey => Even(A, N \ {x}, NoKey, Left)
  /\ ~(c # NoKey \/ Red(T, x)) /\ p # NoKey => Even(A, N \ {x}, p, d)

LEMMA RemovedEven ==
  ASSUME NEW T, NEW N, NEW sub, NEW x \in N, Linked(T, N, sub), Even(T, N, NoKey, Left), Calm(T, N, {}),
         NEW p, p = Parent(T, x), NEW d, d = DirOf(T, p, x),
         NEW c, OnlyChild(T, x, c), NEW A, Removed(A, T, x, p, d, c)
  PROVE  RemovedBlacks(A, T, N, x, p, d, c)
<1>0. PICK e \in Dirs: c = Child(T, x, e) /\ Child(T, x, Other(e)) = NoKey
  BY DEF OnlyChild
<1>1. /\ T \in Trees /\ N \in SUBSET TreeKey /\ NoKey \notin N /\ p \in N \cup {NoKey}
      /\ c \in (N \cup {NoKey}) \ {x} /\ (p # NoKey => d \in Dirs /\ Child(T, p, d) = x /\ p # x)
      /\ \A k \in N, f \in Dirs: Child(T, k, f) \in (N \cup {NoKey}) \ {k}
      /\ (c # NoKey => Parent(T, c) = x) /\ Other(e) \in Dirs
  <2>1. T \in Trees /\ N \in SUBSET TreeKey /\ NoKey \notin N /\ p \in N \cup {NoKey}
        /\ \A k \in N, f \in Dirs: Child(T, k, f) \in (N \cup {NoKey}) \ {k}
    BY LinkFacts
  <2>2. p # NoKey => d \in Dirs /\ Child(T, p, d) = x /\ p # x
    BY DirOfIs
  <2>3. c # NoKey => Parent(T, c) = x
    BY <1>0 DEF Linked
  <2> QED
    BY <1>0, <2>1, <2>2, <2>3, DirFacts
<1>2. PICK M: M = N \ {x}
  OBVIOUS
<1>3. /\ A \in Trees
      /\ \A k \in M, f \in Dirs: Child(A, k, f) = IF k = p /\ f = d THEN c ELSE Child(T, k, f)
      /\ \A k \in N: Red(A, k) <=> (k # c /\ Red(T, k))
  BY <1>1, <1>2 DEF Removed
<1>4. ~Red(A, NoKey) /\ ~Red(T, NoKey)
  BY <1>1, <1>3, RedIs
<1>5. \A k, j \in N, f, g \in Dirs: Child(T, k, f) = Child(T, j, g) /\ Child(T, k, f) # NoKey => k = j /\ f = g
  BY OnePlace
<1>6. ASSUME NEW k \in M, NEW f \in Dirs, ~(k = p /\ f = d)
      PROVE  Child(A, k, f) = Child(T, k, f) /\ Child(T, k, f) \in M \cup {NoKey}
  <2>1. Child(T, k, f) # x
    <3>1. SUFFICES ASSUME Child(T, k, f) = x PROVE FALSE
      OBVIOUS
    <3>2. x # NoKey /\ k \in N
      BY <1>1, <1>2
    <3>3. p = k
      BY <3>1, <3>2 DEF Linked
    <3> QED
      BY <1>1, <1>5, <1>6, <3>1, <3>2, <3>3
  <2> QED
    BY <1>1, <1>2, <1>3, <1>6, <2>1
<1>7. Calm(A, M, {})
  <2>1. SUFFICES ASSUME NEW k \in M, Red(A, k), NEW f \in Dirs, Red(A, Child(A, k, f)) PROVE FALSE
    BY ViolationIs DEF Calm
  <2>2. k \in N /\ Red(T, k)
    BY <1>2, <1>3, <2>1
  <2>3. CASE k = p /\ f = d
    <3>1. Child(A, k, f) = c
      BY <1>3, <2>1, <2>3
    <3> QED
      BY <1>1, <1>3, <1>4, <2>1, <3>1
  <2>4. CASE ~(k = p /\ f = d)
    <3>1. Child(A, k, f) = Child(T, k, f) /\ Child(T, k, f) \in M \cup {NoKey}
      BY <1>6, <2>4
    <3>2. Red(T, Child(T, k, f))
      BY <1>2, <1>3, <1>4, <2>1, <3>1
    <3> QED
      BY <2>2, <3>2, ViolationIs DEF Calm
  <2> QED
    BY <2>3, <2>4
<1>8. PICK bh: Balanced(T, N, bh, NoKey, Left)
  BY DEF Even
<1>9. /\ bh \in [N -> Nat]
      /\ \A k \in N, f \in Dirs: bh[k] = BhOf(bh, Child(T, k, f)) + Lack(k, f, NoKey, Left) + Black(T, k)
  BY <1>8 DEF Balanced
<1>10. \A k \in N, f \in Dirs: bh[k] = BhOf(bh, Child(T, k, f)) + Black(T, k)
  <2>1. SUFFICES ASSUME NEW k \in N, NEW f \in Dirs PROVE bh[k] = BhOf(bh, Child(T, k, f)) + Black(T, k)
    OBVIOUS
  <2>2. PICK w, l, b: w = BhOf(bh, Child(T, k, f)) /\ l = Lack(k, f, NoKey, Left) /\ b = Black(T, k)
    OBVIOUS
  <2>3. w \in Nat /\ l = 0 /\ b \in Nat
    <3>1. w \in Nat
      BY <1>1, <1>9, <2>2, BhFacts
    <3>2. l = 0
      BY <1>1, <2>2 DEF Lack
    <3> QED
      BY <2>2, <3>1, <3>2 DEF Black
  <2>4. bh[k] = w + l + b
    BY <1>9, <2>2
  <2> QED
    BY <2>2, <2>3, <2>4
<1>11. bh[x] = Black(T, x)
  <2>1. bh[x] = BhOf(bh, Child(T, x, Other(e))) + Black(T, x)
    BY <1>1, <1>10
  <2>2. BhOf(bh, Child(T, x, Other(e))) = 0 /\ Black(T, x) \in Nat
    BY <1>0 DEF BhOf, Black
  <2> QED
    BY <2>1, <2>2
<1>12. BhOf(bh, c) = 0
  <2>1. bh[x] = BhOf(bh, c) + Black(T, x) /\ BhOf(bh, c) \in Nat /\ Black(T, x) \in Nat
    BY <1>0, <1>1, <1>9, <1>10, BhFacts DEF Black
  <2> QED
    BY <1>11, <2>1
<1>13. c # NoKey => Red(T, c) /\ ~Red(T, x)
  <2>1. SUFFICES ASSUME c # NoKey PROVE Red(T, c) /\ ~Red(T, x)
    OBVIOUS
  <2>2. c \in N /\ bh[c] = 0
    BY <1>1, <1>12, <2>1 DEF BhOf
  <2>3. bh[c] = BhOf(bh, Child(T, c, Left)) + Black(T, c) /\ BhOf(bh, Child(T, c, Left)) \in Nat /\ Black(T, c) \in Nat
    BY <1>1, <1>9, <1>10, <2>2, KeyFacts, BhFacts DEF Black
  <2>4. Black(T, c) = 0
    BY <2>2, <2>3
  <2>5. Red(T, c)
    <3>1. c \in TreeKey /\ T \in Trees
      BY <1>1, <2>2
    <3>2. ~Red(T, c) => Black(T, c) = 1
      BY ONLY <3>1, RedIs
    <3> QED
      BY <2>4, <3>2
  <2> QED
    BY <1>0, <2>5, ViolationIs DEF Calm
<1>14. PICK bg: bg = [k \in M |-> IF k = c THEN 1 ELSE bh[k]]
  OBVIOUS
<1>15. bg \in [M -> Nat] /\ (c # NoKey => bg[c] = 1) /\ \A k \in M \ {c}: bg[k] = bh[k]
  BY <1>1, <1>2, <1>9, <1>14
<1>16. /\ \A k \in M \cup {NoKey}: k # c => BhOf(bg, k) = BhOf(bh, k)
       /\ BhOf(bg, c) = IF c = NoKey THEN 0 ELSE 1
  BY <1>15 DEF BhOf
<1>17. /\ \A k \in M \ {c}: Black(A, k) = Black(T, k)
       /\ c # NoKey => Black(A, c) = 1 /\ Black(T, c) = 0
       /\ \A k \in N: Black(T, k) \in {0, 1}
       /\ Black(T, x) = IF Red(T, x) THEN 0 ELSE 1
  <2>1. \A k \in N: /\ (Red(T, k) => Black(T, k) = 0) /\ (~Red(T, k) => Black(T, k) = 1)
    BY <1>1, RedIs
  <2>2. \A k \in N: /\ (Red(A, k) => Black(A, k) = 0) /\ (~Red(A, k) => Black(A, k) = 1)
    BY <1>1, <1>3, RedIs
  <2>3. \A k \in M \ {c}: Black(A, k) = Black(T, k)
    BY <1>2, <1>3, <2>1, <2>2
  <2>4. c # NoKey => Black(A, c) = 1 /\ Black(T, c) = 0
    BY <1>1, <1>3, <1>13, <2>1, <2>2
  <2> QED
    BY <2>1, <2>3, <2>4
\* what is left is even, but for the place of x
<1>18. ASSUME NEW p0, NEW d0,
              p # NoKey => Lack(p, d, p0, d0) = IF c = NoKey /\ ~Red(T, x) THEN 1 ELSE 0,
              \A k \in M, f \in Dirs: ~(k = p /\ f = d) => Lack(k, f, p0, d0) = 0
       PROVE  Even(A, M, p0, d0)
  <2>1. ASSUME NEW k \in M, NEW f \in Dirs
        PROVE  bg[k] = BhOf(bg, Child(A, k, f)) + Lack(k, f, p0, d0) + Black(A, k)
    <3>1. PICK a, w, z, l, b0, b1, h0, h1: /\ a = Child(T, k, f) /\ w = BhOf(bh, a) /\ z = BhOf(bg, Child(A, k, f))
                                           /\ l = Lack(k, f, p0, d0) /\ b0 = Black(T, k) /\ b1 = Black(A, k)
                                           /\ h0 = bh[k] /\ h1 = bg[k]
      OBVIOUS
    <3>2. /\ k \in N /\ k # x /\ a \in (N \cup {NoKey}) \ {k} /\ w \in Nat /\ h0 \in Nat /\ b0 \in {0, 1}
          /\ h0 = w + b0
      BY <1>1, <1>2, <1>9, <1>10, <1>17, <3>1, BhFacts
    <3>3. CASE k = p /\ f = d
      <4>1. Child(A, k, f) = c /\ a = x /\ k # NoKey /\ k # c
        <5>1. k # c
          <6>1. SUFFICES ASSUME c = p PROVE FALSE
            BY <3>3
          <6>2. c # NoKey /\ Parent(T, x) = c /\ c \in N /\ Parent(T, c) = x
            BY <1>1, <3>2, <3>3, <6>1
          <6>3. x # NoKey /\ sub[x] \subseteq sub[c] \ {c} /\ sub[c] \subseteq sub[x] \ {x} /\ x \in sub[x]
            BY <1>1, <6>2, DirOfIs, LinkFacts
          <6> QED
            BY <6>3
        <5> QED
          BY <1>1, <1>3, <3>1, <3>2, <3>3, <5>1
      <4>2. z = (IF c = NoKey THEN 0 ELSE 1) /\ w = Black(T, x) /\ h1 = h0 /\ b1 = b0
        <5>1. BhOf(bh, x) = bh[x]
          BY <1>1 DEF BhOf
        <5> QED
          BY <1>11, <1>15, <1>16, <1>17, <3>1, <4>1, <5>1
      <4>3. l = IF c = NoKey /\ ~Red(T, x) THEN 1 ELSE 0
        BY <1>18, <3>1, <3>3, <4>1
      <4>4. w = z + l
        BY <1>13, <1>17, <4>2, <4>3
      <4>5. z \in Nat /\ l \in Nat
        BY <4>2, <4>3
      <4> QED
        BY <3>1, <3>2, <4>2, <4>4, <4>5
    <3>4. CASE ~(k = p /\ f = d)
      <4>1. Child(A, k, f) = a /\ a \in M \cup {NoKey} /\ l = 0
        BY <1>6, <1>18, <3>1, <3>4
      <4>2. CASE k = c
        <5>1. h1 = 1 /\ b1 = 1 /\ h0 = 0 /\ a # c
          <6>1. c # NoKey /\ bh[c] = 0
            BY <1>1, <1>12, <3>2, <4>2 DEF BhOf
          <6> QED
            BY <1>15, <1>17, <3>1, <3>2, <4>2, <6>1
        <5>2. z = w /\ w = 0
          BY <1>16, <3>1, <3>2, <4>1, <5>1
        <5> QED
          BY <3>1, <4>1, <5>1, <5>2
      <4>3. CASE k # c
        <5>1. h1 = h0 /\ b1 = b0
          BY <1>15, <1>17, <3>1, <4>3
        <5>2. a # c \/ a = NoKey
          <6>1. SUFFICES ASSUME a = c, a # NoKey PROVE FALSE
            OBVIOUS
          <6>2. k = x
            BY <1>0, <1>5, <3>1, <3>2, <6>1
          <6> QED
            BY <3>2, <6>2
        <5>3. z = w
          <6>1. BhOf(bg, NoKey) = 0 /\ BhOf(bh, NoKey) = 0
            BY DEF BhOf
          <6> QED
            BY <1>16, <3>1, <4>1, <5>2, <6>1
        <5>4. h1 = z + l + b1
          BY <3>2, <4>1, <5>1, <5>3
        <5> QED
          BY <3>1, <5>4
      <4> QED
        BY <4>2, <4>3
    <3> QED
      BY <3>3, <3>4
  <2>2. Balanced(A, M, bg, p0, d0)
    BY <1>15, <2>1 DEF Balanced
  <2> QED
    BY <2>2 DEF Even
<1>19. ASSUME c # NoKey \/ Red(T, x) \/ p = NoKey PROVE Even(A, M, NoKey, Left)
  <2>1. \A k \in M, f \in Dirs: Lack(k, f, NoKey, Left) = 0
    BY <1>1, <1>2 DEF Lack
  <2>2. p # NoKey => Lack(p, d, NoKey, Left) = IF c = NoKey /\ ~Red(T, x) THEN 1 ELSE 0
    BY <1>19 DEF Lack
  <2> QED
    BY <1>18, <2>1, <2>2
<1>20. ASSUME ~(c # NoKey \/ Red(T, x)), p # NoKey PROVE Even(A, M, p, d)
  <2>1. \A k \in M, f \in Dirs: ~(k = p /\ f = d) => Lack(k, f, p, d) = 0
    BY DEF Lack
  <2>2. Lack(p, d, p, d) = IF c = NoKey /\ ~Red(T, x) THEN 1 ELSE 0
    BY <1>20 DEF Lack
  <2> QED
    BY <1>18, <2>1, <2>2
<1> QED
  BY <1>2, <1>7, <1>19, <1>20 DEF RemovedBlacks

\* Only the nodes of a tree matter.
Agree(R, T, N) == R \in Trees /\ R.root = T.root /\ \A k \in N: R.n[k] = T.n[k]

LEMMA AgreeRb ==
  ASSUME NEW T, NEW N, RbTree(T, N), NEW R, Agree(R, T, N)
  PROVE  RbTree(R, N)
<1>1. /\ T \in Trees /\ R \in Trees /\ N \in SUBSET TreeKey /\ NoKey \notin N
      /\ \A k \in N, f \in Dirs: Child(T, k, f) \in N \cup {NoKey}
  BY ShapeFacts DEF RbTree, Agree
<1>2. \A k \in N: Parent(R, k) = Parent(T, k) /\ \A f \in Dirs: Child(R, k, f) = Child(T, k, f)
  BY DEF Agree, Parent, Child
<1>3. \A k \in N \cup {NoKey}: Red(R, k) <=> Red(T, k)
  BY DEF Agree, Red
<1>4. Shape(R, N)
  <2>1. PICK sub: Linked(T, N, sub) /\ Ordered(T, N, sub, NoKey)
    BY DEF RbTree, Shape
  <2>2. /\ N \subseteq TreeKey /\ sub \in [N -> SUBSET N] /\ R \in Trees /\ R.root = T.root
        /\ IF R.root = NoKey THEN N = {} ELSE R.root \in N /\ sub[R.root] = N
    BY <2>1 DEF Linked, Agree
  <2>3. \A k \in N, d \in Dirs:
          Child(R, k, d) # NoKey => Child(R, k, d) \in N /\ Parent(R, Child(R, k, d)) = k
    BY <1>2, <2>1 DEF Linked
  <2>4. \A k \in N: IF k = R.root THEN Parent(R, k) = NoKey
                    ELSE Parent(R, k) \in N /\ \E d \in Dirs: Child(R, Parent(R, k), d) = k
    BY <1>2, <2>1, <2>2 DEF Linked
  <2>5. \A k \in N, d \in Dirs: Child(R, k, d) = Child(T, k, d) /\ Child(R, k, Other(d)) = Child(T, k, Other(d))
    BY <1>2, DirFacts
  <2>6. \A k \in N, d \in Dirs:
          /\ sub[k] = {k} \cup SubOf(sub, Child(R, k, d)) \cup SubOf(sub, Child(R, k, Other(d)))
          /\ k \notin SubOf(sub, Child(R, k, d))
          /\ SubOf(sub, Child(R, k, d)) \cap SubOf(sub, Child(R, k, Other(d))) = {}
    BY <2>1, <2>5 DEF Linked
  <2>7. Linked(R, N, sub)
    BY <2>2, <2>3, <2>4, <2>6 DEF Linked
  <2>8. Ordered(R, N, sub, NoKey)
    BY <2>1, <2>5 DEF Ordered
  <2> QED
    BY <2>7, <2>8 DEF Shape
<1>5. Even(R, N, NoKey, Left)
  <2>1. PICK bh: Balanced(T, N, bh, NoKey, Left)
    BY DEF RbTree, Even
  <2>2. \A k \in N: Black(R, k) = Black(T, k)
    BY DEF Agree, Black
  <2>3. Balanced(R, N, bh, NoKey, Left)
    BY <1>2, <2>1, <2>2 DEF Balanced
  <2> QED
    BY <2>3 DEF Even
<1>6. Calm(R, N, {})
  <2>1. SUFFICES ASSUME NEW k \in N, Red(R, k), NEW f \in Dirs, Red(R, Child(R, k, f)) PROVE FALSE
    BY ViolationIs DEF Calm
  <2>2. Red(T, k) /\ Red(T, Child(T, k, f))
    BY <1>1, <1>2, <1>3, <2>1
  <2> QED
    BY <2>2, ViolationIs DEF RbTree, Calm
<1> QED
  BY <1>4, <1>5, <1>6 DEF RbTree

\* R is a red-black tree of the nodes of T without x.
Without(R, T, N, x) ==
  /\ RbTree(R, N \ {x}) /\ Clean(R, N \ {x}) /\ R \in Trees
  /\ \A k \in N \ {x}: R.n[k].value = T.n[k].value

LEMMA EraseOneChildIs ==
  ASSUME NEW T, NEW N, NEW sub, NEW x \in N, Linked(T, N, sub), Ordered(T, N, sub, x), Clean(T, N),
         Even(T, N, NoKey, Left), Calm(T, N, {}), \E f \in Dirs: Child(T, x, f) = NoKey,
         NEW R, R = EraseOneChild(T, x)
  PROVE  Without(R, T, N, x)
<1>1. PICK p, d, c, M: /\ p = Parent(T, x) /\ d = DirOf(T, p, x) /\ M = N \ {x}
                       /\ c = IF Child(T, x, Left) # NoKey THEN Child(T, x, Left) ELSE Child(T, x, Right)
  OBVIOUS
<1>2. /\ T \in Trees /\ N \subseteq TreeKey /\ NoKey \notin N /\ p \in (N \cup {NoKey}) \ {x}
      /\ c \in N \cup {NoKey} /\ c # x /\ x \in TreeKey /\ NoKey \in Keys0 /\ N \subseteq Keys0
  <2>1. T \in Trees /\ N \subseteq TreeKey /\ NoKey \notin N /\ p \in N \cup {NoKey} /\ c \in N \cup {NoKey} /\ c # x
    BY <1>1, LinkFacts, KeyFacts
  <2>2. p # x
    BY <1>1, <2>1, DirOfIs
  <2> QED
    BY <2>1, <2>2, KeyFacts
<1>3. OnlyChild(T, x, c)
  <2>1. Dirs = {Left, Right} /\ Other(Left) = Right /\ Other(Right) = Left
    BY DirFacts DEF Dirs
  <2> QED
    BY <1>1, <2>1 DEF OnlyChild
<1>4. PICK A: A = Unhook(T, p, x, c)
  OBVIOUS
<1>5. Removed(A, T, x, p, d, c)
  BY <1>1, <1>2, <1>4, UnhookIs
<1>6. Shape(A, M)
  BY <1>1, <1>3, <1>5, RemovedShape
<1>7. /\ Calm(A, M, {})
      /\ c # NoKey \/ Red(T, x) \/ p = NoKey => Even(A, M, NoKey, Left)
      /\ ~(c # NoKey \/ Red(T, x)) /\ p # NoKey => Even(A, M, p, d)
  <2>1. RemovedBlacks(A, T, N, x, p, d, c)
    BY <1>1, <1>3, <1>5, RemovedEven
  <2> QED
    BY <1>1, <2>1 DEF RemovedBlacks
<1>8. PICK B: B = RecalcUp(A, p)
  OBVIOUS
<1>9. Alike(B, A) /\ SameReds(B, A) /\ A \in Trees
  BY <1>2, <1>5, <1>8, RecalcUpIs, KeyFacts DEF Removed
<1>10. /\ Shape(B, M) /\ Calm(B, M, {})
       /\ \A p0, d0: Even(A, M, p0, d0) => Even(B, M, p0, d0)
  BY <1>6, <1>7, <1>9, AlikeRb
<1>11. PICK C: C = IF p # NoKey /\ c = NoKey /\ ~Red(T, x) THEN Rebalance(B, NoKey, p, d) ELSE B
  OBVIOUS
<1>12. RbTree(C, M) /\ Kept(C, B, M)
  <2>1. CASE p # NoKey /\ c = NoKey /\ ~Red(T, x)
    <3>1. Child(B, p, d) = NoKey
      <4>1. d \in Dirs
        BY <1>1, KeyFacts DEF DirOf
      <4>2. Child(A, p, d) = c
        BY <1>2, <1>5, <2>1, <4>1 DEF Removed
      <4>3. p \in TreeKey
        BY <1>2, <2>1
      <4> QED
        BY <1>9, <2>1, <4>1, <4>2, <4>3 DEF Alike, SameChildren
    <3>2. ~Red(B, NoKey) /\ d \in Dirs
      BY <1>1, KeyFacts DEF Red, DirOf
    <3>3. BlackReady(B, M, NoKey, p, d)
      BY <1>1, <1>2, <1>7, <1>10, <2>1, <3>1, <3>2 DEF BlackReady
    <3>4. C = Rebalance(B, NoKey, p, d)
      BY <1>11, <2>1
    <3> QED
      BY <3>3, <3>4, RebalanceIs
  <2>2. CASE ~(p # NoKey /\ c = NoKey /\ ~Red(T, x))
    <3>1. C = B /\ Even(B, M, NoKey, Left)
      BY <1>7, <1>10, <1>11, <2>2
    <3>2. Kept(B, B, M)
      BY <1>9 DEF Kept, Alike, SameValues
    <3> QED
      BY <1>10, <3>1, <3>2 DEF RbTree
  <2> QED
    BY <2>1, <2>2
<1>13. R = [C EXCEPT !.n[x] = Unused]
  BY <1>1, <1>4, <1>8, <1>11 DEF EraseOneChild, Unhook
<1>14. Written(C, x, Unused, R)
  BY <1>13 DEF Written
<1>15. /\ R \in Trees /\ R.root = C.root /\ R.n[x] = Unused /\ \A k \in TreeKey \ {x}: R.n[k] = C.n[k]
       /\ \A f \in Dirs: Unused.child[f] = NoKey
  <2>1. Unused \in Nodes /\ \A f \in Dirs: Unused.child[f] = NoKey
    <3>1. 0 \in Int
      OBVIOUS
    <3> QED
      BY <3>1, LeafIs
  <2>2. C \in Trees
    BY <1>12 DEF Kept
  <2> QED
    BY <1>2, <1>14, <2>1, <2>2, NodeIs
<1>16. RbTree(R, M)
  <2>1. Agree(R, C, M)
    BY <1>1, <1>2, <1>15 DEF Agree
  <2> QED
    BY <1>12, <2>1, AgreeRb
<1>17. Clean(R, M)
  <2>1. SUFFICES ASSUME NEW k \in TreeKey \ M, NEW f \in Dirs PROVE Child(R, k, f) = NoKey
    BY DEF Clean
  <2>2. CASE k = x
    BY <1>15, <2>2 DEF Child
  <2>3. CASE k # x
    <3>1. k \in TreeKey \ N /\ k # p
      BY <1>1, <1>2, <2>3, KeyFacts
    <3>2. Child(R, k, f) = Child(C, k, f)
      BY <1>15, <2>3 DEF Child
    <3>3. Child(C, k, f) = Child(A, k, f)
      BY <1>9, <1>12 DEF Kept, Alike, SameChildren
    <3>4. Child(A, k, f) = Child(T, k, f)
      BY <1>5, <3>1 DEF Removed
    <3> QED
      BY <3>1, <3>2, <3>3, <3>4 DEF Clean
  <2> QED
    BY <2>2, <2>3
<1>18. ASSUME NEW k \in M PROVE R.n[k].value = T.n[k].value
  <2>1. k \in TreeKey /\ k # x
    BY <1>1, <1>2
  <2> QED
    BY <1>5, <1>9, <1>12, <1>15, <2>1 DEF Kept, Alike, SameValues, Removed
<1> QED
  BY <1>1, <1>15, <1>16, <1>17, <1>18 DEF Without

-----------------------------------------------------------------------------
(* Removal of a node that may have two children: it first changes places with the one *)
(* before it, the last of its left subtree.                                           *)

LEMMA ExtremeIs ==
  ASSUME NEW T, NEW N, NEW sub, Linked(T, N, sub), Ordered(T, N, sub, NoKey),
         NEW l \in N, NEW d \in Dirs, NEW r, r = Extreme(T, l, d)
  PROVE  /\ r \in N /\ r \in sub[l] /\ Child(T, r, d) = NoKey
         /\ \A y \in sub[l] \ {r}: Before(Other(d), y, r)
<1>1. /\ T \in Trees /\ N \subseteq TreeKey /\ NoKey \notin N /\ sub \in [N -> SUBSET N] /\ IsFiniteSet(TreeKey)
      /\ Other(d) \in Dirs
  <2>1. T \in Trees /\ N \subseteq TreeKey /\ sub \in [N -> SUBSET N]
    BY DEF Linked
  <2> QED
    BY <2>1, KeyFacts, DirFacts, TreeAssumption DEF TreeAssumption
<1>2. \A j \in N, f \in Dirs: \A z \in SubOf(sub, Child(T, j, f)): Before(f, z, j) /\ z \in N
  <2>1. \A j \in N, f \in Dirs: SubOf(sub, Child(T, j, f)) \subseteq N
    BY <1>1, LinkFacts
  <2> QED
    BY <1>1, <2>1 DEF Ordered
<1> DEFINE step == [y \in Keys0 |-> IF y = NoKey \/ Child(T, y, d) = NoKey THEN y ELSE Child(T, y, d)]
           I == {z \in sub[l]: \A y \in sub[l]: y \in sub[z] \/ Before(Other(d), y, z)}
           rank == [z \in I |-> Cardinality(TreeKey) - Cardinality(sub[z])]
<1>3. l \in I
  BY LinkFacts
<1>4. \A z \in I: z \in N /\ z \in TreeKey /\ z \in Keys0 /\ z # NoKey
  BY <1>1, KeyFacts
<1>5. ASSUME NEW z \in I, NEW c, c = Child(T, z, d), c # NoKey
      PROVE  c \in N /\ c \in sub[z] /\ c \in I /\ step[z] = c
  <2>1. z \in N /\ z \in Keys0 /\ z # NoKey
    BY <1>4
  <2>2. c \in N /\ c \in sub[c] /\ sub[c] \subseteq sub[z] /\ SubOf(sub, c) = sub[c]
    BY <1>5, <2>1, LinkFacts DEF SubOf
  <2>3. c \in sub[l]
    <3>1. sub[z] \subseteq sub[l]
      BY SubFacts
    <3> QED
      BY <2>2, <3>1
  <2>4. Before(d, c, z) /\ Before(Other(d), z, c)
    <3>1. Before(d, c, z)
      BY <1>2, <1>5, <2>1, <2>2
    <3> QED
      BY <1>1, <2>1, <2>2, <3>1, BeforeFacts, DirFacts
  <2>5. ASSUME NEW y \in sub[l] PROVE y \in sub[c] \/ Before(Other(d), y, c)
    <3>1. y \in N
      BY <1>1
    <3>2. Before(Other(d), y, z) => Before(Other(d), y, c)
      BY <1>1, <2>1, <2>2, <2>4, <3>1, BeforeFacts
    <3>3. y \in sub[z] => y = z \/ y \in sub[c] \/ y \in SubOf(sub, Child(T, z, Other(d)))
      <4>1. sub[z] = {z} \cup SubOf(sub, Child(T, z, d)) \cup SubOf(sub, Child(T, z, Other(d)))
        BY <2>1 DEF Linked
      <4> QED
        BY <1>5, <2>2, <4>1
    <3>4. y \in SubOf(sub, Child(T, z, Other(d))) => Before(Other(d), y, z)
      BY <1>1, <1>2, <2>1
    <3> QED
      BY <2>4, <3>2, <3>3, <3>4
  <2>6. c \in I
    BY <2>3, <2>5
  <2> QED
    BY <1>5, <2>1, <2>2, <2>6
<1>6. \A z \in I: Child(T, z, d) = NoKey => step[z] = z
  BY <1>4
<1>7. \A z \in I: step[z] \in I
  BY <1>5, <1>6
<1>8. \A z \in N: Cardinality(sub[z]) \in 0 .. Cardinality(TreeKey) /\ IsFiniteSet(sub[z])
  <2>1. \A z \in N: sub[z] \subseteq TreeKey
    BY <1>1
  <2> QED
    BY <1>1, <2>1, FS_Subset, FS_CardinalityType
<1>9. \A z \in I: rank[z] \in 0 .. Cardinality(TreeKey)
  <2>1. \A z \in I: rank[z] = Cardinality(TreeKey) - Cardinality(sub[z])
    OBVIOUS
  <2> HIDE DEF rank, I
  <2> QED
    BY <1>4, <1>8, <2>1, LastIsNat
<1>10. \A z \in I: step[z] = z \/ rank[step[z]] > rank[z]
  <2>1. SUFFICES ASSUME NEW z \in I, step[z] # z PROVE rank[step[z]] > rank[z]
    OBVIOUS
  <2>2. PICK c: c = Child(T, z, d)
    OBVIOUS
  <2>3. c \in N /\ c \in I /\ z \in N /\ c # NoKey /\ step[z] = c
    BY <1>4, <1>5, <1>6, <2>1, <2>2
  <2>4. sub[c] \subseteq sub[z] \ {z} /\ z \in sub[z]
    BY <2>2, <2>3, LinkFacts
  <2>5. sub[c] \in SUBSET sub[z] /\ sub[c] # sub[z]
    BY <2>4
  <2>6. Cardinality(sub[c]) <= Cardinality(sub[z]) /\ Cardinality(sub[c]) # Cardinality(sub[z])
    BY <1>8, <2>3, <2>5, FS_Subset
  <2>7. rank[c] = Cardinality(TreeKey) - Cardinality(sub[c]) /\ rank[z] = Cardinality(TreeKey) - Cardinality(sub[z])
    BY <2>3
  <2> HIDE DEF step, rank
  <2> QED
    BY <1>8, <2>3, <2>6, <2>7, LastIsNat
<1>11. r = Loop(step, l)
  BY DEF Extreme
<1> HIDE DEF I, step, rank
<1>12. r \in I /\ step[r] = r
  BY <1>3, <1>7, <1>9, <1>10, <1>11, LoopEnds
<1>13. Child(T, r, d) = NoKey
  <2>1. Child(T, r, d) # r
    BY <1>4, <1>12, LinkFacts
  <2> QED
    BY <1>5, <1>12, <2>1
<1>14. r \in N /\ r \in sub[l] /\ \A y \in sub[l]: y \in sub[r] \/ Before(Other(d), y, r)
  BY <1>4, <1>12 DEF I
<1>15. \A y \in sub[r] \ {r}: Before(Other(d), y, r)
  <2>1. sub[r] = {r} \cup SubOf(sub, Child(T, r, d)) \cup SubOf(sub, Child(T, r, Other(d)))
    BY <1>14 DEF Linked
  <2> QED
    BY <1>1, <1>2, <1>13, <1>14, <2>1 DEF SubOf
<1> QED
  BY <1>13, <1>14, <1>15

ColorSizeSwapped(R, T, x, y) ==
  /\ R \in Trees /\ R.root = T.root /\ SameValues(R, T) /\ SameChildren(R, T) /\ SameParents(R, T)
  /\ R.n[x].red = T.n[y].red /\ R.n[y].red = T.n[x].red
  /\ \A k \in TreeKey \ {x, y}: R.n[k].red = T.n[k].red

LEMMA SwapColorSizeIs ==
  ASSUME NEW T \in Trees, NEW x \in TreeKey, NEW y \in TreeKey, x # y, NEW R, R = SwapColorSize(T, x, y)
  PROVE  ColorSizeSwapped(R, T, x, y)
<1>1. PICK mx, my: /\ mx = [T.n[x] EXCEPT !.red = T.n[y].red, !.size = T.n[y].size]
                   /\ my = [T.n[y] EXCEPT !.red = T.n[x].red, !.size = T.n[x].size]
  OBVIOUS
<1>2. T.n[x] \in Nodes /\ T.n[y] \in Nodes
  BY DEF Trees
<1>3. /\ mx \in Nodes /\ mx.red = T.n[y].red /\ mx.value = T.n[x].value /\ mx.parent = T.n[x].parent
      /\ mx.child = T.n[x].child
      /\ my \in Nodes /\ my.red = T.n[x].red /\ my.value = T.n[y].value /\ my.parent = T.n[y].parent
      /\ my.child = T.n[y].child
  BY <1>1, <1>2 DEF Nodes
<1>4. PICK A: A = [T EXCEPT !.n[x] = mx]
  OBVIOUS
<1>5. A \in Trees /\ A.root = T.root /\ A.n[x] = mx /\ \A j \in TreeKey \ {x}: A.n[j] = T.n[j]
  <2>1. Written(T, x, mx, A)
    BY <1>4 DEF Written
  <2> QED
    BY ONLY <1>3, <2>1, NodeIs, T \in Trees, x \in TreeKey
<1>6. R = [A EXCEPT !.n[y] = my]
  <2>1. T = [root |-> T.root, n |-> T.n] /\ T.n \in [TreeKey -> Nodes]
    BY DEF Trees
  <2>2. R = [root |-> T.root, n |-> [T.n EXCEPT ![x] = mx, ![y] = my]]
    <3>1. R.root = T.root /\ R.n = [T.n EXCEPT ![x].red = T.n[y].red, ![y].red = T.n[x].red,
                                               ![x].size = T.n[y].size, ![y].size = T.n[x].size]
          /\ R = [root |-> R.root, n |-> R.n]
      BY <2>1 DEF SwapColorSize
    <3>2. [T.n EXCEPT ![x].red = T.n[y].red, ![y].red = T.n[x].red,
                      ![x].size = T.n[y].size, ![y].size = T.n[x].size] = [T.n EXCEPT ![x] = mx, ![y] = my]
      BY <1>1, <1>2, <2>1 DEF Nodes
    <3> QED
      BY <3>1, <3>2
  <2>3. A = [root |-> T.root, n |-> [T.n EXCEPT ![x] = mx]]
    BY <1>4, <2>1
  <2> QED
    BY <2>2, <2>3
<1>7. R \in Trees /\ R.root = A.root /\ R.n[y] = my /\ \A j \in TreeKey \ {y}: R.n[j] = A.n[j]
  <2>1. Written(A, y, my, R)
    BY <1>6 DEF Written
  <2> QED
    BY ONLY <1>3, <1>5, <2>1, NodeIs, y \in TreeKey
<1>8. R.n[x] = mx /\ \A j \in TreeKey \ {x, y}: R.n[j] = T.n[j]
  BY <1>5, <1>7
<1> QED
  BY <1>3, <1>5, <1>7, <1>8 DEF ColorSizeSwapped, SameValues, SameChildren, SameParents, Child, Parent

\* The nodes around x, which has a left child l, and r, the last node below l.
Spots(T, N, x, r, l, xr, rl, p, d, q, e) ==
  /\ x \in N /\ r \in N /\ l \in N /\ q \in N /\ d \in Dirs /\ e \in Dirs
  /\ xr \in N \cup {NoKey} /\ rl \in N \cup {NoKey} /\ p \in N \cup {NoKey}
  /\ l = Child(T, x, Left) /\ xr = Child(T, x, Right)
  /\ rl = Child(T, r, Left) /\ Child(T, r, Right) = NoKey
  /\ p = Parent(T, x) /\ d = DirOf(T, p, x) /\ q = Parent(T, r) /\ e = DirOf(T, q, r)
  /\ x # r /\ x # l /\ xr \notin {x, r, l} /\ rl \notin {x, r, l} /\ (rl = xr => rl = NoKey)
  /\ p \notin {x, r, l, q} /\ (p # NoKey => p \notin {xr, rl})
  /\ q # r /\ q # xr /\ q # rl /\ (r = l <=> q = x)
  /\ Child(T, q, e) = r /\ (p # NoKey => Child(T, p, d) = x)
  /\ (p = NoKey <=> x = T.root) /\ r # T.root
  /\ Parent(T, l) = x /\ (xr # NoKey => Parent(T, xr) = x) /\ (rl # NoKey => Parent(T, rl) = r)
  /\ \A k \in N, f \in Dirs: Child(T, k, f) = x => k = p /\ f = d
  /\ \A k \in N, f \in Dirs: Child(T, k, f) = r => k = q /\ f = e

LEMMA SpotsIs ==
  ASSUME NEW T, NEW N, NEW sub, Linked(T, N, sub), NEW x \in N, NEW l, l = Child(T, x, Left), l # NoKey,
         NEW r \in sub[l], Child(T, r, Right) = NoKey,
         NEW xr, xr = Child(T, x, Right), NEW rl, rl = Child(T, r, Left), NEW p, p = Parent(T, x),
         NEW d, d = DirOf(T, p, x), NEW q, q = Parent(T, r), NEW e, e = DirOf(T, q, r)
  PROVE  Spots(T, N, x, r, l, xr, rl, p, d, q, e)
<1>1. /\ Left \in Dirs /\ Right \in Dirs /\ Other(Left) = Right /\ d \in Dirs /\ e \in Dirs
      /\ NoKey \notin N
  <2>1. NoKey \notin N
    BY KeyFacts DEF Linked
  <2> QED
    BY <2>1, KeyFacts, DirFacts DEF DirOf
<1>2. /\ l \in N /\ Parent(T, l) = x /\ l # x /\ l \in sub[l] /\ sub[l] \subseteq sub[x] \ {x} /\ sub[l] \subseteq N
      /\ SubOf(sub, l) = sub[l] /\ xr \in N \cup {NoKey} /\ xr # x /\ x \in sub[x] /\ xr # l
      /\ SubOf(sub, xr) \cap sub[l] = {} /\ p \in N \cup {NoKey}
      /\ (xr # NoKey => Parent(T, xr) = x /\ xr \in sub[xr] /\ xr \in SubOf(sub, xr) /\ xr \in sub[x])
  <2>1. /\ l \in N /\ l # x /\ l \in sub[l] /\ sub[l] \subseteq sub[x] \ {x} /\ SubOf(sub, l) = sub[l]
        /\ x \in sub[x] /\ xr \in N \cup {NoKey} /\ xr # x /\ l # xr
        /\ (xr # NoKey => xr \in sub[xr] /\ xr \in SubOf(sub, xr) /\ xr \in sub[x]) /\ p \in N \cup {NoKey}
    BY <1>1, LinkFacts DEF SubOf
  <2>2. SubOf(sub, Child(T, x, Left)) \cap SubOf(sub, Child(T, x, Other(Left))) = {}
    BY <1>1 DEF Linked
  <2>3. Parent(T, l) = x /\ (xr # NoKey => Parent(T, xr) = x)
    BY <1>1 DEF Linked
  <2>4. sub[l] \subseteq N
    BY <2>1, LinkFacts
  <2> QED
    BY <1>1, <2>1, <2>2, <2>3, <2>4
<1>3. /\ r \in N /\ r # x /\ xr # r /\ rl \in N \cup {NoKey} /\ rl # r /\ r \in sub[x] /\ r # NoKey
      /\ (rl # NoKey => rl \in sub[rl] /\ sub[rl] \subseteq sub[r] \ {r} /\ Parent(T, rl) = r /\ rl \in sub[l])
  <2>1. r \in N /\ r # x /\ xr # r /\ r \in sub[x] /\ sub[r] \subseteq sub[l] /\ r # NoKey
    BY <1>1, <1>2, SubFacts
  <2>2. rl \in N \cup {NoKey} /\ rl # r /\ (rl # NoKey => rl \in sub[rl] /\ sub[rl] \subseteq sub[r] \ {r})
    BY <1>1, <2>1, LinkFacts
  <2>3. rl # NoKey => Parent(T, rl) = r
    BY <1>1, <2>1 DEF Linked
  <2> QED
    BY <2>1, <2>2, <2>3
<1>4. rl # x /\ (rl = xr => rl = NoKey) /\ rl # l
  <2>1. rl = l => r = x
    BY <1>2, <1>3, <1>1
  <2> QED
    BY <1>1, <1>2, <1>3, <2>1
<1>5. /\ p = NoKey <=> x = T.root
      /\ p # NoKey => p \in N /\ Child(T, p, d) = x /\ sub[x] \subseteq sub[p] \ {p}
  <2>1. p # NoKey => p \in N /\ Child(T, p, d) = x /\ sub[x] \subseteq sub[p] \ {p} /\ x # T.root
    BY DirOfIs
  <2>2. p = NoKey => x = T.root
    <3>1. x # T.root => Parent(T, x) \in N
      BY DEF Linked
    <3> QED
      BY <1>1, <3>1
  <2> QED
    BY <2>1, <2>2
<1>6. p # NoKey => p \notin sub[x]
  BY <1>5
<1>7. r # T.root
  <2>1. SUFFICES ASSUME r = T.root PROVE FALSE
    OBVIOUS
  <2>2. sub[r] = N
    BY <1>1, <1>3, <2>1 DEF Linked
  <2>3. sub[r] \subseteq sub[l] /\ x \in N
    BY <1>2, SubFacts
  <2> QED
    BY <1>2, <2>2, <2>3
<1>8. q \in N /\ q # r /\ Child(T, q, e) = r /\ sub[r] \subseteq sub[q] \ {q}
  <2>1. q # NoKey
    <3>1. Parent(T, r) \in N
      BY <1>3, <1>7 DEF Linked
    <3> QED
      BY <1>1, <3>1
  <2> QED
    BY <1>3, <2>1, DirOfIs
<1>9. r # l => q \in sub[l]
  <2>1. r # l => Parent(T, r) \in sub[l]
    BY <1>2, SubFacts
  <2> QED
    BY <2>1
<1>10. r = l => q = x
  BY <1>2
<1>11. q # xr /\ q # rl /\ (r = l <=> q = x) /\ q \in sub[x]
  <2>1. xr \notin sub[l] /\ x \notin sub[l]
    BY <1>1, <1>2
  <2>2. rl # q
    <3>1. rl # NoKey => rl \in sub[r]
      BY <1>3
    <3> QED
      BY <1>1, <1>8, <3>1
  <2> QED
    BY <1>2, <1>9, <1>10, <2>1, <2>2
<1>12. p \notin {x, r, l, q} /\ (p # NoKey => p \notin {xr, rl})
  <2>1. x \in sub[x] /\ r \in sub[x] /\ l \in sub[x] /\ q \in sub[x] /\ (xr # NoKey => xr \in sub[x])
        /\ (rl # NoKey => rl \in sub[x])
    BY <1>2, <1>3, <1>11
  <2>2. x # NoKey /\ r # NoKey /\ l # NoKey /\ q # NoKey
    BY <1>1, <1>2, <1>3, <1>8
  <2> QED
    BY <1>6, <2>1, <2>2
<1>13. \A k, j \in N, f, g \in Dirs: Child(T, k, f) = Child(T, j, g) /\ Child(T, k, f) # NoKey => k = j /\ f = g
  BY OnePlace
<1>14. ASSUME NEW k \in N, NEW f \in Dirs, Child(T, k, f) = x PROVE k = p /\ f = d
  <2>1. x # NoKey
    BY <1>1
  <2>2. p = k
    BY <1>14, <2>1 DEF Linked
  <2>3. Child(T, p, d) = x /\ p \in N
    BY <1>1, <1>5, <2>2
  <2> QED
    BY ONLY <1>1, <1>13, <1>14, <2>1, <2>2, <2>3
<1>15. ASSUME NEW k \in N, NEW f \in Dirs, Child(T, k, f) = r PROVE k = q /\ f = e
  BY ONLY <1>1, <1>3, <1>8, <1>13, <1>15
<1> QED
  BY <1>1, <1>2, <1>3, <1>4, <1>5, <1>7, <1>8, <1>11, <1>12, <1>14, <1>15 DEF Spots

\* R is T, in which x and r have changed places and colours.
Exchanged(R, T, x, r, l, xr, rl, p, d, q, e) ==
  /\ R \in Trees /\ SameValues(R, T) /\ R.root = IF p = NoKey THEN r ELSE T.root
  /\ R.n[x].red = T.n[r].red /\ R.n[r].red = T.n[x].red
  /\ \A k \in TreeKey \ {x, r}: R.n[k].red = T.n[k].red
  /\ Child(R, r, Left) = (IF r = l THEN x ELSE l) /\ Child(R, r, Right) = xr
  /\ Child(R, x, Left) = rl /\ Child(R, x, Right) = NoKey
  /\ (p # NoKey => Child(R, p, d) = r) /\ (r # l => Child(R, q, e) = x)
  /\ \A k \in TreeKey \ {x, r}, f \in Dirs:
       ~(k = p /\ f = d) /\ ~(k = q /\ f = e) => Child(R, k, f) = Child(T, k, f)
  /\ Parent(R, r) = p /\ Parent(R, x) = (IF r = l THEN r ELSE q) /\ (r # l => Parent(R, l) = r)
  /\ (xr # NoKey => Parent(R, xr) = r) /\ (rl # NoKey => Parent(R, rl) = x)
  /\ \A k \in TreeKey \ {x, r, l, xr, rl}: Parent(R, k) = Parent(T, k)

\* the root pointer, when x is the root
Crown(T, p, r) == IF p = NoKey THEN [T EXCEPT !.root = r] ELSE T

LEMMA CrownIs ==
  ASSUME NEW T \in Trees, NEW p, NEW r \in TreeKey, NEW T0, T0 = Crown(T, p, r)
  PROVE  /\ T0 \in Trees /\ T0.root = IF p = NoKey THEN r ELSE T.root
         /\ SameValues(T0, T) /\ SameChildren(T0, T) /\ SameParents(T0, T)
         /\ \A k \in TreeKey: T0.n[k].red = T.n[k].red
<1>1. CASE p = NoKey
  <2>1. Rooted(T0, T, r)
    <3>1. r \in Keys0 /\ T0 = [T EXCEPT !.root = r]
      BY <1>1, KeyFacts DEF Crown
    <3> QED
      BY <3>1, SetRootIs
  <2> QED
    BY <1>1, <2>1 DEF Rooted, SameData, SameValues, SameRed
<1>2. CASE p # NoKey
  BY <1>2 DEF Crown, SameValues, SameChildren, SameParents
<1> QED
  BY <1>1, <1>2

\* AssignChild, with the child it replaces.
Assigned(R, T, x, d, y, old) ==
  /\ R \in Trees /\ R.root = T.root /\ SameValues(R, T)
  /\ \A k \in TreeKey: R.n[k].red = T.n[k].red
  /\ \A k \in TreeKey, f \in Dirs: Child(R, k, f) = IF k = x /\ f = d THEN y ELSE Child(T, k, f)
  /\ \A k \in TreeKey: Parent(R, k) = IF k = y THEN x
                                      ELSE IF k = old /\ Parent(T, k) = x THEN NoKey ELSE Parent(T, k)

LEMMA AssignedIs ==
  ASSUME NEW T \in Trees, NEW x \in TreeKey, NEW d \in Dirs, NEW y \in Keys0,
         NEW old, old = Child(T, x, d), NEW R, R = AssignChild(T, x, d, y)
  PROVE  Assigned(R, T, x, d, y, old)
<1>1. ChildAssigned(R, T, x, d, y)
  BY AssignChildIs
<1> QED
  BY <1>1 DEF ChildAssigned, Assigned, SameData, SameRed, SameValues

LEMMA SwapWithChildIs ==
  ASSUME NEW T \in Trees, NEW N \in SUBSET TreeKey, NEW x, NEW r, NEW l, NEW xr, NEW rl, NEW p, NEW d, NEW q, NEW e,
         Spots(T, N, x, r, l, xr, rl, p, d, q, e), r = l,
         NEW R, R = SwapWithChild(Crown(T, p, r), x, r)
  PROVE  Exchanged(R, T, x, r, l, xr, rl, p, d, q, e)
<1>1. /\ Left \in Dirs /\ Right \in Dirs /\ Left # Right /\ d \in Dirs /\ e \in Dirs
      /\ x \in TreeKey /\ r \in TreeKey /\ xr \in Keys0 /\ rl \in Keys0 /\ p \in Keys0 /\ NoKey \in Keys0
      /\ x \in Keys0 /\ r \in Keys0 /\ NoKey \notin TreeKey /\ (p # NoKey => p \in TreeKey)
      /\ (xr # NoKey => xr \in TreeKey) /\ (rl # NoKey => rl \in TreeKey)
      /\ \A f \in Dirs: f = Left \/ f = Right
  <2>1. \A f \in Dirs: f = Left \/ f = Right
    BY DEF Dirs
  <2> QED
    BY <2>1, KeyFacts DEF Spots
<1>2. /\ r = Child(T, x, Left) /\ xr = Child(T, x, Right) /\ rl = Child(T, r, Left) /\ Child(T, r, Right) = NoKey
      /\ p = Parent(T, x) /\ d = DirOf(T, p, x) /\ q = x /\ Parent(T, r) = x
      /\ x # r /\ xr \notin {x, r} /\ rl \notin {x, r} /\ (rl = xr => rl = NoKey)
      /\ p \notin {x, r} /\ (p # NoKey => p \notin {xr, rl}) /\ (p # NoKey => Child(T, p, d) = x)
      /\ Child(T, x, e) = r /\ (xr # NoKey => Parent(T, xr) = x) /\ (rl # NoKey => Parent(T, rl) = r)
      /\ \A f \in Dirs: Child(T, x, f) = r => f = e
  BY <1>1 DEF Spots
<1>3. PICK T0: T0 = Crown(T, p, r)
  OBVIOUS
<1>4. /\ T0 \in Trees /\ T0.root = IF p = NoKey THEN r ELSE T.root
      /\ SameValues(T0, T)
      /\ \A k \in TreeKey: T0.n[k].red = T.n[k].red
      /\ \A k \in TreeKey, f \in Dirs: Child(T0, k, f) = Child(T, k, f)
      /\ \A k \in TreeKey: Parent(T0, k) = Parent(T, k)
  <2>1. /\ T0 \in Trees /\ T0.root = IF p = NoKey THEN r ELSE T.root
        /\ SameValues(T0, T) /\ SameChildren(T0, T) /\ SameParents(T0, T)
        /\ \A k \in TreeKey: T0.n[k].red = T.n[k].red
    BY <1>1, <1>3, CrownIs
  <2> QED
    BY <2>1 DEF SameChildren, SameParents
<1>5. PICK A: A = IF p = NoKey THEN T0 ELSE ReplaceChild(T0, p, x, r)
  OBVIOUS
<1>6. /\ A \in Trees /\ A.root = T0.root /\ SameValues(A, T)
      /\ \A k \in TreeKey: A.n[k].red = T.n[k].red
      /\ \A k \in TreeKey, f \in Dirs: Child(A, k, f) = IF k = p /\ f = d THEN r ELSE Child(T, k, f)
      /\ \A k \in TreeKey \ {x, r}: Parent(A, k) = Parent(T, k)
      /\ Parent(A, r) = IF p = NoKey THEN x ELSE p
  <2>1. CASE p = NoKey
    BY <1>1, <1>2, <1>4, <1>5, <2>1
  <2>2. CASE p # NoKey
    <3>1. DirOf(T0, p, x) = d
      BY <1>1, <1>2, <1>4, <2>2 DEF DirOf
    <3>2. A = AssignChild(T0, p, d, r)
      BY <1>5, <2>2, <3>1 DEF ReplaceChild
    <3>3. ChildAssigned(A, T0, p, d, r)
      BY <1>1, <1>4, <2>2, <3>2, AssignChildIs
    <3>4. Child(T0, p, d) = x
      BY <1>1, <1>2, <1>4, <2>2
    <3> QED
      BY <1>1, <1>2, <1>4, <2>2, <3>3, <3>4 DEF ChildAssigned, SameData, SameRed, SameValues
  <2> QED
    BY <2>1, <2>2
<1>7. PICK B: B = AssignChild(A, r, Left, x)
  OBVIOUS
<1>8. /\ B \in Trees /\ B.root = T0.root /\ SameValues(B, T)
      /\ \A k \in TreeKey: B.n[k].red = T.n[k].red
      /\ \A k \in TreeKey, f \in Dirs: Child(B, k, f) = IF k = r /\ f = Left THEN x
                                                        ELSE IF k = p /\ f = d THEN r ELSE Child(T, k, f)
      /\ \A k \in TreeKey \ {x, r, rl}: Parent(B, k) = Parent(T, k)
      /\ Parent(B, x) = r /\ Parent(B, r) = IF p = NoKey THEN x ELSE p
  <2>1. Child(A, r, Left) = rl
    BY <1>1, <1>2, <1>6
  <2>2. Assigned(B, A, r, Left, x, rl)
    BY <1>1, <1>6, <1>7, <2>1, AssignedIs
  <2>3. B \in Trees /\ B.root = T0.root /\ SameValues(B, T) /\ \A k \in TreeKey: B.n[k].red = T.n[k].red
    BY ONLY <1>6, <2>2 DEF Assigned, SameValues
  <2>4. /\ \A k \in TreeKey, f \in Dirs: Child(B, k, f) = IF k = r /\ f = Left THEN x ELSE Child(A, k, f)
        /\ \A k \in TreeKey: Parent(B, k) = IF k = x THEN r
                                            ELSE IF k = rl /\ Parent(A, k) = r THEN NoKey ELSE Parent(A, k)
    BY ONLY <2>2 DEF Assigned
  <2> QED
    BY ONLY <1>1, <1>2, <1>6, <2>3, <2>4
<1>9. PICK C: C = AssignChild(B, r, Right, xr)
  OBVIOUS
<1>10. /\ C \in Trees /\ C.root = T0.root /\ SameValues(C, T)
       /\ \A k \in TreeKey: C.n[k].red = T.n[k].red
       /\ \A k \in TreeKey, f \in Dirs: Child(C, k, f) = IF k = r THEN (IF f = Left THEN x ELSE xr)
                                                         ELSE IF k = p /\ f = d THEN r ELSE Child(T, k, f)
       /\ \A k \in TreeKey \ {x, r, rl, xr}: Parent(C, k) = Parent(T, k)
       /\ Parent(C, x) = r /\ Parent(C, r) = (IF p = NoKey THEN x ELSE p) /\ (xr # NoKey => Parent(C, xr) = r)
  <2>1. Child(B, r, Right) = NoKey
    BY <1>1, <1>2, <1>8
  <2>2. Assigned(C, B, r, Right, xr, NoKey)
    BY <1>1, <1>8, <1>9, <2>1, AssignedIs
  <2>3. C \in Trees /\ C.root = T0.root /\ SameValues(C, T) /\ \A k \in TreeKey: C.n[k].red = T.n[k].red
    BY ONLY <1>8, <2>2 DEF Assigned, SameValues
  <2>4. /\ \A k \in TreeKey, f \in Dirs: Child(C, k, f) = IF k = r /\ f = Right THEN xr ELSE Child(B, k, f)
        /\ \A k \in TreeKey: Parent(C, k) = IF k = xr THEN r
                                            ELSE IF k = NoKey /\ Parent(B, k) = r THEN NoKey ELSE Parent(B, k)
    BY ONLY <2>2 DEF Assigned
  <2> QED
    BY ONLY <1>1, <1>2, <1>8, <2>3, <2>4
<1>11. PICK D: D = AssignChild(C, x, Left, rl)
  OBVIOUS
<1>12. /\ D \in Trees /\ D.root = T0.root /\ SameValues(D, T)
       /\ \A k \in TreeKey: D.n[k].red = T.n[k].red
       /\ \A k \in TreeKey, f \in Dirs: Child(D, k, f) = IF k = r THEN (IF f = Left THEN x ELSE xr)
                                                         ELSE IF k = x /\ f = Left THEN rl
                                                         ELSE IF k = p /\ f = d THEN r ELSE Child(T, k, f)
       /\ \A k \in TreeKey \ {x, r, rl, xr}: Parent(D, k) = Parent(T, k)
       /\ Parent(D, x) = r /\ Parent(D, r) = p /\ (xr # NoKey => Parent(D, xr) = r)
       /\ (rl # NoKey => Parent(D, rl) = x)
  <2>1. Child(C, x, Left) = r
    BY <1>1, <1>2, <1>10
  <2>2. Assigned(D, C, x, Left, rl, r)
    BY <1>1, <1>10, <1>11, <2>1, AssignedIs
  <2>3. D \in Trees /\ D.root = T0.root /\ SameValues(D, T) /\ \A k \in TreeKey: D.n[k].red = T.n[k].red
    BY ONLY <1>10, <2>2 DEF Assigned, SameValues
  <2>4. /\ \A k \in TreeKey, f \in Dirs: Child(D, k, f) = IF k = x /\ f = Left THEN rl ELSE Child(C, k, f)
        /\ \A k \in TreeKey: Parent(D, k) = IF k = rl THEN x
                                            ELSE IF k = r /\ Parent(C, k) = x THEN NoKey ELSE Parent(C, k)
    BY ONLY <2>2 DEF Assigned
  <2> QED
    BY ONLY <1>1, <1>2, <1>10, <2>3, <2>4
<1>13. PICK F: F = AssignChild(D, x, Right, NoKey)
  OBVIOUS
<1>14. /\ F \in Trees /\ F.root = T0.root /\ SameValues(F, T)
       /\ \A k \in TreeKey: F.n[k].red = T.n[k].red
       /\ \A k \in TreeKey, f \in Dirs: Child(F, k, f) = IF k = r THEN (IF f = Left THEN x ELSE xr)
                                                         ELSE IF k = x THEN (IF f = Left THEN rl ELSE NoKey)
                                                         ELSE IF k = p /\ f = d THEN r ELSE Child(T, k, f)
       /\ \A k \in TreeKey \ {x, r, rl, xr}: Parent(F, k) = Parent(T, k)
       /\ Parent(F, x) = r /\ Parent(F, r) = p /\ (xr # NoKey => Parent(F, xr) = r)
       /\ (rl # NoKey => Parent(F, rl) = x)
  <2>1. Child(D, x, Right) = xr
    BY <1>1, <1>2, <1>12
  <2>2. Assigned(F, D, x, Right, NoKey, xr)
    BY <1>1, <1>12, <1>13, <2>1, AssignedIs
  <2>3. F \in Trees /\ F.root = T0.root /\ SameValues(F, T) /\ \A k \in TreeKey: F.n[k].red = T.n[k].red
    BY ONLY <1>12, <2>2 DEF Assigned, SameValues
  <2>4. /\ \A k \in TreeKey, f \in Dirs: Child(F, k, f) = IF k = x /\ f = Right THEN NoKey ELSE Child(D, k, f)
        /\ \A k \in TreeKey: Parent(F, k) = IF k = NoKey THEN x
                                            ELSE IF k = xr /\ Parent(D, k) = x THEN NoKey ELSE Parent(D, k)
    BY ONLY <2>2 DEF Assigned
  <2> QED
    BY ONLY <1>1, <1>2, <1>12, <2>3, <2>4
<1>15. R = SwapColorSize(F, r, x)
  <2>1. Parent(T0, x) = p /\ Child(T0, x, Right) = xr /\ Child(T0, r, Left) = rl
    BY <1>1, <1>2, <1>4
  <2> QED
    BY <1>3, <1>5, <1>7, <1>9, <1>11, <1>13, <2>1 DEF SwapWithChild
<1>16. ColorSizeSwapped(R, F, r, x)
  BY <1>1, <1>2, <1>14, <1>15, SwapColorSizeIs
<1>17. /\ R \in Trees /\ R.root = T0.root /\ SameValues(R, T)
       /\ R.n[x].red = T.n[r].red /\ R.n[r].red = T.n[x].red
       /\ \A k \in TreeKey \ {x, r}: R.n[k].red = T.n[k].red
       /\ \A k \in TreeKey, f \in Dirs: Child(R, k, f) = Child(F, k, f)
       /\ \A k \in TreeKey: Parent(R, k) = Parent(F, k)
  BY <1>1, <1>14, <1>16 DEF ColorSizeSwapped, SameValues, SameChildren, SameParents
<1>18. R \in Trees /\ SameValues(R, T) /\ R.root = IF p = NoKey THEN r ELSE T.root
  BY ONLY <1>4, <1>17
<1>19. /\ Child(R, r, Left) = (IF r = l THEN x ELSE l) /\ Child(R, r, Right) = xr
       /\ Child(R, x, Left) = rl /\ Child(R, x, Right) = NoKey
       /\ (p # NoKey => Child(R, p, d) = r) /\ (r # l => Child(R, q, e) = x)
       /\ \A k \in TreeKey \ {x, r}, f \in Dirs:
            ~(k = p /\ f = d) /\ ~(k = q /\ f = e) => Child(R, k, f) = Child(T, k, f)
  BY ONLY <1>1, <1>2, <1>14, <1>17, r = l
<1>20. /\ Parent(R, r) = p /\ Parent(R, x) = (IF r = l THEN r ELSE q) /\ (r # l => Parent(R, l) = r)
       /\ (xr # NoKey => Parent(R, xr) = r) /\ (rl # NoKey => Parent(R, rl) = x)
       /\ \A k \in TreeKey \ {x, r, l, xr, rl}: Parent(R, k) = Parent(T, k)
  BY ONLY <1>1, <1>2, <1>14, <1>17, r = l
<1> QED
  BY <1>17, <1>18, <1>19, <1>20 DEF Exchanged

SwapReds(R, T, x, r) ==
  /\ R.n[x].red = T.n[r].red /\ R.n[r].red = T.n[x].red
  /\ \A k \in TreeKey \ {x, r}: R.n[k].red = T.n[k].red

LEMMA SwapLocationsIs ==
  ASSUME NEW T \in Trees, NEW N \in SUBSET TreeKey, NEW x, NEW r, NEW l, NEW xr, NEW rl, NEW p, NEW d, NEW q, NEW e,
         Spots(T, N, x, r, l, xr, rl, p, d, q, e), r # l,
         NEW R, R = SwapLocations(Crown(T, p, r), r, x)
  PROVE  Exchanged(R, T, x, r, l, xr, rl, p, d, q, e)
<1>1. /\ Left \in Dirs /\ Right \in Dirs /\ Left # Right /\ d \in Dirs /\ e \in Dirs
      /\ x \in TreeKey /\ r \in TreeKey /\ xr \in Keys0 /\ rl \in Keys0 /\ p \in Keys0 /\ NoKey \in Keys0
      /\ x \in Keys0 /\ r \in Keys0 /\ NoKey \notin TreeKey /\ (p # NoKey => p \in TreeKey)
      /\ (xr # NoKey => xr \in TreeKey) /\ (rl # NoKey => rl \in TreeKey)
      /\ q \in TreeKey /\ l \in TreeKey /\ l \in Keys0
      /\ \A f \in Dirs: f = Left \/ f = Right
  <2>1. \A f \in Dirs: f = Left \/ f = Right
    BY DEF Dirs
  <2> QED
    BY <2>1, KeyFacts DEF Spots
<1>2. /\ l = Child(T, x, Left) /\ xr = Child(T, x, Right) /\ rl = Child(T, r, Left) /\ Child(T, r, Right) = NoKey
      /\ p = Parent(T, x) /\ d = DirOf(T, p, x) /\ q = Parent(T, r) /\ e = DirOf(T, q, r)
      /\ x # r /\ x # l /\ r # l /\ xr \notin {x, r, l} /\ rl \notin {x, r, l} /\ (rl = xr => rl = NoKey)
      /\ p \notin {x, r, l, q} /\ (p # NoKey => p \notin {xr, rl}) /\ (p # NoKey => Child(T, p, d) = x)
      /\ q \notin {x, r, xr, rl, NoKey} /\ Child(T, q, e) = r
      /\ Parent(T, l) = x /\ (xr # NoKey => Parent(T, xr) = x) /\ (rl # NoKey => Parent(T, rl) = r)
  BY <1>1 DEF Spots
<1>3. PICK T0: T0 = Crown(T, p, r)
  OBVIOUS
<1>4. /\ T0 \in Trees /\ T0.root = IF p = NoKey THEN r ELSE T.root
      /\ SameValues(T0, T)
      /\ \A k \in TreeKey: T0.n[k].red = T.n[k].red
      /\ \A k \in TreeKey, f \in Dirs: Child(T0, k, f) = Child(T, k, f)
      /\ \A k \in TreeKey: Parent(T0, k) = Parent(T, k)
  <2>1. /\ T0 \in Trees /\ T0.root = IF p = NoKey THEN r ELSE T.root
        /\ SameValues(T0, T) /\ SameChildren(T0, T) /\ SameParents(T0, T)
        /\ \A k \in TreeKey: T0.n[k].red = T.n[k].red
    BY <1>1, <1>3, CrownIs
  <2> QED
    BY <2>1 DEF SameChildren, SameParents
<1>5. PICK A: A = ReplaceChild(T0, q, r, x)
  OBVIOUS
<1>6. /\ A \in Trees /\ A.root = T0.root /\ SameValues(A, T)
      /\ \A k \in TreeKey: A.n[k].red = T.n[k].red
      /\ \A k \in TreeKey, f \in Dirs: Child(A, k, f) = IF k = q /\ f = e THEN x ELSE Child(T, k, f)
      /\ \A k \in TreeKey \ {x, r}: Parent(A, k) = Parent(T, k)
      /\ Parent(A, r) = NoKey /\ Parent(A, x) = q
  <2>1. DirOf(T0, q, r) = e
    BY <1>1, <1>2, <1>4 DEF DirOf
  <2>2. A = AssignChild(T0, q, e, x)
    BY <1>5, <2>1 DEF ReplaceChild
  <2>3. Child(T0, q, e) = r
    BY <1>1, <1>2, <1>4
  <2>4. Assigned(A, T0, q, e, x, r)
    BY ONLY <1>1, <1>4, <2>2, <2>3, AssignedIs
  <2>5. /\ A \in Trees /\ A.root = T0.root /\ SameValues(A, T)
        /\ \A k \in TreeKey: A.n[k].red = T.n[k].red
    BY ONLY <1>4, <2>4 DEF Assigned, SameValues
  <2>6. /\ \A k \in TreeKey, f \in Dirs: Child(A, k, f) = IF k = q /\ f = e THEN x ELSE Child(T0, k, f)
        /\ \A k \in TreeKey: Parent(A, k) = IF k = x THEN q
                                            ELSE IF k = r /\ Parent(T0, k) = q THEN NoKey ELSE Parent(T0, k)
    BY ONLY <2>4 DEF Assigned
  <2> QED
    BY ONLY <1>1, <1>2, <1>4, <2>5, <2>6
<1>7. PICK B: B = IF p = NoKey THEN A ELSE ReplaceChild(A, p, x, r)
  OBVIOUS
<1>8. /\ B \in Trees /\ B.root = T0.root /\ SameValues(B, T)
      /\ \A k \in TreeKey: B.n[k].red = T.n[k].red
      /\ \A k \in TreeKey, f \in Dirs: Child(B, k, f) = IF k = q /\ f = e THEN x
                                                        ELSE IF k = p /\ f = d THEN r ELSE Child(T, k, f)
      /\ \A k \in TreeKey \ {x, r}: Parent(B, k) = Parent(T, k)
      /\ Parent(B, r) = p /\ Parent(B, x) = q
  <2>1. CASE p = NoKey
    BY <1>1, <1>2, <1>6, <1>7, <2>1
  <2>2. CASE p # NoKey
    <3>1. DirOf(A, p, x) = d
      <4>1. Child(A, p, Right) = Child(T, p, Right)
        BY ONLY <1>1, <1>2, <1>6, <2>2
      <4> QED
        BY <1>2, <4>1 DEF DirOf
    <3>2. B = AssignChild(A, p, d, r)
      BY <1>7, <2>2, <3>1 DEF ReplaceChild
    <3>3. Child(A, p, d) = x
      BY ONLY <1>1, <1>2, <1>6, <2>2
    <3>4. Assigned(B, A, p, d, r, x)
      BY ONLY <1>1, <1>6, <2>2, <3>2, <3>3, AssignedIs
    <3>5. /\ B \in Trees /\ B.root = T0.root /\ SameValues(B, T)
          /\ \A k \in TreeKey: B.n[k].red = T.n[k].red
      BY ONLY <1>6, <3>4 DEF Assigned, SameValues
    <3>6. /\ \A k \in TreeKey, f \in Dirs: Child(B, k, f) = IF k = p /\ f = d THEN r ELSE Child(A, k, f)
          /\ \A k \in TreeKey: Parent(B, k) = IF k = r THEN p
                                              ELSE IF k = x /\ Parent(A, k) = p THEN NoKey ELSE Parent(A, k)
      BY ONLY <3>4 DEF Assigned
    <3> QED
      BY ONLY <1>1, <1>2, <1>6, <2>2, <3>5, <3>6
  <2> QED
    BY <2>1, <2>2
<1>9. PICK S: S = SwapColorSize(B, r, x)
  OBVIOUS
<1>10. /\ S \in Trees /\ S.root = T0.root /\ SameValues(S, T) /\ SwapReds(S, T, x, r)
       /\ \A k \in TreeKey, f \in Dirs: Child(S, k, f) = IF k = q /\ f = e THEN x
                                                         ELSE IF k = p /\ f = d THEN r ELSE Child(T, k, f)
       /\ \A k \in TreeKey \ {x, r}: Parent(S, k) = Parent(T, k)
       /\ Parent(S, r) = p /\ Parent(S, x) = q
  <2>1. ColorSizeSwapped(S, B, r, x)
    BY ONLY <1>1, <1>2, <1>8, <1>9, SwapColorSizeIs
  <2>2. /\ S \in Trees /\ S.root = T0.root /\ SameValues(S, T) /\ SwapReds(S, T, x, r)
        /\ \A k \in TreeKey, f \in Dirs: Child(S, k, f) = Child(B, k, f)
        /\ \A k \in TreeKey: Parent(S, k) = Parent(B, k)
    BY ONLY <1>1, <1>8, <2>1 DEF ColorSizeSwapped, SameValues, SwapReds, SameChildren, SameParents
  <2> QED
    BY ONLY <1>1, <1>8, <2>2
<1>11. PICK C: C = AssignChild(S, r, Left, l)
  OBVIOUS
<1>12. /\ C \in Trees /\ C.root = T0.root /\ SameValues(C, T) /\ SwapReds(C, T, x, r)
       /\ \A k \in TreeKey, f \in Dirs: Child(C, k, f) = IF k = r /\ f = Left THEN l ELSE IF k = q /\ f = e THEN x ELSE IF k = p /\ f = d THEN r ELSE Child(T, k, f)
       /\ Parent(C, r) = p /\ Parent(C, x) = q /\ Parent(C, l) = r /\ (xr # NoKey => Parent(C, xr) = x)
       /\ \A k \in TreeKey \ {x, r, l, xr, rl}: Parent(C, k) = Parent(T, k)
  <2>1. Child(S, r, Left) = rl
    BY ONLY <1>1, <1>2, <1>10
  <2>2. Assigned(C, S, r, Left, l, rl)
    BY ONLY <1>1, <1>10, <1>11, <2>1, AssignedIs
  <2>3. C \in Trees /\ C.root = T0.root /\ SameValues(C, T) /\ SwapReds(C, T, x, r)
    BY ONLY <1>1, <1>10, <2>2 DEF Assigned, SameValues, SwapReds
  <2>4. /\ \A k \in TreeKey, f \in Dirs: Child(C, k, f) = IF k = r /\ f = Left THEN l ELSE Child(S, k, f)
        /\ \A k \in TreeKey: Parent(C, k) = IF k = l THEN r
                                            ELSE IF k = rl /\ Parent(S, k) = r THEN NoKey ELSE Parent(S, k)
    BY ONLY <2>2 DEF Assigned
  <2>5. \A k \in TreeKey, f \in Dirs: Child(C, k, f) = IF k = r /\ f = Left THEN l ELSE IF k = q /\ f = e THEN x ELSE IF k = p /\ f = d THEN r ELSE Child(T, k, f)
    BY ONLY <1>1, <1>2, <1>10, <2>4
  <2> QED
    BY ONLY <1>1, <1>2, <1>10, <2>3, <2>4, <2>5
<1>13. PICK D: D = AssignChild(C, r, Right, xr)
  OBVIOUS
<1>14. /\ D \in Trees /\ D.root = T0.root /\ SameValues(D, T) /\ SwapReds(D, T, x, r)
       /\ \A k \in TreeKey, f \in Dirs: Child(D, k, f) = IF k = r THEN (IF f = Left THEN l ELSE xr) ELSE IF k = q /\ f = e THEN x ELSE IF k = p /\ f = d THEN r ELSE Child(T, k, f)
       /\ Parent(D, r) = p /\ Parent(D, x) = q /\ Parent(D, l) = r /\ (xr # NoKey => Parent(D, xr) = r)
       /\ \A k \in TreeKey \ {x, r, l, xr, rl}: Parent(D, k) = Parent(T, k)
  <2>1. Child(C, r, Right) = NoKey
    BY ONLY <1>1, <1>2, <1>12
  <2>2. Assigned(D, C, r, Right, xr, NoKey)
    BY ONLY <1>1, <1>12, <1>13, <2>1, AssignedIs
  <2>3. D \in Trees /\ D.root = T0.root /\ SameValues(D, T) /\ SwapReds(D, T, x, r)
    BY ONLY <1>1, <1>12, <2>2 DEF Assigned, SameValues, SwapReds
  <2>4. /\ \A k \in TreeKey, f \in Dirs: Child(D, k, f) = IF k = r /\ f = Right THEN xr ELSE Child(C, k, f)
        /\ \A k \in TreeKey: Parent(D, k) = IF k = xr THEN r
                                            ELSE IF k = NoKey /\ Parent(C, k) = r THEN NoKey ELSE Parent(C, k)
    BY ONLY <2>2 DEF Assigned
  <2>5. \A k \in TreeKey, f \in Dirs: Child(D, k, f) = IF k = r THEN (IF f = Left THEN l ELSE xr) ELSE IF k = q /\ f = e THEN x ELSE IF k = p /\ f = d THEN r ELSE Child(T, k, f)
    BY ONLY <1>1, <1>2, <1>12, <2>4
  <2> QED
    BY ONLY <1>1, <1>2, <1>12, <2>3, <2>4, <2>5
<1>15. PICK F: F = AssignChild(D, x, Left, rl)
  OBVIOUS
<1>16. /\ F \in Trees /\ F.root = T0.root /\ SameValues(F, T) /\ SwapReds(F, T, x, r)
       /\ \A k \in TreeKey, f \in Dirs: Child(F, k, f) = IF k = r THEN (IF f = Left THEN l ELSE xr) ELSE IF k = x /\ f = Left THEN rl ELSE IF k = q /\ f = e THEN x ELSE IF k = p /\ f = d THEN r ELSE Child(T, k, f)
       /\ Parent(F, r) = p /\ Parent(F, x) = q /\ Parent(F, l) = r /\ (xr # NoKey => Parent(F, xr) = r) /\ (rl # NoKey => Parent(F, rl) = x)
       /\ \A k \in TreeKey \ {x, r, l, xr, rl}: Parent(F, k) = Parent(T, k)
  <2>1. Child(D, x, Left) = l
    BY ONLY <1>1, <1>2, <1>14
  <2>2. Assigned(F, D, x, Left, rl, l)
    BY ONLY <1>1, <1>14, <1>15, <2>1, AssignedIs
  <2>3. F \in Trees /\ F.root = T0.root /\ SameValues(F, T) /\ SwapReds(F, T, x, r)
    BY ONLY <1>1, <1>14, <2>2 DEF Assigned, SameValues, SwapReds
  <2>4. /\ \A k \in TreeKey, f \in Dirs: Child(F, k, f) = IF k = x /\ f = Left THEN rl ELSE Child(D, k, f)
        /\ \A k \in TreeKey: Parent(F, k) = IF k = rl THEN x
                                            ELSE IF k = l /\ Parent(D, k) = x THEN NoKey ELSE Parent(D, k)
    BY ONLY <2>2 DEF Assigned
  <2>5. \A k \in TreeKey, f \in Dirs: Child(F, k, f) = IF k = r THEN (IF f = Left THEN l ELSE xr) ELSE IF k = x /\ f = Left THEN rl ELSE IF k = q /\ f = e THEN x ELSE IF k = p /\ f = d THEN r ELSE Child(T, k, f)
    BY ONLY <1>1, <1>2, <1>14, <2>4
  <2> QED
    BY ONLY <1>1, <1>2, <1>14, <2>3, <2>4, <2>5
<1>17. PICK G: G = AssignChild(F, x, Right, NoKey)
  OBVIOUS
<1>18. /\ G \in Trees /\ G.root = T0.root /\ SameValues(G, T) /\ SwapReds(G, T, x, r)
       /\ \A k \in TreeKey, f \in Dirs: Child(G, k, f) = IF k = r THEN (IF f = Left THEN l ELSE xr) ELSE IF k = x THEN (IF f = Left THEN rl ELSE NoKey) ELSE IF k = q /\ f = e THEN x ELSE IF k = p /\ f = d THEN r ELSE Child(T, k, f)
       /\ Parent(G, r) = p /\ Parent(G, x) = q /\ Parent(G, l) = r /\ (xr # NoKey => Parent(G, xr) = r) /\ (rl # NoKey => Parent(G, rl) = x)
       /\ \A k \in TreeKey \ {x, r, l, xr, rl}: Parent(G, k) = Parent(T, k)
  <2>1. Child(F, x, Right) = xr
    BY ONLY <1>1, <1>2, <1>16
  <2>2. Assigned(G, F, x, Right, NoKey, xr)
    BY ONLY <1>1, <1>16, <1>17, <2>1, AssignedIs
  <2>3. G \in Trees /\ G.root = T0.root /\ SameValues(G, T) /\ SwapReds(G, T, x, r)
    BY ONLY <1>1, <1>16, <2>2 DEF Assigned, SameValues, SwapReds
  <2>4. /\ \A k \in TreeKey, f \in Dirs: Child(G, k, f) = IF k = x /\ f = Right THEN NoKey ELSE Child(F, k, f)
        /\ \A k \in TreeKey: Parent(G, k) = IF k = NoKey THEN x
                                            ELSE IF k = xr /\ Parent(F, k) = x THEN NoKey ELSE Parent(F, k)
    BY ONLY <2>2 DEF Assigned
  <2>5. \A k \in TreeKey, f \in Dirs: Child(G, k, f) = IF k = r THEN (IF f = Left THEN l ELSE xr) ELSE IF k = x THEN (IF f = Left THEN rl ELSE NoKey) ELSE IF k = q /\ f = e THEN x ELSE IF k = p /\ f = d THEN r ELSE Child(T, k, f)
    BY ONLY <1>1, <1>2, <1>16, <2>4
  <2> QED
    BY ONLY <1>1, <1>2, <1>16, <2>3, <2>4, <2>5
<1>19. R = G
  <2>1. Parent(T0, r) = q /\ Parent(T0, x) = p /\ q # NoKey
    BY ONLY <1>1, <1>2, <1>4
  <2>2. /\ Child(S, x, Left) = l /\ Child(S, x, Right) = xr
        /\ Child(S, r, Left) = rl /\ Child(S, r, Right) = NoKey
    BY ONLY <1>1, <1>2, <1>10
  <2>3. SwapLocations(T0, r, x) = G
    BY ONLY <1>5, <1>7, <1>9, <1>11, <1>13, <1>15, <1>17, <2>1, <2>2 DEF SwapLocations
  <2> QED
    BY <1>3, <2>3
<1>20. R \in Trees /\ SameValues(R, T) /\ R.root = IF p = NoKey THEN r ELSE T.root
  BY ONLY <1>4, <1>18, <1>19
<1>21. /\ Child(R, r, Left) = (IF r = l THEN x ELSE l) /\ Child(R, r, Right) = xr
       /\ Child(R, x, Left) = rl /\ Child(R, x, Right) = NoKey
       /\ (p # NoKey => Child(R, p, d) = r) /\ (r # l => Child(R, q, e) = x)
       /\ \A k \in TreeKey \ {x, r}, f \in Dirs:
            ~(k = p /\ f = d) /\ ~(k = q /\ f = e) => Child(R, k, f) = Child(T, k, f)
  BY ONLY <1>1, <1>2, <1>18, <1>19
<1>22. /\ Parent(R, r) = p /\ Parent(R, x) = (IF r = l THEN r ELSE q) /\ (r # l => Parent(R, l) = r)
       /\ (xr # NoKey => Parent(R, xr) = r) /\ (rl # NoKey => Parent(R, rl) = x)
       /\ \A k \in TreeKey \ {x, r, l, xr, rl}: Parent(R, k) = Parent(T, k)
  BY ONLY <1>1, <1>2, <1>18, <1>19
<1> QED
  BY <1>18, <1>19, <1>20, <1>21, <1>22 DEF Exchanged, SwapReds

\* R is T with x and r exchanged.
Swap(x, r, k) == IF k = x THEN r ELSE IF k = r THEN x ELSE k

Transposed(R, T, N, x, r) ==
  /\ R \in Trees /\ SameValues(R, T) /\ R.root = Swap(x, r, T.root)
  /\ \A k \in N, f \in Dirs: Child(R, Swap(x, r, k), f) = Swap(x, r, Child(T, k, f))
  /\ \A k \in N: Parent(R, Swap(x, r, k)) = Swap(x, r, Parent(T, k))
  /\ \A k \in N: R.n[Swap(x, r, k)].red = T.n[k].red
  /\ \A k \in TreeKey \ N, f \in Dirs: Child(R, k, f) = Child(T, k, f)

LEMMA ExchangedIs ==
  ASSUME NEW T, NEW N, NEW sub, Linked(T, N, sub),
         NEW x, NEW r, NEW l, NEW xr, NEW rl, NEW p, NEW d, NEW q, NEW e,
         Spots(T, N, x, r, l, xr, rl, p, d, q, e), NEW R, Exchanged(R, T, x, r, l, xr, rl, p, d, q, e)
  PROVE  Transposed(R, T, N, x, r)
<1>1. /\ NoKey \notin N /\ N \subseteq TreeKey /\ Left \in Dirs /\ Right \in Dirs
      /\ \A f \in Dirs: f = Left \/ f = Right
      /\ Left # Right
  <2>1. NoKey \notin N /\ N \subseteq TreeKey
    BY KeyFacts DEF Linked
  <2>2. \A f \in Dirs: f = Left \/ f = Right
    BY DEF Dirs
  <2> QED
    BY <2>1, <2>2, KeyFacts
<1>2. /\ x \in N /\ r \in N /\ l \in N /\ q \in N /\ d \in Dirs /\ e \in Dirs
      /\ xr \in N \cup {NoKey} /\ rl \in N \cup {NoKey} /\ p \in N \cup {NoKey}
      /\ l = Child(T, x, Left) /\ xr = Child(T, x, Right)
      /\ rl = Child(T, r, Left) /\ Child(T, r, Right) = NoKey
      /\ p = Parent(T, x) /\ q = Parent(T, r)
      /\ x # r /\ x # l /\ xr \notin {x, r, l} /\ rl \notin {x, r, l} /\ (rl = xr => rl = NoKey)
      /\ p \notin {x, r, l, q} /\ q # r /\ (r = l <=> q = x)
      /\ Child(T, q, e) = r /\ (p # NoKey => Child(T, p, d) = x)
      /\ (p = NoKey <=> x = T.root) /\ r # T.root
      /\ Parent(T, l) = x /\ (xr # NoKey => Parent(T, xr) = x) /\ (rl # NoKey => Parent(T, rl) = r)
  BY DEF Spots
<1>3. /\ \A k \in N, f \in Dirs: Child(T, k, f) = x => k = p /\ f = d
      /\ \A k \in N, f \in Dirs: Child(T, k, f) = r => k = q /\ f = e
  BY DEF Spots
<1>4. /\ Child(R, r, Left) = (IF r = l THEN x ELSE l) /\ Child(R, r, Right) = xr
      /\ Child(R, x, Left) = rl /\ Child(R, x, Right) = NoKey
      /\ (p # NoKey => Child(R, p, d) = r) /\ (r # l => Child(R, q, e) = x)
      /\ \A k \in TreeKey \ {x, r}, f \in Dirs:
           ~(k = p /\ f = d) /\ ~(k = q /\ f = e) => Child(R, k, f) = Child(T, k, f)
  BY DEF Exchanged
<1>5. /\ Parent(R, r) = p /\ Parent(R, x) = (IF r = l THEN r ELSE q) /\ (r # l => Parent(R, l) = r)
      /\ (xr # NoKey => Parent(R, xr) = r) /\ (rl # NoKey => Parent(R, rl) = x)
      /\ \A k \in TreeKey \ {x, r, l, xr, rl}: Parent(R, k) = Parent(T, k)
  BY DEF Exchanged
<1>6. ASSUME NEW k \in N, NEW f \in Dirs
      PROVE  Child(R, Swap(x, r, k), f) = Swap(x, r, Child(T, k, f))
  <2>1. CASE k = x
    <3>1. Swap(x, r, k) = r
      BY <2>1 DEF Swap
    <3>2. Swap(x, r, xr) = xr /\ Swap(x, r, l) = IF r = l THEN x ELSE l
      BY ONLY <1>2 DEF Swap
    <3> QED
      BY ONLY <1>1, <1>2, <1>4, <2>1, <3>1, <3>2, f \in Dirs
  <2>2. CASE k = r
    <3>1. Swap(x, r, k) = x
      BY ONLY <1>2, <2>2 DEF Swap
    <3>2. Swap(x, r, rl) = rl /\ Swap(x, r, NoKey) = NoKey
      BY ONLY <1>1, <1>2 DEF Swap
    <3> QED
      BY ONLY <1>1, <1>2, <1>4, <2>2, <3>1, <3>2, f \in Dirs
  <2>3. CASE k \notin {x, r}
    <3>1. Swap(x, r, k) = k /\ k # NoKey /\ k \in TreeKey \ {x, r}
      BY ONLY <1>1, <2>3, k \in N DEF Swap
    <3>2. CASE k = p /\ f = d
      <4>1. Swap(x, r, x) = r
        BY DEF Swap
      <4> QED
        BY ONLY <1>2, <1>4, <3>1, <3>2, <4>1
    <3>3. CASE k = q /\ f = e
      <4>1. Swap(x, r, r) = x /\ r # l
        BY ONLY <1>2, <2>3, <3>3 DEF Swap
      <4> QED
        BY ONLY <1>2, <1>4, <3>1, <3>3, <4>1
    <3>4. CASE ~(k = p /\ f = d) /\ ~(k = q /\ f = e)
      <4>1. Child(T, k, f) # x /\ Child(T, k, f) # r
        BY ONLY <1>3, <3>4, k \in N, f \in Dirs
      <4>2. Swap(x, r, Child(T, k, f)) = Child(T, k, f)
        BY <4>1 DEF Swap
      <4> QED
        BY ONLY <1>4, <3>1, <3>4, <4>2, f \in Dirs
    <3> QED
      BY <3>2, <3>3, <3>4
  <2> QED
    BY <2>1, <2>2, <2>3
<1>7. ASSUME NEW k \in N PROVE Parent(R, Swap(x, r, k)) = Swap(x, r, Parent(T, k))
  <2>1. CASE k = x
    BY ONLY <1>2, <1>5, <2>1 DEF Swap
  <2>2. CASE k = r
    BY ONLY <1>2, <1>5, <2>2 DEF Swap
  <2>3. CASE k \in {l, xr, rl} \ {x, r}
    BY ONLY <1>1, <1>2, <1>5, <2>3, k \in N DEF Swap
  <2>4. CASE k \notin {x, r, l, xr, rl}
    <3>1. Parent(T, k) # x /\ Parent(T, k) # r
      <4>1. CASE k = T.root
        BY <1>1, <1>2, <2>4, <4>1 DEF Linked
      <4>2. CASE k # T.root
        <5>1. PICK f \in Dirs: Child(T, Parent(T, k), f) = k
          BY <4>2 DEF Linked
        <5> QED
          BY ONLY <1>1, <1>2, <2>4, <5>1, k \in N
      <4> QED
        BY <4>1, <4>2
    <3>2. Swap(x, r, k) = k /\ Swap(x, r, Parent(T, k)) = Parent(T, k)
      BY ONLY <2>4, <3>1 DEF Swap
    <3> QED
      BY ONLY <1>1, <1>5, <2>4, <3>2, k \in N
  <2> QED
    BY <2>1, <2>2, <2>3, <2>4
<1>8. ASSUME NEW k \in N PROVE R.n[Swap(x, r, k)].red = T.n[k].red
  <2>1. R.n[x].red = T.n[r].red /\ R.n[r].red = T.n[x].red /\ \A j \in TreeKey \ {x, r}: R.n[j].red = T.n[j].red
    BY DEF Exchanged
  <2> QED
    BY ONLY <1>1, <1>2, <2>1, k \in N DEF Swap
<1>9. ASSUME NEW k \in TreeKey \ N, NEW f \in Dirs PROVE Child(R, k, f) = Child(T, k, f)
  <2>1. k \notin {x, r, q} /\ (k = p => p = NoKey) /\ k # NoKey
    BY ONLY <1>1, <1>2, k \in TreeKey \ N, KeyFacts
  <2> QED
    BY ONLY <1>4, <2>1, k \in TreeKey \ N, f \in Dirs
<1>10. R \in Trees /\ SameValues(R, T) /\ R.root = Swap(x, r, T.root)
  <2>1. R \in Trees /\ SameValues(R, T) /\ R.root = IF p = NoKey THEN r ELSE T.root
    BY DEF Exchanged
  <2> QED
    BY ONLY <1>2, <2>1 DEF Swap
<1> QED
  BY <1>6, <1>7, <1>8, <1>9, <1>10 DEF Transposed

\* A red-black tree, but for the key of x.
Erasable(T, N, x) ==
  /\ \E sub: Linked(T, N, sub) /\ Ordered(T, N, sub, x)
  /\ Clean(T, N) /\ Even(T, N, NoKey, Left) /\ Calm(T, N, {})

LEMMA SwapIs ==
  ASSUME NEW N, NEW x \in N, NEW r \in N, x # r, NoKey \notin N
  PROVE  /\ \A k \in N: Swap(x, r, k) \in N
         /\ \A k: Swap(x, r, Swap(x, r, k)) = k
         /\ \A k \in N \cup {NoKey}: Swap(x, r, k) = NoKey <=> k = NoKey
         /\ \A j, k: Swap(x, r, j) = Swap(x, r, k) <=> j = k
         /\ Swap(x, r, x) = r /\ Swap(x, r, r) = x /\ \A k: k # x /\ k # r => Swap(x, r, k) = k
BY DEF Swap

Swapped(sub, N, x, r) == [k \in N |-> {z \in N: Swap(x, r, z) \in sub[Swap(x, r, k)]}]

LEMMA TransposedLinked ==
  ASSUME NEW T, NEW N, NEW sub, Linked(T, N, sub), NEW x \in N, NEW r \in N, x # r,
         NEW R, Transposed(R, T, N, x, r), NEW sub2, sub2 = Swapped(sub, N, x, r)
  PROVE  /\ Linked(R, N, sub2)
         /\ \A k \in N, f \in Dirs: \A z \in N:
              z \in SubOf(sub2, Child(R, Swap(x, r, k), f)) <=> Swap(x, r, z) \in SubOf(sub, Child(T, k, f))
<1>1. /\ NoKey \notin N /\ N \subseteq TreeKey /\ sub \in [N -> SUBSET N]
      /\ IF T.root = NoKey THEN N = {} ELSE T.root \in N /\ sub[T.root] = N
  BY KeyFacts DEF Linked
<1>2. /\ \A k \in N: Swap(x, r, k) \in N
      /\ \A k: Swap(x, r, Swap(x, r, k)) = k
      /\ \A k \in N \cup {NoKey}: Swap(x, r, k) = NoKey <=> k = NoKey
      /\ \A j, k: Swap(x, r, j) = Swap(x, r, k) <=> j = k
  BY <1>1, SwapIs
<1>3. /\ R \in Trees /\ R.root = Swap(x, r, T.root)
      /\ \A k \in N, f \in Dirs: Child(R, Swap(x, r, k), f) = Swap(x, r, Child(T, k, f))
      /\ \A k \in N: Parent(R, Swap(x, r, k)) = Swap(x, r, Parent(T, k))
  BY DEF Transposed
<1>4. /\ sub2 \in [N -> SUBSET N]
      /\ \A k \in N: sub2[k] = {z \in N: Swap(x, r, z) \in sub[Swap(x, r, k)]}
  BY DEF Swapped
<1>5. \A k \in N, f \in Dirs: Child(T, k, f) \in N \cup {NoKey} /\ SubOf(sub, Child(T, k, f)) \subseteq N
  BY <1>1, LinkFacts
<1>6. ASSUME NEW k \in N, NEW f \in Dirs, NEW z \in N
      PROVE  z \in SubOf(sub2, Child(R, Swap(x, r, k), f)) <=> Swap(x, r, z) \in SubOf(sub, Child(T, k, f))
  <2>1. PICK c: c = Child(T, k, f)
    OBVIOUS
  <2>2. Child(R, Swap(x, r, k), f) = Swap(x, r, c) /\ c \in N \cup {NoKey}
    BY <1>3, <1>5, <2>1
  <2>3. CASE c = NoKey
    BY <1>2, <2>1, <2>2, <2>3 DEF SubOf
  <2>4. CASE c # NoKey
    <3>1. Swap(x, r, c) \in N /\ Swap(x, r, c) # NoKey /\ Swap(x, r, Swap(x, r, c)) = c
      BY <1>2, <2>2, <2>4
    <3>2. sub2[Swap(x, r, c)] = {y \in N: Swap(x, r, y) \in sub[c]}
      BY <1>4, <3>1
    <3>3. SubOf(sub2, Swap(x, r, c)) = sub2[Swap(x, r, c)] /\ SubOf(sub, c) = sub[c]
      BY <2>4, <3>1 DEF SubOf
    <3> QED
      BY <2>1, <2>2, <3>2, <3>3
  <2> QED
    BY <2>3, <2>4
<1>7. IF R.root = NoKey THEN N = {} ELSE R.root \in N /\ sub2[R.root] = N
  <2>1. T.root # NoKey /\ T.root \in N /\ sub[T.root] = N
    BY <1>1
  <2>2. R.root \in N /\ Swap(x, r, R.root) = T.root
    BY <1>2, <1>3, <2>1
  <2>3. sub2[R.root] = {z \in N: Swap(x, r, z) \in N}
    BY <1>4, <2>1, <2>2
  <2> QED
    BY <1>1, <1>2, <2>2, <2>3
<1>8. ASSUME NEW j \in N, NEW f \in Dirs
      PROVE  /\ Child(R, j, f) # NoKey => Child(R, j, f) \in N /\ Parent(R, Child(R, j, f)) = j
             /\ Child(R, j, f) \in N \cup {NoKey}
  <2>1. PICK k \in N: j = Swap(x, r, k)
    BY <1>2
  <2>2. PICK c: c = Child(T, k, f)
    OBVIOUS
  <2>3. Child(R, j, f) = Swap(x, r, c) /\ c \in N \cup {NoKey}
    BY <1>3, <1>5, <2>1, <2>2
  <2>4. CASE c = NoKey
    BY <1>2, <2>3, <2>4
  <2>5. CASE c # NoKey
    <3>1. Parent(T, c) = k /\ c \in N
      BY <2>2, <2>3, <2>5 DEF Linked
    <3>2. Parent(R, Swap(x, r, c)) = j
      BY <1>3, <2>1, <3>1
    <3> QED
      BY <1>2, <2>3, <3>1, <3>2
  <2> QED
    BY <2>4, <2>5
<1>9. ASSUME NEW j \in N
      PROVE  IF j = R.root THEN Parent(R, j) = NoKey
             ELSE Parent(R, j) \in N /\ \E f \in Dirs: Child(R, Parent(R, j), f) = j
  <2>1. PICK k \in N: j = Swap(x, r, k)
    BY <1>2
  <2>2. Parent(R, j) = Swap(x, r, Parent(T, k)) /\ (j = R.root <=> k = T.root)
    BY <1>2, <1>3, <2>1
  <2>3. CASE k = T.root
    <3>1. Parent(T, k) = NoKey
      BY <2>3 DEF Linked
    <3> QED
      BY <1>2, <2>2, <2>3, <3>1
  <2>4. CASE k # T.root
    <3>1. PICK f \in Dirs: Parent(T, k) \in N /\ Child(T, Parent(T, k), f) = k
      BY <2>4 DEF Linked
    <3>2. Child(R, Swap(x, r, Parent(T, k)), f) = j
      BY <1>3, <2>1, <3>1
    <3> QED
      BY <1>2, <2>2, <2>4, <3>1, <3>2
  <2> QED
    BY <2>3, <2>4
<1>10. ASSUME NEW j \in N, NEW f \in Dirs
       PROVE  /\ sub2[j] = {j} \cup SubOf(sub2, Child(R, j, f)) \cup SubOf(sub2, Child(R, j, Other(f)))
              /\ j \notin SubOf(sub2, Child(R, j, f))
              /\ SubOf(sub2, Child(R, j, f)) \cap SubOf(sub2, Child(R, j, Other(f))) = {}
  <2>1. PICK k \in N: j = Swap(x, r, k) /\ Swap(x, r, j) = k
    BY <1>2
  <2>2. Other(f) \in Dirs
    BY DirFacts
  <2>3. /\ sub[k] = {k} \cup SubOf(sub, Child(T, k, f)) \cup SubOf(sub, Child(T, k, Other(f)))
        /\ k \notin SubOf(sub, Child(T, k, f))
        /\ SubOf(sub, Child(T, k, f)) \cap SubOf(sub, Child(T, k, Other(f))) = {}
    BY DEF Linked
  <2>4. PICK U, V, A, B: /\ U = SubOf(sub2, Child(R, j, f)) /\ V = SubOf(sub2, Child(R, j, Other(f)))
                         /\ A = SubOf(sub, Child(T, k, f)) /\ B = SubOf(sub, Child(T, k, Other(f)))
    OBVIOUS
  <2>5. /\ \A z \in N: z \in U <=> Swap(x, r, z) \in A
        /\ \A z \in N: z \in V <=> Swap(x, r, z) \in B
    BY <1>6, <2>1, <2>2, <2>4
  <2>6. U \subseteq N /\ V \subseteq N
    BY <1>4, <1>8, <2>2, <2>4 DEF SubOf
  <2>7. \A z \in N: z \in sub2[j] <=> Swap(x, r, z) \in sub[k]
    BY <1>4, <2>1
  <2>8. \A z \in N: Swap(x, r, z) = k <=> z = j
    BY <1>2, <2>1
  <2>9. sub2[j] \subseteq N
    BY <1>4
  <2>10. sub[k] = {k} \cup A \cup B /\ k \notin A /\ A \cap B = {}
    BY <2>3, <2>4
  <2>11. sub2[j] = {j} \cup U \cup V
    BY ONLY <2>5, <2>6, <2>7, <2>8, <2>9, <2>10, j \in N
  <2>12. j \notin U /\ U \cap V = {}
    BY ONLY <2>5, <2>6, <2>8, <2>10, j \in N
  <2> QED
    BY <2>4, <2>11, <2>12
<1>11. Linked(R, N, sub2)
  BY <1>1, <1>3, <1>4, <1>7, <1>8, <1>9, <1>10 DEF Linked
<1> QED
  BY <1>6, <1>11

LEMMA TransposedIs ==
  ASSUME NEW T, NEW N, NEW sub, Linked(T, N, sub), Ordered(T, N, sub, NoKey), Clean(T, N),
         Even(T, N, NoKey, Left), Calm(T, N, {}),
         NEW x \in N, NEW l, l = Child(T, x, Left), l # NoKey, NEW r \in sub[l], \A y \in sub[l] \ {r}: Before(Left, y, r),
         NEW R, Transposed(R, T, N, x, r)
  PROVE  Erasable(R, N, x)
<1>1. /\ NoKey \notin N /\ N \subseteq TreeKey /\ sub \in [N -> SUBSET N] /\ T \in Trees
      /\ Left \in Dirs /\ Right \in Dirs /\ Other(Left) = Right /\ \A f \in Dirs: f = Left \/ f = Right
  <2>1. \A f \in Dirs: f = Left \/ f = Right
    BY DEF Dirs
  <2> QED
    BY <2>1, KeyFacts, DirFacts DEF Linked
<1>2. l \in N /\ SubOf(sub, l) = sub[l] /\ r \in N /\ r # x /\ sub[l] \subseteq sub[x]
  <2>1. l \in N /\ SubOf(sub, l) = sub[l] /\ sub[l] \subseteq sub[x] \ {x}
    BY <1>1, LinkFacts DEF SubOf
  <2> QED
    BY <1>1, <2>1
<1>3. \A k \in N, f \in Dirs: \A y \in SubOf(sub, Child(T, k, f)): Before(f, y, k) /\ y \in N
  <2>1. \A k \in N, f \in Dirs: SubOf(sub, Child(T, k, f)) \subseteq N
    BY <1>1, LinkFacts
  <2> QED
    BY <1>1, <2>1 DEF Ordered
<1>4. PICK sub2: sub2 = Swapped(sub, N, x, r)
  OBVIOUS
<1>5. /\ Linked(R, N, sub2)
      /\ \A k \in N, f \in Dirs: \A z \in N:
           z \in SubOf(sub2, Child(R, Swap(x, r, k), f)) <=> Swap(x, r, z) \in SubOf(sub, Child(T, k, f))
  BY <1>2, <1>4, TransposedLinked
<1>6. /\ \A k \in N: Swap(x, r, k) \in N
      /\ \A k: Swap(x, r, Swap(x, r, k)) = k
      /\ \A k \in N \cup {NoKey}: Swap(x, r, k) = NoKey <=> k = NoKey
      /\ \A j, k: Swap(x, r, j) = Swap(x, r, k) <=> j = k
      /\ Swap(x, r, x) = r /\ Swap(x, r, r) = x /\ \A k: k # x /\ k # r => Swap(x, r, k) = k
  BY <1>1, <1>2, SwapIs
<1>7. Ordered(R, N, sub2, x)
  <2>1. SUFFICES ASSUME NEW j \in N \ {x}, NEW f \in Dirs, NEW y \in SubOf(sub2, Child(R, j, f)) \ {x}
                 PROVE  Before(f, y, j)
    BY DEF Ordered
  <2>2. y \in N
    BY <1>5, <2>1, LinkFacts
  <2>3. CASE j = r
    <3>1. j = Swap(x, r, x)
      BY <1>6, <2>3
    <3>2. Swap(x, r, y) \in SubOf(sub, Child(T, x, f))
      BY <1>5, <2>1, <2>2, <3>1
    <3>3. y # r
      <4>1. x \notin SubOf(sub, Child(T, x, f))
        BY DEF Linked
      <4> QED
        BY <1>6, <3>2, <4>1
    <3>4. Swap(x, r, y) = y /\ y \in SubOf(sub, Child(T, x, f))
      BY <1>6, <2>1, <3>2, <3>3
    <3>5. CASE f = Left
      BY <1>2, <2>3, <3>3, <3>4, <3>5
    <3>6. CASE f = Right
      <4>1. Before(Right, y, x) /\ Before(Left, r, x)
        BY <1>1, <1>2, <1>3, <3>4, <3>6
      <4>2. Before(Right, x, r)
        BY <1>1, <1>2, <4>1, BeforeFacts
      <4> QED
        BY <1>1, <1>2, <2>2, <2>3, <3>6, <4>1, <4>2, BeforeFacts
    <3> QED
      BY <1>1, <3>5, <3>6
  <2>4. CASE j # r
    <3>1. j = Swap(x, r, j)
      BY <1>6, <2>1, <2>4
    <3>2. Swap(x, r, y) \in SubOf(sub, Child(T, j, f))
      BY <1>5, <2>1, <2>2, <3>1
    <3>3. CASE y = r
      <4>1. x \in SubOf(sub, Child(T, j, f))
        BY <1>6, <3>2, <3>3
      <4>2. sub[x] \subseteq SubOf(sub, Child(T, j, f))
        <5>1. PICK c: c = Child(T, j, f)
          OBVIOUS
        <5>2. c \in N /\ SubOf(sub, c) = sub[c] /\ x \in sub[c]
          BY <4>1, <5>1, LinkFacts DEF SubOf
        <5>3. sub[x] \subseteq sub[c]
          BY <5>2, SubFacts
        <5> QED
          BY <5>1, <5>2, <5>3
      <4> QED
        BY <1>2, <1>3, <2>1, <3>3, <4>2
    <3>4. CASE y # r
      <4>1. Swap(x, r, y) = y
        BY <1>6, <2>1, <3>4
      <4> QED
        BY <1>3, <2>1, <3>2, <4>1
    <3> QED
      BY <3>3, <3>4
  <2> QED
    BY <2>3, <2>4
<1>8. /\ \A k \in N, f \in Dirs: Child(R, Swap(x, r, k), f) = Swap(x, r, Child(T, k, f))
      /\ \A k \in N: R.n[Swap(x, r, k)].red = T.n[k].red
      /\ R \in Trees
  BY DEF Transposed
<1>9. \A k \in N, f \in Dirs: Child(T, k, f) \in N \cup {NoKey}
  BY LinkFacts
<1>10. Even(R, N, NoKey, Left)
  <2>1. PICK bh: Balanced(T, N, bh, NoKey, Left)
    BY DEF Even
  <2>2. bh \in [N -> Nat]
    BY <2>1 DEF Balanced
  <2>3. PICK bh2: bh2 = [k \in N |-> bh[Swap(x, r, k)]]
    OBVIOUS
  <2>4. bh2 \in [N -> Nat] /\ \A k \in N: bh2[Swap(x, r, k)] = bh[k]
    BY <1>6, <2>2, <2>3
  <2>5. ASSUME NEW j \in N, NEW f \in Dirs
        PROVE  bh2[j] = BhOf(bh2, Child(R, j, f)) + Lack(j, f, NoKey, Left) + Black(R, j)
    <3>1. PICK k \in N: j = Swap(x, r, k)
      BY <1>6
    <3>2. Black(R, j) = Black(T, k)
      BY <1>8, <3>1 DEF Black
    <3>3. Lack(j, f, NoKey, Left) = Lack(k, f, NoKey, Left)
      BY <1>1 DEF Lack
    <3>4. BhOf(bh2, Child(R, j, f)) = BhOf(bh, Child(T, k, f))
      <4>1. PICK c: c = Child(T, k, f)
        OBVIOUS
      <4>2. Child(R, j, f) = Swap(x, r, c) /\ c \in N \cup {NoKey}
        BY <1>8, <1>9, <3>1, <4>1
      <4> QED
        BY <1>6, <2>4, <4>1, <4>2 DEF BhOf
    <3>5. bh[k] = BhOf(bh, Child(T, k, f)) + Lack(k, f, NoKey, Left) + Black(T, k)
      BY <2>1 DEF Balanced
    <3> QED
      BY ONLY <2>4, <3>1, <3>2, <3>3, <3>4, <3>5
  <2>6. Balanced(R, N, bh2, NoKey, Left)
    BY <2>4, <2>5 DEF Balanced
  <2> QED
    BY <2>6 DEF Even
<1>11. Calm(R, N, {})
  <2>1. SUFFICES ASSUME NEW j \in N, Red(R, j), NEW f \in Dirs, Red(R, Child(R, j, f)) PROVE FALSE
    BY ViolationIs DEF Calm
  <2>2. PICK k \in N: j = Swap(x, r, k)
    BY <1>6
  <2>3. \A i \in N \cup {NoKey}: Red(R, Swap(x, r, i)) <=> Red(T, i)
    BY <1>6, <1>8 DEF Red
  <2>4. Red(T, k) /\ Red(T, Child(T, k, f))
    <3>1. Child(R, j, f) = Swap(x, r, Child(T, k, f)) /\ Child(T, k, f) \in N \cup {NoKey}
      BY <1>8, <1>9, <2>2
    <3> QED
      BY <2>1, <2>2, <2>3, <3>1
  <2> QED
    BY <2>4, ViolationIs DEF Calm
<1>12. Clean(R, N)
  BY DEF Transposed, Clean
<1> QED
  BY <1>5, <1>7, <1>10, <1>11, <1>12 DEF Erasable

LEMMA EraseErasable ==
  ASSUME NEW T, NEW N, NEW x \in N, Erasable(T, N, x), NEW f \in Dirs, Child(T, x, f) = NoKey,
         NEW R, R = EraseOneChild(T, x)
  PROVE  Without(R, T, N, x)
<1>1. PICK sub: Linked(T, N, sub) /\ Ordered(T, N, sub, x)
  BY DEF Erasable
<1>2. Clean(T, N) /\ Even(T, N, NoKey, Left) /\ Calm(T, N, {})
  BY DEF Erasable
<1> QED
  BY <1>1, <1>2, EraseOneChildIs

LEMMA EraseNodeIs ==
  ASSUME NEW T, NEW N, RbTree(T, N), Clean(T, N), NEW x \in N, NEW R, R = EraseNode(T, x)
  PROVE  Without(R, T, N, x)
<1>1. PICK sub: Linked(T, N, sub) /\ Ordered(T, N, sub, NoKey)
  BY DEF RbTree, Shape
<1>2. Even(T, N, NoKey, Left) /\ Calm(T, N, {})
  BY DEF RbTree
<1>3. /\ NoKey \notin N /\ N \in SUBSET TreeKey /\ T \in Trees /\ sub \in [N -> SUBSET N]
      /\ Left \in Dirs /\ Right \in Dirs /\ Other(Right) = Left
  BY <1>1, KeyFacts, DirFacts DEF Linked
<1>4. PICK l: l = Child(T, x, Left)
  OBVIOUS
<1>5. CASE l = NoKey
  <2>1. Ordered(T, N, sub, x)
    <3>1. \A k \in N, f \in Dirs: NoKey \notin SubOf(sub, Child(T, k, f))
      <4>1. \A k \in N, f \in Dirs: SubOf(sub, Child(T, k, f)) \subseteq sub[k] \ {k} /\ sub[k] \subseteq N
        BY <1>1, LinkFacts
      <4> QED
        BY <1>3, <4>1
    <3>2. \A k \in N \ {NoKey}, d \in Dirs: \A y \in SubOf(sub, Child(T, k, d)) \ {NoKey}: Before(d, y, k)
      BY <1>1 DEF Ordered
    <3> QED
      BY <1>3, <3>1, <3>2 DEF Ordered
  <2>2. Erasable(T, N, x)
    BY <1>1, <1>2, <2>1 DEF Erasable
  <2>3. R = EraseOneChild(T, x)
    BY <1>4, <1>5 DEF EraseNode
  <2> QED
    BY <1>3, <1>4, <1>5, <2>2, <2>3, EraseErasable
<1>6. CASE l # NoKey
  <2>1. l \in N
    BY <1>1, <1>3, <1>4, <1>6 DEF Linked
  <2>2. PICK r: r = Extreme(T, l, Right)
    OBVIOUS
  <2>3. r \in N /\ r \in sub[l] /\ Child(T, r, Right) = NoKey /\ \A y \in sub[l] \ {r}: Before(Left, y, r)
    BY <1>1, <1>3, <2>1, <2>2, ExtremeIs
  <2>4. PICK xr, rl, p, d, q, e: /\ xr = Child(T, x, Right) /\ rl = Child(T, r, Left) /\ p = Parent(T, x)
                                 /\ d = DirOf(T, p, x) /\ q = Parent(T, r) /\ e = DirOf(T, q, r)
    OBVIOUS
  <2>5. Spots(T, N, x, r, l, xr, rl, p, d, q, e)
    BY <1>1, <1>4, <1>6, <2>3, <2>4, SpotsIs
  <2>6. PICK S: S = IF r = l THEN SwapWithChild(Crown(T, p, r), x, r) ELSE SwapLocations(Crown(T, p, r), r, x)
    OBVIOUS
  <2>7. Exchanged(S, T, x, r, l, xr, rl, p, d, q, e)
    <3>1. CASE r = l
      BY <1>3, <2>5, <2>6, <3>1, SwapWithChildIs
    <3>2. CASE r # l
      BY <1>3, <2>5, <2>6, <3>2, SwapLocationsIs
    <3> QED
      BY <3>1, <3>2
  <2>8. Transposed(S, T, N, x, r)
    BY <1>1, <2>5, <2>7, ExchangedIs
  <2>9. Erasable(S, N, x)
    BY <1>1, <1>2, <1>4, <1>6, <2>3, <2>8, TransposedIs
  <2>10. Child(S, x, Right) = NoKey
    BY <2>7 DEF Exchanged
  <2>11. R = EraseOneChild(S, x)
    BY <1>4, <1>6, <2>2, <2>4, <2>6 DEF EraseNode, Crown
  <2>12. Without(R, S, N, x)
    BY <1>3, <2>9, <2>10, <2>11, EraseErasable
  <2>13. \A k \in N: S.n[k].value = T.n[k].value
    BY <1>3, <2>8 DEF Transposed, SameValues
  <2> QED
    BY <2>12, <2>13 DEF Without
<1> QED
  BY <1>5, <1>6

\* The search for the lower bound finds the key itself, when it is there.
LowerBound(T, k) == Glb(T, T.root, NoKey, k, TRUE)

LEMMA GlbIs ==
  ASSUME NEW T, NEW N, RbTree(T, N), NEW k \in TreeKey, NEW x, x = LowerBound(T, k)
  PROVE  x \in N \cup {NoKey} /\ (k \in N => x = k)
<1>1. PICK sub: Linked(T, N, sub) /\ Ordered(T, N, sub, NoKey)
  BY DEF RbTree, Shape
<1>2. /\ T \in Trees /\ N \subseteq TreeKey /\ NoKey \notin N /\ sub \in [N -> SUBSET N] /\ IsFiniteSet(TreeKey)
      /\ IF T.root = NoKey THEN N = {} ELSE T.root \in N /\ sub[T.root] = N
      /\ Left \in Dirs /\ Right \in Dirs /\ Left # Right /\ Other(Left) = Right
      /\ N \cup {NoKey} \subseteq Keys0 /\ k # NoKey
  <2>1. T \in Trees /\ N \subseteq TreeKey /\ sub \in [N -> SUBSET N]
        /\ IF T.root = NoKey THEN N = {} ELSE T.root \in N /\ sub[T.root] = N
    BY <1>1 DEF Linked
  <2> QED
    BY <2>1, KeyFacts, DirFacts, TreeAssumption DEF TreeAssumption
<1>3. /\ \A j \in N, f \in Dirs: \A z \in SubOf(sub, Child(T, j, f)): Before(f, z, j)
      /\ \A j \in N, f \in Dirs: Child(T, j, f) \in N \cup {NoKey} /\ Child(T, j, f) # j
      /\ \A j \in N: sub[j] = {j} \cup SubOf(sub, Child(T, j, Left)) \cup SubOf(sub, Child(T, j, Right))
  <2>1. \A j \in N, f \in Dirs: SubOf(sub, Child(T, j, f)) \subseteq N
    BY <1>1, <1>2, LinkFacts
  <2>2. \A j \in N, f \in Dirs: Child(T, j, f) \in N \cup {NoKey} /\ Child(T, j, f) # j
    BY <1>1, LinkFacts
  <2>3. \A j \in N: sub[j] = {j} \cup SubOf(sub, Child(T, j, Left)) \cup SubOf(sub, Child(T, j, Right))
    BY <1>1, <1>2 DEF Linked
  <2> QED
    BY <1>1, <1>2, <2>1, <2>2, <2>3 DEF Ordered
<1> DEFINE step == [s \in Keys0 \X Keys0 |->
                      LET y == s[1] IN
                      CASE y = NoKey -> s
                        [] y # NoKey /\ y < k -> <<Child(T, y, Right), y>>
                        [] y = k /\ TRUE -> <<NoKey, y>>
                        [] y > k \/ (y = k /\ ~TRUE) -> <<Child(T, y, Left), s[2]>>]
           Found(y, h) == k \in N => IF y = NoKey THEN h = k ELSE k \in sub[y]
           I == {s \in (N \cup {NoKey}) \X (N \cup {NoKey}): Found(s[1], s[2])}
           rank == [s \in I |-> Cardinality(TreeKey) - (IF s[1] = NoKey THEN 0 ELSE Cardinality(sub[s[1]]))]
           s0 == <<T.root, NoKey>>
<1>4. s0 \in I
  <2>1. T.root \in N \cup {NoKey} /\ Found(T.root, NoKey)
    BY <1>2
  <2> QED
    BY <2>1
<1>5. \A s \in I: /\ s[1] \in N \cup {NoKey} /\ s[2] \in N \cup {NoKey} /\ Found(s[1], s[2])
                  /\ s = <<s[1], s[2]>> /\ s \in Keys0 \X Keys0
  BY <1>2
<1>6. ASSUME NEW s \in I, s[1] # NoKey
      PROVE  /\ step[s] \in I
             /\ step[s][1] = NoKey \/ (step[s][1] \in N /\ \E f \in Dirs: step[s][1] = Child(T, s[1], f))
  <2>1. PICK y, h: y = s[1] /\ h = s[2]
    OBVIOUS
  <2>2. /\ y \in N /\ y \in TreeKey /\ y \in Nat /\ k \in Nat /\ y # NoKey /\ h \in N \cup {NoKey}
        /\ s \in Keys0 \X Keys0 /\ (k \in N => k \in sub[y])
    BY <1>2, <1>5, <1>6, <2>1, KeyFacts
  <2>3. k \in N => k = y \/ k \in SubOf(sub, Child(T, y, Left)) \/ k \in SubOf(sub, Child(T, y, Right))
    BY <1>3, <2>2
  <2>4. \A z: k \in SubOf(sub, z) => z # NoKey /\ k \in sub[z]
    BY DEF SubOf
  <2>5. CASE y < k
    <3>1. step[s] = <<Child(T, y, Right), y>>
      BY <2>1, <2>2, <2>5
    <3>2. PICK c: c = Child(T, y, Right)
      OBVIOUS
    <3>3. c \in N \cup {NoKey}
      BY <1>2, <1>3, <2>2, <3>2
    <3>4. k \in N => k \in SubOf(sub, c)
      <4>1. k \in SubOf(sub, Child(T, y, Left)) => k < y
        BY <1>2, <1>3, <2>2 DEF Before
      <4> QED
        BY <2>2, <2>3, <2>5, <3>2, <4>1
    <3>5. Found(c, y)
      BY <2>4, <3>4
    <3>6. <<c, y>> \in I
      BY <2>2, <3>3, <3>5
    <3> HIDE DEF I, step
    <3>7. step[s] \in I
      BY <3>1, <3>2, <3>6
    <3>8. step[s][1] = c
      BY <3>1, <3>2
    <3> QED
      BY <1>2, <2>1, <3>2, <3>3, <3>7, <3>8
  <2>6. CASE y = k
    <3>0. ~(y < k) /\ ~(y > k)
      BY <2>2, <2>6
    <3>1. step[s] = <<NoKey, y>>
      <4>1. step[s] = CASE y = NoKey -> s
                        [] y # NoKey /\ y < k -> <<Child(T, y, Right), y>>
                        [] y = k /\ TRUE -> <<NoKey, y>>
                        [] y > k \/ (y = k /\ ~TRUE) -> <<Child(T, y, Left), s[2]>>
        BY <2>1, <2>2
      <4> HIDE DEF step
      <4> QED
        BY <2>2, <2>6, <3>0, <4>1
    <3>2. Found(NoKey, y)
      BY <2>6
    <3>3. <<NoKey, y>> \in I
      BY <2>2, <3>2
    <3> HIDE DEF I, step
    <3> QED
      BY <3>1, <3>3
  <2>7. CASE y > k
    <3>1. step[s] = <<Child(T, y, Left), h>>
      BY <2>1, <2>2, <2>7
    <3>2. PICK c: c = Child(T, y, Left)
      OBVIOUS
    <3>3. c \in N \cup {NoKey}
      BY <1>2, <1>3, <2>2, <3>2
    <3>4. k \in N => k \in SubOf(sub, c)
      <4>1. k \in SubOf(sub, Child(T, y, Right)) => y < k
        BY <1>2, <1>3, <2>2 DEF Before
      <4> QED
        BY <2>2, <2>3, <2>7, <3>2, <4>1
    <3>5. Found(c, h)
      BY <2>4, <3>4
    <3>6. <<c, h>> \in I
      BY <2>2, <3>3, <3>5
    <3> HIDE DEF I, step
    <3>7. step[s] \in I
      BY <3>1, <3>2, <3>6
    <3>8. step[s][1] = c
      BY <3>1, <3>2
    <3> QED
      BY <1>2, <2>1, <3>2, <3>3, <3>7, <3>8
  <2>8. y < k \/ y = k \/ y > k
    BY <2>2
  <2> HIDE DEF step, I
  <2> QED
    BY ONLY <2>5, <2>6, <2>7, <2>8
<1>7. ASSUME NEW s \in I, s[1] = NoKey PROVE step[s] = s
  <2>1. PICK y: y = s[1]
    OBVIOUS
  <2>2. y = NoKey /\ y # k /\ ~(y > k)
    BY <1>2, <1>7, <2>1, KeyFacts DEF NoKey
  <2>3. step[s] = CASE y = NoKey -> s
                    [] y # NoKey /\ y < k -> <<Child(T, y, Right), y>>
                    [] y = k /\ TRUE -> <<NoKey, y>>
                    [] y > k \/ (y = k /\ ~TRUE) -> <<Child(T, y, Left), s[2]>>
    BY <1>5, <2>1
  <2> HIDE DEF step
  <2> QED
    BY ONLY <2>2, <2>3
<1>8. \A s \in I: step[s] \in I
  BY <1>6, <1>7
<1>9. \A z \in N: Cardinality(sub[z]) \in 1 .. Cardinality(TreeKey) /\ IsFiniteSet(sub[z])
  <2>1. SUFFICES ASSUME NEW z \in N
                 PROVE  Cardinality(sub[z]) \in 1 .. Cardinality(TreeKey) /\ IsFiniteSet(sub[z])
    OBVIOUS
  <2>2. sub[z] \in SUBSET TreeKey /\ z \in sub[z]
    BY <1>2, <1>3
  <2>3. IsFiniteSet(sub[z]) /\ Cardinality(sub[z]) \in Nat /\ Cardinality(sub[z]) <= Cardinality(TreeKey)
    BY <1>2, <2>2, FS_Subset, FS_CardinalityType
  <2>4. Cardinality(sub[z]) # 0
    BY <2>2, <2>3, FS_EmptySet
  <2> QED
    BY <2>3, <2>4, LastIsNat
<1>10. \A s \in I: rank[s] \in 0 .. Cardinality(TreeKey)
  <2>1. \A s \in I: rank[s] = Cardinality(TreeKey) - (IF s[1] = NoKey THEN 0 ELSE Cardinality(sub[s[1]]))
    OBVIOUS
  <2> HIDE DEF rank, I
  <2> QED
    BY <1>5, <1>9, <2>1, LastIsNat
<1>11. \A s \in I: step[s] = s \/ rank[step[s]] > rank[s]
  <2>1. SUFFICES ASSUME NEW s \in I, s[1] # NoKey PROVE rank[step[s]] > rank[s]
    BY <1>7
  <2>2. PICK y, t: y = s[1] /\ t = step[s]
    OBVIOUS
  <2>3. y \in N /\ t \in I /\ (t[1] = NoKey \/ (t[1] \in N /\ \E f \in Dirs: t[1] = Child(T, y, f)))
    <3> HIDE DEF I, step
    <3> QED
      BY <1>5, <1>6, <2>1, <2>2
  <2>4. rank[s] = Cardinality(TreeKey) - Cardinality(sub[y])
    BY <2>1, <2>2
  <2>5. rank[t] = Cardinality(TreeKey) - (IF t[1] = NoKey THEN 0 ELSE Cardinality(sub[t[1]]))
    BY <2>3
  <2>6. CASE t[1] = NoKey
    <3> HIDE DEF rank, I, step
    <3> QED
      BY <1>9, <2>2, <2>3, <2>4, <2>5, <2>6, LastIsNat
  <2>7. CASE t[1] # NoKey
    <3>1. PICK f \in Dirs: t[1] = Child(T, y, f)
      BY <2>3, <2>7
    <3>2. PICK c: c = t[1]
      OBVIOUS
    <3>3. c \in N /\ c # NoKey /\ sub[c] \subseteq sub[y] \ {y} /\ y \in sub[y]
      <4> HIDE DEF rank, I, step
      <4> QED
        BY <1>1, <2>3, <2>7, <3>1, <3>2, LinkFacts
    <3>4. sub[c] \in SUBSET sub[y] /\ sub[c] # sub[y]
      BY <3>3
    <3>5. Cardinality(sub[c]) <= Cardinality(sub[y]) /\ Cardinality(sub[c]) # Cardinality(sub[y])
      BY <1>9, <2>3, <3>4, FS_Subset
    <3>6. rank[t] = Cardinality(TreeKey) - Cardinality(sub[c])
      BY <2>5, <2>7, <3>2
    <3> HIDE DEF rank, I, step
    <3> QED
      BY <1>9, <2>2, <2>3, <2>4, <3>3, <3>5, <3>6, LastIsNat
  <2> QED
    BY <2>6, <2>7
<1>12. x = Loop(step, s0)[2]
  BY DEF Glb, LowerBound
<1> HIDE DEF I, step, rank, s0
<1>13. Loop(step, s0) \in I /\ step[Loop(step, s0)] = Loop(step, s0)
  BY <1>4, <1>8, <1>10, <1>11, LoopEnds
<1>14. PICK s: s = Loop(step, s0)
  OBVIOUS
<1>15. s \in I /\ step[s] = s /\ x = s[2]
  BY <1>12, <1>13, <1>14
<1>16. s[1] = NoKey
  <2>1. SUFFICES ASSUME s[1] # NoKey PROVE FALSE
    OBVIOUS
  <2>2. s[1] \in N
    BY <1>5, <1>15, <2>1
  <2> QED
    BY <1>3, <1>6, <1>15, <2>1, <2>2
<1> QED
  BY <1>5, <1>15, <1>16

-----------------------------------------------------------------------------
(* The specification.                                                                *)

LEMMA WrapIs ==
  ASSUME NEW S \in Nat, S > 0, NEW z \in Int
  PROVE  /\ 0 <= z /\ z < S => z % S = z
         /\ -S <= z /\ z < 0 => z % S = z + S
         /\ z = S => z % S = 0
OBVIOUS

\* the count that size_ keeps
Counted(n, i) == (n - i) % SizeLimit

LEMMA CountIs ==
  ASSUME NEW n \in 0 .. Cardinality(TreeKey), NEW i \in 0 .. MaxIndexed
  PROVE  /\ n + 1 <= Cardinality(TreeKey) => (Counted(n, i) + 1) % SizeLimit = Counted(n + 1, i)
         /\ n > 0 => (Counted(n, i) - 1) % SizeLimit = Counted(n - 1, i)
         /\ Counted(n + 1, i + 1) = Counted(n, i)
         /\ Counted(0, 0) = 0
<1>1. /\ SizeLimit \in Nat /\ SizeLimit > 0 /\ MaxIndexed \in Nat /\ Cardinality(TreeKey) \in Nat
      /\ SizeLimit > Cardinality(TreeKey) + MaxIndexed
  BY LastIsNat, TreeAssumption DEF TreeAssumption
<1>2. PICK S, C, M, z: S = SizeLimit /\ C = Cardinality(TreeKey) /\ M = MaxIndexed /\ z = n - i
  OBVIOUS
<1>3. /\ S \in Nat /\ S > 0 /\ M \in Nat /\ C \in Nat /\ S > C + M /\ n \in Int /\ i \in Int /\ z \in Int
      /\ z <= C /\ z <= n /\ z >= -M /\ n >= 0 /\ i <= M
  BY <1>1, <1>2
<1>4. \A y \in Int: /\ 0 <= y /\ y < S => y % S = y
                    /\ -S <= y /\ y < 0 => y % S = y + S
                    /\ y = S => y % S = 0
  BY <1>3, WrapIs
<1>5. ASSUME n + 1 <= C PROVE ((z % S) + 1) % S = (z + 1) % S
  <2>1. CASE z >= 0
    <3>1. z % S = z /\ z + 1 < S
      BY <1>3, <1>4, <1>5, <2>1
    <3> QED
      BY <3>1
  <2>2. CASE z < 0
    <3>1. z % S = z + S /\ z + 1 >= -S /\ z + S + 1 \in Int /\ z + 1 \in Int
      BY <1>3, <1>4, <2>2
    <3>2. CASE z = -1
      <4>1. (z + S + 1) % S = 0 /\ (z + 1) % S = 0
        BY <1>3, <1>4, <3>1, <3>2
      <4> QED
        BY <3>1, <4>1
    <3>3. CASE z # -1
      <4>1. (z + S + 1) % S = z + S + 1
        BY <1>3, <1>4, <2>2, <3>1, <3>3
      <4>2. (z + 1) % S = z + 1 + S
        BY <1>3, <1>4, <2>2, <3>1, <3>3
      <4> QED
        BY <1>3, <3>1, <4>1, <4>2
    <3> QED
      BY <3>2, <3>3
  <2> QED
    BY <1>3, <2>1, <2>2
<1>6. ASSUME n > 0, n <= C PROVE ((z % S) - 1) % S = (z - 1) % S
  <2>1. z - 1 \in Int /\ -S <= z - 1 /\ z < S
    BY <1>3, <1>6
  <2>2. CASE z >= 0
    <3>1. z % S = z
      BY <1>3, <1>4, <2>1, <2>2
    <3> QED
      BY <3>1
  <2>3. CASE z < 0
    <3>1. z % S = z + S /\ (z - 1) % S = z - 1 + S
      BY <1>3, <1>4, <2>1, <2>3
    <3>2. z + S - 1 \in Int /\ 0 <= z + S - 1 /\ z + S - 1 < S
      BY <1>3, <2>1, <2>3
    <3>3. (z + S - 1) % S = z + S - 1
      BY <1>4, <3>2
    <3> QED
      BY <1>3, <3>1, <3>3
  <2> QED
    BY <1>3, <2>2, <2>3
<1>7. (n + 1) - (i + 1) = z /\ (n + 1) - i = z + 1 /\ (n - 1) - i = z - 1 /\ n <= C /\ (0 - 0) % S = 0
  <2>1. 0 % S = 0
    BY <1>3, <1>4
  <2> QED
    BY <1>2, <1>3, <2>1
<1> QED
  BY <1>2, <1>5, <1>6, <1>7 DEF Counted

\* T is a red-black tree of the pairs of h.
Holding(T, h) ==
  /\ DOMAIN h \subseteq TreeKey /\ h \in [DOMAIN h -> Nat]
  /\ RbTree(T, DOMAIN h) /\ Clean(T, DOMAIN h)
  /\ \A k \in DOMAIN h: T.n[k].value = h[k]

\* The inductive invariant: size_ is right but for the nodes that operator[] made.
TreeInv ==
  /\ Holding(tree, held)
  /\ indexed \in 0 .. MaxIndexed
  /\ tree_size_ = Counted(Cardinality(DOMAIN held), indexed)

LEMMA EmptyIs ==
  ASSUME NEW T, T = EmptyTree
  PROVE  RbTree(T, {}) /\ Clean(T, {})
<1>1. T \in Trees /\ T.root = NoKey /\ \A k \in TreeKey: T.n[k] = Unused
  <2>1. Unused \in Nodes /\ NoKey \in Keys0
    <3>1. 0 \in Int
      OBVIOUS
    <3> QED
      BY <3>1, LeafIs, KeyFacts
  <2> QED
    BY <2>1 DEF EmptyTree, Trees
<1>2. PICK sub: sub = [k \in {} |-> {}]
  OBVIOUS
<1>3. sub \in [{} -> SUBSET {}]
  BY <1>2
<1>4. Linked(T, {}, sub) /\ Ordered(T, {}, sub, NoKey)
  BY <1>1, <1>3 DEF Linked, Ordered
<1>5. Even(T, {}, NoKey, Left)
  <2>1. PICK bh: bh = [k \in {} |-> 0]
    OBVIOUS
  <2>2. Balanced(T, {}, bh, NoKey, Left)
    BY <2>1 DEF Balanced
  <2> QED
    BY <2>2 DEF Even
<1>6. Calm(T, {}, {})
  BY DEF Calm
<1>7. Clean(T, {})
  <2>1. \A f \in Dirs: Unused.child[f] = NoKey
    <3>1. 0 \in Int
      OBVIOUS
    <3> QED
      BY <3>1, LeafIs
  <2> QED
    BY <1>1, <2>1 DEF Clean, Child
<1> QED
  BY <1>4, <1>5, <1>6, <1>7 DEF RbTree, Shape

With(h, k, v) == [x \in DOMAIN h \cup {k} |-> IF x = k THEN v ELSE h[x]]

\* insert (replace) and operator[], which keeps what is there
Pairs(h, k, v, replace) == IF k \in DOMAIN h /\ ~replace THEN h ELSE With(h, k, v)
Put(T, k, v, replace) == InsertNode(T, k, v, replace)

LEMMA InsertHolding ==
  ASSUME NEW T, NEW h, Holding(T, h), NEW k \in TreeKey, NEW v \in Nat, NEW replace \in BOOLEAN,
         NEW R, R = Put(T, k, v, replace), NEW g, g = Pairs(h, k, v, replace)
  PROVE  Holding(R, g) /\ DOMAIN g = DOMAIN h \cup {k}
<1>1. PICK N: N = DOMAIN h
  OBVIOUS
<1>2. N \subseteq TreeKey /\ RbTree(T, N) /\ Clean(T, N) /\ h \in [N -> Nat] /\ \A j \in N: T.n[j].value = h[j]
  BY <1>1 DEF Holding
<1>3. Inserted(R, T, N, k, v, replace)
  <2>1. v \in Int
    OBVIOUS
  <2> QED
    BY <1>2, <2>1, InsertNodeIs DEF Put
<1>4. /\ DOMAIN g = N \cup {k} /\ g \in [N \cup {k} -> Nat]
      /\ \A j \in N \ {k}: g[j] = h[j]
      /\ g[k] = IF k \in N /\ ~replace THEN h[k] ELSE v
  <2>1. CASE k \in N /\ ~replace
    <3>1. g = h /\ N \cup {k} = N
      BY <1>1, <2>1 DEF Pairs
    <3> QED
      BY <1>1, <1>2, <2>1, <3>1
  <2>2. CASE ~(k \in N /\ ~replace)
    <3>1. g = [x \in N \cup {k} |-> IF x = k THEN v ELSE h[x]]
      BY <1>1, <2>2 DEF With, Pairs
    <3> QED
      BY <1>2, <2>2, <3>1
  <2> QED
    BY <2>1, <2>2
<1>5. /\ RbTree(R, N \cup {k}) /\ Clean(R, N \cup {k})
      /\ \A j \in TreeKey \ {k}: R.n[j].value = T.n[j].value
      /\ R.n[k].value = IF k \in N /\ ~replace THEN T.n[k].value ELSE v
  BY <1>3 DEF Inserted
<1>6. N \cup {k} \subseteq TreeKey
  BY <1>2
<1>7. \A j \in N \cup {k}: R.n[j].value = g[j]
  BY <1>2, <1>4, <1>5
<1> QED
  BY <1>1, <1>4, <1>5, <1>6, <1>7 DEF Holding

PutHolding(T, h, k, v, replace) ==
  /\ Holding(Put(T, k, v, replace), Pairs(h, k, v, replace))
  /\ DOMAIN Pairs(h, k, v, replace) = DOMAIN h \cup {k}

LEMMA PutKeepsHolding ==
  ASSUME NEW T, NEW h, Holding(T, h), NEW k \in TreeKey, NEW v \in Nat
  PROVE  PutHolding(T, h, k, v, TRUE) /\ PutHolding(T, h, k, v, FALSE)
<1>1. \A replace \in BOOLEAN: PutHolding(T, h, k, v, replace)
  BY InsertHolding DEF PutHolding
<1> QED
  BY <1>1

\* operator= through the reference that operator[] gave
LEMMA AssignHolding ==
  ASSUME NEW T, NEW h, Holding(T, h), NEW k \in DOMAIN h, NEW v \in Nat,
         NEW R, R = RecalcUp([T EXCEPT !.n[k].value = v], k)
  PROVE  Holding(R, With(h, k, v))
<1>1. PICK N, g: N = DOMAIN h /\ g = With(h, k, v)
  OBVIOUS
<1>2. /\ N \subseteq TreeKey /\ RbTree(T, N) /\ Clean(T, N) /\ h \in [N -> Nat]
      /\ \A j \in N: T.n[j].value = h[j]
  BY <1>1 DEF Holding
<1>3. Inserted(R, T, N, k, v, TRUE)
  <2>1. R = RecalcUp(IF TRUE THEN [T EXCEPT !.n[k].value = v] ELSE T, k) /\ v \in Int
    OBVIOUS
  <2> QED
    BY <1>1, <1>2, <2>1, InsertFound
<1>4. N \cup {k} = N /\ DOMAIN g = N /\ g \in [N -> Nat] /\ \A j \in N: g[j] = IF j = k THEN v ELSE h[j]
  BY <1>1, <1>2 DEF With
<1>5. /\ RbTree(R, N) /\ Clean(R, N)
      /\ \A j \in TreeKey \ {k}: R.n[j].value = T.n[j].value
      /\ R.n[k].value = v
  BY <1>3, <1>4 DEF Inserted
<1> QED
  BY <1>1, <1>2, <1>4, <1>5 DEF Holding

LEMMA EraseHolding ==
  ASSUME NEW T, NEW h, Holding(T, h), NEW k \in DOMAIN h, NEW R, R = EraseNode(T, k)
  PROVE  Holding(R, [y \in DOMAIN h \ {k} |-> h[y]])
<1>1. PICK N, g: N = DOMAIN h /\ g = [y \in DOMAIN h \ {k} |-> h[y]]
  OBVIOUS
<1>2. /\ N \subseteq TreeKey /\ RbTree(T, N) /\ Clean(T, N) /\ h \in [N -> Nat]
      /\ \A j \in N: T.n[j].value = h[j]
  BY <1>1 DEF Holding
<1>3. Without(R, T, N, k)
  BY <1>1, <1>2, EraseNodeIs
<1>4. DOMAIN g = N \ {k} /\ g \in [N \ {k} -> Nat] /\ \A j \in N \ {k}: g[j] = h[j]
  BY <1>1, <1>2
<1> QED
  BY <1>1, <1>2, <1>3, <1>4 DEF Holding, Without

LEMMA CardinalityStep ==
  ASSUME NEW N, N \subseteq TreeKey, NEW k \in TreeKey
  PROVE  /\ IsFiniteSet(N) /\ Cardinality(N) \in 0 .. Cardinality(TreeKey)
         /\ k \notin N => /\ Cardinality(N \cup {k}) = Cardinality(N) + 1
                          /\ Cardinality(N) + 1 <= Cardinality(TreeKey)
         /\ k \in N => /\ Cardinality(N \ {k}) = Cardinality(N) - 1 /\ Cardinality(N) > 0 /\ N \cup {k} = N
<1>1. IsFiniteSet(TreeKey)
  BY TreeAssumption DEF TreeAssumption
<1>2. ASSUME NEW M \in SUBSET TreeKey
      PROVE  IsFiniteSet(M) /\ Cardinality(M) \in 0 .. Cardinality(TreeKey)
  <2>1. IsFiniteSet(M) /\ Cardinality(M) <= Cardinality(TreeKey)
    BY <1>1, FS_Subset
  <2>2. Cardinality(M) \in Nat
    BY <2>1, FS_CardinalityType
  <2> QED
    BY <2>1, <2>2, LastIsNat
<1>3. ASSUME k \notin N PROVE Cardinality(N \cup {k}) = Cardinality(N) + 1 /\ Cardinality(N) + 1 <= Cardinality(TreeKey)
  <2>1. IsFiniteSet(N)
    BY <1>2
  <2>2. Cardinality(N \cup {k}) = Cardinality(N) + 1
    BY <1>3, <2>1, FS_AddElement
  <2>3. N \cup {k} \in SUBSET TreeKey
    OBVIOUS
  <2>4. Cardinality(N \cup {k}) \in 0 .. Cardinality(TreeKey)
    BY <1>2, <2>3
  <2> QED
    BY <2>2, <2>4, LastIsNat
<1>4. ASSUME k \in N PROVE Cardinality(N \ {k}) = Cardinality(N) - 1 /\ Cardinality(N) > 0 /\ N \cup {k} = N
  <2>1. IsFiniteSet(N) /\ Cardinality(N) \in Nat
    BY <1>2
  <2>2. Cardinality(N \ {k}) = Cardinality(N) - 1
    BY <1>4, <2>1, FS_RemoveElement
  <2>3. N \ {k} \in SUBSET TreeKey
    OBVIOUS
  <2>4. Cardinality(N \ {k}) \in 0 .. Cardinality(TreeKey)
    BY <1>2, <2>3
  <2>5. Cardinality(N) > 0
    BY <2>1, <2>2, <2>4, LastIsNat
  <2> QED
    BY <1>4, <2>2, <2>5
<1> QED
  BY <1>2, <1>3, <1>4

LEMMA TreeInitInv == TreeInit => TreeInv
<1> SUFFICES ASSUME TreeInit PROVE TreeInv
  OBVIOUS
<1>1. tree = EmptyTree /\ tree_size_ = 0 /\ held = <<>> /\ indexed = 0
  BY DEF TreeInit
<1>2. DOMAIN held = {} /\ held \in [{} -> Nat]
  BY <1>1
<1>3. Holding(tree, held)
  BY <1>1, <1>2, EmptyIs DEF Holding
<1>4. Cardinality(DOMAIN held) = 0 /\ Counted(0, 0) = 0 /\ 0 \in 0 .. MaxIndexed
  <2>1. 0 \in 0 .. Cardinality(TreeKey) /\ 0 \in 0 .. MaxIndexed
    BY LastIsNat, TreeAssumption DEF TreeAssumption
  <2> QED
    BY <1>2, <2>1, CountIs, FS_EmptySet
<1> QED
  BY <1>1, <1>3, <1>4 DEF TreeInv

\* What a put of k does to the count.
LEMMA PutCount ==
  ASSUME TreeInv, NEW k \in TreeKey, NEW N, N = DOMAIN held
  PROVE  /\ Cardinality(N) \in 0 .. Cardinality(TreeKey) /\ indexed \in 0 .. MaxIndexed
         /\ tree_size_ = Counted(Cardinality(N), indexed)
         /\ k \in N => N \cup {k} = N /\ (tree_size_ - 1) % SizeLimit = Counted(Cardinality(N \ {k}), indexed)
         /\ k \notin N => /\ (tree_size_ + 1) % SizeLimit = Counted(Cardinality(N \cup {k}), indexed)
                          /\ tree_size_ = Counted(Cardinality(N \cup {k}), indexed + 1)
<1>1. N \subseteq TreeKey /\ indexed \in 0 .. MaxIndexed /\ tree_size_ = Counted(Cardinality(N), indexed)
  BY DEF TreeInv, Holding
<1>2. PICK n: n = Cardinality(N)
  OBVIOUS
<1>3. /\ n \in 0 .. Cardinality(TreeKey)
      /\ k \notin N => Cardinality(N \cup {k}) = n + 1 /\ n + 1 <= Cardinality(TreeKey)
      /\ k \in N => Cardinality(N \ {k}) = n - 1 /\ n > 0 /\ N \cup {k} = N
  BY <1>1, <1>2, CardinalityStep
<1>4. /\ n + 1 <= Cardinality(TreeKey) => (Counted(n, indexed) + 1) % SizeLimit = Counted(n + 1, indexed)
      /\ n > 0 => (Counted(n, indexed) - 1) % SizeLimit = Counted(n - 1, indexed)
      /\ Counted(n + 1, indexed + 1) = Counted(n, indexed)
  BY <1>1, <1>3, CountIs
<1> QED
  BY <1>1, <1>2, <1>3, <1>4

LEMMA TreeInsertInv ==
  ASSUME TreeInv, NEW k \in TreeKey, NEW v \in ValueOf[k], TreeInsert(k, v)
  PROVE  TreeInv'
<1>1. v \in Nat
  BY TreeAssumption DEF TreeAssumption
<1>2. PICK N, h, g, R: N = DOMAIN held /\ h = held /\ g = held' /\ R = tree'
  OBVIOUS
<1>3. /\ R = InsertNode(tree, k, v, TRUE) /\ g = With(h, k, v) /\ indexed' = indexed
      /\ tree_size_' = IF k \in N THEN tree_size_ ELSE (tree_size_ + 1) % SizeLimit
  BY <1>2 DEF TreeInsert, Holds, HeldWith, With
<1>4. Holding(tree, h)
  BY <1>2 DEF TreeInv
<1>5. Holding(R, g) /\ DOMAIN g = N \cup {k}
  <2>1. g = Pairs(h, k, v, TRUE) /\ R = Put(tree, k, v, TRUE)
    BY <1>3 DEF Pairs, Put
  <2>2. PutHolding(tree, h, k, v, TRUE)
    BY <1>1, <1>4, PutKeepsHolding
  <2> QED
    BY <1>2, <2>1, <2>2 DEF PutHolding
<1>6. /\ indexed \in 0 .. MaxIndexed
      /\ tree_size_ = Counted(Cardinality(N), indexed)
      /\ k \in N => N \cup {k} = N
      /\ k \notin N => (tree_size_ + 1) % SizeLimit = Counted(Cardinality(N \cup {k}), indexed)
  BY <1>2, PutCount
<1>7. tree_size_' = Counted(Cardinality(DOMAIN g), indexed)
  BY <1>3, <1>5, <1>6
<1> QED
  BY <1>2, <1>3, <1>5, <1>6, <1>7 DEF TreeInv, Counted

\* operator[] and the count
LEMMA SubscriptInv ==
  ASSUME TreeInv, NEW k \in TreeKey, Subscript(k)
  PROVE  /\ indexed' \in 0 .. MaxIndexed
         /\ tree_size_' = Counted(Cardinality(DOMAIN held \cup {k}), indexed')
<1>1. PICK N: N = DOMAIN held
  OBVIOUS
<1>2. /\ indexed \in 0 .. MaxIndexed
      /\ tree_size_ = Counted(Cardinality(N), indexed)
      /\ k \in N => N \cup {k} = N
      /\ k \notin N => tree_size_ = Counted(Cardinality(N \cup {k}), indexed + 1)
  BY <1>1, PutCount
<1>3. /\ k \notin N => indexed < MaxIndexed
      /\ indexed' = (IF k \in N THEN indexed ELSE indexed + 1) /\ tree_size_' = tree_size_
  BY <1>1 DEF Subscript, Holds
<1>4. CASE k \in N
  BY <1>1, <1>2, <1>3, <1>4
<1>5. CASE k \notin N
  <2>1. indexed' = indexed + 1 /\ indexed + 1 \in 0 .. MaxIndexed
    BY <1>2, <1>3, <1>5, TreeAssumption DEF TreeAssumption
  <2> QED
    BY <1>1, <1>2, <1>3, <1>5, <2>1
<1> QED
  BY <1>4, <1>5

LEMMA LookInv ==
  ASSUME TreeInv, NEW k \in TreeKey, Look(k)
  PROVE  TreeInv'
<1>1. PICK h, g, R: h = held /\ g = held' /\ R = tree'
  OBVIOUS
<1>2. R = Put(tree, k, 0, FALSE) /\ g = Pairs(h, k, 0, FALSE)
  BY <1>1 DEF Look, Holds, HeldWith, With, Pairs, Put
<1>3. Holding(tree, h) /\ 0 \in Nat
  BY <1>1 DEF TreeInv
<1>4. Holding(R, g) /\ DOMAIN g = DOMAIN h \cup {k}
  <2>1. PutHolding(tree, h, k, 0, FALSE)
    BY <1>3, PutKeepsHolding
  <2> QED
    BY <1>2, <2>1 DEF PutHolding
<1>5. indexed' \in 0 .. MaxIndexed /\ tree_size_' = Counted(Cardinality(DOMAIN held \cup {k}), indexed')
  BY SubscriptInv DEF Look
<1> QED
  BY <1>1, <1>4, <1>5 DEF TreeInv, Counted

LEMMA SetValueInv ==
  ASSUME TreeInv, NEW k \in TreeKey, NEW v \in ValueOf[k], SetValue(k, v)
  PROVE  TreeInv'
<1>1. PICK h, g, R, T1: h = held /\ g = held' /\ R = tree' /\ T1 = Put(tree, k, 0, FALSE)
  OBVIOUS
<1>2. R = RecalcUp([T1 EXCEPT !.n[k].value = v], k) /\ g = With(h, k, v)
  BY <1>1 DEF SetValue, HeldWith, With, Put
<1>3. Holding(tree, h) /\ 0 \in Nat /\ v \in Nat
  BY <1>1, TreeAssumption DEF TreeInv, TreeAssumption
<1>4. PICK h1: h1 = Pairs(h, k, 0, FALSE)
  OBVIOUS
<1>5. Holding(T1, h1) /\ DOMAIN h1 = DOMAIN h \cup {k}
  <2>1. PutHolding(tree, h, k, 0, FALSE)
    BY <1>3, PutKeepsHolding
  <2> QED
    BY <1>1, <1>4, <2>1 DEF PutHolding
<1>6. Holding(R, With(h1, k, v))
  BY <1>2, <1>3, <1>5, AssignHolding
<1>7. With(h1, k, v) = g /\ DOMAIN g = DOMAIN h \cup {k}
  <2>1. \A j \in DOMAIN h \ {k}: h1[j] = h[j]
    BY <1>4 DEF With, Pairs
  <2> QED
    BY <1>2, <1>5, <2>1 DEF With
<1>8. indexed' \in 0 .. MaxIndexed /\ tree_size_' = Counted(Cardinality(DOMAIN held \cup {k}), indexed')
  BY SubscriptInv DEF SetValue
<1> QED
  BY <1>1, <1>6, <1>7, <1>8 DEF TreeInv, Counted

LEMMA TreeEraseInv ==
  ASSUME TreeInv, NEW k \in TreeKey, TreeErase(k)
  PROVE  TreeInv'
<1>1. PICK x, N: x = LowerBound(tree, k) /\ N = DOMAIN held
  OBVIOUS
<1>2. RbTree(tree, N) /\ Holding(tree, held) /\ NoKey \notin N
  BY <1>1, KeyFacts DEF TreeInv, Holding
<1>3. x \in N \cup {NoKey} /\ (k \in N => x = k)
  BY <1>1, <1>2, GlbIs
<1>4. CASE x = k
  <2>1. k # NoKey /\ k \in N
    BY <1>3, <1>4, KeyFacts
  <2>2. /\ tree' = EraseNode(tree, k) /\ tree_size_' = (tree_size_ - 1) % SizeLimit
        /\ held' = [y \in DOMAIN held \ {k} |-> held[y]] /\ indexed' = indexed
    BY <1>1, <1>4, <2>1 DEF TreeErase, LowerBound
  <2>3. Holding(tree', held')
    <3>1. PICK R, g: R = tree' /\ g = held'
      OBVIOUS
    <3>2. Holding(R, g)
      BY <1>1, <1>2, <2>1, <2>2, <3>1, EraseHolding
    <3> QED
      BY <3>1, <3>2
  <2>4. tree_size_' = Counted(Cardinality(N \ {k}), indexed) /\ indexed \in 0 .. MaxIndexed
    BY <1>1, <2>1, <2>2, PutCount
  <2>5. DOMAIN held' = N \ {k}
    BY <1>1, <2>2
  <2> QED
    BY <2>2, <2>3, <2>4, <2>5 DEF TreeInv, Counted, Holding, RbTree, Clean, Shape, Even, Calm, Linked, Ordered, Balanced
<1>5. CASE x # k
  <2>1. UNCHANGED <<tree, tree_size_, held, indexed>>
    BY <1>1, <1>5 DEF TreeErase, LowerBound
  <2> QED
    BY <2>1 DEF TreeInv, Holding, Counted, RbTree, Clean, Shape, Even, Calm, Linked, Ordered, Balanced
<1> QED
  BY <1>4, <1>5

LEMMA TreeClearInv ==
  ASSUME TreeInv, TreeClear
  PROVE  TreeInv'
<1>1. PICK R, g: R = tree' /\ g = held'
  OBVIOUS
<1>2. R = EmptyTree /\ tree_size_' = 0 /\ g = <<>> /\ indexed' = 0
  BY <1>1 DEF TreeClear
<1>3. DOMAIN g = {} /\ g \in [{} -> Nat]
  BY <1>2
<1>4. Holding(R, g)
  BY <1>2, <1>3, EmptyIs DEF Holding
<1>5. Cardinality(DOMAIN g) = 0 /\ Counted(0, 0) = 0 /\ 0 \in 0 .. MaxIndexed
  <2>1. 0 \in 0 .. Cardinality(TreeKey) /\ 0 \in 0 .. MaxIndexed
    BY LastIsNat, TreeAssumption DEF TreeAssumption
  <2> QED
    BY <1>3, <2>1, CountIs, FS_EmptySet
<1> QED
  BY <1>1, <1>2, <1>4, <1>5 DEF TreeInv, Counted

LEMMA TreeNextInv == TreeInv /\ [TreeNext]_treeVars => TreeInv'
<1> SUFFICES ASSUME TreeInv, [TreeNext]_treeVars PROVE TreeInv'
  OBVIOUS
<1>1. ASSUME NEW k \in TreeKey, Look(k) PROVE TreeInv'
  BY <1>1, LookInv
<1>2. ASSUME NEW k \in TreeKey, TreeErase(k) PROVE TreeInv'
  BY <1>2, TreeEraseInv
<1>3. ASSUME NEW k \in TreeKey, NEW v \in ValueOf[k], TreeInsert(k, v) PROVE TreeInv'
  BY <1>3, TreeInsertInv
<1>4. ASSUME NEW k \in TreeKey, NEW v \in ValueOf[k], SetValue(k, v) PROVE TreeInv'
  BY <1>4, SetValueInv
<1>5. CASE TreeClear
  BY <1>5, TreeClearInv
<1>6. CASE UNCHANGED treeVars
  BY <1>6 DEF treeVars, TreeInv, Holding, Counted
<1> QED
  BY <1>1, <1>2, <1>3, <1>4, <1>5, <1>6 DEF TreeNext

-----------------------------------------------------------------------------
(* The keys in order.                                                                *)

Under(S, c) == {z \in S: z < c}

\* q lists S: there are i - 1 smaller members of S than the i'th of q.
Lists(q, S) ==
  /\ q \in Seq(Nat) /\ Len(q) = Cardinality(S)
  /\ \A i \in 1 .. Len(q): q[i] \in S /\ Cardinality(Under(S, q[i])) = i - 1

LEMMA RanksDiffer ==
  ASSUME NEW S \in SUBSET Nat, IsFiniteSet(S), NEW a \in S, NEW b \in S,
         Cardinality(Under(S, a)) = Cardinality(Under(S, b))
  PROVE  a = b
<1>1. ASSUME NEW c \in S, NEW e \in S, c < e
      PROVE  Cardinality(Under(S, c)) # Cardinality(Under(S, e))
  <2>1. PICK A, B: A = Under(S, c) /\ B = Under(S, e)
    OBVIOUS
  <2>0. S \subseteq Nat /\ c \in Nat /\ e \in Nat
    OBVIOUS
  <2>2. B \in SUBSET S /\ A \in SUBSET B /\ c \in B /\ c \notin A
    <3>1. (\A z: z \in A <=> z \in S /\ z < c) /\ (\A z: z \in B <=> z \in S /\ z < e)
      BY <2>1 DEF Under
    <3>2. \A z \in S: z < c => z < e
      BY <1>1, <2>0
    <3>3. ~(c < c)
      BY <2>0
    <3> QED
      BY ONLY <1>1, <3>1, <3>2, <3>3, c \in S, e \in S
  <2>3. IsFiniteSet(B) /\ A # B
    BY <2>2, FS_Subset
  <2>4. Cardinality(A) = Cardinality(B) => A = B
    BY <2>2, <2>3, FS_Subset
  <2> QED
    BY <2>1, <2>3, <2>4
<1>2. a \in Nat /\ b \in Nat
  OBVIOUS
<1>3. ~(a < b) /\ ~(b < a)
  BY <1>1
<1> QED
  BY <1>2, <1>3

LEMMA ListsUnique ==
  ASSUME NEW S \in SUBSET Nat, IsFiniteSet(S), NEW q, NEW p, Lists(q, S), Lists(p, S)
  PROVE  q = p
<1>1. /\ q \in Seq(Nat) /\ p \in Seq(Nat) /\ Len(q) = Len(p)
  BY DEF Lists
<1>2. ASSUME NEW i \in 1 .. Len(q) PROVE q[i] = p[i]
  <2>1. /\ q[i] \in S /\ p[i] \in S
        /\ Cardinality(Under(S, q[i])) = i - 1 /\ Cardinality(Under(S, p[i])) = i - 1
    BY <1>1 DEF Lists
  <2>2. PICK a, b: a = q[i] /\ b = p[i]
    OBVIOUS
  <2>3. a \in S /\ b \in S /\ Cardinality(Under(S, a)) = Cardinality(Under(S, b))
    BY <2>1, <2>2
  <2>4. a = b
    BY ONLY <2>3, RanksDiffer, S \in SUBSET Nat, IsFiniteSet(S)
  <2> QED
    BY <2>2, <2>4
<1> QED
  BY <1>1, <1>2

LEMMA ListsNothing == Lists(<<>>, {})
BY FS_EmptySet DEF Lists

Join(q, y, p) == q \o <<y>> \o p

Joined(r, q, y, p) ==
  /\ r \in Seq(Nat) /\ Len(r) = Len(q) + 1 + Len(p)
  /\ \A i \in 1 .. Len(q): r[i] = q[i]
  /\ r[Len(q) + 1] = y
  /\ \A i \in 1 .. Len(p): r[Len(q) + 1 + i] = p[i]

LEMMA JoinIs ==
  ASSUME NEW q \in Seq(Nat), NEW p \in Seq(Nat), NEW y \in Nat
  PROVE  Joined(Join(q, y, p), q, y, p)
BY DEF Join, Joined

LEMMA JoinLists ==
  ASSUME NEW A \in SUBSET Nat, IsFiniteSet(A), NEW B \in SUBSET Nat, IsFiniteSet(B), NEW y \in Nat,
         \A z \in A: z < y, \A z \in B: y < z, NEW q, Lists(q, A), NEW p, Lists(p, B)
  PROVE  Lists(Join(q, y, p), A \cup {y} \cup B)
<1>1. PICK S, r, a, b: /\ S = A \cup {y} \cup B /\ r = Join(q, y, p)
                       /\ a = Cardinality(A) /\ b = Cardinality(B)
  OBVIOUS
<1>2. a \in Nat /\ b \in Nat /\ y \notin A /\ y \notin B /\ A \cap B = {} /\ S \in SUBSET Nat
  BY <1>1, FS_CardinalityType
<1>3. IsFiniteSet(S) /\ Cardinality(S) = a + 1 + b
  <2>1. IsFiniteSet(A \cup {y}) /\ Cardinality(A \cup {y}) = a + 1
    BY <1>1, <1>2, FS_AddElement
  <2>2. (A \cup {y}) \cap B = {}
    BY <1>2
  <2>3. IsFiniteSet(S) /\ Cardinality(S) = Cardinality(A \cup {y}) + Cardinality(B) - Cardinality((A \cup {y}) \cap B)
    BY <1>1, <2>1, FS_Union
  <2> QED
    <3>1. Cardinality((A \cup {y}) \cap B) = 0
      BY <2>2, FS_EmptySet
    <3> QED
      BY ONLY <1>1, <1>2, <2>1, <2>3, <3>1
<1>4. q \in Seq(Nat) /\ p \in Seq(Nat) /\ Len(q) = a /\ Len(p) = b
  BY <1>1 DEF Lists
<1>5. /\ r \in Seq(Nat) /\ Len(r) = a + 1 + b
      /\ \A i \in 1 .. a: r[i] = q[i]
      /\ r[a + 1] = y
      /\ \A i \in 1 .. b: r[a + 1 + i] = p[i]
  <2>1. Joined(r, q, y, p)
    BY <1>1, <1>4, JoinIs
  <2> QED
    BY ONLY <1>4, <2>1 DEF Joined
<1>6. ASSUME NEW i \in 1 .. a PROVE r[i] \in S /\ Cardinality(Under(S, r[i])) = i - 1
  <2>1. PICK c: c = q[i]
    OBVIOUS
  <2>2. c \in A /\ Cardinality(Under(A, c)) = i - 1 /\ r[i] = c
    BY <1>4, <1>5, <2>1 DEF Lists
  <2>3. Under(S, c) = Under(A, c)
    <3>1. \A z \in S: z < c => z \in A
      <4>1. c < y /\ c \in Nat
        BY <2>2
      <4> QED
        BY <1>1, <4>1
    <3> QED
      BY ONLY <1>1, <3>1 DEF Under
  <2> QED
    BY <1>1, <2>2, <2>3
<1>7. r[a + 1] \in S /\ Cardinality(Under(S, r[a + 1])) = (a + 1) - 1
  <2>1. Under(S, y) = A
    <3>1. \A z \in S: z < y <=> z \in A
      BY <1>1, <1>2
    <3> QED
      BY ONLY <1>1, <3>1 DEF Under
  <2> QED
    BY ONLY <1>1, <1>2, <1>5, <2>1
<1>8. ASSUME NEW i \in 1 .. b PROVE r[a + 1 + i] \in S /\ Cardinality(Under(S, r[a + 1 + i])) = (a + 1 + i) - 1
  <2>1. PICK c, C: c = p[i] /\ C = Under(B, c)
    OBVIOUS
  <2>2. c \in B /\ Cardinality(C) = i - 1 /\ r[a + 1 + i] = c
    BY <1>4, <1>5, <2>1 DEF Lists
  <2>3. Under(S, c) = (A \cup {y}) \cup C
    <3>1. \A z \in A \cup {y}: z < c
      <4>1. y < c /\ c \in Nat
        BY <2>2
      <4> QED
        BY <4>1
    <3> QED
      BY ONLY <1>1, <2>1, <3>1 DEF Under
  <2>4. IsFiniteSet(A \cup {y}) /\ Cardinality(A \cup {y}) = a + 1
    BY <1>1, <1>2, FS_AddElement
  <2>5. C \in SUBSET B /\ IsFiniteSet(C) /\ (A \cup {y}) \cap C = {}
    BY <1>2, <2>1, FS_Subset DEF Under
  <2>6. Cardinality((A \cup {y}) \cup C) = Cardinality(A \cup {y}) + Cardinality(C) - Cardinality((A \cup {y}) \cap C)
    BY <2>4, <2>5, FS_Union
  <2>7. Cardinality((A \cup {y}) \cup C) = (a + 1) + (i - 1) - 0
    BY <2>2, <2>4, <2>5, <2>6, FS_EmptySet
  <2>8. (a + 1) + (i - 1) - 0 = (a + 1 + i) - 1
    BY <1>2
  <2>9. c \in S
    BY <1>1, <2>2
  <2> QED
    BY ONLY <2>2, <2>3, <2>7, <2>8, <2>9
<1>9. ASSUME NEW i \in 1 .. Len(r) PROVE r[i] \in S /\ Cardinality(Under(S, r[i])) = i - 1
  <2>1. CASE i \in 1 .. a
    BY <1>6, <2>1
  <2>2. CASE i = a + 1
    BY <1>7, <2>2
  <2>3. CASE i > a + 1
    <3>1. PICK j: j = i - (a + 1)
      OBVIOUS
    <3>2. j \in 1 .. b /\ i = a + 1 + j
      BY <1>2, <1>5, <2>3, <3>1
    <3> QED
      BY <1>8, <3>2
  <2> QED
    BY <1>2, <1>5, <2>1, <2>2, <2>3
<1>10. Lists(r, S)
  BY <1>3, <1>5, <1>9 DEF Lists
<1> QED
  BY <1>1, <1>10

LEMMA KeyListsJoin ==
  ASSUME NEW T, NEW N, NEW sub, Linked(T, N, sub), Ordered(T, N, sub, NoKey), NEW k \in N,
         NEW q, Lists(q, SubOf(sub, Child(T, k, Left))), NEW p, Lists(p, SubOf(sub, Child(T, k, Right)))
  PROVE  Lists(Join(q, k, p), sub[k])
<1>1. PICK A, B: A = SubOf(sub, Child(T, k, Left)) /\ B = SubOf(sub, Child(T, k, Right))
  OBVIOUS
<1>2. /\ N \subseteq TreeKey /\ N \subseteq Nat /\ NoKey \notin N /\ IsFiniteSet(TreeKey)
      /\ Left \in Dirs /\ Right \in Dirs /\ Other(Left) = Right /\ Left # Right
  BY KeyFacts, DirFacts, TreeAssumption DEF TreeAssumption, Linked
<1>3. sub[k] = {k} \cup A \cup B /\ A \subseteq N /\ B \subseteq N
  BY <1>1, <1>2, LinkFacts DEF Linked
<1>4. (\A y \in A: y < k) /\ (\A y \in B: k < y)
  <2>1. (\A y \in A: Before(Left, y, k)) /\ (\A y \in B: Before(Right, y, k))
    BY <1>1, <1>2, <1>3 DEF Ordered
  <2> QED
    BY <1>2, <2>1 DEF Before
<1>5. IsFiniteSet(A) /\ IsFiniteSet(B) /\ A \in SUBSET Nat /\ B \in SUBSET Nat /\ k \in Nat
  <2>1. A \in SUBSET TreeKey /\ B \in SUBSET TreeKey
    BY <1>2, <1>3
  <2> QED
    BY <1>2, <1>3, <2>1, FS_Subset
<1>6. Lists(q, A) /\ Lists(p, B)
  BY <1>1
<1>7. Lists(Join(q, k, p), A \cup {k} \cup B)
  BY <1>4, <1>5, <1>6, JoinLists
<1>8. A \cup {k} \cup B = sub[k]
  BY <1>3
<1> QED
  BY <1>7, <1>8

LEMMA KeyListsExist ==
  ASSUME NEW T, NEW N, NEW sub, Linked(T, N, sub), Ordered(T, N, sub, NoKey)
  PROVE  \A k \in N: \E q: Lists(q, sub[k])
<1> DEFINE S == {k \in N: \E q: Lists(q, sub[k])}
<1>1. ASSUME NEW k \in N, \A f \in Dirs: Child(T, k, f) # NoKey => Child(T, k, f) \in S
      PROVE  k \in S
  <2>1. \A f \in Dirs: \E q: Lists(q, SubOf(sub, Child(T, k, f)))
    <3>1. SUFFICES ASSUME NEW f \in Dirs PROVE \E q: Lists(q, SubOf(sub, Child(T, k, f)))
      OBVIOUS
    <3>2. CASE Child(T, k, f) = NoKey
      BY <3>2, ListsNothing DEF SubOf
    <3>3. CASE Child(T, k, f) # NoKey
      BY <1>1, <3>3 DEF SubOf
    <3> QED
      BY <3>2, <3>3
  <2>2. PICK q: Lists(q, SubOf(sub, Child(T, k, Left)))
    BY <2>1, KeyFacts
  <2>3. PICK p: Lists(p, SubOf(sub, Child(T, k, Right)))
    BY <2>1, KeyFacts
  <2>4. Lists(Join(q, k, p), sub[k])
    BY <2>2, <2>3, KeyListsJoin
  <2> QED
    BY <2>4
<1>2. N \subseteq S
  <2> HIDE DEF S
  <2> QED
    BY <1>1, UpInduction
<1> QED
  BY <1>2

InorderOf(in, T) ==
  in = [y \in Keys0 |-> IF y = NoKey THEN <<>> ELSE in[Child(T, y, Left)] \o <<y>> \o in[Child(T, y, Right)]]

\* The recursive function that Inorder defines exists.
LEMMA InorderExists ==
  ASSUME NEW T, NEW N, NEW sub, Linked(T, N, sub), Ordered(T, N, sub, NoKey), Clean(T, N)
  PROVE  \E in: InorderOf(in, T)
<1>1. /\ N \subseteq TreeKey /\ NoKey \notin N /\ IsFiniteSet(TreeKey) /\ N \subseteq Nat /\ sub \in [N -> SUBSET N]
      /\ Left \in Dirs /\ Right \in Dirs /\ Keys0 = TreeKey \cup {NoKey}
  BY KeyFacts, TreeAssumption DEF TreeAssumption, Linked, Keys0
<1> DEFINE list(S) == CHOOSE q: Lists(q, S)
           g == [y \in Keys0 |-> IF y \in N THEN list(sub[y]) ELSE IF y = NoKey THEN <<>> ELSE <<y>>]
<1>2. \A k \in N: Lists(list(sub[k]), sub[k])
  BY KeyListsExist
<1>3. \A k \in N: g[k] = list(sub[k])
  BY <1>1
<1>4. g[NoKey] = <<>>
  <2>1. NoKey \in Keys0 /\ ~(NoKey \in N)
    BY <1>1
  <2>2. PICK e: e = NoKey
    OBVIOUS
  <2> HIDE DEF list
  <2>3. g[e] = IF e \in N THEN list(sub[e]) ELSE IF e = NoKey THEN <<>> ELSE <<e>>
    BY <2>1, <2>2 DEF g
  <2> HIDE DEF g
  <2>4. g[e] = <<>>
    BY <2>1, <2>2, <2>3
  <2> QED
    BY <2>2, <2>4
<1>5. ASSUME NEW y \in TreeKey \ N PROVE g[y] = <<y>>
  <2>1. y \in Keys0 /\ ~(y \in N) /\ y # NoKey
    BY <1>1, KeyFacts
  <2> HIDE DEF list
  <2>2. g[y] = IF y \in N THEN list(sub[y]) ELSE IF y = NoKey THEN <<>> ELSE <<y>>
    BY <2>1 DEF g
  <2> HIDE DEF g
  <2> QED
    BY <2>1, <2>2
<1> HIDE DEF g, list
<1>6. \A c \in N \cup {NoKey}: Lists(g[c], SubOf(sub, c))
  BY <1>1, <1>2, <1>3, <1>4, ListsNothing DEF SubOf
<1>7. ASSUME NEW k \in N PROVE g[k] = Join(g[Child(T, k, Left)], k, g[Child(T, k, Right)])
  <2>1. Child(T, k, Left) \in N \cup {NoKey} /\ Child(T, k, Right) \in N \cup {NoKey}
    BY <1>1, LinkFacts
  <2>2. Lists(Join(g[Child(T, k, Left)], k, g[Child(T, k, Right)]), sub[k])
    <3>1. PICK q, p: q = g[Child(T, k, Left)] /\ p = g[Child(T, k, Right)]
      OBVIOUS
    <3>2. Lists(q, SubOf(sub, Child(T, k, Left))) /\ Lists(p, SubOf(sub, Child(T, k, Right)))
      BY <1>6, <2>1, <3>1
    <3>3. Lists(Join(q, k, p), sub[k])
      BY <3>2, KeyListsJoin
    <3> QED
      BY <3>1, <3>3
  <2>3. Lists(g[k], sub[k])
    BY <1>2, <1>3
  <2>4. sub[k] \in SUBSET Nat /\ IsFiniteSet(sub[k])
    <3>1. sub[k] \in SUBSET TreeKey
      BY <1>1
    <3> QED
      BY <1>1, <3>1, FS_Subset
  <2>5. PICK a, b: a = g[k] /\ b = Join(g[Child(T, k, Left)], k, g[Child(T, k, Right)])
    OBVIOUS
  <2>6. a = b
    <3>1. Lists(a, sub[k]) /\ Lists(b, sub[k])
      BY <2>2, <2>3, <2>5
    <3> QED
      BY <2>4, <3>1, ListsUnique
  <2> QED
    BY <2>5, <2>6
<1>8. ASSUME NEW y \in TreeKey \ N PROVE g[y] = Join(g[Child(T, y, Left)], y, g[Child(T, y, Right)])
  <2>1. Child(T, y, Left) = NoKey /\ Child(T, y, Right) = NoKey
    BY <1>1 DEF Clean
  <2>2. Join(<<>>, y, <<>>) = <<y>>
    BY DEF Join
  <2> QED
    BY <1>4, <1>5, <2>1, <2>2
<1>9. \A y \in Keys0: g[y] = IF y = NoKey THEN <<>> ELSE Join(g[Child(T, y, Left)], y, g[Child(T, y, Right)])
  BY <1>1, <1>4, <1>7, <1>8
<1>10. g = [y \in Keys0 |-> g[y]]
  BY DEF g
<1>11. g = [y \in Keys0 |-> IF y = NoKey THEN <<>> ELSE Join(g[Child(T, y, Left)], y, g[Child(T, y, Right)])]
  BY <1>9, <1>10
<1>12. InorderOf(g, T)
  BY <1>11 DEF InorderOf, Join
<1> QED
  BY <1>12

LEMMA InorderLists ==
  ASSUME NEW T, NEW N, NEW sub, Linked(T, N, sub), Ordered(T, N, sub, NoKey), NEW in, InorderOf(in, T)
  PROVE  in[NoKey] = <<>> /\ \A k \in N: Lists(in[k], sub[k])
<1> DEFINE S == {k \in N: Lists(in[k], sub[k])}
<1>1. /\ N \subseteq Keys0 /\ NoKey \notin N /\ NoKey \in Keys0 /\ Left \in Dirs /\ Right \in Dirs
  BY KeyFacts DEF Linked
<1>2. in = [y \in Keys0 |-> IF y = NoKey THEN <<>> ELSE Join(in[Child(T, y, Left)], y, in[Child(T, y, Right)])]
  BY DEF InorderOf, Join
<1>3. in[NoKey] = <<>> /\ \A k \in N: in[k] = Join(in[Child(T, k, Left)], k, in[Child(T, k, Right)])
  BY <1>1, <1>2
<1>4. ASSUME NEW k \in N, \A f \in Dirs: Child(T, k, f) # NoKey => Child(T, k, f) \in S
      PROVE  k \in S
  <2>1. \A f \in Dirs: Lists(in[Child(T, k, f)], SubOf(sub, Child(T, k, f)))
    <3>1. SUFFICES ASSUME NEW f \in Dirs PROVE Lists(in[Child(T, k, f)], SubOf(sub, Child(T, k, f)))
      OBVIOUS
    <3>2. CASE Child(T, k, f) = NoKey
      BY <1>3, <3>2, ListsNothing DEF SubOf
    <3>3. CASE Child(T, k, f) # NoKey
      BY <1>4, <3>3 DEF SubOf
    <3> QED
      BY <3>2, <3>3
  <2>2. PICK q, p: q = in[Child(T, k, Left)] /\ p = in[Child(T, k, Right)]
    OBVIOUS
  <2>3. Lists(q, SubOf(sub, Child(T, k, Left))) /\ Lists(p, SubOf(sub, Child(T, k, Right)))
    BY <1>1, <2>1, <2>2
  <2>4. Lists(Join(q, k, p), sub[k])
    BY <2>3, KeyListsJoin
  <2>5. in[k] = Join(q, k, p)
    BY <1>3, <2>2
  <2> QED
    BY <2>4, <2>5
<1>5. N \subseteq S
  <2> HIDE DEF S
  <2> QED
    BY <1>4, UpInduction
<1> QED
  BY <1>3, <1>5

LEMMA InorderIs ==
  ASSUME NEW T, NEW N, RbTree(T, N), Clean(T, N)
  PROVE  Lists(Inorder(T, T.root), N)
<1>1. PICK sub: Linked(T, N, sub) /\ Ordered(T, N, sub, NoKey)
  BY DEF RbTree, Shape
<1>2. Inorder(T, T.root) = (CHOOSE in: InorderOf(in, T))[T.root]
  BY Zenon DEF Inorder, InorderOf
<1>3. PICK in: in = CHOOSE f: InorderOf(f, T)
  OBVIOUS
<1>4. InorderOf(in, T)
  <2>1. \E f: InorderOf(f, T)
    BY <1>1, InorderExists
  <2> HIDE DEF InorderOf
  <2> QED
    BY <1>3, <2>1
<1>5. in[NoKey] = <<>> /\ \A k \in N: Lists(in[k], sub[k])
  BY <1>1, <1>4, InorderLists
<1>6. IF T.root = NoKey THEN N = {} ELSE T.root \in N /\ sub[T.root] = N
  BY <1>1 DEF Linked
<1>7. Inorder(T, T.root) = in[T.root]
  BY <1>2, <1>3
<1> QED
  BY <1>5, <1>6, <1>7, ListsNothing

-----------------------------------------------------------------------------
(* The black heights.                                                                *)

Height(T, y) == IF Red(T, y) THEN 0 ELSE 1
Raised(S, e) == {h + e: h \in S}

HeightsOf(f, T) ==
  f = [y \in Keys0 |->
         IF y = NoKey THEN {0}
         ELSE {h + (IF Red(T, y) THEN 0 ELSE 1): h \in f[Child(T, y, Left)] \cup f[Child(T, y, Right)]}]

LEMMA HeightsAre ==
  ASSUME NEW f, NEW T
  PROVE  HeightsOf(f, T) <=>
           f = [y \in Keys0 |-> IF y = NoKey THEN {0}
                                ELSE Raised(f[Child(T, y, Left)] \cup f[Child(T, y, Right)], Height(T, y))]
BY DEF HeightsOf, Height, Raised

LEMMA RaisedIs ==
  ASSUME NEW a \in Nat, NEW e \in Nat
  PROVE  Raised({a} \cup {a}, e) = {a + e}
BY DEF Raised

\* The one height of a node that is in the tree.
LEMMA EvenHeights ==
  ASSUME NEW T, NEW N, NEW sub, Linked(T, N, sub), NEW bh, Balanced(T, N, bh, NoKey, Left), NEW k \in N
  PROVE  /\ \A f \in Dirs: Child(T, k, f) \in N \cup {NoKey} /\ BhOf(bh, Child(T, k, f)) \in Nat
         /\ BhOf(bh, Child(T, k, Left)) = BhOf(bh, Child(T, k, Right))
         /\ bh[k] = BhOf(bh, Child(T, k, Left)) + Height(T, k)
         /\ Height(T, k) \in Nat
<1>1. /\ k \in TreeKey /\ k # NoKey /\ T \in Trees /\ Left \in Dirs /\ Right \in Dirs
      /\ \A f \in Dirs: Child(T, k, f) \in N \cup {NoKey}
  BY KeyFacts, LinkFacts DEF Linked
<1>2. \A f \in Dirs: BhOf(bh, Child(T, k, f)) \in Nat
  BY <1>1, BhFacts DEF Balanced
<1>3. \A f \in Dirs: Lack(k, f, NoKey, Left) = 0
  BY <1>1 DEF Lack
<1>4. Black(T, k) = Height(T, k) /\ Height(T, k) \in Nat
  BY <1>1, RedIs DEF Height
<1>5. \A f \in Dirs: bh[k] = BhOf(bh, Child(T, k, f)) + Lack(k, f, NoKey, Left) + Black(T, k)
  BY DEF Balanced
<1>6. PICK a, b, c: a = BhOf(bh, Child(T, k, Left)) /\ b = BhOf(bh, Child(T, k, Right)) /\ c = Height(T, k)
  OBVIOUS
<1>7. a \in Nat /\ b \in Nat /\ c \in Nat /\ bh[k] = a + 0 + c /\ bh[k] = b + 0 + c
  BY <1>1, <1>2, <1>3, <1>4, <1>5, <1>6
<1>8. a = b /\ bh[k] = a + c
  BY <1>7
<1> QED
  BY <1>1, <1>2, <1>4, <1>6, <1>8

LEMMA HeightsExist ==
  ASSUME NEW T, NEW N, NEW sub, Linked(T, N, sub), NEW bh, Balanced(T, N, bh, NoKey, Left), Clean(T, N)
  PROVE  \E f: HeightsOf(f, T)
<1>1. /\ N \subseteq TreeKey /\ NoKey \notin N /\ Left \in Dirs /\ Right \in Dirs /\ Keys0 = TreeKey \cup {NoKey}
  BY KeyFacts DEF Linked, Keys0
<1> DEFINE g == [y \in Keys0 |-> IF y \in N \cup {NoKey} THEN {BhOf(bh, y)} ELSE {0 + Height(T, y)}]
<1>2. (\A y \in N \cup {NoKey}: g[y] = {BhOf(bh, y)}) /\ (\A y \in TreeKey \ N: g[y] = {0 + Height(T, y)})
  BY <1>1, KeyFacts
<1>3. g = [y \in Keys0 |-> g[y]]
  OBVIOUS
<1> HIDE DEF g
<1>4. g[NoKey] = {0}
  BY <1>2 DEF BhOf
<1>5. ASSUME NEW k \in N
      PROVE  g[k] = Raised(g[Child(T, k, Left)] \cup g[Child(T, k, Right)], Height(T, k))
  <2>1. PICK a, e: a = BhOf(bh, Child(T, k, Left)) /\ e = Height(T, k)
    OBVIOUS
  <2>2. a \in Nat /\ e \in Nat /\ bh[k] = a + e /\ a = BhOf(bh, Child(T, k, Right))
    BY <1>1, <2>1, EvenHeights
  <2>3. g[Child(T, k, Left)] = {a} /\ g[Child(T, k, Right)] = {a}
    BY <1>1, <1>2, <2>1, <2>2, EvenHeights
  <2>4. g[k] = {a + e}
    BY <1>1, <1>2, <2>2 DEF BhOf
  <2>5. Raised({a} \cup {a}, e) = {a + e}
    BY <2>2, RaisedIs
  <2> QED
    BY <2>1, <2>3, <2>4, <2>5
<1>6. ASSUME NEW y \in TreeKey \ N
      PROVE  g[y] = Raised(g[Child(T, y, Left)] \cup g[Child(T, y, Right)], Height(T, y))
  <2>1. Child(T, y, Left) = NoKey /\ Child(T, y, Right) = NoKey
    BY <1>1 DEF Clean
  <2>2. Height(T, y) \in Nat
    BY DEF Height
  <2>3. Raised({0} \cup {0}, Height(T, y)) = {0 + Height(T, y)}
    BY <2>2, RaisedIs
  <2> QED
    BY <1>2, <1>4, <2>1, <2>3
<1>7. \A y \in Keys0: g[y] = IF y = NoKey THEN {0}
                             ELSE Raised(g[Child(T, y, Left)] \cup g[Child(T, y, Right)], Height(T, y))
  BY <1>1, <1>4, <1>5, <1>6
<1>8. g = [y \in Keys0 |-> IF y = NoKey THEN {0}
                           ELSE Raised(g[Child(T, y, Left)] \cup g[Child(T, y, Right)], Height(T, y))]
  BY <1>3, <1>7
<1> QED
  BY <1>8, HeightsAre

LEMMA HeightsSingle ==
  ASSUME NEW T, NEW N, NEW sub, Linked(T, N, sub), NEW bh, Balanced(T, N, bh, NoKey, Left),
         NEW g, HeightsOf(g, T)
  PROVE  \A c \in N \cup {NoKey}: g[c] = {BhOf(bh, c)}
<1> DEFINE S == {k \in N: g[k] = {BhOf(bh, k)}}
<1>1. /\ N \subseteq Keys0 /\ NoKey \notin N /\ NoKey \in Keys0 /\ Left \in Dirs /\ Right \in Dirs
  BY KeyFacts DEF Linked
<1>2. g = [y \in Keys0 |-> IF y = NoKey THEN {0}
                           ELSE Raised(g[Child(T, y, Left)] \cup g[Child(T, y, Right)], Height(T, y))]
  BY HeightsAre
<1>3. /\ g[NoKey] = {BhOf(bh, NoKey)}
      /\ \A k \in N: g[k] = Raised(g[Child(T, k, Left)] \cup g[Child(T, k, Right)], Height(T, k))
  <2>1. g[NoKey] = {0}
    BY <1>1, <1>2
  <2>2. BhOf(bh, NoKey) = 0
    BY DEF BhOf
  <2>3. \A k \in N: k \in Keys0 /\ k # NoKey
    BY <1>1
  <2>4. \A k \in N: g[k] = Raised(g[Child(T, k, Left)] \cup g[Child(T, k, Right)], Height(T, k))
    BY <1>2, <2>3
  <2> QED
    BY <2>1, <2>2, <2>4
<1>4. ASSUME NEW k \in N, \A f \in Dirs: Child(T, k, f) # NoKey => Child(T, k, f) \in S
      PROVE  k \in S
  <2>1. \A f \in Dirs: g[Child(T, k, f)] = {BhOf(bh, Child(T, k, f))}
    BY <1>3, <1>4
  <2>2. PICK a, e: a = BhOf(bh, Child(T, k, Left)) /\ e = Height(T, k)
    OBVIOUS
  <2>3. a \in Nat /\ e \in Nat /\ bh[k] = a + e /\ a = BhOf(bh, Child(T, k, Right))
    BY <1>1, <2>2, EvenHeights
  <2>4. g[k] = Raised({a} \cup {a}, e)
    BY <1>1, <1>3, <2>1, <2>2, <2>3
  <2>5. g[k] = {a + e}
    BY <2>3, <2>4, RaisedIs
  <2>6. BhOf(bh, k) = a + e
    BY <1>1, <2>3 DEF BhOf
  <2> QED
    BY <2>5, <2>6
<1>5. N \subseteq S
  <2> HIDE DEF S
  <2> QED
    BY <1>4, UpInduction
<1> QED
  BY <1>3, <1>5

LEMMA BlackHeightsAre ==
  ASSUME NEW T, NEW N, RbTree(T, N), Clean(T, N)
  PROVE  Cardinality(BlackHeights(T, T.root)) = 1
<1>1. PICK sub: Linked(T, N, sub)
  BY DEF RbTree, Shape
<1>2. PICK bh: Balanced(T, N, bh, NoKey, Left)
  BY DEF RbTree, Even
<1>3. BlackHeights(T, T.root) = (CHOOSE f: HeightsOf(f, T))[T.root]
  BY Zenon DEF BlackHeights, HeightsOf
<1>4. PICK g: g = CHOOSE f: HeightsOf(f, T)
  OBVIOUS
<1>5. HeightsOf(g, T)
  <2>1. \E f: HeightsOf(f, T)
    BY <1>1, <1>2, HeightsExist
  <2> HIDE DEF HeightsOf
  <2> QED
    BY <1>4, <2>1
<1>6. T.root \in N \cup {NoKey}
  BY <1>1 DEF Linked
<1>7. g[T.root] = {BhOf(bh, T.root)}
  BY <1>1, <1>2, <1>5, <1>6, HeightsSingle
<1> QED
  BY <1>3, <1>4, <1>7, FS_Singleton

-----------------------------------------------------------------------------
(* The invariant is enough.                                                          *)

LEMMA ListsSorted ==
  ASSUME DOMAIN held \subseteq Nat, IsFiniteSet(DOMAIN held), NEW q, Lists(q, DOMAIN held)
  PROVE  q = SortedKeys
<1>1. PICK N: N = DOMAIN held
  OBVIOUS
<1>2. /\ N \in SUBSET Nat /\ IsFiniteSet(N) /\ q \in Seq(Nat) /\ Len(q) = Cardinality(N)
      /\ \A i \in 1 .. Len(q): q[i] \in N /\ Cardinality(Under(N, q[i])) = i - 1
  BY <1>1 DEF Lists
<1>3. \A k: KeysBelow(k) = Under(N, k)
  BY <1>1 DEF KeysBelow, Under
<1>4. ASSUME NEW i \in 1 .. Len(q)
      PROVE  q[i] = CHOOSE k \in N: Cardinality(KeysBelow(k)) = i - 1
  <2>1. PICK a: a = q[i]
    OBVIOUS
  <2>2. a \in N /\ Cardinality(Under(N, a)) = i - 1
    BY <1>2, <2>1
  <2>3. PICK b: b = CHOOSE k \in N: Cardinality(KeysBelow(k)) = i - 1
    OBVIOUS
  <2>4. b \in N /\ Cardinality(KeysBelow(b)) = i - 1
    BY <1>3, <2>2, <2>3
  <2>5. Cardinality(Under(N, b)) = i - 1
    BY <1>3, <2>4
  <2>6. a = b
    BY ONLY <1>2, <2>2, <2>4, <2>5, RanksDiffer
  <2> QED
    BY <2>1, <2>3, <2>6
<1>5. q = [i \in 1 .. Len(q) |-> q[i]]
  BY <1>2
<1>6. q = [i \in 1 .. Cardinality(N) |-> CHOOSE k \in N: Cardinality(KeysBelow(k)) = i - 1]
  BY <1>2, <1>4, <1>5
<1> QED
  BY <1>1, <1>6 DEF SortedKeys

LEMMA TreeInvShape == TreeInv => TreeInShape
<1> SUFFICES ASSUME TreeInv PROVE TreeInShape
  OBVIOUS
<1>1. PICK N: N = DOMAIN held
  OBVIOUS
<1>2. /\ N \subseteq TreeKey /\ RbTree(tree, N) /\ Clean(tree, N)
      /\ \A k \in N: tree.n[k].value = held[k]
      /\ tree_size_ = Counted(Cardinality(N), indexed)
  BY <1>1 DEF TreeInv, Holding
<1>3. Shape(tree, N) /\ Calm(tree, N, {})
  BY <1>2 DEF RbTree
<1>4. Inorder(tree, tree.root) = SortedKeys
  <2>1. Lists(Inorder(tree, tree.root), N)
    BY <1>2, InorderIs
  <2>2. N \subseteq Nat /\ IsFiniteSet(N)
    BY <1>2, KeyFacts, CardinalityStep, TreeAssumption, FS_Subset DEF TreeAssumption
  <2>3. PICK q: q = Inorder(tree, tree.root)
    OBVIOUS
  <2> QED
    BY <1>1, <2>1, <2>2, <2>3, ListsSorted
<1>5. Cardinality(BlackHeights(tree, tree.root)) = 1
  BY <1>2, BlackHeightsAre
<1>6. \A k \in N: ~RedViolation(tree, k)
  BY <1>3 DEF Calm
<1>7. tree.root # NoKey => Parent(tree, tree.root) = NoKey
  BY <1>3, ShapeFacts
<1>8. \A k \in N, d \in {Left, Right}: Child(tree, k, d) # NoKey => Parent(tree, Child(tree, k, d)) = k
  BY <1>3, ShapeFacts DEF Dirs
<1>9. tree_size_ = (Cardinality(N) - indexed) % SizeLimit
  BY <1>2 DEF Counted
<1> QED
  BY <1>1, <1>2, <1>4, <1>5, <1>6, <1>7, <1>8, <1>9 DEF TreeInShape

\* After any calls of insert, operator[], operator=, erase and clear, on any keys, the tree
\* is a red-black tree of exactly the pairs that were put in and not taken out.
THEOREM TreeStaysInShape == TreeSpec => []TreeInShape
<1>1. TreeInit => TreeInv
  BY TreeInitInv
<1>2. TreeInv /\ [TreeNext]_treeVars => TreeInv'
  BY TreeNextInv
<1>3. TreeInv => TreeInShape
  BY TreeInvShape
<1> QED
  BY <1>1, <1>2, <1>3, PTL DEF TreeSpec
=============================================================================
