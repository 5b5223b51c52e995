---------------------------- MODULE X1HeapProofs -----------------------------
(***************************************************************************)
(* Proofs that the collector implements GCHeap, so that the client cannot  *)
(* tell that its objects move; that a full collection keeps what is        *)
(* reachable and nothing else; and that the collector never loses the      *)
(* process.                                                                *)
(*                                                                         *)
(* Reached and GCHeap!Live stop after as many passes as there can be       *)
(* objects.  The first section proves that this is enough, so that what    *)
(* they compute is the least set that is closed under pointers; identities *)
(* bound the objects.  A step of a collection then maps the reachable      *)
(* objects to where they are afterwards and keeps their records; the last  *)
(* step cuts nothing off that a root reaches; and what the client does is  *)
(* what GCHeap does, cut down to what is reached.  Identities also show    *)
(* that a copy always fits, and that the recursion of the collector, which *)
(* follows a path of pointers, ends before the stack does.                 *)
(***************************************************************************)
EXTENDS X1CollectorProofs

USE X1Assumption DEF X1Assumption

-----------------------------------------------------------------------------
(* What is reached in as many passes as there can be objects is closed:     *)
(* each pass but the last ones adds something.                              *)

(* N passes of F over subsets of L, the first over A.                       *)
PassesOver(N, L, A, F) == N \in Nat /\ A \in SUBSET L /\ F \in [SUBSET L -> SUBSET L]

(* The passes exist: Reached is defined by a recursive function.            *)
LEMMA Passes ==
  ASSUME NEW N, NEW L, NEW A, NEW F, PassesOver(N, L, A, F)
  PROVE  \E f \in [0..N -> SUBSET L] : f[0] = A /\ \A n \in 1..N : f[n] = F[f[n - 1]]
<1> USE DEF PassesOver
<1> DEFINE Def(f, m) == /\ f \in [0..m -> SUBSET L]
                        /\ f = [n \in 0..m |-> IF n = 0 THEN A ELSE F[f[n - 1]]]
           S == {m \in Nat : \E f : Def(f, m)}
<1>1. 0 \in S
  <2> DEFINE f == [n \in {0} |-> A]
  <2>1. f = [n \in 0..0 |-> IF n = 0 THEN A ELSE F[f[n - 1]]]
    OBVIOUS
  <2>2. f \in [0..0 -> SUBSET L]
    OBVIOUS
  <2>3. QED
    BY <2>1, <2>2
<1>2. ASSUME NEW m \in S PROVE m + 1 \in S
  <2>1. m \in Nat /\ m + 1 \in Nat
    OBVIOUS
  <2>2. PICK f : Def(f, m)
    OBVIOUS
  <2> DEFINE h == [n \in 0..(m + 1) |-> IF n = 0 THEN A ELSE F[f[n - 1]]]
  <2>3. \A n \in 0..(m + 1) : n = 0 \/ n - 1 \in 0..m
    BY <2>1
  <2>4. \A n \in 0..m : h[n] = f[n]
    <3>1. \A n \in 0..m : n \in 0..(m + 1)
      BY <2>1
    <3>2. QED
      BY <2>2, <3>1
  <2>5. h \in [0..(m + 1) -> SUBSET L]
    <3>1. \A n \in 0..(m + 1) : n # 0 => F[f[n - 1]] \in SUBSET L
      BY <2>2, <2>3
    <3>2. QED
      BY <3>1
  <2>6. h = [n \in 0..(m + 1) |-> IF n = 0 THEN A ELSE F[h[n - 1]]]
    <3>1. \A n \in 0..(m + 1) : n # 0 => h[n - 1] = f[n - 1]
      BY <2>3, <2>4
    <3> HIDE DEF h
    <3>2. [n \in 0..(m + 1) |-> IF n = 0 THEN A ELSE F[f[n - 1]]]
          = [n \in 0..(m + 1) |-> IF n = 0 THEN A ELSE F[h[n - 1]]]
      BY <3>1
    <3>3. QED
      BY <3>2 DEF h
  <2> HIDE DEF h
  <2>7. QED
    BY <2>1, <2>5, <2>6
<1> HIDE DEF S
<1>3. S \in SUBSET Nat
  BY DEF S
<1>4. S = Nat
  BY <1>1, <1>2, <1>3, NatSetInduction
<1>5. N \in S
  BY <1>4
<1>6. PICK f : Def(f, N)
  BY <1>5 DEF S
<1>7. f[0] = A /\ \A n \in 1..N : f[n] = F[f[n - 1]]
  <2>1. 0 \in 0..N /\ \A n \in 1..N : n \in 0..N /\ n # 0
    OBVIOUS
  <2>2. QED
    BY <1>6, <2>1
<1>8. QED
  BY <1>6, <1>7

(* A pass over X adds what E leads to from the members of X; r are the      *)
(* results of the passes, and there are as many as members of L.            *)
PassesAlong(N, L, A, E, F, r) ==
  /\ PassesOver(N, L, A, F)
  /\ IsFiniteSet(L) /\ Cardinality(L) <= N /\ E \in [L -> SUBSET L]
  /\ \A X \in SUBSET L : \A x : x \in F[X] <=> \E b \in X : x = b \/ x \in E[b]
  /\ r[0] = A /\ \A n \in 1..N : r[n - 1] \in SUBSET L => r[n] = F[r[n - 1]]

(* R is the least subset of L that contains A and that E does not leave.    *)
LeastClosed(R, L, A, E) ==
  /\ R \in SUBSET L /\ A \subseteq R /\ \A b \in R : E[b] \subseteq R
  /\ \A T \in SUBSET L : A \subseteq T /\ (\A b \in T : E[b] \subseteq T) => R \subseteq T

LEMMA ClosureFacts ==
  ASSUME NEW N, NEW L, NEW A, NEW E, NEW F, NEW r, PassesAlong(N, L, A, E, F, r)
  PROVE  LeastClosed(r[N], L, A, E)
<1> USE DEF PassesOver, PassesAlong
<1> DEFINE step(X) == F[X]
<1>1. \A X \in SUBSET L : step(X) \in SUBSET L /\ X \subseteq step(X)
  OBVIOUS
<1>2. \A T \in SUBSET L : (\A b \in T : E[b] \subseteq T) =>
        \A X \in SUBSET T : step(X) \in SUBSET T
  OBVIOUS
<1>3. \A X \in SUBSET L : step(X) = X => \A b \in X : E[b] \subseteq X
  OBVIOUS
<1>4. \A n \in 1..N : r[n - 1] \in SUBSET L => r[n] = step(r[n - 1])
  OBVIOUS
<1> HIDE DEF step
<1>5. ASSUME NEW T \in SUBSET L, A \subseteq T, \A b \in T : E[b] \subseteq T
      PROVE  \A n \in 0..N : r[n] \in SUBSET T
  <2> DEFINE S == {n \in Nat : n \in 0..N => r[n] \in SUBSET T}
  <2>1. 0 \in S
    BY <1>5
  <2>2. ASSUME NEW n \in S PROVE n + 1 \in S
    <3>1. CASE n + 1 \in 0..N
      <4>1. n \in Nat /\ n \in 0..N /\ n + 1 \in 1..N /\ (n + 1) - 1 = n
        BY <3>1
      <4>2. r[n] \in SUBSET T /\ r[n] \in SUBSET L
        BY <1>5, <4>1
      <4>3. r[n + 1] = step(r[n])
        BY <1>4, <4>1, <4>2
      <4>4. QED
        BY <1>2, <1>5, <4>1, <4>2, <4>3
    <3>2. CASE n + 1 \notin 0..N
      BY <3>2
    <3>3. QED
      BY <3>1, <3>2
  <2> HIDE DEF S
  <2>3. S \in SUBSET Nat
    BY DEF S
  <2>4. S = Nat
    BY <2>1, <2>2, <2>3, NatSetInduction
  <2>5. \A n \in 0..N : n \in S
    BY <2>4
  <2>6. QED
    BY <2>5 DEF S
<1>6. \A n \in 0..N : r[n] \in SUBSET L
  <2>1. \A b \in L : E[b] \subseteq L
    OBVIOUS
  <2>2. QED
    BY <1>5, <2>1
<1>7. \A n \in 1..N : n - 1 \in 0..N /\ n \in 0..N /\ r[n] = step(r[n - 1]) /\ r[n - 1] \subseteq r[n]
  <2> TAKE n \in 1..N
  <2>1. n - 1 \in 0..N /\ n \in 0..N
    OBVIOUS
  <2>2. QED
    BY <1>1, <1>4, <1>6, <2>1
<1>8. A \subseteq r[N]
  <2> DEFINE S == {n \in Nat : n \in 0..N => A \subseteq r[n]}
  <2>1. 0 \in S
    OBVIOUS
  <2>2. ASSUME NEW n \in S PROVE n + 1 \in S
    <3>1. CASE n + 1 \in 0..N
      <4>1. n \in Nat /\ n \in 0..N /\ n + 1 \in 1..N /\ (n + 1) - 1 = n
        BY <3>1
      <4>2. A \subseteq r[n] /\ r[n] \subseteq r[n + 1]
        BY <1>7, <4>1
      <4>3. QED
        BY <4>1, <4>2
    <3>2. CASE n + 1 \notin 0..N
      BY <3>2
    <3>3. QED
      BY <3>1, <3>2
  <2> HIDE DEF S
  <2>3. S \in SUBSET Nat
    BY DEF S
  <2>4. S = Nat
    BY <2>1, <2>2, <2>3, NatSetInduction
  <2>5. N \in S /\ N \in 0..N
    BY <2>4
  <2>6. QED
    BY <2>5 DEF S
<1>9. \A X \in SUBSET L : IsFiniteSet(X) /\ Cardinality(X) \in Nat /\ Cardinality(X) <= N
  <2>1. Cardinality(L) \in Nat
    BY FS_CardinalityType
  <2> TAKE X \in SUBSET L
  <2>2. IsFiniteSet(X) /\ Cardinality(X) <= Cardinality(L)
    BY FS_Subset
  <2>3. Cardinality(X) \in Nat
    BY <2>2, FS_CardinalityType
  <2>4. QED
    BY <2>1, <2>2, <2>3
<1>10. \A b \in r[N] : E[b] \subseteq r[N]
  <2> DEFINE Closed(n) == step(r[n]) = r[n]
             S == {n \in Nat : n \in 0..N => Closed(n) \/ Cardinality(r[n]) >= n + 1}
  <2>1. 0 \in S
    <3>1. 0 \in 0..N /\ r[0] \in SUBSET L
      BY <1>6
    <3>2. CASE r[0] = {}
      <4>1. step({}) = {}
        <5>1. {} \in SUBSET L /\ \A x : x \notin F[{}]
          OBVIOUS
        <5>2. QED
          BY <5>1 DEF step
      <4>2. QED
        BY <3>2, <4>1
    <3>3. CASE r[0] # {}
      <4>1. IsFiniteSet(r[0]) /\ Cardinality(r[0]) \in Nat
        BY <1>9, <3>1
      <4>2. Cardinality(r[0]) # 0
        BY <3>3, <4>1, FS_EmptySet
      <4>3. Cardinality(r[0]) >= 0 + 1
        BY <4>1, <4>2
      <4>4. QED
        BY <4>3
    <3>4. QED
      BY <3>2, <3>3
  <2>2. ASSUME NEW n \in S PROVE n + 1 \in S
    <3>1. CASE n + 1 \in 0..N
      <4>1. n \in Nat /\ n \in 0..N /\ n + 1 \in 1..N /\ (n + 1) - 1 = n
        BY <3>1
      <4>2. /\ r[n] \in SUBSET L /\ r[n + 1] \in SUBSET L
            /\ r[n + 1] = step(r[n]) /\ r[n] \subseteq r[n + 1]
        BY <1>6, <1>7, <3>1, <4>1
      <4>3. CASE Closed(n)
        <5>1. r[n + 1] = r[n]
          BY <4>2, <4>3
        <5>2. Closed(n + 1)
          BY <4>3, <5>1
        <5> HIDE DEF Closed
        <5>3. QED
          BY <4>1, <5>2
      <4>4. CASE ~Closed(n)
        <5>1. r[n + 1] # r[n]
          BY <4>2, <4>4
        <5>2. /\ IsFiniteSet(r[n + 1]) /\ Cardinality(r[n]) \in Nat /\ Cardinality(r[n + 1]) \in Nat
          BY <1>9, <4>2
        <5>3. /\ Cardinality(r[n]) <= Cardinality(r[n + 1])
              /\ Cardinality(r[n + 1]) # Cardinality(r[n])
          BY <4>2, <5>1, <5>2, FS_Subset
        <5>4. Cardinality(r[n]) >= n + 1
          BY <4>1, <4>4
        <5>5. Cardinality(r[n + 1]) >= (n + 1) + 1
          BY <4>1, <5>2, <5>3, <5>4
        <5> HIDE DEF Closed
        <5>6. QED
          BY <4>1, <5>5
      <4>5. QED
        BY <4>3, <4>4
    <3>2. CASE n + 1 \notin 0..N
      BY <3>2
    <3>3. QED
      BY <3>1, <3>2
  <2> HIDE DEF S
  <2>3. S \in SUBSET Nat
    BY DEF S
  <2>4. S = Nat
    BY <2>1, <2>2, <2>3, NatSetInduction
  <2>5. N \in S /\ N \in 0..N
    BY <2>4
  <2>6. Closed(N) \/ Cardinality(r[N]) >= N + 1
    BY <2>5 DEF S
  <2>7. Cardinality(r[N]) \in Nat /\ Cardinality(r[N]) <= N /\ r[N] \in SUBSET L
    BY <1>6, <1>9, <2>5
  <2>8. Closed(N)
    BY <2>6, <2>7
  <2>9. QED
    BY <1>3, <2>7, <2>8
<1>11. N \in 0..N
  OBVIOUS
<1>12. QED
  BY <1>5, <1>6, <1>8, <1>10, <1>11 DEF LeastClosed

(* What is reached from the addresses s is the least set that contains them *)
(* and that no pointer leaves, if there is such a set and it is small       *)
(* enough for the passes of Reached.                                        *)
LEMMA ReachFacts ==
  ASSUME NEW L \in SUBSET Addr, NEW s, IsFiniteSet(L), Cardinality(L) <= MaxObjs + NExt,
         \A a \in s : Now(a) \in L,
         \A b \in L : \A k \in 1..NField : mem[b].kid[k] # Nil => Now(mem[b].kid[k]) \in L
  PROVE  /\ Reached(s) \in SUBSET L
         /\ \A a \in s : Now(a) \in Reached(s)
         /\ \A b \in Reached(s) : \A k \in 1..NField :
              mem[b].kid[k] # Nil => Now(mem[b].kid[k]) \in Reached(s)
         /\ \A T \in SUBSET L :
              /\ \A a \in s : Now(a) \in T
              /\ \A b \in T : \A k \in 1..NField : mem[b].kid[k] # Nil => Now(mem[b].kid[k]) \in T
              => Reached(s) \subseteq T
<1> DEFINE N == MaxObjs + NExt
           kids(b) == {Now(c) : c \in {mem[b].kid[k] : k \in 1..NField} \ {Nil}}
           start == {Now(a) : a \in s}
           step(X) == UNION {{b} \cup kids(b) : b \in X}
           body(f) == [n \in 0..N |-> IF n = 0 THEN start ELSE step(f[n - 1])]
           r == CHOOSE f : f = body(f)
           E == [b \in L |-> kids(b)]
           F == [X \in SUBSET L |-> step(X)]
<1>1. Reached(s) = Addr \cap r[N]
  BY DEF Reached
<1>2. N \in Nat /\ start \in SUBSET L /\ \A b \in L : kids(b) \in SUBSET L
  <2>1. N \in Nat
    OBVIOUS
  <2>2. start \in SUBSET L
    OBVIOUS
  <2>3. \A b \in L : kids(b) \in SUBSET L
    OBVIOUS
  <2>4. QED
    BY <2>1, <2>2, <2>3
<1>3. E \in [L -> SUBSET L] /\ \A X \in SUBSET L : step(X) \in SUBSET L
  BY <1>2
<1>4. F \in [SUBSET L -> SUBSET L]
  BY <1>3
<1>5. \A b \in L : E[b] = kids(b)
  OBVIOUS
<1>6. \A X \in SUBSET L : \A x : x \in step(X) <=> \E b \in X : x = b \/ x \in E[b]
  <2> SUFFICES ASSUME NEW X \in SUBSET L, NEW x
               PROVE  x \in step(X) <=> \E b \in X : x = b \/ x \in E[b]
    OBVIOUS
  <2>1. x \in step(X) <=> \E b \in X : x = b \/ x \in kids(b)
    OBVIOUS
  <2> HIDE DEF E, step, kids
  <2>2. QED
    BY <1>5, <2>1
<1>7. \A X \in SUBSET L : F[X] = step(X)
  OBVIOUS
<1>8. /\ \A a \in s : Now(a) \in start
      /\ \A x \in start : \E a \in s : x = Now(a)
      /\ \A b : \A k \in 1..NField : mem[b].kid[k] # Nil => Now(mem[b].kid[k]) \in kids(b)
      /\ \A b : \A x \in kids(b) : \E k \in 1..NField : mem[b].kid[k] # Nil /\ x = Now(mem[b].kid[k])
  OBVIOUS
<1>9. N = MaxObjs + NExt
  OBVIOUS
<1> HIDE DEF E, F, N, start, step, kids
<1>10. \E f : f = body(f)
  <2>1. N \in Nat
    BY <1>2
  <2>2. PassesOver(N, L, start, F)
    BY <1>2, <1>4 DEF PassesOver
  <2>3. PICK f \in [0..N -> SUBSET L] : f[0] = start /\ \A n \in 1..N : f[n] = F[f[n - 1]]
    BY <2>2, Passes
  <2>4. \A n \in 0..N : f[n] = IF n = 0 THEN start ELSE step(f[n - 1])
    <3> TAKE n \in 0..N
    <3>1. CASE n # 0
      <4>1. n \in 1..N /\ n - 1 \in 0..N
        BY <2>1, <3>1
      <4>2. QED
        BY <1>7, <2>3, <3>1, <4>1
    <3>2. QED
      BY <2>3, <3>1
  <2>5. f = [n \in 0..N |-> IF n = 0 THEN start ELSE step(f[n - 1])]
    BY <2>4
  <2>6. f = body(f)
    BY <2>5
  <2> HIDE DEF body
  <2>7. QED
    BY <2>6
<1>11. r = body(r)
  BY <1>10
<1> HIDE DEF r
<1>12. r[0] = start /\ \A n \in 1..N : r[n] = step(r[n - 1])
  <2>1. 0 \in 0..N /\ \A n \in 1..N : n \in 0..N /\ n # 0
    BY <1>2
  <2>2. QED
    BY <1>11, <2>1
<1> HIDE DEF body
<1>13. \A n \in 1..N : r[n - 1] \in SUBSET L => r[n] = F[r[n - 1]]
  BY <1>7, <1>12
<1>14. Cardinality(L) <= N
  BY <1>9
<1>15. LeastClosed(r[N], L, start, E)
  <2>1. PassesOver(N, L, start, F)
    BY <1>2, <1>4 DEF PassesOver
  <2>2. \A X \in SUBSET L : \A x : x \in F[X] <=> \E b \in X : x = b \/ x \in E[b]
    BY <1>6, <1>7
  <2>3. PassesAlong(N, L, start, E, F, r)
    BY <1>3, <1>12, <1>13, <1>14, <2>1, <2>2 DEF PassesAlong
  <2>4. QED
    BY <2>3, ClosureFacts
<1>16. Reached(s) = r[N]
  BY <1>1, <1>9, <1>15 DEF LeastClosed
<1>17. ASSUME NEW T \in SUBSET L, \A a \in s : Now(a) \in T,
              \A b \in T : \A k \in 1..NField : mem[b].kid[k] # Nil => Now(mem[b].kid[k]) \in T
       PROVE  r[N] \subseteq T
  <2>1. start \subseteq T
    BY <1>8, <1>17
  <2>2. \A b \in T : E[b] \subseteq T
    BY <1>5, <1>8, <1>17
  <2>3. QED
    BY <1>15, <2>1, <2>2 DEF LeastClosed
<1>18. QED
  BY <1>5, <1>8, <1>15, <1>16, <1>17 DEF LeastClosed

-----------------------------------------------------------------------------
(* Identities, and how many objects there can be.                           *)

IdsValid ==
  /\ \A a \in Cells : Allocated(a) => mem[a].id \in 1..MaxObjs
  /\ \A a \in Ext : mem[a].id = MaxObjs + a[3]

(* alloc gives a cell that was free an identity that was unused.            *)
LEMMA NewFacts ==
  ASSUME TypeInv, NEW r \in 1..NRoot, New(r)
  PROVE  \E a \in Cells, i \in UnusedIds :
           /\ ~Allocated(a) /\ \A b \in Addr : AllocNext(b) <=> Allocated(b) \/ b = a
           /\ mem'[a].id = i /\ mem'[a].fwd = Nil /\ mem'[a].kid = NoKids
           /\ \A b \in Addr : b # a => mem'[b] = mem[b]
           /\ root' = [root EXCEPT ![r] = a]
<1> DEFINE a == <<0, to[0], free[0][to[0]] + 1>>
           new == CHOOSE i \in UnusedIds : \A j \in UnusedIds : i <= j
<1>1. /\ UnusedIds # {} /\ a \in Cells
      /\ mem' = [mem EXCEPT ![a] = [Blank EXCEPT !.id = new]]
      /\ free' = [free EXCEPT ![0][to[0]] = @ + 1]
      /\ root' = [root EXCEPT ![r] = a]
  BY DEF New
<1>2. mem \in [Addr -> Cell] /\ free \in Frees /\ 0 \in Gens /\ to[0] \in {0, 1}
  BY TypeParts, AddressFacts
<1>3. a \in Addr /\ a \notin Ext /\ free[0] \in [{0, 1} -> 0..MaxObjs] /\ ~Allocated(a)
      /\ a[1] = 0 /\ a[2] = to[0]
  BY <1>1, <1>2, AddressFacts DEF Frees, Allocated
<1>4. new \in UnusedIds
  <2>1. UnusedIds \in SUBSET Nat
    BY DEF UnusedIds
  <2>2. QED
    BY <1>1, <2>1, LeastNatural
<1>5. ASSUME NEW b \in Addr
      PROVE  AllocNext(b) <=> Allocated(b) \/ b = a
  <2>1. CASE b \in Ext
    BY <2>1 DEF Allocated, AllocNext
  <2>2. CASE b \in Cells
    <3>1. /\ b[1] \in Gens /\ b[2] \in {0, 1} /\ b[3] \in 1..MaxObjs /\ b \notin Ext
          /\ b = <<b[1], b[2], b[3]>>
      BY <2>2, AddressFacts
    <3>2. free[b[1]] \in [{0, 1} -> 0..MaxObjs] /\ free[b[1]][b[2]] \in 0..MaxObjs
      BY <1>2, <3>1 DEF Frees
    <3>3. CASE b[1] = 0 /\ b[2] = to[0]
      <4>1. free'[b[1]][b[2]] = free[b[1]][b[2]] + 1
        BY <1>1, <1>2, <3>2, <3>3 DEF Frees
      <4>2. b = a <=> b[3] = free[b[1]][b[2]] + 1
        BY <3>1, <3>3
      <4>3. QED
        BY <3>1, <3>2, <4>1, <4>2 DEF Allocated, AllocNext
    <3>4. CASE ~(b[1] = 0 /\ b[2] = to[0])
      <4>1. free'[b[1]][b[2]] = free[b[1]][b[2]]
        BY <1>1, <1>2, <3>1, <3>2, <3>4 DEF Frees
      <4>2. b # a
        BY <3>4
      <4>3. QED
        BY <3>1, <4>1, <4>2 DEF Allocated, AllocNext
    <3>5. QED
      BY <3>3, <3>4
  <2>3. QED
    BY <2>1, <2>2 DEF Addr
<1> HIDE DEF a, new
<1>6. /\ mem'[a].id = new /\ mem'[a].fwd = Nil /\ mem'[a].kid = NoKids
      /\ \A b \in Addr : b # a => mem'[b] = mem[b]
  BY <1>1, <1>2, <1>3 DEF Blank
<1>7. QED
  BY <1>1, <1>3, <1>4, <1>5, <1>6

LEMMA NextIds ==
  ASSUME TypeInv, CopyInv, IdsValid, [Next]_vars
  PROVE  IdsValid'
<1>1. Phases
  BY DEF CopyInv
<1>2. CASE KidsOnly
  <2>1. \A a \in Addr : (Allocated(a)' <=> Allocated(a)) /\ mem'[a].id = mem[a].id
    BY <1>2 DEF KidsOnly, Allocated
  <2>2. QED
    BY <2>1, AddressFacts DEF IdsValid
<1>3. ASSUME NEW a \in Addr, Copies(a)
      PROVE  IdsValid'
  <2>1. /\ InFrom(a) /\ CanMove(a) /\ a \in Cells /\ Allocated(a)
        /\ \A b \in Addr : mem'[b].id = IF b = Dest(a) THEN mem[a].id ELSE mem[b].id
    BY <1>3 DEF Copies, InFrom, CanMove
  <2>2. /\ Dest(a) \in Cells
        /\ \A b \in Addr : Allocated(b)' <=> Allocated(b) \/ b = Dest(a)
    BY <1>3, <2>1, DestFacts DEF Allocated, Copies
  <2>3. QED
    BY <2>1, <2>2, AddressFacts DEF IdsValid
<1>4. ASSUME NEW r \in 1..NRoot, New(r)
      PROVE  IdsValid'
  <2>1. PICK a \in Cells, i \in UnusedIds :
          /\ \A b \in Addr : AllocNext(b) <=> Allocated(b) \/ b = a
          /\ mem'[a].id = i /\ \A b \in Addr : b # a => mem'[b] = mem[b]
    BY <1>4, NewFacts
  <2>2. i \in 1..MaxObjs
    BY DEF UnusedIds
  <2>3. \A b \in Addr : Allocated(b)' <=> Allocated(b) \/ b = a
    BY <2>1, AllocPrime
  <2>4. QED
    BY <2>1, <2>2, <2>3, AddressFacts DEF IdsValid
<1>5. ASSUME NEW u \in Upto, RequestGc(u)
      PROVE  IdsValid'
  BY <1>5 DEF RequestGc, IdsValid, Allocated
<1>6. CASE Cleanup
  <2>1. \A b \in Addr : /\ Allocated(b)' <=> Allocated(b) /\ ~InFrom(b)
                        /\ Allocated(b) /\ ~InFrom(b) => mem'[b] = mem[b]
    BY <1>6, CleanupFacts DEF CopyInv
  <2>2. \A a \in Ext : Allocated(a) /\ ~InFrom(a)
    BY AddressFacts DEF Allocated, InFrom
  <2>3. QED
    BY <2>1, <2>2, AddressFacts DEF IdsValid
<1>7. QED
  BY <1>1, <1>2, <1>3, <1>4, <1>5, <1>6, StepEffect

LEMMA IdsCorrect == Spec => []IdsValid
<1>1. Init => IdsValid
  <2> SUFFICES ASSUME Init PROVE IdsValid
    OBVIOUS
  <2>1. \A a \in Cells : ~Allocated(a)
    BY AddressFacts DEF Init, Allocated
  <2>2. \A a \in Ext : mem[a].id = MaxObjs + a[3]
    BY AddressFacts DEF Init, Blank
  <2>3. QED
    BY <2>1, <2>2 DEF IdsValid
<1>2. TypeInv /\ CopyInv /\ IdsValid /\ [Next]_vars => IdsValid'
  BY NextIds
<1>3. QED
  BY <1>1, <1>2, TypeCorrect, CopyInvCorrect, PTL DEF Spec

(* Every object has an identity, so the bounds on identities bound the      *)
(* objects as well.                                                         *)
LEMMA ObjectsFew ==
  ASSUME TypeInv, CopyInv, IdsValid
  PROVE  /\ IsFiniteSet(Objects) /\ Cardinality(Objects) <= MaxObjs + NExt
         /\ \A a \in Objects : mem[a].id \in 1..(MaxObjs + NExt)
<1> DEFINE N == MaxObjs + NExt
           f == [a \in Objects |-> mem[a].id]
<1>1. ASSUME NEW a \in Objects
      PROVE  mem[a].id \in 1..N
  <2>1. CASE a \in Cells
    <3>1. mem[a].id \in 1..MaxObjs
      BY <1>1, <2>1 DEF IdsValid, Objects
    <3>2. QED
      BY <3>1
  <2>2. CASE a \in Ext
    <3>1. mem[a].id = MaxObjs + a[3] /\ a[3] \in 1..NExt
      BY <2>2 DEF IdsValid, Ext
    <3>2. QED
      BY <3>1
  <2>3. QED
    BY <1>1, <2>1, <2>2 DEF Objects, Addr
<1>2. N \in Nat
  OBVIOUS
<1>3. IsFiniteSet(1..N) /\ Cardinality(1..N) = N
  <2>1. 1 \in Int /\ N \in Int /\ 1 <= N + 1
    BY <1>2
  <2> HIDE DEF N
  <2>2. IsFiniteSet(1..N) /\ Cardinality(1..N) = IF 1 > N THEN 0 ELSE N - 1 + 1
    BY <2>1, FS_Interval
  <2>3. QED
    BY <1>2, <2>2
<1>4. f \in Injection(Objects, 1..N)
  BY <1>1 DEF Injection, IsInjective, CopyInv, UniqueIds
<1> HIDE DEF f, N
<1>5. IsFiniteSet(Objects) /\ Cardinality(Objects) <= Cardinality(1..N)
  BY <1>3, <1>4, FS_Injection
<1>6. QED
  BY <1>1, <1>3, <1>5 DEF N

-----------------------------------------------------------------------------
(* What the client reaches, through copies where there are any.             *)

ReachClosed ==
  /\ Reachable \in SUBSET Objects
  /\ \A r \in 1..NRoot : root[r] # Nil => Now(root[r]) \in Reachable
  /\ \A b \in Reachable : \A k \in 1..NField :
       mem[b].kid[k] # Nil => Now(mem[b].kid[k]) \in Reachable
  /\ \A T \in SUBSET Objects :
       /\ \A r \in 1..NRoot : root[r] # Nil => Now(root[r]) \in T
       /\ \A b \in T : \A k \in 1..NField : mem[b].kid[k] # Nil => Now(mem[b].kid[k]) \in T
       => Reachable \subseteq T

LEMMA ObjectsClosed ==
  ASSUME Good
  PROVE  /\ \A r \in 1..NRoot : root[r] # Nil => Now(root[r]) \in Objects
         /\ \A b \in Objects : \A k \in 1..NField : mem[b].kid[k] # Nil => Now(mem[b].kid[k]) \in Objects
<1>1. \A x \in Addr : Allocated(x) => Now(x) \in Objects
  BY NowFacts DEF Objects
<1>2. \A r \in 1..NRoot : root[r] # Nil => root[r] \in Addr /\ Allocated(root[r])
  BY TypeParts DEF Good, PathInv, RootsValid, Kid
<1>3. \A b \in Objects : \A k \in 1..NField :
        mem[b].kid[k] # Nil => mem[b].kid[k] \in Addr /\ Allocated(mem[b].kid[k])
  BY KidFacts DEF Objects
<1>4. QED
  BY <1>1, <1>2, <1>3

LEMMA ReachableFacts ==
  ASSUME Good, IdsValid
  PROVE  ReachClosed
<1> DEFINE s == {root[r] : r \in 1..NRoot} \ {Nil}
<1>1. Reachable = Reached(s)
  BY DEF Reachable
<1>2. /\ \A r \in 1..NRoot : root[r] # Nil => root[r] \in s
      /\ \A x \in s : \E r \in 1..NRoot : root[r] # Nil /\ x = root[r]
  OBVIOUS
<1> HIDE DEF s
<1>3. Objects \in SUBSET Addr /\ IsFiniteSet(Objects) /\ Cardinality(Objects) <= MaxObjs + NExt
  BY ObjectsFew DEF Objects, Good
<1>4. \A a \in s : Now(a) \in Objects
  BY <1>2, ObjectsClosed
<1>5. \A b \in Objects : \A k \in 1..NField : mem[b].kid[k] # Nil => Now(mem[b].kid[k]) \in Objects
  BY ObjectsClosed
<1>6. /\ Reached(s) \in SUBSET Objects
      /\ \A a \in s : Now(a) \in Reached(s)
      /\ \A b \in Reached(s) : \A k \in 1..NField :
           mem[b].kid[k] # Nil => Now(mem[b].kid[k]) \in Reached(s)
      /\ \A T \in SUBSET Objects :
           /\ \A a \in s : Now(a) \in T
           /\ \A b \in T : \A k \in 1..NField : mem[b].kid[k] # Nil => Now(mem[b].kid[k]) \in T
           => Reached(s) \subseteq T
  BY <1>3, <1>4, <1>5, ReachFacts
<1>7. QED
  BY <1>1, <1>2, <1>6 DEF ReachClosed

-----------------------------------------------------------------------------
(* No step of a collection changes what the client sees.                    *)

RootsEvac == \A r \in 1..NRoot :
  root'[r] = root[r] \/ (root[r] # Nil /\ root'[r] = NowNext(root[r]))

(* But for the last one, every step of a collection moves objects at most.  *)
LEMMA CollectEvac ==
  ASSUME Good, Collect, ~Cleanup
  PROVE  Evac /\ RootsEvac
<1>0. root \in [1..NRoot -> Kid]
  BY TypeParts DEF Good
<1>1. ASSUME UNCHANGED <<mem, free, to, upto, root>>
      PROVE  Evac /\ RootsEvac
  BY <1>1, SameEvac DEF RootsEvac
<1>2. ASSUME Evac, UNCHANGED root
      PROVE  Evac /\ RootsEvac
  BY <1>2 DEF RootsEvac
<1>3. CASE RootsDone \/ SkipNull \/ VisitChildren \/ ScanGray \/ Fixpoint \/ DropEntry \/ NextLog \/ Crash
  BY <1>1, <1>3 DEF RootsDone, SkipNull, VisitChildren, OnlyScan, ScanGray, Fixpoint, FixpointStep,
                    DropEntry, InLog, NextEntry, NextLog, Crash, heap
<1>4. CASE FollowForward
  <2>1. /\ Visiting /\ UNCHANGED <<free, to, upto, root>>
        /\ Slot # Nil /\ InFrom(Slot) /\ mem[Slot].fwd # Nil
        /\ mem' = [mem EXCEPT ![Top.obj].kid[Top.k] = mem[Slot].fwd]
    BY <1>4 DEF FollowForward, OnlyScan
  <2>2. /\ Top.obj \in Addr /\ Top.k \in 1..NField /\ Allocated(Top.obj) /\ Slot \in Addr
        /\ Slot = mem[Top.obj].kid[Top.k]
    BY <2>1, TopFacts DEF Slot
  <2>3. Now(Slot) = mem[Slot].fwd
    BY <2>1, <2>2, NowFacts
  <2>4. Evac
    BY <2>1, <2>2, <2>3, ForwardEvac
  <2>5. QED
    BY <1>2, <2>1, <2>4
<1>5. CASE MoveChild
  <2>1. /\ Visiting /\ UNCHANGED <<to, upto, root>>
        /\ Slot # Nil /\ InFrom(Slot) /\ CanMove(Slot) /\ free' = Grown(Slot)
        /\ mem' = [Moved(Slot) EXCEPT ![Top.obj].kid[Top.k] = Dest(Slot)]
    BY <1>5 DEF MoveChild, OnlyScan
  <2>2. /\ Top.obj \in Addr /\ Top.k \in 1..NField /\ Allocated(Top.obj) /\ Slot \in Addr
        /\ Slot = mem[Top.obj].kid[Top.k]
    BY <2>1, TopFacts DEF Slot
  <2>3. Top.obj # Dest(Slot)
    BY <2>1, <2>2, DestFacts DEF Good
  <2>4. Evac
    BY <2>1, <2>2, <2>3, CopyEvac
  <2>5. QED
    BY <1>2, <2>1, <2>4
<1>6. CASE TriageEntry \/ KeepEntry
  <2>1. InLog /\ Current(Entry) /\ UNCHANGED <<free, to, upto, root>> /\ mem' = Repaired(Entry)
    BY <1>6 DEF TriageEntry, KeepEntry, InLog, NextEntry
  <2>2. QED
    BY <1>2, <2>1, RepairedEvac
<1>7. CASE RescueChild
  <2>1. /\ InLog /\ UNCHANGED <<to, upto, root>> /\ InFrom(Now(Entry.snap))
        /\ DeepMove(Entry.snap, "mlog")
    BY <1>7 DEF RescueChild, InLog
  <2>2. Entry.snap \in Addr /\ Now(Entry.snap) = Entry.snap
    BY <2>1, HeadFacts, AddressFacts DEF DeepMove, CanMove, Now
  <2>3. Evac
    BY <2>1, <2>2, CopyEvac DEF DeepMove
  <2>4. QED
    BY <1>2, <2>1, <2>3
<1>8. CASE CopyRoot
  <2>1. pc = "roots" /\ ri \in 1..NRoot /\ UNCHANGED <<to, upto>>
    BY <1>8, TypeParts DEF CopyRoot, Good
  <2>2. CASE UNCHANGED <<mem, free, root>>
    BY <1>1, <2>1, <2>2
  <2>3. CASE /\ root[ri] # Nil /\ InFrom(root[ri]) /\ mem[root[ri]].fwd # Nil
             /\ root' = [root EXCEPT ![ri] = mem[root[ri]].fwd] /\ RootDone
    <3>1. UNCHANGED <<mem, free, to, upto>>
      BY <2>1, <2>3 DEF RootDone
    <3>2. NowNext(root[ri]) = mem[root[ri]].fwd
      BY <2>3, <3>1 DEF NowNext
    <3>3. RootsEvac
      BY <1>0, <2>1, <2>3, <3>2 DEF RootsEvac
    <3>4. QED
      BY <3>1, <3>3, SameEvac
  <2>4. CASE /\ root[ri] # Nil /\ InFrom(root[ri]) /\ DeepMove(root[ri], "roots")
             /\ root' = [root EXCEPT ![ri] = Dest(root[ri])]
    <3>1. root[ri] \in Addr
      BY <2>4, AddressFacts DEF InFrom
    <3>2. Evac /\ mem'[root[ri]].fwd = Dest(root[ri]) /\ Dest(root[ri]) # Nil
      BY <2>1, <2>4, <3>1, CopyEvac, AddressFacts DEF DeepMove, CanMove
    <3>3. NowNext(root[ri]) = Dest(root[ri])
      BY <3>2 DEF NowNext
    <3>4. RootsEvac
      BY <1>0, <2>1, <2>4, <3>3 DEF RootsEvac
    <3>5. QED
      BY <3>2, <3>4
  <2>5. QED
    BY <1>8, <2>2, <2>3, <2>4 DEF CopyRoot, RootDone
<1>9. QED
  BY <1>3, <1>4, <1>5, <1>6, <1>7, <1>8 DEF Collect, Visit

(* The heap of the client, as HeapKept has it.                              *)
Rec(a) == [id |-> IdAt(a), kid |-> [k \in 1..NField |-> IdAt(mem[a].kid[k])]]
HRoot == [r \in 1..NRoot |-> IdAt(root[r])]
HObj == {Rec(a) : a \in Reachable}

IdNext(a) == IF a = Nil THEN Nil
             ELSE IF AllocNext(NowNext(a)) THEN mem'[NowNext(a)].id ELSE 0

LEMMA IdPrime ==
  /\ HRoot' = [r \in 1..NRoot |-> IdNext(root'[r])]
  /\ HObj' = {[id |-> IdNext(a), kid |-> [k \in 1..NField |-> IdNext(mem'[a].kid[k])]] : a \in Reachable'}
BY DEF HRoot, HObj, Rec, IdAt, IdNext, Allocated, AllocNext, Now, NowNext

(* A move does not change the identity of an object.                        *)
LEMMA EvacIds ==
  ASSUME Good, Evac, KidsOnly \/ \E a \in Addr : Copies(a), NEW x \in Addr, Allocated(x)
  PROVE  IdNext(x) = IdAt(x) /\ IdAt(x) = mem[Now(x)].id /\ IdNext(NowNext(x)) = IdAt(x)
<1>1. /\ Now(x) \in Addr /\ Allocated(Now(x)) /\ mem[Now(x)].fwd = Nil
      /\ NowNext(x) \in Addr /\ AllocNext(NowNext(x)) /\ NowNext(Now(x)) = NowNext(x)
      /\ NowNext(NowNext(x)) = NowNext(x)
  BY NowFacts, NowNextFacts
<1>2. mem'[NowNext(x)].id = mem[Now(x)].id
  <2>1. CASE KidsOnly
    <3>1. mem'[Now(x)].fwd = Nil /\ mem'[Now(x)].id = mem[Now(x)].id
      BY <1>1, <2>1 DEF KidsOnly
    <3>2. NowNext(Now(x)) = Now(x)
      BY <3>1 DEF NowNext
    <3>3. QED
      BY <1>1, <3>1, <3>2
  <2>2. ASSUME NEW a \in Addr, Copies(a)
        PROVE  mem'[NowNext(x)].id = mem[Now(x)].id
    <3>1. /\ \A b \in Addr :
               /\ mem'[b].id = IF b = Dest(a) THEN mem[a].id ELSE mem[b].id
               /\ mem'[b].fwd = IF b = Dest(a) THEN Nil ELSE IF b = a THEN Dest(a) ELSE mem[b].fwd
          /\ CanMove(a)
      BY <2>2 DEF Copies
    <3>2. Dest(a) \in Addr /\ ~Allocated(Dest(a)) /\ Dest(a) # a /\ Dest(a) # Nil
      BY <3>1, DestFacts, AddressFacts DEF Good
    <3>3. CASE Now(x) = a
      <4>1. NowNext(a) = Dest(a)
        BY <3>1, <3>2 DEF NowNext
      <4>2. QED
        BY <1>1, <3>1, <3>2, <3>3, <4>1
    <3>4. CASE Now(x) # a
      <4>1. Now(x) # Dest(a)
        BY <1>1, <3>2
      <4>2. mem'[Now(x)].fwd = Nil /\ mem'[Now(x)].id = mem[Now(x)].id
        BY <1>1, <3>1, <3>4, <4>1
      <4>3. NowNext(Now(x)) = Now(x)
        BY <4>2 DEF NowNext
      <4>4. QED
        BY <1>1, <4>2, <4>3
    <3>5. QED
      BY <3>3, <3>4
  <2>3. QED
    BY <2>1, <2>2
<1>3. x # Nil /\ NowNext(x) # Nil
  BY <1>1, AddressFacts
<1>4. QED
  BY <1>1, <1>2, <1>3 DEF IdAt, IdNext

(* What is reached afterwards is what was reached, where it is then.        *)
LEMMA EvacReach ==
  ASSUME Good, Evac, RootsEvac, ReachClosed, ReachClosed'
  PROVE  /\ \A x \in Reachable : NowNext(x) \in Reachable'
         /\ \A y \in Reachable' : \E x \in Reachable : y = NowNext(x)
<1> PICK R : R = Reachable'
  OBVIOUS
<1> PICK O : O = Objects'
  OBVIOUS
<1>1. /\ R \in SUBSET O
      /\ \A r \in 1..NRoot : root'[r] # Nil => NowNext(root'[r]) \in R
      /\ \A b \in R : \A k \in 1..NField : mem'[b].kid[k] # Nil => NowNext(mem'[b].kid[k]) \in R
      /\ \A T \in SUBSET O :
           /\ \A r \in 1..NRoot : root'[r] # Nil => NowNext(root'[r]) \in T
           /\ \A b \in T : \A k \in 1..NField : mem'[b].kid[k] # Nil => NowNext(mem'[b].kid[k]) \in T
           => R \subseteq T
  BY DEF ReachClosed, Now, NowNext
<1>2. O = {a \in Addr : AllocNext(a) /\ mem'[a].fwd = Nil}
  BY AllocPrime DEF Objects
<1>3. ASSUME NEW x \in Addr, Allocated(x)
      PROVE  /\ NowNext(x) \in O /\ NowNext(Now(x)) = NowNext(x) /\ NowNext(NowNext(x)) = NowNext(x)
             /\ NowNext(x) # Nil /\ x # Nil
  BY <1>2, <1>3, NowNextFacts, AddressFacts
<1>4. Reachable \subseteq Objects /\ \A x \in Objects : x \in Addr /\ Allocated(x)
  BY DEF ReachClosed, Objects
<1>5. \A r \in 1..NRoot : root[r] # Nil => root[r] \in Addr /\ Allocated(root[r])
  BY TypeParts DEF Good, PathInv, RootsValid, Kid
<1>6. \A b \in Objects : \A k \in 1..NField :
        mem[b].kid[k] # Nil => mem[b].kid[k] \in Addr /\ Allocated(mem[b].kid[k])
  BY KidFacts DEF Objects
<1>7. ASSUME NEW r \in 1..NRoot
      PROVE  /\ root'[r] = Nil <=> root[r] = Nil
             /\ root[r] # Nil => NowNext(root'[r]) = NowNext(Now(root[r]))
  <2>1. root'[r] = root[r] \/ (root[r] # Nil /\ root'[r] = NowNext(root[r]))
    BY DEF RootsEvac
  <2>2. QED
    BY <1>3, <1>5, <2>1
<1>8. ASSUME NEW b \in Objects, NEW k \in 1..NField
      PROVE  /\ mem'[NowNext(b)].kid[k] = Nil <=> mem[b].kid[k] = Nil
             /\ mem[b].kid[k] # Nil =>
                  NowNext(mem'[NowNext(b)].kid[k]) = NowNext(Now(mem[b].kid[k]))
  <2> PICK v : v = mem[b].kid[k]
    OBVIOUS
  <2>1. mem'[NowNext(b)].kid[k] = v \/ (v # Nil /\ mem'[NowNext(b)].kid[k] = NowNext(v))
    BY KidNext
  <2>2. v # Nil => v \in Addr /\ Allocated(v)
    BY <1>6
  <2>3. QED
    BY <1>3, <2>1, <2>2
<1>9. \A x \in Reachable : NowNext(x) \in R
  <2> DEFINE T == {x \in Objects : NowNext(x) \in R}
  <2>1. ASSUME NEW r \in 1..NRoot, root[r] # Nil PROVE Now(root[r]) \in T
    BY <1>1, <1>7, <2>1, ObjectsClosed
  <2>2. ASSUME NEW b \in T, NEW k \in 1..NField, mem[b].kid[k] # Nil PROVE Now(mem[b].kid[k]) \in T
    <3>1. b \in Objects /\ NowNext(b) \in R
      OBVIOUS
    <3>2. NowNext(mem'[NowNext(b)].kid[k]) \in R
      BY <1>1, <1>8, <2>2, <3>1
    <3>3. Now(mem[b].kid[k]) \in Objects
      BY <2>2, <3>1, ObjectsClosed
    <3>4. QED
      BY <1>8, <2>2, <3>1, <3>2, <3>3
  <2>3. T \in SUBSET Objects
    OBVIOUS
  <2> HIDE DEF T
  <2>4. Reachable \subseteq T
    BY <2>1, <2>2, <2>3 DEF ReachClosed
  <2>5. QED
    BY <2>4 DEF T
<1>10. \A y \in R : \E x \in Reachable : y = NowNext(x)
  <2> DEFINE T == {NowNext(x) : x \in Reachable}
  <2>1. T \in SUBSET O
    BY <1>3, <1>4
  <2>2. ASSUME NEW r \in 1..NRoot, root'[r] # Nil PROVE NowNext(root'[r]) \in T
    BY <1>7, <2>2 DEF ReachClosed
  <2>3. ASSUME NEW c \in T, NEW k \in 1..NField, mem'[c].kid[k] # Nil
        PROVE  NowNext(mem'[c].kid[k]) \in T
    <3>1. PICK b \in Reachable : c = NowNext(b)
      OBVIOUS
    <3>2. b \in Objects /\ mem[b].kid[k] # Nil
      BY <1>4, <1>8, <2>3, <3>1
    <3>3. Now(mem[b].kid[k]) \in Reachable
      BY <3>2 DEF ReachClosed
    <3>4. QED
      BY <1>8, <3>1, <3>2, <3>3
  <2>4. \A y \in T : \E x \in Reachable : y = NowNext(x)
    OBVIOUS
  <2> HIDE DEF T
  <2>5. R \subseteq T
    BY <1>1, <2>1, <2>2, <2>3
  <2>6. QED
    BY <2>4, <2>5
<1>11. QED
  BY <1>9, <1>10

RecNext(a) == [id |-> IdNext(a), kid |-> [k \in 1..NField |-> IdNext(mem'[a].kid[k])]]

LEMMA EvacView ==
  ASSUME Good, Evac, RootsEvac, KidsOnly \/ \E a \in Addr : Copies(a), ReachClosed, ReachClosed'
  PROVE  HRoot' = HRoot /\ HObj' = HObj
<1>1. ASSUME NEW v, v # Nil => v \in Addr /\ Allocated(v), NEW w,
             w = v \/ (v # Nil /\ w = NowNext(v))
      PROVE  IdNext(w) = IdAt(v)
  <2>1. CASE v = Nil
    BY <1>1, <2>1 DEF IdNext, IdAt
  <2>2. CASE v # Nil
    BY <1>1, <2>2, EvacIds
  <2>3. QED
    BY <2>1, <2>2
<1>2. HRoot' = HRoot
  <2> SUFFICES ASSUME NEW r \in 1..NRoot PROVE IdNext(root'[r]) = IdAt(root[r])
    BY IdPrime DEF HRoot
  <2>1. root[r] # Nil => root[r] \in Addr /\ Allocated(root[r])
    BY TypeParts DEF Good, PathInv, RootsValid, Kid
  <2>2. root'[r] = root[r] \/ (root[r] # Nil /\ root'[r] = NowNext(root[r]))
    BY DEF RootsEvac
  <2>3. QED
    BY <1>1, <2>1, <2>2
<1>3. ASSUME NEW x \in Reachable
      PROVE  RecNext(NowNext(x)) = Rec(x)
  <2>1. x \in Objects /\ x \in Addr /\ Allocated(x)
    BY DEF ReachClosed, Objects
  <2>2. IdNext(NowNext(x)) = IdAt(x)
    BY <2>1, EvacIds
  <2>3. ASSUME NEW k \in 1..NField
        PROVE  IdNext(mem'[NowNext(x)].kid[k]) = IdAt(mem[x].kid[k])
    <3>1. mem[x].kid[k] # Nil => mem[x].kid[k] \in Addr /\ Allocated(mem[x].kid[k])
      BY <2>1, KidFacts
    <3>2. \/ mem'[NowNext(x)].kid[k] = mem[x].kid[k]
          \/ mem[x].kid[k] # Nil /\ mem'[NowNext(x)].kid[k] = NowNext(mem[x].kid[k])
      BY <2>1, KidNext
    <3>3. QED
      BY <1>1, <3>1, <3>2
  <2>4. [k \in 1..NField |-> IdNext(mem'[NowNext(x)].kid[k])] = [k \in 1..NField |-> IdAt(mem[x].kid[k])]
    BY <2>3
  <2>5. QED
    BY <2>2, <2>4 DEF Rec, RecNext
<1>4. /\ \A x \in Reachable : NowNext(x) \in Reachable'
      /\ \A y \in Reachable' : \E x \in Reachable : y = NowNext(x)
  BY EvacReach
<1>5. HObj' = {RecNext(y) : y \in Reachable'}
  BY IdPrime DEF RecNext
<1>6. HObj' = HObj
  <2>1. \A o \in HObj' : o \in HObj
    BY <1>3, <1>4, <1>5 DEF HObj
  <2>2. \A o \in HObj : o \in HObj'
    BY <1>3, <1>4, <1>5 DEF HObj
  <2>3. QED
    BY <2>1, <2>2
<1>7. QED
  BY <1>2, <1>6

(* Where no pointer that the client can see is to a former place of an      *)
(* object, the client sees no difference if what it reaches stays.          *)
LEMMA SameView ==
  ASSUME ReachClosed, ReachClosed', UNCHANGED root,
         \A r \in 1..NRoot : root[r] # Nil => Now(root[r]) = root[r],
         \A x \in Reachable : \A k \in 1..NField :
           mem[x].kid[k] # Nil => Now(mem[x].kid[k]) = mem[x].kid[k],
         \A x \in Reachable : AllocNext(x) /\ mem'[x] = mem[x],
         Objects' \subseteq Objects
  PROVE  HRoot' = HRoot /\ HObj' = HObj /\ Reachable' = Reachable
<1> PICK R : R = Reachable'
  OBVIOUS
<1> PICK O : O = Objects'
  OBVIOUS
<1>1. /\ R \in SUBSET O
      /\ \A r \in 1..NRoot : root'[r] # Nil => NowNext(root'[r]) \in R
      /\ \A b \in R : \A k \in 1..NField : mem'[b].kid[k] # Nil => NowNext(mem'[b].kid[k]) \in R
      /\ \A T \in SUBSET O :
           /\ \A r \in 1..NRoot : root'[r] # Nil => NowNext(root'[r]) \in T
           /\ \A b \in T : \A k \in 1..NField : mem'[b].kid[k] # Nil => NowNext(mem'[b].kid[k]) \in T
           => R \subseteq T
  BY DEF ReachClosed, Now, NowNext
<1>2. O = {a \in Addr : AllocNext(a) /\ mem'[a].fwd = Nil}
  BY AllocPrime DEF Objects
<1>3. ASSUME NEW x \in Reachable
      PROVE  /\ x \in Addr /\ Allocated(x) /\ mem[x].fwd = Nil /\ x \in O
             /\ Now(x) = x /\ NowNext(x) = x /\ AllocNext(x) /\ mem'[x] = mem[x]
  BY <1>2 DEF ReachClosed, Objects, Now, NowNext
<1>4. \A r \in 1..NRoot : root[r] # Nil => root[r] \in Reachable
  BY DEF ReachClosed
<1>5. \A b \in Reachable : \A k \in 1..NField : mem[b].kid[k] # Nil => mem[b].kid[k] \in Reachable
  BY DEF ReachClosed
<1>6. R \subseteq Reachable
  <2>1. Reachable \in SUBSET O
    BY <1>3
  <2>2. \A r \in 1..NRoot : root'[r] # Nil => NowNext(root'[r]) \in Reachable
    BY <1>3, <1>4
  <2>3. \A b \in Reachable : \A k \in 1..NField :
          mem'[b].kid[k] # Nil => NowNext(mem'[b].kid[k]) \in Reachable
    BY <1>3, <1>5
  <2>4. QED
    BY <1>1, <2>1, <2>2, <2>3
<1>7. Reachable \subseteq R
  <2>1. R \in SUBSET Objects
    BY <1>1
  <2>2. \A r \in 1..NRoot : root[r] # Nil => Now(root[r]) \in R
    BY <1>1, <1>3, <1>4
  <2>3. \A b \in R : \A k \in 1..NField : mem[b].kid[k] # Nil => Now(mem[b].kid[k]) \in R
    <3> TAKE b \in R
    <3> TAKE k \in 1..NField
    <3>1. b \in Reachable /\ mem'[b] = mem[b]
      BY <1>3, <1>6
    <3>2. QED
      BY <1>1, <1>3, <1>5, <3>1
  <2>4. QED
    BY <2>1, <2>2, <2>3 DEF ReachClosed
<1>8. \A x : x = Nil \/ x \in Reachable => IdNext(x) = IdAt(x)
  BY <1>3 DEF IdNext, IdAt
<1>9. HRoot' = HRoot
  BY <1>4, <1>8, IdPrime DEF HRoot
<1>10. \A x \in Reachable : RecNext(x) = Rec(x)
  <2> TAKE x \in Reachable
  <2>1. \A k \in 1..NField : IdNext(mem'[x].kid[k]) = IdAt(mem[x].kid[k])
    BY <1>3, <1>5, <1>8
  <2>2. QED
    BY <1>8, <2>1 DEF Rec, RecNext
<1>11. HObj' = {RecNext(y) : y \in R}
  BY IdPrime DEF RecNext
<1>12. QED
  BY <1>6, <1>7, <1>9, <1>10, <1>11 DEF HObj

(* The last step: nothing in to-space points into from-space any more.      *)
LEMMA CleanupView ==
  ASSUME Good, Settled, Cleanup, ReachClosed, ReachClosed'
  PROVE  HRoot' = HRoot /\ HObj' = HObj /\ Reachable' = Reachable
<1>1. /\ pc = "mlog" /\ fromlog[cg] = <<>> /\ cg + 2 = NGen /\ UNCHANGED root /\ cg \in LogGens
  BY TypeParts DEF Cleanup, LogDone, LastLog, Good
<1>2. /\ \A b \in Addr : Allocated(b)' <=> Allocated(b) /\ ~InFrom(b)
      /\ \A b \in Addr : Allocated(b) /\ ~InFrom(b) => mem'[b] = mem[b]
  BY CleanupFacts DEF Good, CopyInv
<1>3. ~InRoots /\ \A e : ~In(e, <<>>)
  BY <1>1 DEF InRoots, In
<1>4. \A g \in LogGens : g <= cg /\ g \in Nat
  BY <1>1 DEF LogGens
<1>5. \A b \in Addr : Allocated(b) /\ ~InFrom(b) => b \in Objects /\ Now(b) = b
  BY NowFacts DEF Objects, Now
<1>6. ASSUME NEW p \in Objects, ~InFrom(p), NEW k \in 1..NField, mem[p].kid[k] # Nil
      PROVE  Allocated(mem[p].kid[k]) /\ ~InFrom(mem[p].kid[k]) /\ mem[p].kid[k] \in Addr
  <2>1. Allocated(mem[p].kid[k]) /\ mem[p].kid[k] \in Addr
    BY <1>6, KidFacts DEF Objects
  <2>2. ~Todo(p, k)
    BY <1>1, <1>3 DEF Todo
  <2>3. ~PendingNow(p, k)
    <3>1. \A g \in LogGens : g >= cg => g = cg
      BY <1>1, <1>4
    <3>2. QED
      BY <1>1, <1>3, <3>1 DEF PendingNow
  <2>4. QED
    BY <1>6, <2>1, <2>2, <2>3 DEF Settled
<1>7. ASSUME NEW r \in 1..NRoot, root[r] # Nil
      PROVE  root[r] \in Addr /\ Allocated(root[r]) /\ ~InFrom(root[r])
  BY <1>3, <1>7, TypeParts DEF Good, PathInv, RootsValid, Kid
<1>8. \A x \in Reachable : ~InFrom(x)
  <2> DEFINE T == {x \in Objects : ~InFrom(x)}
  <2>1. \A r \in 1..NRoot : root[r] # Nil => Now(root[r]) \in T
    BY <1>5, <1>7
  <2>2. \A b \in T : \A k \in 1..NField : mem[b].kid[k] # Nil => Now(mem[b].kid[k]) \in T
    BY <1>5, <1>6
  <2>3. T \in SUBSET Objects /\ \A x \in T : ~InFrom(x)
    OBVIOUS
  <2> HIDE DEF T
  <2>4. Reachable \subseteq T
    BY <2>1, <2>2, <2>3 DEF ReachClosed
  <2>5. QED
    BY <2>3, <2>4
<1>9. \A x \in Reachable : x \in Objects /\ x \in Addr /\ Allocated(x)
  BY DEF ReachClosed, Objects
<1>10. \A r \in 1..NRoot : root[r] # Nil => Now(root[r]) = root[r]
  BY <1>5, <1>7
<1>11. \A x \in Reachable : \A k \in 1..NField :
         mem[x].kid[k] # Nil => Now(mem[x].kid[k]) = mem[x].kid[k]
  BY <1>5, <1>6, <1>8, <1>9
<1>12. \A x \in Reachable : AllocNext(x) /\ mem'[x] = mem[x]
  BY <1>2, <1>8, <1>9, AllocPrime
<1>13. Objects' \subseteq Objects
  BY <1>2, <1>5 DEF Objects
<1>14. QED
  BY <1>1, <1>10, <1>11, <1>12, <1>13, SameView

LEMMA RequestView ==
  ASSUME Good, pc = "idle", NEW u \in Upto, RequestGc(u), ReachClosed, ReachClosed'
  PROVE  HRoot' = HRoot /\ HObj' = HObj
<1>1. UNCHANGED <<mem, free, root>>
  BY DEF RequestGc
<1>2. \A x \in Addr : Allocated(x) => Now(x) = x
  BY IdleFacts
<1>3. \A r \in 1..NRoot : root[r] # Nil => root[r] \in Addr /\ Allocated(root[r])
  BY TypeParts DEF Good, PathInv, RootsValid, Kid
<1>4. \A x \in Reachable : x \in Addr /\ Allocated(x)
  BY DEF ReachClosed, Objects
<1>5. \A x \in Reachable : \A k \in 1..NField :
        mem[x].kid[k] # Nil => mem[x].kid[k] \in Addr /\ Allocated(mem[x].kid[k])
  BY <1>4, KidFacts
<1>6. \A x \in Reachable : AllocNext(x) /\ mem'[x] = mem[x]
  BY <1>1, <1>4 DEF AllocNext, Allocated
<1>7. Objects' \subseteq Objects
  BY <1>1 DEF Objects, Allocated
<1>8. QED
  BY <1>1, <1>2, <1>3, <1>5, <1>6, <1>7, SameView

-----------------------------------------------------------------------------
(* What GCHeap forgets is what the client no longer reaches.                *)

(* Let objs be the records of a set S of objects, all the reachable ones    *)
(* among them: cut down to what the roots reach it is HObj.                 *)
CutIsReachable ==
  \A S \in SUBSET Objects : \A hr, objs :
    Reachable \subseteq S /\ hr = HRoot /\ (\A o : o \in objs <=> \E x \in S : o = Rec(x)) =>
      \A o : o \in HObj <=> o \in objs /\ o.id \in Heap!Live(hr, objs)

LEMMA RecFacts ==
  ASSUME Good, IdsValid, NEW x \in Objects
  PROVE  /\ Rec(x).id = mem[x].id /\ mem[x].id \in 1..(MaxObjs + NExt)
         /\ \A k \in 1..NField :
              /\ Rec(x).kid[k] = IdAt(mem[x].kid[k])
              /\ mem[x].kid[k] = Nil => Rec(x).kid[k] = Nil
              /\ mem[x].kid[k] # Nil =>
                   /\ Now(mem[x].kid[k]) \in Objects
                   /\ Rec(x).kid[k] = mem[Now(mem[x].kid[k])].id
                   /\ Rec(x).kid[k] \in 1..(MaxObjs + NExt)
<1>1. x \in Addr /\ Allocated(x) /\ mem[x].fwd = Nil /\ x # Nil /\ Now(x) = x
  BY AddressFacts DEF Objects, Now
<1>2. \A y \in Objects : mem[y].id \in 1..(MaxObjs + NExt) /\ Allocated(y)
  BY ObjectsFew DEF Good, Objects
<1>3. Rec(x).id = mem[x].id
  BY <1>1 DEF Rec, IdAt
<1>4. ASSUME NEW k \in 1..NField
      PROVE  /\ Rec(x).kid[k] = IdAt(mem[x].kid[k])
             /\ mem[x].kid[k] = Nil => Rec(x).kid[k] = Nil
             /\ mem[x].kid[k] # Nil =>
                  /\ Now(mem[x].kid[k]) \in Objects
                  /\ Rec(x).kid[k] = mem[Now(mem[x].kid[k])].id
                  /\ Rec(x).kid[k] \in 1..(MaxObjs + NExt)
  <2>1. Rec(x).kid[k] = IdAt(mem[x].kid[k])
    BY DEF Rec
  <2>2. mem[x].kid[k] # Nil => Now(mem[x].kid[k]) \in Objects
    BY ObjectsClosed
  <2>3. QED
    BY <1>2, <2>1, <2>2 DEF IdAt
<1>5. QED
  BY <1>2, <1>3, <1>4

(* GCHeap's passes, like those of Reached.                                  *)
LEMMA LiveFacts ==
  ASSUME NEW hr, NEW objs, NEW L, L = 1..(MaxObjs + NExt), NEW E \in [L -> SUBSET L],
         \A i \in 1..NRoot : hr[i] = Nil \/ hr[i] \in L,
         \A i \in L : \A j : j \in E[i] <=>
           j # Nil /\ \E o \in objs : o.id = i /\ \E f \in 1..NField : j = o.kid[f]
  PROVE  LeastClosed(Heap!Live(hr, objs), L, {hr[i] : i \in 1..NRoot} \ {Nil}, E)
<1> DEFINE N == MaxObjs + NExt
           kids(i) == UNION {{o.kid[f] : f \in 1..NField} : o \in {x \in objs : x.id = i}}
           start == {hr[i] : i \in 1..NRoot} \ {Nil}
           step(X) == UNION {({i} \cup kids(i)) \ {Nil} : i \in X}
           body(f) == [n \in 0..N |-> IF n = 0 THEN start ELSE step(f[n - 1])]
           r == CHOOSE f : f = body(f)
           F == [X \in SUBSET L |-> step(X)]
<1>1. Heap!Live(hr, objs) = r[N]
  BY DEF Heap!Live
<1>2. N \in Nat /\ start \in SUBSET L /\ Nil \notin L /\ L = 1..N
  BY NilAssumption
<1>3. \A X \in SUBSET L : \A x : x \in step(X) <=> \E b \in X : x = b \/ x \in E[b]
  <2> SUFFICES ASSUME NEW X \in SUBSET L, NEW x
               PROVE  x \in step(X) <=> \E b \in X : x = b \/ x \in E[b]
    OBVIOUS
  <2>1. \A b : x \in ({b} \cup kids(b)) \ {Nil} <=> x # Nil /\ (x = b \/ x \in kids(b))
    OBVIOUS
  <2>0. x \in step(X) <=> \E b \in X : x # Nil /\ (x = b \/ x \in kids(b))
    <3> HIDE DEF kids
    <3>1. QED
      OBVIOUS
  <2>2. \A b \in X : x \in kids(b) <=> \E o \in objs : o.id = b /\ \E f \in 1..NField : x = o.kid[f]
    OBVIOUS
  <2> HIDE DEF step, kids
  <2>3. QED
    BY <1>2, <2>0, <2>2
<1>4. \A X \in SUBSET L : F[X] = step(X)
  OBVIOUS
<1>5. start = {hr[i] : i \in 1..NRoot} \ {Nil}
  OBVIOUS
<1> HIDE DEF N, start, step, kids
<1>6. \A X \in SUBSET L : step(X) \in SUBSET L
  BY <1>3
<1>7. F \in [SUBSET L -> SUBSET L]
  BY <1>6
<1> HIDE DEF F
<1>8. PassesOver(N, L, start, F)
  BY <1>2, <1>7 DEF PassesOver
<1>9. \E f : f = body(f)
  <2>1. PICK f \in [0..N -> SUBSET L] : f[0] = start /\ \A n \in 1..N : f[n] = F[f[n - 1]]
    BY <1>8, Passes
  <2>2. \A n \in 0..N : f[n] = IF n = 0 THEN start ELSE step(f[n - 1])
    <3> TAKE n \in 0..N
    <3>1. CASE n # 0
      <4>1. n \in 1..N /\ n - 1 \in 0..N
        BY <1>2, <3>1
      <4>2. QED
        BY <1>4, <2>1, <3>1, <4>1
    <3>2. QED
      BY <2>1, <3>1
  <2>3. f = [n \in 0..N |-> IF n = 0 THEN start ELSE step(f[n - 1])]
    BY <2>2
  <2>4. f = body(f)
    BY <2>3
  <2> HIDE DEF body
  <2>5. QED
    BY <2>4
<1>10. r = body(r)
  BY <1>9
<1> HIDE DEF r
<1>11. r[0] = start /\ \A n \in 1..N : r[n] = step(r[n - 1])
  <2>1. 0 \in 0..N /\ \A n \in 1..N : n \in 0..N /\ n # 0
    BY <1>2
  <2>2. QED
    BY <1>10, <2>1
<1> HIDE DEF body
<1>12. \A n \in 1..N : r[n - 1] \in SUBSET L => r[n] = F[r[n - 1]]
  BY <1>4, <1>11
<1>13. IsFiniteSet(L) /\ Cardinality(L) <= N
  <2>1. 1 \in Int /\ N \in Int /\ 1 <= N + 1
    BY <1>2
  <2>2. IsFiniteSet(1..N) /\ Cardinality(1..N) = IF 1 > N THEN 0 ELSE N - 1 + 1
    BY <2>1, FS_Interval
  <2>3. QED
    BY <1>2, <2>2
<1>14. \A X \in SUBSET L : \A x : x \in F[X] <=> \E b \in X : x = b \/ x \in E[b]
  <2> TAKE X \in SUBSET L
  <2>1. F[X] = step(X)
    BY <1>4
  <2>2. QED
    BY <1>3, <2>1
<1>15. PassesAlong(N, L, start, E, F, r)
  BY <1>8, <1>11, <1>12, <1>13, <1>14 DEF PassesAlong
<1>16. LeastClosed(r[N], L, start, E)
  BY <1>15, ClosureFacts
<1>17. QED
  BY <1>1, <1>5, <1>16

LEMMA CutFacts ==
  ASSUME Good, IdsValid, ReachClosed
  PROVE  CutIsReachable
<1> SUFFICES ASSUME NEW S \in SUBSET Objects, NEW hr, NEW objs,
                    Reachable \subseteq S, hr = HRoot, \A o : o \in objs <=> \E x \in S : o = Rec(x)
             PROVE  \A o : o \in HObj <=> o \in objs /\ o.id \in Heap!Live(hr, objs)
  BY DEF CutIsReachable
<1> DEFINE L == 1..(MaxObjs + NExt)
           kids(i) == {j \in L : \E o \in objs : o.id = i /\ \E f \in 1..NField : j = o.kid[f]}
           E == [i \in L |-> kids(i)]
           A == {hr[i] : i \in 1..NRoot} \ {Nil}
<1> PICK V : V = Heap!Live(hr, objs)
  OBVIOUS
<1>1. Nil \notin L
  BY NilAssumption
<1>2. ASSUME NEW x \in Objects
      PROVE  /\ Rec(x).id = mem[x].id /\ mem[x].id \in L
             /\ \A k \in 1..NField :
                  /\ mem[x].kid[k] = Nil => Rec(x).kid[k] = Nil
                  /\ mem[x].kid[k] # Nil =>
                       /\ Now(mem[x].kid[k]) \in Objects
                       /\ Rec(x).kid[k] = mem[Now(mem[x].kid[k])].id
                       /\ Rec(x).kid[k] \in L
  BY RecFacts
<1>3. ASSUME NEW r \in 1..NRoot
      PROVE  /\ root[r] = Nil => hr[r] = Nil
             /\ root[r] # Nil => hr[r] = mem[Now(root[r])].id /\ hr[r] \in L
  <2>1. hr[r] = IdAt(root[r])
    BY DEF HRoot
  <2>2. root[r] # Nil => Now(root[r]) \in Objects /\ Allocated(Now(root[r]))
    BY ObjectsClosed DEF Objects
  <2>3. QED
    BY <1>2, <2>1, <2>2 DEF IdAt
<1>4. \A o : o \in objs <=> \E x \in S : o = Rec(x)
  OBVIOUS
<1>5. E \in [L -> SUBSET L] /\ \A i \in L : E[i] = kids(i)
  OBVIOUS
<1>6. \A i, j : j \in kids(i) <=> j \in L /\ \E o \in objs : o.id = i /\ \E f \in 1..NField : j = o.kid[f]
  OBVIOUS
<1>7. /\ \A r \in 1..NRoot : hr[r] # Nil => hr[r] \in A
      /\ \A i \in A : i # Nil /\ \E r \in 1..NRoot : i = hr[r]
  OBVIOUS
<1>8. L = 1..(MaxObjs + NExt)
  OBVIOUS
<1>9. A = {hr[i] : i \in 1..NRoot} \ {Nil}
  OBVIOUS
<1> HIDE DEF L, kids, E, A
<1>10. ASSUME NEW x \in S, NEW k \in 1..NField, mem[x].kid[k] # Nil
       PROVE  mem[Now(mem[x].kid[k])].id \in E[mem[x].id]
  <2>1. x \in Objects /\ Rec(x) \in objs
    BY <1>4
  <2>2. QED
    BY <1>2, <1>5, <1>6, <1>10, <2>1
<1>11. ASSUME NEW x \in S, NEW j \in E[mem[x].id]
       PROVE  \E k \in 1..NField : mem[x].kid[k] # Nil /\ j = mem[Now(mem[x].kid[k])].id
  <2>1. x \in Objects /\ mem[x].id \in L /\ j \in L
    BY <1>2, <1>5, <1>6
  <2>2. PICK o \in objs, k \in 1..NField : o.id = mem[x].id /\ j = o.kid[k]
    BY <1>5, <1>6, <2>1
  <2>3. PICK y \in S : o = Rec(y)
    BY <1>4
  <2>4. y \in Objects /\ mem[y].id = mem[x].id
    BY <1>2, <2>2, <2>3
  <2>5. y = x
    BY <2>1, <2>4 DEF Good, CopyInv, UniqueIds
  <2>6. j # Nil
    BY <1>1, <2>1
  <2>7. QED
    BY <1>2, <2>1, <2>2, <2>3, <2>5, <2>6
<1>12. LeastClosed(V, L, A, E)
  <2>1. \A i \in 1..NRoot : hr[i] = Nil \/ hr[i] \in L
    BY <1>3
  <2>2. ASSUME NEW i \in L, NEW j
        PROVE  j \in E[i] <=> j # Nil /\ \E o \in objs : o.id = i /\ \E f \in 1..NField : j = o.kid[f]
    <3>1. ASSUME j # Nil, NEW o \in objs, o.id = i, NEW f \in 1..NField, j = o.kid[f]
          PROVE  j \in L
      <4>1. PICK x \in S : o = Rec(x)
        BY <1>4
      <4>2. QED
        BY <1>2, <3>1, <4>1
    <3>2. QED
      BY <1>1, <1>5, <1>6, <3>1
  <2>3. QED
    BY <1>5, <1>8, <1>9, <2>1, <2>2, LiveFacts
<1>13. ASSUME NEW i \in V
       PROVE  \E a \in Reachable : i = mem[a].id
  <2> DEFINE I == {i1 \in L : \E a \in Reachable : i1 = mem[a].id}
  <2>1. I \in SUBSET L /\ \A i1 \in I : \E a \in Reachable : i1 = mem[a].id
    OBVIOUS
  <2>2. \A a \in Reachable : mem[a].id \in I
    BY <1>2 DEF ReachClosed
  <2> HIDE DEF I
  <2>3. A \subseteq I
    <3> SUFFICES ASSUME NEW j \in A PROVE j \in I
      OBVIOUS
    <3>1. PICK r \in 1..NRoot : j = hr[r] /\ j # Nil
      BY <1>7
    <3>2. QED
      BY <1>3, <2>2, <3>1 DEF ReachClosed
  <2>4. ASSUME NEW b \in I
        PROVE  E[b] \subseteq I
    <3>1. PICK a \in Reachable : b = mem[a].id
      BY <2>1
    <3>2. ASSUME NEW j \in E[b] PROVE j \in I
      <4>1. PICK k \in 1..NField : mem[a].kid[k] # Nil /\ j = mem[Now(mem[a].kid[k])].id
        BY <1>11, <3>1
      <4>2. QED
        BY <2>2, <4>1 DEF ReachClosed
    <3>3. QED
      BY <3>2
  <2>5. V \subseteq I
    BY <1>12, <2>1, <2>3, <2>4 DEF LeastClosed
  <2>6. QED
    BY <2>1, <2>5
<1>14. ASSUME NEW a \in Reachable
       PROVE  mem[a].id \in V
  <2> DEFINE T == {x \in Reachable : mem[x].id \in V}
  <2>1. T \in SUBSET Objects /\ T \subseteq Reachable
    BY DEF ReachClosed
  <2>2. ASSUME NEW r \in 1..NRoot, root[r] # Nil PROVE Now(root[r]) \in T
    <3>1. hr[r] \in A /\ hr[r] = mem[Now(root[r])].id
      BY <1>1, <1>3, <1>7, <2>2
    <3>2. hr[r] \in V
      BY <1>12, <3>1 DEF LeastClosed
    <3>3. QED
      BY <2>2, <3>1, <3>2 DEF ReachClosed
  <2>3. ASSUME NEW b \in T, NEW k \in 1..NField, mem[b].kid[k] # Nil PROVE Now(mem[b].kid[k]) \in T
    <3>1. b \in Reachable /\ mem[b].id \in V
      OBVIOUS
    <3>2. mem[Now(mem[b].kid[k])].id \in E[mem[b].id]
      BY <1>10, <2>3, <3>1
    <3>3. mem[Now(mem[b].kid[k])].id \in V
      BY <1>12, <3>1, <3>2 DEF LeastClosed
    <3>4. QED
      BY <2>3, <3>1, <3>3 DEF ReachClosed
  <2> HIDE DEF T
  <2>4. Reachable \subseteq T
    BY <2>1, <2>2, <2>3 DEF ReachClosed
  <2>5. QED
    BY <2>4 DEF T
<1>15. ASSUME NEW x \in S
       PROVE  x \in Reachable <=> mem[x].id \in V
  <2>1. ASSUME mem[x].id \in V PROVE x \in Reachable
    <3>1. PICK a \in Reachable : mem[x].id = mem[a].id
      BY <1>13, <2>1
    <3>2. x \in Objects /\ a \in Objects
      BY DEF ReachClosed
    <3>3. QED
      BY <3>1, <3>2 DEF Good, CopyInv, UniqueIds
  <2>2. QED
    BY <1>14, <2>1
<1>16. ASSUME NEW o
       PROVE  o \in HObj <=> o \in objs /\ o.id \in V
  <2>1. o \in HObj <=> \E x \in Reachable : o = Rec(x)
    BY DEF HObj
  <2>2. \A x \in S : Rec(x).id = mem[x].id
    BY <1>2
  <2>3. QED
    BY <1>4, <1>15, <2>1, <2>2
<1>17. QED
  BY <1>16

-----------------------------------------------------------------------------
(* Between collections the client changes its heap as GCHeap does.          *)

(* After the step, S are objects that point to objects in S, and no root    *)
(* holds anything else.                                                     *)
HoldsAll(S) ==
  /\ \A x \in S : x \in Addr /\ AllocNext(x) /\ mem'[x].fwd = Nil
  /\ \A r \in 1..NRoot : root'[r] # Nil => root'[r] \in S
  /\ \A b \in S : \A k \in 1..NField : mem'[b].kid[k] # Nil => mem'[b].kid[k] \in S

LEMMA HeldFacts ==
  ASSUME ReachClosed', NEW S, HoldsAll(S)
  PROVE  /\ S \in SUBSET Objects' /\ Reachable' \subseteq S
         /\ \A x \in S : x # Nil /\ IdNext(x) = mem'[x].id
<1> PICK R : R = Reachable'
  OBVIOUS
<1> PICK O : O = Objects'
  OBVIOUS
<1>1. \A T \in SUBSET O :
        /\ \A r \in 1..NRoot : root'[r] # Nil => NowNext(root'[r]) \in T
        /\ \A b \in T : \A k \in 1..NField : mem'[b].kid[k] # Nil => NowNext(mem'[b].kid[k]) \in T
        => R \subseteq T
  BY DEF ReachClosed, Now, NowNext
<1>2. O = {a \in Addr : AllocNext(a) /\ mem'[a].fwd = Nil}
  BY AllocPrime DEF Objects
<1>3. \A x \in S : x # Nil /\ NowNext(x) = x /\ IdNext(x) = mem'[x].id
  BY AddressFacts DEF HoldsAll, NowNext, IdNext
<1>4. S \in SUBSET O
  BY <1>2 DEF HoldsAll
<1>5. R \subseteq S
  BY <1>1, <1>3, <1>4 DEF HoldsAll
<1>6. QED
  BY <1>3, <1>4, <1>5

LEMMA HeldBecomes ==
  ASSUME ReachClosed', CutIsReachable', NEW S, HoldsAll(S), NEW hr, hr = HRoot',
         NEW objs, \A o : o \in objs <=> \E x \in S : o = RecNext(x)
  PROVE  Heap!Becomes(hr, objs)
<1> PICK R : R = Reachable'
  OBVIOUS
<1> PICK O : O = Objects'
  OBVIOUS
<1> PICK H : H = HObj'
  OBVIOUS
<1>1. S \in SUBSET O /\ R \subseteq S
  BY HeldFacts
<1>2. \A T \in SUBSET O : \A h, os :
        R \subseteq T /\ h = HRoot' /\ (\A o : o \in os <=> \E x \in T : o = RecNext(x)) =>
          \A o : o \in H <=> o \in os /\ o.id \in Heap!Live(h, os)
  BY DEF CutIsReachable, Rec, RecNext, IdAt, IdNext, Allocated, AllocNext, Now, NowNext
<1>3. \A o : o \in H <=> o \in objs /\ o.id \in Heap!Live(hr, objs)
  BY <1>1, <1>2
<1>4. HObj' = {o \in objs : o.id \in Heap!Live(hr, objs)}
  BY <1>3
<1>5. QED
  BY <1>4 DEF Heap!Becomes, HObj, HRoot, Rec

(* Nothing is forwarded between collections.                                *)
LEMMA IdleView ==
  ASSUME Good, pc = "idle", ReachClosed
  PROVE  /\ \A x \in Reachable :
              /\ x \in Addr /\ x # Nil /\ Allocated(x) /\ mem[x].fwd = Nil /\ x \in Objects
              /\ IdAt(x) = mem[x].id /\ Rec(x).id = mem[x].id
              /\ \A k \in 1..NField : mem[x].kid[k] # Nil => mem[x].kid[k] \in Reachable
         /\ \A r \in 1..NRoot : root[r] # Nil => root[r] \in Reachable
         /\ \A i : i \in Heap!Ids <=> \E x \in Reachable : i = mem[x].id
<1>1. \A x \in Addr : Allocated(x) => Now(x) = x /\ mem[x].fwd = Nil
  BY IdleFacts
<1>2. \A x \in Reachable : x \in Objects /\ x \in Addr /\ Allocated(x) /\ x # Nil
  BY AddressFacts DEF ReachClosed, Objects
<1>3. \A r \in 1..NRoot : root[r] # Nil => root[r] \in Addr /\ Allocated(root[r])
  BY TypeParts DEF Good, PathInv, RootsValid, Kid
<1>4. \A x \in Reachable : \A k \in 1..NField :
        mem[x].kid[k] # Nil => mem[x].kid[k] \in Addr /\ Allocated(mem[x].kid[k])
  BY <1>2, KidFacts
<1>5. \A x \in Reachable : IdAt(x) = mem[x].id /\ Rec(x).id = mem[x].id
  BY <1>1, <1>2 DEF IdAt, Rec
<1>6. \A i : i \in Heap!Ids <=> \E o \in HObj : i = o.id
  BY DEF Heap!Ids, HObj, Rec
<1>7. \A o : o \in HObj <=> \E x \in Reachable : o = Rec(x)
  BY DEF HObj
<1>8. \A i : i \in Heap!Ids <=> \E x \in Reachable : i = mem[x].id
  BY <1>5, <1>6, <1>7
<1>9. QED
  BY <1>1, <1>2, <1>3, <1>4, <1>5, <1>8 DEF ReachClosed

LEMMA SetRootView ==
  ASSUME Good, pc = "idle", ReachClosed, ReachClosed', CutIsReachable',
         NEW r \in (NExt + 1)..NRoot, NEW v \in Reachable \cup {Nil}, SetRoot(r, v)
  PROVE  \E i \in Heap!Ids \cup {Nil} : Heap!HSetRoot(r, i)
<1> DEFINE i == IdAt(v)
<1>1. UNCHANGED <<mem, free>> /\ root' = [root EXCEPT ![r] = v] /\ r \in 1..NRoot
  BY DEF SetRoot
<1>2. root \in [1..NRoot -> Kid]
  BY TypeParts DEF Good
<1>3. \A x \in Reachable : AllocNext(x)
  BY <1>1, IdleView DEF Allocated, AllocNext
<1>4. \A q \in 1..NRoot : root'[q] = IF q = r THEN v ELSE root[q]
  BY <1>1, <1>2
<1>5. HoldsAll(Reachable)
  BY <1>1, <1>3, <1>4, IdleView DEF HoldsAll
<1>6. \A x : x = Nil \/ x \in Reachable => IdNext(x) = IdAt(x)
  BY <1>1, <1>5, HeldFacts, IdleView DEF IdNext, IdAt
<1>7. \A x \in Reachable : RecNext(x) = Rec(x)
  <2> TAKE x \in Reachable
  <2>1. \A k \in 1..NField : IdNext(mem'[x].kid[k]) = IdAt(mem[x].kid[k])
    BY <1>1, <1>6, IdleView
  <2>2. QED
    BY <1>6, <2>1 DEF Rec, RecNext
<1>8. [HRoot EXCEPT ![r] = i] = HRoot'
  <2>1. \A q \in 1..NRoot : IdNext(root'[q]) = IF q = r THEN i ELSE IdAt(root[q])
    BY <1>4, <1>6, IdleView
  <2>2. [q \in 1..NRoot |-> IdNext(root'[q])] = [HRoot EXCEPT ![r] = i]
    BY <2>1 DEF HRoot
  <2>3. QED
    BY <2>2, IdPrime
<1>9. i \in Heap!Ids \cup {Nil}
  BY IdleView DEF IdAt
<1> HIDE DEF i
<1>10. \A o : o \in HObj <=> \E x \in Reachable : o = RecNext(x)
  BY <1>7 DEF HObj
<1>11. Heap!Becomes([HRoot EXCEPT ![r] = i], HObj)
  BY <1>5, <1>8, <1>10, HeldBecomes
<1>12. Heap!HSetRoot(r, i)
  BY <1>11 DEF Heap!HSetRoot, HRoot, HObj, Rec
<1>13. QED
  BY <1>9, <1>12

LEMMA StoredKid ==
  ASSUME NEW D, NEW W, NEW K \in [D -> W], NEW k \in D, NEW i, NEW o, NEW R, R = [id |-> o, kid |-> K]
  PROVE  [R EXCEPT !.kid[k] = i] = [id |-> o, kid |-> [K EXCEPT ![k] = i]]
OBVIOUS

LEMMA AssignView ==
  ASSUME Good, pc = "idle", ReachClosed, ReachClosed', CutIsReachable',
         NEW p \in Reachable, NEW v \in Reachable, NEW k \in 1..NField, Assign(p, k, v)
  PROVE  \E o \in HObj, i \in Heap!Ids : Heap!HAssign(o, k, i)
<1> DEFINE i == IdAt(v)
           new == [Rec(p) EXCEPT !.kid[k] = i]
           objs == (HObj \ {Rec(p)}) \cup {new}
<1>1. UNCHANGED <<free, root>> /\ mem' = [mem EXCEPT ![p].kid[k] = v]
  BY DEF Assign
<1>2. mem \in [Addr -> Cell] /\ p \in Addr /\ mem[p].kid \in [1..NField -> Kid]
  BY IdleView, TypeParts DEF Good, Cell, Kid
<1>3. /\ \A x \in Addr : x # p => mem'[x] = mem[x]
      /\ \A x \in Addr : mem'[x].id = mem[x].id /\ mem'[x].fwd = mem[x].fwd
      /\ \A f \in 1..NField : mem'[p].kid[f] = IF f = k THEN v ELSE mem[p].kid[f]
  BY <1>1, <1>2 DEF Cell
<1>4. \A x \in Reachable : AllocNext(x)
  BY <1>1, IdleView DEF Allocated, AllocNext
<1>5. HoldsAll(Reachable)
  <2>1. ASSUME NEW b \in Reachable, NEW f \in 1..NField, mem'[b].kid[f] # Nil
        PROVE  mem'[b].kid[f] \in Reachable
    BY <1>3, <2>1, IdleView
  <2>2. QED
    BY <1>1, <1>3, <1>4, <2>1, IdleView DEF HoldsAll
<1>6. \A x : x = Nil \/ x \in Reachable => IdNext(x) = IdAt(x)
  BY <1>3, <1>5, HeldFacts, IdleView DEF IdNext, IdAt
<1>7. \A x \in Reachable : x # p => RecNext(x) = Rec(x)
  <2> TAKE x \in Reachable
  <2>1. ASSUME x # p PROVE \A f \in 1..NField : IdNext(mem'[x].kid[f]) = IdAt(mem[x].kid[f])
    BY <1>3, <1>6, <2>1, IdleView
  <2>2. QED
    BY <1>6, <2>1 DEF Rec, RecNext
<1>8. RecNext(p) = new
  <2>1. \A f \in 1..NField : IdNext(mem'[p].kid[f]) = IF f = k THEN i ELSE IdAt(mem[p].kid[f])
    BY <1>3, <1>6, IdleView
  <2> PICK K : K = [f \in 1..NField |-> IdAt(mem[p].kid[f])]
    OBVIOUS
  <2>2. [f \in 1..NField |-> IdNext(mem'[p].kid[f])] = [K EXCEPT ![k] = i]
    BY <2>1
  <2>3. Rec(p) = [id |-> IdAt(p), kid |-> K]
    BY DEF Rec
  <2>4. new = [id |-> IdAt(p), kid |-> [K EXCEPT ![k] = i]]
    <3> PICK W : W = {IdAt(mem[p].kid[f]) : f \in 1..NField}
      OBVIOUS
    <3> PICK R : R = Rec(p)
      OBVIOUS
    <3>1. K \in [1..NField -> W]
      OBVIOUS
    <3>2. R = [id |-> IdAt(p), kid |-> K]
      BY <2>3
    <3>3. k \in 1..NField
      OBVIOUS
    <3> HIDE DEF i, new, objs
    <3>4. [R EXCEPT !.kid[k] = i] = [id |-> IdAt(p), kid |-> [K EXCEPT ![k] = i]]
      BY ONLY <3>1, <3>2, <3>3, StoredKid
    <3>5. QED
      BY <3>4 DEF new
  <2>5. QED
    BY <1>6, <2>2, <2>4 DEF RecNext
<1>9. HRoot' = HRoot
  <2>1. \A q \in 1..NRoot : IdNext(root'[q]) = IdAt(root[q])
    BY <1>1, <1>6, IdleView
  <2>2. QED
    BY <2>1, IdPrime DEF HRoot
<1>10. \A x \in Reachable : Rec(x) = Rec(p) => x = p
  BY IdleView DEF Good, CopyInv, UniqueIds
<1>11. Rec(p) \in HObj /\ i \in Heap!Ids
  BY IdleView DEF HObj
<1>12. \A o : o \in HObj <=> \E x \in Reachable : o = Rec(x)
  BY DEF HObj
<1> HIDE DEF i, new
<1>13. \A o : o \in objs <=> \E x \in Reachable : o = RecNext(x)
  BY <1>7, <1>8, <1>10, <1>12
<1> HIDE DEF objs
<1>14. Heap!Becomes(HRoot, objs)
  BY <1>5, <1>9, <1>13, HeldBecomes
<1>15. Heap!HAssign(Rec(p), k, i)
  BY <1>14 DEF Heap!HAssign, HRoot, HObj, Rec, objs, new
<1>16. QED
  BY <1>11, <1>15

LEMMA NewView ==
  ASSUME Good, pc = "idle", ReachClosed, ReachClosed', CutIsReachable',
         NEW r \in (NExt + 1)..NRoot, New(r)
  PROVE  \E i \in 1..MaxObjs : Heap!HNew(r, i)
<1>1. r \in 1..NRoot /\ root \in [1..NRoot -> Kid]
  BY TypeParts DEF Good
<1>2. PICK a \in Cells, i \in UnusedIds :
        /\ ~Allocated(a) /\ \A b \in Addr : AllocNext(b) <=> Allocated(b) \/ b = a
        /\ mem'[a].id = i /\ mem'[a].fwd = Nil /\ mem'[a].kid = NoKids
        /\ \A b \in Addr : b # a => mem'[b] = mem[b]
        /\ root' = [root EXCEPT ![r] = a]
  BY <1>1, NewFacts DEF Good
<1> DEFINE S == Reachable \cup {a}
           objs == HObj \cup {Heap!New(i)}
<1>3. a \in Addr /\ a # Nil /\ a \notin Reachable
  BY <1>2, AddressFacts, IdleView
<1>4. \A q \in 1..NRoot : root'[q] = IF q = r THEN a ELSE root[q]
  BY <1>1, <1>2
<1>5. \A x \in Reachable : mem'[x] = mem[x] /\ AllocNext(x)
  BY <1>2, <1>3, IdleView
<1>6. \A k \in 1..NField : mem'[a].kid[k] = Nil
  BY <1>2 DEF NoKids
<1>7. AllocNext(a)
  BY <1>2, <1>3
<1>8. \A x \in S : x = a \/ x \in Reachable
  OBVIOUS
<1>9. \A x : x \in Reachable \/ x = a => x \in S
  OBVIOUS
<1> HIDE DEF S
<1>10. HoldsAll(S)
  <2>1. \A x \in S : x \in Addr /\ AllocNext(x) /\ mem'[x].fwd = Nil
    BY <1>2, <1>3, <1>5, <1>7, <1>8, IdleView
  <2>2. \A q \in 1..NRoot : root'[q] # Nil => root'[q] \in S
    BY <1>4, <1>9, IdleView
  <2>3. \A b \in S : \A k \in 1..NField : mem'[b].kid[k] # Nil => mem'[b].kid[k] \in S
    BY <1>5, <1>6, <1>8, <1>9, IdleView
  <2>4. QED
    BY <2>1, <2>2, <2>3 DEF HoldsAll
<1>11. /\ \A x : x = Nil \/ x \in Reachable => IdNext(x) = IdAt(x)
       /\ IdNext(a) = i /\ IdNext(Nil) = Nil
  <2>1. \A x \in S : IdNext(x) = mem'[x].id
    BY <1>10, HeldFacts
  <2>2. QED
    BY <1>2, <1>5, <1>9, <2>1, IdleView DEF IdNext, IdAt
<1>12. \A x \in Reachable : RecNext(x) = Rec(x)
  <2> TAKE x \in Reachable
  <2>1. \A k \in 1..NField : IdNext(mem'[x].kid[k]) = IdAt(mem[x].kid[k])
    BY <1>5, <1>11, IdleView
  <2>2. QED
    BY <1>11, <2>1 DEF Rec, RecNext
<1>13. RecNext(a) = Heap!New(i)
  <2>1. \A k \in 1..NField : IdNext(mem'[a].kid[k]) = Nil
    BY <1>6, <1>11
  <2>2. QED
    BY <1>11, <2>1 DEF RecNext, Heap!New
<1>14. [HRoot EXCEPT ![r] = i] = HRoot'
  <2>1. \A q \in 1..NRoot : IdNext(root'[q]) = IF q = r THEN i ELSE IdAt(root[q])
    BY <1>4, <1>11, IdleView
  <2>2. [q \in 1..NRoot |-> IdNext(root'[q])] = [HRoot EXCEPT ![r] = i]
    BY <2>1 DEF HRoot
  <2>3. QED
    BY <2>2, IdPrime
<1>15. i \in 1..MaxObjs /\ i \notin Heap!Ids
  BY IdleView DEF UnusedIds
<1>16. \A o : o \in HObj <=> \E x \in Reachable : o = Rec(x)
  BY DEF HObj
<1>17. \A o : o \in objs <=> \E x \in S : o = RecNext(x)
  BY <1>8, <1>9, <1>12, <1>13, <1>16
<1> HIDE DEF objs
<1>18. Heap!Becomes([HRoot EXCEPT ![r] = i], objs)
  BY <1>10, <1>14, <1>17, HeldBecomes
<1>19. Heap!HNew(r, i)
  BY <1>15, <1>18 DEF Heap!HNew, HRoot, HObj, Rec, objs
<1>20. QED
  BY <1>15, <1>19

LEMMA HeapSame ==
  ASSUME UNCHANGED <<mem, free, root>>
  PROVE  HRoot' = HRoot /\ HObj' = HObj
<1>1. \A a : IdAt(a)' = IdAt(a)
  BY DEF IdAt, Now, Allocated
<1>2. Reachable' = Reachable
  BY DEF Reachable, Reached, Now
<1>3. QED
  BY <1>1, <1>2 DEF HRoot, HObj, Rec

LEMMA InitView ==
  ASSUME Init, ReachClosed
  PROVE  Heap!HInit
<1>1. /\ mem = [a \in Addr |-> IF a \in Ext THEN [Blank EXCEPT !.id = MaxObjs + a[3]] ELSE Blank]
      /\ free = [g \in Gens |-> [h \in {0, 1} |-> 0]]
      /\ root = [r \in 1..NRoot |-> IF r <= NExt THEN <<NGen, 0, r>> ELSE Nil]
  BY DEF Init
<1>2. \A a \in Addr : Allocated(a) => a \in Ext
  <2>1. \A a \in Cells : ~Allocated(a)
    BY <1>1, AddressFacts DEF Allocated
  <2>2. QED
    BY <2>1 DEF Addr
<1>3. ASSUME NEW a \in Ext
      PROVE  /\ mem[a].id = MaxObjs + a[3] /\ mem[a].fwd = Nil /\ a # Nil
             /\ \A k \in 1..NField : mem[a].kid[k] = Nil
             /\ Now(a) = a /\ Allocated(a)
  BY <1>1, AddressFacts DEF Blank, NoKids, Now, Allocated
<1>4. \A r \in 1..NExt : <<NGen, 0, r>> \in Ext /\ <<NGen, 0, r>>[3] = r
  BY DEF Ext
<1>5. \A a \in Ext : \E r \in 1..NExt : a = <<NGen, 0, r>>
  BY DEF Ext
<1>6. \A r \in 1..NRoot : IF r <= NExt THEN r \in 1..NExt /\ root[r] = <<NGen, 0, r>> ELSE root[r] = Nil
  BY <1>1
<1>7. \A r \in 1..NExt : r \in 1..NRoot /\ r <= NExt
  OBVIOUS
<1>8. \A a : a \in Reachable <=> a \in Ext
  <2>1. \A a \in Reachable : a \in Ext
    BY <1>2 DEF ReachClosed, Objects
  <2>2. \A r \in 1..NExt : <<NGen, 0, r>> \in Reachable
    BY <1>3, <1>4, <1>6, <1>7 DEF ReachClosed
  <2>3. QED
    BY <1>5, <2>1, <2>2
<1>9. HRoot = [r \in 1..NRoot |-> IF r <= NExt THEN MaxObjs + r ELSE Nil]
  <2>1. \A r \in 1..NRoot : IdAt(root[r]) = IF r <= NExt THEN MaxObjs + r ELSE Nil
    <3> TAKE r \in 1..NRoot
    <3> PICK a : a = root[r]
      OBVIOUS
    <3>1. CASE r <= NExt
      <4>1. a \in Ext /\ a[3] = r
        BY <1>4, <1>6, <3>1
      <4>2. IdAt(a) = MaxObjs + r
        BY <1>3, <4>1 DEF IdAt
      <4>3. QED
        BY <3>1, <4>2
    <3>2. CASE ~(r <= NExt)
      <4>1. a = Nil
        BY <1>6, <3>2
      <4>2. QED
        BY <3>2, <4>1 DEF IdAt
    <3>3. QED
      BY <3>1, <3>2
  <2>2. QED
    BY <2>1 DEF HRoot
<1>10. \A r \in 1..NExt : Rec(<<NGen, 0, r>>) = Heap!New(MaxObjs + r)
  <2> TAKE r \in 1..NExt
  <2> PICK a : a = <<NGen, 0, r>>
    OBVIOUS
  <2>1. a \in Ext /\ a[3] = r
    BY <1>4
  <2>2. IdAt(a) = MaxObjs + r /\ IdAt(Nil) = Nil
    BY <1>3, <2>1 DEF IdAt
  <2>3. \A k \in 1..NField : IdAt(mem[a].kid[k]) = Nil
    BY <1>3, <2>1, <2>2
  <2>4. Rec(a) = Heap!New(MaxObjs + r)
    <3>1. [k \in 1..NField |-> IdAt(mem[a].kid[k])] = [k \in 1..NField |-> Nil]
      BY <2>3
    <3>2. QED
      BY <2>2, <3>1 DEF Rec, Heap!New
  <2>5. QED
    BY <2>4
<1>11. HObj = {Heap!New(MaxObjs + r) : r \in 1..NExt}
  <2>1. \A o : o \in HObj <=> \E a \in Ext : o = Rec(a)
    BY <1>8 DEF HObj
  <2>2. ASSUME NEW o \in HObj PROVE \E r \in 1..NExt : o = Heap!New(MaxObjs + r)
    <3>1. PICK a \in Ext : o = Rec(a)
      BY <2>1
    <3>2. PICK r \in 1..NExt : a = <<NGen, 0, r>>
      BY <1>5
    <3>3. QED
      BY <1>10, <3>1, <3>2
  <2>3. ASSUME NEW r \in 1..NExt PROVE Heap!New(MaxObjs + r) \in HObj
    BY <1>4, <1>10, <2>1
  <2>4. QED
    BY <2>2, <2>3
<1>12. QED
  BY <1>9, <1>11 DEF Heap!HInit, HRoot, HObj, Rec

(* What StoreInv and IdsValid say of what the client reaches.               *)
ViewInv == pc # "dead" => ReachClosed /\ CutIsReachable

LEMMA NextView ==
  ASSUME Faithful, TypeInv, CopyInv, AgeGeneration, StoreInv, ViewInv, ViewInv', [Next]_vars
  PROVE  [Heap!HNext]_(Heap!hvars)
<1> SUFFICES (HRoot' = HRoot /\ HObj' = HObj) \/ Heap!HNext
  BY DEF Heap!hvars, HRoot, HObj, Rec
<1>1. ASSUME \/ \E r \in (NExt + 1)..NRoot, i \in 1..MaxObjs : Heap!HNew(r, i)
             \/ \E p \in HObj, f \in 1..NField, i \in Heap!Ids : Heap!HAssign(p, f, i)
             \/ \E r \in (NExt + 1)..NRoot, i \in Heap!Ids \cup {Nil} : Heap!HSetRoot(r, i)
      PROVE  (HRoot' = HRoot /\ HObj' = HObj) \/ Heap!HNext
  BY <1>1 DEF Heap!HNext, Heap!hvars, HRoot, HObj, Rec
<1>2. CASE UNCHANGED vars
  BY <1>2, HeapSame DEF vars, heap
<1>3. CASE Crash
  BY <1>3, HeapSame DEF Crash, heap
<1>4. ASSUME Collect, ~Crash
      PROVE  pc # "idle" /\ pc # "dead" /\ pc' # "dead"
  BY <1>4, TypeParts DEF Collect, CopyRoot, RootDone, DeepMove, RootsDone, Visit, SkipNull, VisitChildren, FollowForward,
       MoveChild, Visiting, OnlyScan, ScanGray, Fixpoint, FixpointStep, DropEntry, TriageEntry,
       RescueChild, KeepEntry, InLog, NextEntry, NextLog, Cleanup, LogDone
<1>5. ASSUME Mutate
      PROVE  pc = "idle" /\ pc' # "dead"
  BY <1>5 DEF Mutate, New, SetRoot, Assign, RequestGc
<1>6. ASSUME pc # "dead" PROVE Good /\ Settled
  BY <1>6 DEF StoreInv, Whole, Good
<1>7. CASE Mutate
  <2>1. /\ pc = "idle" /\ Good
        /\ ReachClosed /\ ReachClosed' /\ CutIsReachable /\ CutIsReachable'
    BY <1>5, <1>6, <1>7 DEF ViewInv
  <2>2. ASSUME NEW r \in (NExt + 1)..NRoot, New(r)
        PROVE  \E i \in 1..MaxObjs : Heap!HNew(r, i)
    BY <2>1, <2>2, NewView
  <2>3. ASSUME NEW r \in (NExt + 1)..NRoot, NEW v \in Reachable \cup {Nil}, SetRoot(r, v)
        PROVE  \E i \in Heap!Ids \cup {Nil} : Heap!HSetRoot(r, i)
    BY <2>1, <2>3, SetRootView
  <2>4. ASSUME NEW p \in Reachable, NEW v \in Reachable, NEW k \in 1..NField, Assign(p, k, v)
        PROVE  \E o \in HObj, i \in Heap!Ids : Heap!HAssign(o, k, i)
    BY <2>1, <2>4, AssignView
  <2>5. ASSUME NEW u \in Upto, RequestGc(u)
        PROVE  HRoot' = HRoot /\ HObj' = HObj
    BY <2>1, <2>5, RequestView
  <2>6. QED
    BY <1>1, <1>7, <2>2, <2>3, <2>4, <2>5 DEF Mutate
<1>8. CASE Collect /\ ~Crash
  <2>1. /\ Good /\ Settled /\ ReachClosed /\ ReachClosed'
    BY <1>4, <1>6, <1>8 DEF ViewInv
  <2>2. CASE Cleanup
    BY <2>1, <2>2, CleanupView
  <2>3. CASE ~Cleanup
    <3>1. Evac /\ RootsEvac
      BY <1>8, <2>1, <2>3, CollectEvac
    <3>2. KidsOnly \/ \E a \in Addr : Copies(a)
      <4>1. Phases /\ pc # "idle"
        BY <1>4, <1>8 DEF CopyInv
      <4>2. QED
        BY <2>3, <4>1, StepEffect
    <3>3. QED
      BY <2>1, <3>1, <3>2, EvacView
  <2>4. QED
    BY <2>2, <2>3
<1>9. QED
  BY <1>2, <1>3, <1>7, <1>8 DEF Next

(* HeapKept: every step of the collector and of its client is a step of     *)
(* GCHeap or leaves roots and reachable objects as they were, whatever      *)
(* execute_gc moves.                                                        *)
THEOREM HeapIsKept ==
  ASSUME Faithful
  PROVE  Spec => HeapKept
<1>1. TypeInv /\ CopyInv /\ AgeGeneration /\ StoreInv /\ IdsValid => ViewInv
  BY ReachableFacts, CutFacts DEF ViewInv, StoreInv, Whole, Good
<1>2. Init /\ ViewInv => Heap!HInit
  BY InitView DEF ViewInv, Init
<1>3. TypeInv /\ CopyInv /\ AgeGeneration /\ StoreInv /\ ViewInv /\ ViewInv' /\ [Next]_vars
        => [Heap!HNext]_(Heap!hvars)
  BY NextView
<1>4. QED
  BY <1>1, <1>2, <1>3, TypeCorrect, CopyInvCorrect, AgeCorrect, StoreInvCorrect, IdsCorrect, PTL
  DEF Spec, HeapKept, Heap!HSpec

-----------------------------------------------------------------------------
(* A collection of every generation copies what the roots reach and nothing *)
(* else.                                                                    *)

OnlyReached ==
  pc \in {"roots", "scan", "mlog"} /\ upto = NGen =>
    \A a \in Objects : InTo(a) => a \in Reachable

(* Objects outside the collector's spaces are roots.                        *)
LEMMA ExtReached ==
  ASSUME Good, ReachClosed, NEW a \in Ext
  PROVE  a \in Reachable
<1>1. PICK r \in 1..NExt : a = <<NGen, 0, r>>
  BY DEF Ext
<1>2. r \in 1..NRoot /\ root[r] = a
  BY <1>1 DEF Good, PathInv, RootsValid
<1>3. Now(a) = a /\ a # Nil
  BY AddressFacts DEF Good, CopyInv, ExtStays, Now
<1>4. QED
  BY <1>2, <1>3 DEF ReachClosed

(* Whatever a step copies is reached, since a root leads to it, an object   *)
(* that is visited, or one that was copied before.                          *)
LEMMA CopiedIsReached ==
  ASSUME Good, ReachClosed, OnlyReached, upto = NGen, Collect, ~Cleanup,
         NEW a \in Objects, mem'[a].fwd # Nil
  PROVE  a \in Reachable
<1>0. a \in Addr /\ Allocated(a) /\ mem[a].fwd = Nil /\ mem \in [Addr -> Cell]
  BY TypeParts DEF Objects, Good
<1>1. ASSUME NEW p \in Objects, ~InFrom(p), pc \in {"roots", "scan", "mlog"}
      PROVE  p \in Reachable
  BY <1>1, ExtReached DEF OnlyReached, Objects, Addr, InTo, InFrom
<1>2. ASSUME NEW b \in Addr, CanMove(b), a # b
      PROVE  Moved(b)[a].fwd = Nil
  BY <1>0, <1>2, MovedFacts, DestFacts DEF Good
<1>3. \A y : y # Nil /\ y = a => Now(y) = a
  BY <1>0 DEF Now
<1>4. CASE RootsDone \/ SkipNull \/ VisitChildren \/ ScanGray \/ Fixpoint \/ DropEntry \/ NextLog \/ Crash
  BY <1>0, <1>4 DEF RootsDone, SkipNull, VisitChildren, OnlyScan, ScanGray, Fixpoint, FixpointStep,
                    DropEntry, InLog, NextEntry, NextLog, Crash, heap
<1>5. CASE FollowForward
  <2> PICK v : v = mem[Slot].fwd
    OBVIOUS
  <2>1. Visiting /\ mem' = [mem EXCEPT ![Top.obj].kid[Top.k] = v]
    BY <1>5 DEF FollowForward
  <2>2. Top.obj \in Addr /\ Top.k \in 1..NField
    BY <2>1, TopFacts
  <2>3. QED
    BY <1>0, <2>1, <2>2, StoreFacts
<1>6. CASE MoveChild
  <2>1. /\ Visiting /\ Slot # Nil /\ CanMove(Slot)
        /\ mem' = [Moved(Slot) EXCEPT ![Top.obj].kid[Top.k] = Dest(Slot)]
    BY <1>6 DEF MoveChild
  <2>2. /\ Top.obj \in Addr /\ Top.k \in 1..NField /\ Slot \in Addr /\ ~InFrom(Top.obj)
        /\ Slot = mem[Top.obj].kid[Top.k] /\ Top.obj \in Objects
    BY <2>1, TopFacts DEF Slot
  <2>3. mem'[a].fwd = Moved(Slot)[a].fwd
    <3> PICK m, d : m = Moved(Slot) /\ d = Dest(Slot)
      OBVIOUS
    <3>1. m \in [Addr -> Cell] /\ mem' = [m EXCEPT ![Top.obj].kid[Top.k] = d]
      BY <2>1, <2>2, MovedFacts DEF Good
    <3>2. a \in Addr /\ Top.obj \in Addr /\ Top.k \in 1..NField
      BY <1>0, <2>2
    <3>3. [m EXCEPT ![Top.obj].kid[Top.k] = d][a].fwd = m[a].fwd
      BY <3>1, <3>2, StoreFacts
    <3>4. QED
      BY <3>1, <3>3
  <2>4. a = Slot
    BY <1>2, <2>1, <2>2, <2>3
  <2>5. Top.obj \in Reachable
    BY <1>1, <2>1, <2>2 DEF Visiting
  <2>6. QED
    BY <1>3, <2>1, <2>2, <2>4, <2>5 DEF ReachClosed
<1>7. CASE TriageEntry \/ KeepEntry
  <2>1. InLog /\ Current(Entry) /\ mem' = Repaired(Entry)
    BY <1>7 DEF TriageEntry, KeepEntry
  <2>2. Now(Entry.parent) \in Addr /\ Entry.k \in 1..NField
    BY <2>1, HeadFacts, AddressFacts
  <2>3. QED
    BY <1>0, <2>1, <2>2, StoreFacts DEF Repaired
<1>8. CASE RescueChild
  <2> DEFINE p == Now(Entry.parent)
  <2>1. /\ InLog /\ pc = "mlog" /\ Current(Entry) /\ InTo(p)
        /\ CanMove(Entry.snap) /\ mem' = Moved(Entry.snap)
    BY <1>8 DEF RescueChild, InLog, DeepMove, ParentLive
  <2>2. Entry.snap \in Addr /\ Entry.k \in 1..NField
    BY <2>1, HeadFacts, AddressFacts
  <2>3. /\ p \in Objects /\ mem[p].kid[Entry.k] # Nil
        /\ Now(mem[p].kid[Entry.k]) = Now(Entry.snap)
    BY <2>1, CurrentFacts
  <2>4. p \in Reachable
    BY <2>1, <2>3 DEF OnlyReached
  <2>5. a = Entry.snap /\ Now(Entry.snap) = a
    BY <1>0, <1>2, <2>1, <2>2 DEF Now
  <2>6. QED
    BY <2>2, <2>3, <2>4, <2>5 DEF ReachClosed
<1>9. CASE CopyRoot
  <2>1. pc = "roots" /\ ri \in 1..NRoot
    BY <1>9, TypeParts DEF CopyRoot, Good
  <2>2. /\ root[ri] # Nil /\ InFrom(root[ri]) /\ CanMove(root[ri]) /\ mem' = Moved(root[ri])
    BY <1>0, <1>9 DEF CopyRoot, RootDone, DeepMove
  <2>3. a = root[ri]
    BY <1>2, <2>2, AddressFacts DEF InFrom
  <2>4. QED
    BY <1>3, <2>1, <2>2, <2>3 DEF ReachClosed
<1>10. QED
  BY <1>4, <1>5, <1>6, <1>7, <1>8, <1>9 DEF Collect, Visit

(* A step between collections or out of one.                                *)
LEMMA CollectPhases ==
  ASSUME Good, [Next]_vars, pc' \in {"roots", "scan", "mlog"}, upto' = NGen
  PROVE  \/ UNCHANGED vars
         \/ \E u \in Upto : RequestGc(u) /\ pc = "idle" /\ u = NGen
         \/ Collect /\ ~Cleanup /\ pc \in {"roots", "scan", "mlog"}
<1>1. ASSUME Collect, ~Crash
      PROVE  pc \in {"roots", "scan", "mlog"}
  BY <1>1 DEF Collect, CopyRoot, RootsDone, Visit, SkipNull, VisitChildren, FollowForward,
              MoveChild, Visiting, ScanGray, Fixpoint, FixpointStep, DropEntry, TriageEntry,
              RescueChild, KeepEntry, InLog, NextLog, Cleanup, LogDone
<1>2. ~Crash /\ ~Cleanup
  BY DEF Crash, Cleanup
<1>3. ASSUME Mutate
      PROVE  \E u \in Upto : RequestGc(u) /\ pc = "idle" /\ u = NGen
  BY <1>3 DEF Mutate, New, SetRoot, Assign, RequestGc
<1>4. QED
  BY <1>1, <1>2, <1>3 DEF Next

LEMMA NextOnlyReached ==
  ASSUME Good, ReachClosed, ReachClosed', OnlyReached, [Next]_vars
  PROVE  OnlyReached'
<1> SUFFICES ASSUME pc' \in {"roots", "scan", "mlog"}, upto' = NGen, NEW q \in Objects', InTo(q)'
             PROVE  q \in Reachable'
  BY DEF OnlyReached
<1> PICK R : R = Reachable'
  OBVIOUS
<1>1. q \in Addr /\ AllocNext(q) /\ mem'[q].fwd = Nil
  BY AllocPrime DEF Objects
<1>2. CASE UNCHANGED vars
  <2>1. UNCHANGED <<mem, free, to, root, pc, upto>>
    BY <1>2 DEF vars, heap
  <2>2. \A r \in 1..NRoot : root[r] # Nil => Now(root[r]) \in R
    BY <2>1 DEF ReachClosed, Now
  <2>3. \A b \in R : \A k \in 1..NField : mem[b].kid[k] # Nil => Now(mem[b].kid[k]) \in R
    BY <2>1 DEF ReachClosed, Now
  <2>4. \A b \in Addr : Allocated(b)' <=> Allocated(b)
    BY <2>1 DEF Allocated
  <2>5. R \in SUBSET Objects
    BY <2>1, <2>4 DEF ReachClosed, Objects
  <2>6. Reachable \subseteq R
    BY <2>2, <2>3, <2>5 DEF ReachClosed
  <2>7. q \in Objects /\ InTo(q)
    BY <2>1, <2>4 DEF Objects, InTo
  <2>8. QED
    BY <2>1, <2>6, <2>7 DEF OnlyReached
<1>3. CASE \E u \in Upto : RequestGc(u) /\ pc = "idle" /\ u = NGen
  <2>1. /\ to' = [g \in Gens |-> IF g < NGen THEN 1 - to[g] ELSE to[g]]
        /\ UNCHANGED <<mem, free>> /\ pc = "idle"
    BY <1>3 DEF RequestGc
  <2>2. Allocated(q) /\ q \in Cells
    BY <1>1, <2>1 DEF Allocated, AllocNext, InTo
  <2>3. InTo(q)
    <3>1. q \in Addr /\ Allocated(q) /\ pc = "idle"
      BY <1>1, <2>1, <2>2
    <3>2. q \in Cells => InTo(q)
      BY <3>1, IdleFacts
    <3>3. QED
      BY <2>2, <3>2
  <2>4. q[1] \in Gens /\ q[1] < NGen /\ to[q[1]] \in {0, 1}
    <3>1. q[1] \in Gens /\ to \in [Gens -> {0, 1}]
      BY <2>2, AddressFacts, TypeParts DEF Good
    <3>2. \A g \in Gens : g < NGen
      BY DEF Gens
    <3>3. QED
      BY <3>1, <3>2
  <2>5. q[2] = to[q[1]] /\ q[2] = 1 - to[q[1]]
    BY <2>1, <2>3, <2>4 DEF InTo
  <2>6. QED
    BY <2>4, <2>5
<1>4. CASE Collect /\ ~Cleanup /\ pc \in {"roots", "scan", "mlog"}
  <2>1. Evac /\ RootsEvac
    BY <1>4, CollectEvac
  <2>2. UNCHANGED <<to, upto>>
    BY <2>1 DEF Evac
  <2>3. PICK p \in Objects : q = NowNext(p) /\ (q \in Cells => p \in Cells)
    BY <1>1, <2>1, PastFacts
  <2>4. p \in Reachable
    <3>1. CASE mem'[p].fwd = Nil
      <4>1. p = q /\ InTo(p)
        BY <2>2, <2>3, <3>1 DEF NowNext, InTo
      <4>2. QED
        BY <1>4, <2>2, <4>1 DEF OnlyReached
    <3>2. CASE mem'[p].fwd # Nil
      BY <1>4, <2>2, <3>2, CopiedIsReached
    <3>3. QED
      BY <3>1, <3>2
  <2>5. QED
    BY <2>1, <2>3, <2>4, EvacReach
<1>5. QED
  BY <1>2, <1>3, <1>4, CollectPhases

(* FullIsExact: a collection of every generation leaves what the roots      *)
(* reach, and no garbage, although it follows the pointers of a log.        *)
THEOREM FullCorrect ==
  ASSUME Faithful
  PROVE  Spec => FullIsExact
<1> DEFINE Exact == pc # "dead" => OnlyReached
<1>1. TypeInv /\ CopyInv /\ AgeGeneration /\ StoreInv /\ IdsValid => (pc # "dead" => Good /\ Settled /\ ReachClosed)
  BY ReachableFacts DEF StoreInv, Whole, Good
<1> DEFINE Seen == pc # "dead" => Good /\ Settled /\ ReachClosed
<1>2. Init => Exact
  BY DEF Init, OnlyReached
<1>3. Seen /\ Seen' /\ Exact /\ [Next]_vars => Exact'
  <2> SUFFICES ASSUME Seen, Seen', Exact, [Next]_vars, pc' # "dead" PROVE OnlyReached'
    OBVIOUS
  <2>1. pc # "dead"
    BY DeadStays
  <2>2. QED
    BY <2>1, NextOnlyReached
<1>4. Seen /\ Seen' /\ Exact /\ [Next]_vars =>
        [pc = "mlog" /\ pc' = "idle" /\ upto = NGen => Objects' \ Ext = Reachable' \ Ext]_vars
  <2> SUFFICES ASSUME Seen, Seen', Exact, Next, pc = "mlog", pc' = "idle", upto = NGen
               PROVE  Objects' \ Ext = Reachable' \ Ext
    OBVIOUS
  <2>1. Good /\ Settled /\ ReachClosed /\ ReachClosed' /\ OnlyReached
    OBVIOUS
  <2> HIDE DEF Seen, Exact
  <2>2. Cleanup
    BY DEF Next, Mutate, Collect, CopyRoot, RootsDone, Visit, SkipNull, VisitChildren, FollowForward,
           MoveChild, Visiting, ScanGray, Fixpoint, FixpointStep, DropEntry, TriageEntry, DeepMove,
           RescueChild, KeepEntry, InLog, NextEntry, NextLog, Crash
  <2>3. Reachable' = Reachable
    BY <2>1, <2>2, CleanupView
  <2>4. Reachable' \subseteq Objects'
    BY <2>1 DEF ReachClosed
  <2>5. ASSUME NEW q \in Objects', q \notin Ext
        PROVE  q \in Reachable
    <3>1. q \in Addr /\ Allocated(q)'
      BY <2>5 DEF Objects
    <3>2. Allocated(q) /\ ~InFrom(q)
      BY <2>1, <2>2, <3>1, CleanupFacts DEF Good, CopyInv
    <3>3. q \in Objects
      BY <2>1, <3>1, <3>2, NowFacts DEF Objects
    <3>4. InTo(q)
      BY <2>5, <3>1, <3>2 DEF Addr, InTo, InFrom
    <3>5. QED
      BY <2>1, <3>3, <3>4 DEF OnlyReached
  <2>6. QED
    BY <2>3, <2>4, <2>5
<1>5. QED
  <2>1. TypeInv /\ CopyInv /\ AgeGeneration /\ StoreInv /\ IdsValid => Seen
    BY <1>1
  <2> HIDE DEF Seen, Exact
  <2>2. QED
    BY <1>2, <1>3, <1>4, <2>1, TypeCorrect, CopyInvCorrect, AgeCorrect, StoreInvCorrect, IdsCorrect, PTL
    DEF Spec, FullIsExact

-----------------------------------------------------------------------------
(* Whatever is to be copied can be copied, and no path of pointers is       *)
(* longer than the stack.                                                   *)

(* A copy fits: its half holds objects with other identities.               *)
LEMMA CanBeCopied ==
  ASSUME Good, IdsValid, NEW a \in Addr, Allocated(a), InFrom(a), mem[a].fwd = Nil
  PROVE  CanMove(a)
<1> DEFINE g == Age2Gen(Older(mem[a].age))
           h == to[g]
           n == free[g][h]
           at(c) == <<g, h, c>>
           f == [c \in 1..(n + 1) |-> IF c = n + 1 THEN mem[a].id ELSE mem[at(c)].id]
<1>1. /\ a \in Cells /\ a[1] \in Gens /\ a[2] \in {0, 1} /\ a[3] \in 1..MaxObjs
      /\ a[2] # to[a[1]] /\ to[a[1]] \in {0, 1} /\ a \notin Ext
  BY AddressFacts, TypeParts DEF InFrom, Good
<1>2. Movable(a)
  <2>1. Age2Gen(mem[a].age) = a[1]
    BY <1>1 DEF Good, AgeGeneration
  <2>2. a[2] = 1 - to[a[1]]
    BY <1>1
  <2>3. free[a[1]][a[2]] # 0
    BY <1>1 DEF Allocated
  <2>4. ~(a[1] >= upto)
    BY <1>1, <2>2, <2>3 DEF Good, CopyInv, FromEmpty
  <2>5. a[1] \in Nat /\ upto \in Nat
    BY <1>1, AddressFacts, TypeParts DEF Good
  <2>6. QED
    BY <2>1, <2>4, <2>5 DEF Movable
<1>3. g \in Gens
  <2>1. mem[a] \in Cell
    BY TypeParts DEF Good
  <2>2. mem[a].age \in 0..MaxAge
    BY <2>1 DEF Cell
  <2>3. QED
    BY <2>2, AgeFacts
<1> HIDE DEF g
<1>4. h \in {0, 1} /\ n \in 0..MaxObjs
  BY <1>3, TypeParts DEF Good, Frees
<1> HIDE DEF h, n
<1>5. ASSUME NEW c \in 1..n
      PROVE  /\ at(c) \in Cells /\ at(c) \in Objects /\ at(c) # a
             /\ at(c)[1] = g /\ at(c)[2] = h /\ at(c)[3] = c
  <2>1. c \in 1..MaxObjs
    BY <1>4, <1>5
  <2>2. at(c) \in Cells /\ at(c) \in Addr
    BY <1>3, <1>4, <2>1, AddressFacts
  <2>3. InTo(at(c)) /\ ~InFrom(at(c))
    BY <2>2 DEF InTo, InFrom, h
  <2>4. Allocated(at(c))
    BY <1>5 DEF Allocated, n
  <2>5. QED
    BY <2>2, <2>3, <2>4, NowFacts DEF Objects
<1>6. a \in Objects /\ mem[a].id \in 1..MaxObjs
  BY <1>1 DEF Objects, IdsValid
<1>7. \A c \in 1..n : mem[at(c)].id \in 1..MaxObjs
  BY <1>5 DEF IdsValid, Objects
<1>8. f \in Injection(1..(n + 1), 1..MaxObjs)
  <2>1. f \in [1..(n + 1) -> 1..MaxObjs]
    BY <1>4, <1>6, <1>7
  <2>2. ASSUME NEW c \in 1..(n + 1), NEW e \in 1..(n + 1), f[c] = f[e]
        PROVE  c = e
    <3>1. ASSUME NEW x \in 1..n, NEW y \in 1..n, mem[at(x)].id = mem[at(y)].id
          PROVE  x = y
      <4>1. at(x) = at(y)
        BY <1>5, <3>1 DEF Good, CopyInv, UniqueIds
      <4>2. QED
        BY <4>1
    <3>2. ASSUME NEW x \in 1..n
          PROVE  mem[at(x)].id # mem[a].id
      BY <1>5, <1>6 DEF Good, CopyInv, UniqueIds
    <3> HIDE DEF at
    <3>3. /\ f[c] = IF c = n + 1 THEN mem[a].id ELSE mem[at(c)].id
          /\ f[e] = IF e = n + 1 THEN mem[a].id ELSE mem[at(e)].id
      OBVIOUS
    <3>4. /\ c = n + 1 \/ c \in 1..n
          /\ e = n + 1 \/ e \in 1..n
      BY <1>4
    <3> HIDE DEF f
    <3>5. QED
      BY <2>2, <3>1, <3>2, <3>3, <3>4
  <2> HIDE DEF f
  <2>3. QED
    BY <2>1, <2>2 DEF Injection, IsInjective
<1> HIDE DEF f
<1>9. n + 1 <= MaxObjs
  <2>1. /\ IsFiniteSet(1..MaxObjs) /\ Cardinality(1..MaxObjs) = MaxObjs
        /\ Cardinality(1..(n + 1)) = n + 1
    <3>1. 1 \in Int /\ MaxObjs \in Int /\ n + 1 \in Int
      BY <1>4
    <3>2. QED
      BY <1>4, <3>1, FS_Interval
  <2>2. Cardinality(1..(n + 1)) <= Cardinality(1..MaxObjs)
    BY <1>8, <2>1, FS_Injection
  <2>3. QED
    BY <2>1, <2>2
<1>10. Dest(a) \in Cells
  <2>1. n + 1 \in 1..MaxObjs
    BY <1>4, <1>9
  <2>2. <<g, h, n + 1>> \in Cells
    BY <1>3, <1>4, <2>1, AddressFacts
  <2>3. QED
    BY <2>2 DEF Dest, g, h, n
<1>11. QED
  BY <1>2, <1>10 DEF CanMove

(* The pointers of objects form no cycle: every set of objects has one that *)
(* points to none of them.                                                  *)
NoCycle ==
  \A S \in SUBSET Objects : S # {} =>
    \E a \in S : \A k \in 1..NField : mem[a].kid[k] # Nil => Now(mem[a].kid[k]) \notin S

(* The stack is a path of pointers.                                         *)
StackIsPath ==
  \A i \in 1..(Len(stack) - 1) : mem[stack[i].obj].kid[stack[i].k] = stack[i + 1].obj

(* A path that goes on does not fill the stack.                             *)
LEMMA PathIsShort ==
  ASSUME Good, IdsValid, NoCycle, StackIsPath, Visiting, Slot # Nil, ~InFrom(Slot)
  PROVE  Len(stack) < StackMax
<1> DEFINE n == Len(stack)
           c == [i \in 1..(n + 1) |-> IF i = n + 1 THEN Slot ELSE stack[i].obj]
<1>1. n \in Nat /\ n >= 1 /\ Slot \in Addr /\ Allocated(Slot)
  BY TopFacts
<1>2. \A i \in 1..n : stack[i] \in Frames
  BY TypeParts DEF Good
<1>3. ASSUME NEW i \in 1..(n + 1)
      PROVE  c[i] \in Objects /\ Now(c[i]) = c[i] /\ c[i] # Nil
  <2>1. ASSUME NEW x \in Addr, Allocated(x), ~InFrom(x)
        PROVE  x \in Objects /\ Now(x) = x /\ x # Nil
    BY <2>1, NowFacts, AddressFacts DEF Objects
  <2>2. CASE i = n + 1
    BY <1>1, <2>1, <2>2
  <2>3. CASE i \in 1..n
    <3>1. c[i] = stack[i].obj
      BY <1>1, <2>3
    <3>2. stack[i].obj \in Addr
      BY <1>2, <2>3 DEF Frames
    <3>3. Allocated(stack[i].obj) /\ ~InFrom(stack[i].obj)
      BY <2>3 DEF Good, PathInv, StackValid
    <3>4. QED
      BY <2>1, <3>1, <3>2, <3>3
  <2>4. QED
    BY <1>1, <2>2, <2>3
<1>4. ASSUME NEW i \in 1..n
      PROVE  \E k \in 1..NField : c[i + 1] = mem[c[i]].kid[k]
  <2>1. c[i] = stack[i].obj /\ stack[i].k \in 1..NField
    BY <1>1, <1>2 DEF Frames
  <2>2. CASE i = n
    <3>1. c[i + 1] = Slot
      BY <1>1, <2>2
    <3>2. Slot = mem[stack[i].obj].kid[stack[i].k]
      BY <2>2 DEF Slot, Top
    <3>3. QED
      BY <2>1, <3>1, <3>2
  <2>3. CASE i # n
    <3>1. i \in 1..(n - 1) /\ i + 1 \in 1..n /\ i + 1 # n + 1
      BY <1>1, <2>3
    <3>2. c[i + 1] = stack[i + 1].obj
      BY <3>1
    <3>3. QED
      BY <2>1, <3>1, <3>2 DEF StackIsPath
  <2>4. QED
    BY <2>2, <2>3
<1> HIDE DEF c, n
<1>5. ASSUME NEW i \in 1..(n + 1), NEW j \in 1..(n + 1), i < j, c[i] = c[j]
      PROVE  FALSE
  <2> DEFINE S == {c[l] : l \in i..j}
  <2>1. \A l \in i..j : l \in 1..(n + 1)
    BY <1>1, <1>5
  <2>2. S \in SUBSET Objects /\ S # {}
    BY <1>1, <1>3, <1>5, <2>1
  <2>3. PICK l \in i..j : \A k \in 1..NField : mem[c[l]].kid[k] # Nil => Now(mem[c[l]].kid[k]) \notin S
    <3>1. PICK a \in S : \A k \in 1..NField : mem[a].kid[k] # Nil => Now(mem[a].kid[k]) \notin S
      BY <2>2 DEF NoCycle
    <3>2. PICK l \in i..j : a = c[l]
      OBVIOUS
    <3>3. QED
      BY <3>1, <3>2
  <2>4. PICK m \in i..(j - 1) : c[m] = c[l]
    <3>1. CASE l = j
      <4>1. i \in i..(j - 1)
        BY <1>1, <1>5
      <4>2. QED
        BY <1>5, <3>1, <4>1
    <3>2. CASE l # j
      BY <1>1, <3>2
    <3>3. QED
      BY <3>1, <3>2
  <2>5. m \in 1..n /\ m + 1 \in i..j /\ m + 1 \in 1..(n + 1)
    BY <1>1, <1>5, <2>4
  <2>6. PICK k \in 1..NField : c[m + 1] = mem[c[m]].kid[k]
    BY <1>4, <2>5
  <2>7. c[m + 1] # Nil /\ Now(c[m + 1]) = c[m + 1]
    BY <1>3, <2>5
  <2>8. c[m + 1] \in S
    BY <2>5
  <2> HIDE DEF S
  <2>9. QED
    BY <2>3, <2>4, <2>6, <2>7, <2>8
<1>6. c \in Injection(1..(n + 1), Objects)
  <2>1. c \in [1..(n + 1) -> Objects]
    BY <1>3 DEF c
  <2>2. \A i, j \in 1..(n + 1) : c[i] = c[j] => i = j
    <3>1. \A i, j \in 1..(n + 1) : i < j \/ j < i \/ i = j
      BY <1>1
    <3>2. QED
      BY <1>5, <3>1
  <2>3. QED
    BY <2>1, <2>2 DEF Injection, IsInjective
<1>7. Cardinality(1..(n + 1)) <= Cardinality(Objects)
  BY <1>6, ObjectsFew, FS_Injection DEF Good
<1>8. Cardinality(1..(n + 1)) = n + 1
  <2>1. 1 \in Int /\ n + 1 \in Int
    BY <1>1
  <2>2. QED
    BY <1>1, <2>1, FS_Interval
<1>9. Cardinality(Objects) <= MaxObjs + NExt /\ Cardinality(Objects) \in Nat
  BY ObjectsFew, FS_CardinalityType DEF Good
<1>10. QED
  BY <1>1, <1>7, <1>8, <1>9 DEF StackMax, n

(* Moving objects makes no cycle.                                           *)
LEMMA EvacNoCycle ==
  ASSUME Good, Evac, NoCycle
  PROVE  NoCycle'
<1> PICK O : O = Objects'
  OBVIOUS
<1>1. O = {a \in Addr : AllocNext(a) /\ mem'[a].fwd = Nil}
  BY AllocPrime DEF Objects
<1>2. SUFFICES ASSUME NEW S \in SUBSET O, S # {}
               PROVE  \E b \in S : \A k \in 1..NField :
                        mem'[b].kid[k] # Nil => NowNext(mem'[b].kid[k]) \notin S
  BY DEF NoCycle, Now, NowNext
<1> DEFINE T == {p \in Objects : NowNext(p) \in S}
<1>3. T # {}
  <2>1. PICK q \in S : TRUE
    BY <1>2
  <2>2. q \in Addr /\ AllocNext(q) /\ mem'[q].fwd = Nil
    BY <1>1
  <2>3. PICK p \in Objects : q = NowNext(p)
    BY <2>2, PastFacts
  <2>4. QED
    BY <2>3
<1>4. PICK p \in T : \A k \in 1..NField : mem[p].kid[k] # Nil => Now(mem[p].kid[k]) \notin T
  <2>1. T \in SUBSET Objects
    OBVIOUS
  <2> HIDE DEF T
  <2>2. QED
    BY <1>3, <2>1 DEF NoCycle
<1>5. p \in Objects /\ p \in Addr /\ Allocated(p) /\ NowNext(p) \in S
  BY DEF Objects
<1>6. ASSUME NEW k \in 1..NField, mem'[NowNext(p)].kid[k] # Nil
      PROVE  NowNext(mem'[NowNext(p)].kid[k]) \notin S
  <2> PICK v : v = mem[p].kid[k]
    OBVIOUS
  <2>1. mem'[NowNext(p)].kid[k] = v \/ (v # Nil /\ mem'[NowNext(p)].kid[k] = NowNext(v))
    BY <1>5, KidNext
  <2>2. v # Nil
    BY <1>6, <2>1
  <2>3. v \in Addr /\ Allocated(v)
    BY <1>5, <2>2, KidFacts
  <2>4. NowNext(NowNext(v)) = NowNext(v) /\ NowNext(Now(v)) = NowNext(v)
    BY <2>3, NowNextFacts
  <2>5. Now(v) \in Objects /\ Now(v) \notin T
    BY <1>4, <1>5, <2>2, ObjectsClosed
  <2>6. QED
    BY <2>1, <2>4, <2>5
<1>7. QED
  BY <1>5, <1>6

(* Where pointers and forwarding stay, so does that there is no cycle.      *)
LEMMA FewerNoCycle ==
  ASSUME NoCycle, Objects' \subseteq Objects,
         \A a \in Objects' : mem'[a].kid = mem[a].kid,
         \A a \in Objects' : \A k \in 1..NField :
           mem'[a].kid[k] # Nil => Now(mem[a].kid[k])' = Now(mem[a].kid[k])
  PROVE  NoCycle'
<1> PICK O : O = Objects'
  OBVIOUS
<1>1. \A S \in SUBSET O : S # {} =>
        \E a \in S : \A k \in 1..NField : mem[a].kid[k] # Nil => Now(mem[a].kid[k]) \notin S
  BY DEF NoCycle
<1>2. \A S \in SUBSET O : S # {} =>
        \E a \in S : \A k \in 1..NField : mem'[a].kid[k] # Nil => NowNext(mem'[a].kid[k]) \notin S
  BY <1>1 DEF Now, NowNext
<1>3. QED
  BY <1>2 DEF NoCycle, Now, NowNext

(* The end of a collection.                                                 *)
LEMMA CleanupNoCycle ==
  ASSUME Good, NoCycle, Cleanup, TypeInv', CopyInv', AgeGeneration', Whole'
  PROVE  NoCycle'
<1>1. /\ \A b \in Addr : Allocated(b)' <=> Allocated(b) /\ ~InFrom(b)
      /\ \A b \in Addr : Allocated(b) /\ ~InFrom(b) => mem'[b] = mem[b]
  BY CleanupFacts DEF Good, CopyInv
<1>2. Good' /\ pc' = "idle"
  BY DEF Good, Whole, Cleanup
<1>3. ASSUME NEW x \in Addr, Allocated(x)'
      PROVE  x \in Objects /\ mem'[x] = mem[x] /\ Now(x) = x /\ NowNext(x) = x
  <2>1. Allocated(x) /\ ~InFrom(x) /\ mem'[x] = mem[x]
    BY <1>1, <1>3
  <2>2. Now(x) = x /\ mem[x].fwd = Nil
    BY <2>1, NowFacts
  <2>3. QED
    BY <2>1, <2>2 DEF NowNext, Objects
<1>4. ASSUME NEW a \in Objects'
      PROVE  /\ a \in Objects /\ mem'[a].kid = mem[a].kid
             /\ \A k \in 1..NField : mem'[a].kid[k] # Nil => NowNext(mem[a].kid[k]) = Now(mem[a].kid[k])
  <2>1. a \in Addr /\ Allocated(a)'
    BY DEF Objects
  <2>2. a \in Objects /\ mem'[a] = mem[a]
    BY <1>3, <2>1
  <2>3. \A k \in 1..NField : mem'[a].kid[k] # Nil => mem'[a].kid[k] \in Addr /\ Allocated(mem[a].kid[k])'
    <3>1. \A k \in 1..NField : mem'[a].kid[k] # Nil => Allocated(mem[a].kid[k])'
      BY <1>2, <2>1 DEF Good, PathInv, Valid
    <3>2. \A k \in 1..NField : mem[a].kid[k] # Nil => mem[a].kid[k] \in Addr
      BY <2>2, KidFacts DEF Objects
    <3>3. QED
      BY <2>2, <3>1, <3>2
  <2>4. QED
    BY <1>3, <2>2, <2>3
<1>5. QED
  BY <1>4, FewerNoCycle DEF Now, NowNext

(* A new object has no pointers.                                            *)
LEMMA NewNoCycle ==
  ASSUME Good, NoCycle, pc = "idle", NEW r \in 1..NRoot, New(r)
  PROVE  NoCycle'
<1>1. PICK n \in Cells :
        /\ ~Allocated(n) /\ \A b \in Addr : AllocNext(b) <=> Allocated(b) \/ b = n
        /\ mem'[n].fwd = Nil /\ mem'[n].kid = NoKids
        /\ \A b \in Addr : b # n => mem'[b] = mem[b]
  BY NewFacts DEF Good
<1> PICK O : O = Objects'
  OBVIOUS
<1>2. O = {a \in Addr : AllocNext(a) /\ mem'[a].fwd = Nil}
  BY AllocPrime DEF Objects
<1>3. ASSUME NEW x \in Addr, Allocated(x)
      PROVE  mem'[x] = mem[x] /\ Now(x) = x /\ NowNext(x) = x
  BY <1>1, <1>3, IdleFacts DEF NowNext
<1>4. SUFFICES ASSUME NEW S \in SUBSET O, S # {}
               PROVE  \E b \in S : \A k \in 1..NField :
                        mem'[b].kid[k] # Nil => NowNext(mem'[b].kid[k]) \notin S
  BY DEF NoCycle, Now, NowNext
<1>5. CASE n \in S
  <2>1. \A k \in 1..NField : mem'[n].kid[k] = Nil
    BY <1>1 DEF NoKids
  <2>2. QED
    BY <1>5, <2>1
<1>6. CASE n \notin S
  <2>1. \A x \in S : x \in Addr /\ Allocated(x) /\ mem'[x] = mem[x]
    BY <1>1, <1>2, <1>3, <1>6
  <2>2. S \in SUBSET Objects
    BY <1>2, <2>1 DEF Objects
  <2>3. PICK b \in S : \A k \in 1..NField : mem[b].kid[k] # Nil => Now(mem[b].kid[k]) \notin S
    BY <1>4, <2>2 DEF NoCycle
  <2>4. \A k \in 1..NField : mem[b].kid[k] # Nil => mem[b].kid[k] \in Addr /\ Allocated(mem[b].kid[k])
    BY <2>1, KidFacts
  <2>5. QED
    BY <1>3, <2>1, <2>3, <2>4
<1>7. QED
  BY <1>5, <1>6

(* A pointer that the client stores does not close a cycle: a set either    *)
(* has members that the new pointer leads to, and one of them points to     *)
(* none of the others, or it has none.                                      *)
LEMMA AssignNoCycle ==
  ASSUME Good, IdsValid, NoCycle, Acyclic, pc = "idle", NEW p \in Objects, NEW v \in Objects,
         NEW k \in 1..NField, Assign(p, k, v)
  PROVE  NoCycle'
<1>1. UNCHANGED free /\ mem' = [mem EXCEPT ![p].kid[k] = v] /\ p \notin Reached({v})
  BY DEF Assign
<1>2. mem \in [Addr -> Cell] /\ p \in Addr /\ v \in Addr /\ v # Nil
  BY TypeParts, AddressFacts DEF Good, Objects
<1>3. /\ \A x \in Addr : mem'[x].fwd = mem[x].fwd
      /\ \A x \in Addr, j \in 1..NField :
           mem'[x].kid[j] = IF x = p /\ j = k THEN v ELSE mem[x].kid[j]
  <2> PICK m : m = mem
    OBVIOUS
  <2>1. m \in [Addr -> Cell] /\ mem' = [m EXCEPT ![p].kid[k] = v]
    BY <1>1, <1>2
  <2>2. ASSUME NEW x \in Addr
        PROVE  /\ [m EXCEPT ![p].kid[k] = v][x].fwd = m[x].fwd
               /\ \A j \in 1..NField :
                    [m EXCEPT ![p].kid[k] = v][x].kid[j] = IF x = p /\ j = k THEN v ELSE m[x].kid[j]
    <3>1. m \in [Addr -> Cell] /\ p \in Addr /\ k \in 1..NField /\ x \in Addr
      BY <1>2, <2>1
    <3>2. QED
      BY ONLY <3>1, StoreFacts
  <2>3. QED
    BY <2>1, <2>2
<1>4. \A x \in Addr : Allocated(x) => Now(x) = x /\ NowNext(x) = x
  BY <1>3, IdleFacts DEF NowNext
<1> PICK O : O = Objects'
  OBVIOUS
<1>5. O = Objects
  <2>1. O = {a \in Addr : AllocNext(a) /\ mem'[a].fwd = Nil}
    BY AllocPrime DEF Objects
  <2>2. \A x \in Addr : AllocNext(x) <=> Allocated(x)
    BY <1>1 DEF AllocNext, Allocated
  <2>3. QED
    BY <1>3, <2>1, <2>2 DEF Objects
<1>6. \A x \in Objects : x \in Addr /\ Allocated(x) /\ Now(x) = x
  BY <1>4 DEF Objects
<1> PICK R : R = Reached({v})
  OBVIOUS
<1>7. /\ R \in SUBSET Objects /\ v \in R /\ p \notin R
      /\ \A b \in R : \A j \in 1..NField : mem[b].kid[j] # Nil => Now(mem[b].kid[j]) \in R
  <2>1. Objects \in SUBSET Addr /\ IsFiniteSet(Objects) /\ Cardinality(Objects) <= MaxObjs + NExt
    BY ObjectsFew DEF Objects, Good
  <2>2. \A a \in {v} : Now(a) \in Objects
    BY <1>6
  <2>3. \A b \in Objects : \A j \in 1..NField : mem[b].kid[j] # Nil => Now(mem[b].kid[j]) \in Objects
    BY ObjectsClosed
  <2>4. QED
    BY <1>1, <1>6, <2>1, <2>2, <2>3, ReachFacts
<1>8. SUFFICES ASSUME NEW S \in SUBSET O, S # {}
               PROVE  \E b \in S : \A j \in 1..NField :
                        mem'[b].kid[j] # Nil => NowNext(mem'[b].kid[j]) \notin S
  BY DEF NoCycle, Now, NowNext
<1>9. ASSUME NEW b \in Objects, NEW j \in 1..NField, mem[b].kid[j] # Nil
      PROVE  Now(mem[b].kid[j]) = NowNext(mem[b].kid[j])
  <2>1. mem[b].kid[j] \in Addr /\ Allocated(mem[b].kid[j])
    BY <1>6, <1>9, KidFacts
  <2>2. QED
    BY <1>4, <2>1
<1>10. CASE S \cap R # {}
  <2> PICK T : T = S \cap R
    OBVIOUS
  <2>1. T \in SUBSET Objects /\ T # {}
    BY <1>7, <1>10
  <2>2. PICK b \in T : \A j \in 1..NField : mem[b].kid[j] # Nil => Now(mem[b].kid[j]) \notin T
    BY <2>1 DEF NoCycle
  <2>3. b \in S /\ b \in R /\ b \in Objects /\ b # p /\ b \in Addr
    BY <1>6, <1>7, <2>2
  <2>4. \A j \in 1..NField : mem'[b].kid[j] = mem[b].kid[j]
    BY <1>3, <2>3
  <2>5. \A j \in 1..NField : mem[b].kid[j] # Nil => NowNext(mem[b].kid[j]) \notin S
    BY <1>7, <1>9, <2>2, <2>3
  <2>6. QED
    BY <2>3, <2>4, <2>5
<1>11. CASE S \cap R = {}
  <2>1. S \in SUBSET Objects
    BY <1>5
  <2>2. PICK b \in S : \A j \in 1..NField : mem[b].kid[j] # Nil => Now(mem[b].kid[j]) \notin S
    BY <1>8, <2>1 DEF NoCycle
  <2>3. v \notin S /\ NowNext(v) = v /\ b \in Objects /\ b \in Addr
    BY <1>4, <1>6, <1>7, <1>11, <2>1
  <2>4. ASSUME NEW j \in 1..NField, mem'[b].kid[j] # Nil
        PROVE  NowNext(mem'[b].kid[j]) \notin S
    <3>1. mem'[b].kid[j] = v \/ mem'[b].kid[j] = mem[b].kid[j]
      BY <1>3, <2>3
    <3>2. QED
      BY <1>9, <2>2, <2>3, <2>4, <3>1
  <2>5. QED
    BY <2>4
<1>12. QED
  BY <1>10, <1>11

LEMMA NextNoCycle ==
  ASSUME Good, Acyclic, IdsValid, NoCycle, TypeInv', CopyInv', AgeGeneration',
         pc' # "dead" => Whole', [Next]_vars
  PROVE  NoCycle'
<1>1. ASSUME UNCHANGED <<mem, free>>
      PROVE  NoCycle'
  BY <1>1 DEF NoCycle, Objects, Allocated, Now
<1>2. CASE UNCHANGED vars
  BY <1>1, <1>2 DEF vars, heap
<1>3. CASE Mutate
  <2>1. pc = "idle" /\ ReachClosed
    BY <1>3, ReachableFacts DEF Mutate
  <2>2. ASSUME NEW r \in (NExt + 1)..NRoot, New(r)
        PROVE  NoCycle'
    BY <2>1, <2>2, NewNoCycle
  <2>3. ASSUME NEW p \in Reachable, NEW v \in Reachable, NEW k \in 1..NField, Assign(p, k, v)
        PROVE  NoCycle'
    <3>1. p \in Objects /\ v \in Objects
      BY <2>1 DEF ReachClosed
    <3>2. QED
      BY <2>1, <2>3, <3>1, AssignNoCycle
  <2>4. QED
    BY <1>1, <1>3, <2>2, <2>3 DEF Mutate, SetRoot, RequestGc
<1>4. CASE Cleanup
  <2>1. pc' # "dead"
    BY <1>4 DEF Cleanup
  <2>2. QED
    BY <1>4, <2>1, CleanupNoCycle
<1>5. CASE Collect /\ ~Cleanup
  BY <1>5, CollectEvac, EvacNoCycle
<1>6. QED
  BY <1>2, <1>3, <1>4, <1>5 DEF Next

-----------------------------------------------------------------------------
(* Going on in the stack cuts it and changes the last frame of what is left.*)
LEMMA NextSlotPrefix ==
  ASSUME TypeInv, Visiting
  PROVE  /\ Len(NextSlot) \in 0..Len(stack)
         /\ \A i \in 1..Len(NextSlot) :
              /\ NextSlot[i].obj = stack[i].obj
              /\ i # Len(NextSlot) => NextSlot[i].k = stack[i].k
<1> DEFINE todo == {x \in 1..Len(stack) : stack[x].k < NField}
           inner == {x \in todo : \A j \in todo : j <= x}
           n == CHOOSE x \in inner : TRUE
           sub == SubSeq(stack, 1, n)
<1>1. stack \in Seq(Frames) /\ Len(stack) \in Nat
  BY TypeParts
<1>2. CASE todo = {}
  <2>1. NextSlot = <<>>
    BY <1>2 DEF NextSlot
  <2>2. QED
    BY <1>1, <2>1
<1>3. CASE todo # {}
  <2>1. inner # {}
    BY <1>1, <1>3, GreatestPosition
  <2>2. n \in 1..Len(stack)
    BY <2>1
  <2>3. NextSlot = [sub EXCEPT ![n].k = sub[n].k + 1]
    BY <1>3 DEF NextSlot
  <2> HIDE DEF n, todo
  <2>4. sub \in Seq(Frames) /\ Len(sub) = n /\ \A j \in 1..n : sub[j] = stack[j]
    BY <1>1, <2>2, SubSeqProperties
  <2> HIDE DEF sub
  <2>5. Len(NextSlot) = n /\ \A j \in 1..n : NextSlot[j] = IF j = n THEN [sub[n] EXCEPT !.k = sub[n].k + 1] ELSE sub[j]
    BY <2>2, <2>3, <2>4
  <2>6. ASSUME NEW i \in 1..n
        PROVE  NextSlot[i].obj = stack[i].obj /\ (i # n => NextSlot[i].k = stack[i].k)
    <3>1. stack[i] \in Frames
      BY <1>1, <2>2
    <3>2. NextSlot[i] = IF i = n THEN [stack[i] EXCEPT !.k = stack[i].k + 1] ELSE stack[i]
      BY <2>2, <2>4, <2>5
    <3>3. QED
      BY <3>1, <3>2 DEF Frames
  <2>7. QED
    BY <1>1, <2>2, <2>5, <2>6
<1>4. QED
  BY <1>2, <1>3

(* What the frames of a stack point to is not in from-space, so that moving *)
(* objects leaves those pointers.                                           *)
LEMMA PathKept ==
  ASSUME Good, Evac, StackIsPath, NEW i \in 1..(Len(stack) - 1)
  PROVE  mem'[stack[i].obj].kid[stack[i].k] = stack[i + 1].obj
<1>1. stack \in Seq(Frames) /\ Len(stack) \in Nat
  BY TypeParts DEF Good
<1>2. i \in 1..Len(stack) /\ i + 1 \in 1..Len(stack)
  BY <1>1
<1>3. stack[i] \in Frames /\ stack[i + 1] \in Frames
  BY <1>1, <1>2
<1> PICK p, k, q : p = stack[i].obj /\ k = stack[i].k /\ q = stack[i + 1].obj
  OBVIOUS
<1>4. p \in Addr /\ k \in 1..NField /\ q \in Addr
  BY <1>3 DEF Frames
<1>5. Allocated(p) /\ Allocated(q) /\ ~InFrom(q)
  BY <1>2 DEF Good, PathInv, StackValid
<1>6. mem[p].kid[k] = q
  BY DEF StackIsPath
<1>7. mem'[p].kid[k] = q \/ mem'[p].kid[k] = NowNext(q)
  BY <1>4, <1>5, <1>6 DEF Evac
<1>8. NowNext(q) = q
  BY <1>4, <1>5, NowNextFacts
<1>9. QED
  BY <1>7, <1>8

(* A stack that was cut is a path ...                                       *)
LEMMA CutIsPath ==
  ASSUME Good, Evac, StackIsPath, Visiting, stack' = NextSlot
  PROVE  StackIsPath'
<1> PICK s : s = NextSlot
  OBVIOUS
<1>1. /\ Len(s) \in 0..Len(stack) /\ Len(stack) \in Nat
      /\ \A i \in 1..Len(s) : s[i].obj = stack[i].obj /\ (i # Len(s) => s[i].k = stack[i].k)
  BY NextSlotPrefix, TopFacts DEF Good
<1>2. ASSUME NEW i \in 1..(Len(s) - 1)
      PROVE  mem'[s[i].obj].kid[s[i].k] = s[i + 1].obj
  <2>1. i \in 1..Len(s) /\ i + 1 \in 1..Len(s) /\ i # Len(s) /\ i \in 1..(Len(stack) - 1)
    BY <1>1
  <2>2. s[i].obj = stack[i].obj /\ s[i].k = stack[i].k /\ s[i + 1].obj = stack[i + 1].obj
    BY <1>1, <2>1
  <2>3. QED
    BY <2>1, <2>2, PathKept
<1>3. QED
  BY <1>2 DEF StackIsPath

(* ... and so is one that has one pointer more.                             *)
LEMMA LongerIsPath ==
  ASSUME Good, StackIsPath, VisitChildren
  PROVE  StackIsPath'
<1>1. Visiting /\ Slot # Nil /\ stack' = Append(stack, Frame(Slot)) /\ mem' = mem
  BY DEF VisitChildren
<1>2. stack \in Seq(Frames) /\ Len(stack) \in Nat /\ Len(stack) >= 1
  BY <1>1, TypeParts, TopFacts DEF Good
<1> PICK s : s = stack'
  OBVIOUS
<1>3. /\ Len(s) = Len(stack) + 1 /\ s[Len(stack) + 1] = Frame(Slot)
      /\ \A i \in 1..Len(stack) : s[i] = stack[i]
  BY <1>1, <1>2
<1>4. ASSUME NEW i \in 1..Len(stack)
      PROVE  mem[s[i].obj].kid[s[i].k] = s[i + 1].obj
  <2>1. CASE i = Len(stack)
    <3>1. s[i + 1].obj = Slot /\ s[i] = Top
      BY <1>3, <2>1 DEF Frame, Top
    <3>2. QED
      BY <3>1 DEF Slot
  <2>2. CASE i # Len(stack)
    <3>1. i \in 1..(Len(stack) - 1) /\ i + 1 \in 1..Len(stack)
      BY <1>2, <2>2
    <3>2. s[i] = stack[i] /\ s[i + 1] = stack[i + 1]
      BY <1>3, <3>1
    <3>3. QED
      BY <3>1, <3>2 DEF StackIsPath
  <2>3. QED
    BY <2>1, <2>2
<1>5. Len(s) - 1 = Len(stack)
  BY <1>2, <1>3
<1>6. QED
  BY <1>1, <1>4, <1>5 DEF StackIsPath

LEMMA NextStackIsPath ==
  ASSUME Good, StackIsPath, [Next]_vars
  PROVE  StackIsPath'
<1>1. ASSUME Len(stack') <= 1, Len(stack') \in Nat
      PROVE  StackIsPath'
  BY <1>1 DEF StackIsPath
<1>2. pc # "scan" => stack = <<>>
  BY DEF Good, PathInv, StackValid
<1>3. ASSUME pc # "scan", UNCHANGED stack
      PROVE  StackIsPath'
  BY <1>1, <1>2, <1>3
<1>4. CASE UNCHANGED vars
  <2>1. UNCHANGED <<mem, stack>>
    BY <1>4 DEF vars, heap, scan
  <2>2. QED
    BY <2>1 DEF StackIsPath
<1>5. CASE Crash
  <2>1. UNCHANGED <<mem, stack>>
    BY <1>5 DEF Crash, heap, scan
  <2>2. QED
    BY <2>1 DEF StackIsPath
<1>6. CASE Mutate
  BY <1>3, <1>6 DEF Mutate, New, SetRoot, Assign, RequestGc, scan
<1>7. CASE CopyRoot
  <2>1. pc # "scan" /\ (UNCHANGED stack \/ \E a : stack' = <<Frame(a)>>)
    BY <1>7 DEF CopyRoot, RootDone, DeepMove, scan
  <2>2. CASE UNCHANGED stack
    BY <1>3, <2>1, <2>2
  <2>3. CASE \E a : stack' = <<Frame(a)>>
    BY <1>1, <2>3
  <2>4. QED
    BY <2>1, <2>2, <2>3
<1>8. CASE RootsDone \/ DropEntry \/ TriageEntry \/ RescueChild \/ KeepEntry \/ NextLog \/ Cleanup
  BY <1>3, <1>8 DEF RootsDone, DropEntry, TriageEntry, RescueChild, DeepMove, KeepEntry, NextLog, Cleanup,
                    InLog, NextEntry, LogDone, scan
<1>9. CASE VisitChildren
  BY <1>9, LongerIsPath
<1>10. CASE SkipNull \/ FollowForward \/ MoveChild
  <2>1. Visiting /\ stack' = NextSlot
    BY <1>10 DEF SkipNull, FollowForward, MoveChild
  <2>2. Collect /\ ~Cleanup
    BY <1>10, <2>1 DEF Collect, Visit, Cleanup, LogDone, Visiting
  <2>3. QED
    BY <2>1, <2>2, CollectEvac, CutIsPath
<1>11. CASE ScanGray
  <2>1. \E a : stack' = <<Frame(a)>>
    BY <1>11 DEF ScanGray
  <2>2. QED
    BY <1>1, <2>1
<1>12. CASE Fixpoint
  BY <1>1, <1>12 DEF Fixpoint, FixpointStep
<1>13. QED
  BY <1>4, <1>5, <1>6, <1>7, <1>8, <1>9, <1>10, <1>11, <1>12 DEF Next, Collect, Visit

LEMMA CannotCrash ==
  ASSUME Good, IdsValid, NoCycle, StackIsPath, ~DebugBuild
  PROVE  ~Crash
<1>1. ASSUME NEW a \in Addr, Allocated(a)
      PROVE  ~Wild(a)
  BY <1>1, CanBeCopied DEF Wild
<1>2. ASSUME Visiting, Slot # Nil
      PROVE  ~Wild(Slot) /\ ~(~InFrom(Slot) /\ Len(stack) = StackMax)
  <2>1. ~Wild(Slot)
    BY <1>1, <1>2, TopFacts
  <2>2. ~InFrom(Slot) => Len(stack) < StackMax
    BY <1>2, PathIsShort
  <2>3. Len(stack) \in Nat /\ StackMax \in Nat
    BY <1>2, TopFacts DEF StackMax
  <2>4. QED
    BY <2>1, <2>2, <2>3
<1>3. ASSUME pc = "roots", ri <= NRoot, root[ri] # Nil
      PROVE  ~Wild(root[ri])
  <2>1. ri \in 1..NRoot
    BY <1>3, TypeParts DEF Good
  <2>2. root[ri] \in Addr /\ Allocated(root[ri])
    BY <1>3, <2>1, TypeParts DEF Good, PathInv, RootsValid, Kid
  <2>3. QED
    BY <1>1, <2>2
<1>4. ASSUME InLog, Current(Entry)
      PROVE  ~Wild(Now(Entry.snap))
  <2>1. Entry.snap \in Cells /\ Allocated(Entry.snap)
    BY <1>4, HeadFacts, CurrentFacts
  <2>2. Now(Entry.snap) \in Addr /\ Allocated(Now(Entry.snap))
    BY <2>1, NowFacts, AddressFacts
  <2>3. QED
    BY <1>1, <2>2
<1>5. ASSUME Crash, pc = "mlog", fromlog[cg] # <<>>
      PROVE  InLog /\ Asserted
  BY <1>5 DEF Crash, InLog, Asserted, heap
<1>6. QED
  BY <1>2, <1>3, <1>4, <1>5 DEF Crash

(* NoCrash: execute_gc reaches its end on every heap without a cycle, in a  *)
(* build without assertions: the recursion of the visits does not exceed    *)
(* the number of objects, copies fit, and no pointer or log entry that a    *)
(* collection follows leads to freed memory.                                *)
THEOREM CollectorSurvives ==
  ASSUME Faithful, Acyclic, ~DebugBuild
  PROVE  Spec => []NoCrash
<1> DEFINE Safe == NoCrash /\ NoCycle /\ StackIsPath
           Known == TypeInv /\ CopyInv /\ AgeGeneration /\ StoreInv /\ IdsValid
<1>1. ASSUME Init
      PROVE  Safe
  <2>1. \A a \in Addr : mem[a].kid = NoKids
    BY <1>1 DEF Init, Blank
  <2>2. NoCycle
    BY <2>1 DEF NoCycle, NoKids, Objects
  <2>3. StackIsPath
    BY <1>1 DEF Init, StackIsPath
  <2>4. QED
    BY <1>1, <2>2, <2>3 DEF Init, NoCrash
<1>2. ASSUME Safe, Known, Known', [Next]_vars
      PROVE  Safe'
  <2>1. Good
    BY <1>2 DEF Good, NoCrash, StoreInv, Whole
  <2>2. ~Crash
    BY <1>2, <2>1, CannotCrash
  <2>3. NoCrash'
    <3>1. ASSUME Collect
          PROVE  pc' # "dead"
      BY <2>1, <2>2, <3>1, TypeParts DEF Good, Collect, CopyRoot, RootDone, DeepMove, RootsDone, Visit,
         SkipNull, VisitChildren, FollowForward, MoveChild, Visiting, OnlyScan, ScanGray, Fixpoint,
         FixpointStep, DropEntry, TriageEntry, RescueChild, KeepEntry, InLog, NextEntry, NextLog, Cleanup,
         LogDone
    <3>2. ASSUME Mutate
          PROVE  pc' # "dead"
      BY <3>2 DEF Mutate, New, SetRoot, Assign, RequestGc
    <3>3. QED
      BY <1>2, <3>1, <3>2 DEF NoCrash, Next, vars
  <2>4. NoCycle'
    BY <1>2, <2>1, NextNoCycle DEF StoreInv
  <2>5. StackIsPath'
    BY <1>2, <2>1, NextStackIsPath
  <2>6. QED
    BY <2>3, <2>4, <2>5
<1>3. QED
  BY <1>1, <1>2, TypeCorrect, CopyInvCorrect, AgeCorrect, StoreInvCorrect, IdsCorrect, PTL DEF Spec
=============================================================================
