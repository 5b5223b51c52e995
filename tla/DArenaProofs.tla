---------------------------- MODULE DArenaProofs ----------------------------
(***************************************************************************)
(* Proofs about the arena allocator, for every word, page, guard and       *)
(* reserve size and any set of requests.                                   *)
(***************************************************************************)
EXTENDS DArena, SequenceTheorems, TLAPS

USE ArenaAssumption DEF ArenaAssumption

(* Rounding up yields a natural number no smaller than the argument.       *)
LEMMA PaddingGrows ==
  ASSUME NEW z \in Nat, NEW align \in Nat \ {0}
  PROVE  WithPadding(z, align) \in Nat /\ WithPadding(z, align) >= z
<1>1. z % align \in 0..(align - 1)
  OBVIOUS
<1>2. (align - (z % align)) \in Nat
  BY <1>1
<1>3. ((align - (z % align)) % align) \in 0..(align - 1)
  BY <1>2
<1>4. QED
  BY <1>3 DEF WithPadding

(* Rounding up to a page never passes an end that is on a page boundary:   *)
(* expand() does not commit past hi_ (asserted at the end of expand).      *)
LEMMA PaddingBelowMultiple ==
  ASSUME NEW z \in Nat, NEW align \in Nat \ {0}, NEW end \in Nat,
         z <= end, end % align = 0
  PROVE  WithPadding(z, align) <= end
<1> DEFINE q == z \div align
           r == z % align
           k == end \div align
<1>1. z = align * q + r /\ q \in Nat /\ r \in 0..(align - 1)
  OBVIOUS
<1>2. end = align * k /\ k \in Nat
  OBVIOUS
<1>3. CASE r = 0
  <2>1. (align - r) % align = 0
    BY <1>3
  <2>2. QED
    BY <2>1 DEF WithPadding
<1>4. CASE r # 0
  <2>1. (align - r) % align = align - r
    BY <1>1, <1>4
  <2>2. WithPadding(z, align) = align * q + align
    BY <1>1, <2>1 DEF WithPadding
  <2>3. q < k
    <3>1. SUFFICES ASSUME k <= q PROVE FALSE
      BY <1>1, <1>2
    <3>2. align * k <= align * q
      BY <3>1, <1>1, <1>2
    <3>3. QED
      BY <3>2, <1>1, <1>2, <1>4
  <2>4. align * (q + 1) <= align * k
    BY <2>3, <1>1, <1>2
  <2>5. QED
    BY <2>2, <2>4, <1>1, <1>2
<1>5. QED
  BY <1>3, <1>4

-----------------------------------------------------------------------------

(* What a successful _alloc does to the layout: the new region starts at    *)
(* or above free_, and free_ ends exactly behind it.                        *)
LEMMA BumpKeepsLayout ==
  ASSUME LayoutInv, NEW base \in Nat, base >= free,
         NEW hz \in {0, HeaderZ}, NEW z0 \in Nat, NEW gz \in {0, GuardZ},
         Bump(base, hz, z0, gz)
  PROVE  /\ regions' \subseteq Region /\ free' \in Nat /\ free' >= free
         /\ Disjoint' /\ ResetsNested'
<1> DEFINE new == [beg |-> base, hz |-> hz, z |-> z0, gz |-> gz,
                   field |-> z0 % SizeMod]
<1>1. /\ regions' = regions \cup {new} /\ free' = base + hz + z0 + gz
      /\ resets' = resets
  BY DEF Bump
<1>2. new \in Region
  BY DEF Region
<1>3. /\ regions \subseteq Region /\ free \in Nat
      /\ \A i \in 1..Len(resets) : resets[i] \in Nat
  BY DEF LayoutInv, TypeOK
<1>4. free' \in Nat /\ free' >= free /\ EndOf(new) = free' /\ new.beg >= free
  BY <1>1, <1>3 DEF EndOf
<1>5. regions' \subseteq Region
  BY <1>1, <1>2, <1>3
<1>6. \A r \in regions : EndOf(r) \in Nat /\ EndOf(r) <= free /\ r.beg \in Nat
  <2>1. SUFFICES ASSUME NEW r \in regions
                 PROVE  EndOf(r) \in Nat /\ EndOf(r) <= free /\ r.beg \in Nat
    OBVIOUS
  <2>2. r \in Region
    BY <1>3
  <2>3. EndOf(r) \in Nat /\ r.beg \in Nat
    BY <2>2 DEF EndOf, Region
  <2>4. EndOf(r) <= free
    BY DEF LayoutInv, Disjoint
  <2>5. QED
    BY <2>3, <2>4
<1>7. Disjoint'
  BY <1>1, <1>3, <1>4, <1>6 DEF LayoutInv, Disjoint, EndOf
<1>8. ResetsNested'
  BY <1>1, <1>3, <1>4, <1>6 DEF LayoutInv, ResetsNested, EndOf
<1> HIDE DEF new
<1>9. QED
  BY <1>4, <1>5, <1>7, <1>8

(* _alloc and expand keep the layout in every mode.                         *)
LEMMA AllocInKeepsLayout ==
  ASSUME LayoutInv, NEW hz \in {0, HeaderZ}, NEW gz \in {0, GuardZ},
         NEW z \in Nat, NEW more \in BOOLEAN, AllocIn(hz, gz, z, more)
  PROVE  LayoutInv'
<1> DEFINE z0     == WithPadding(z, WordZ)
           target == free + hz + z0
           base   == IF limit = 0 THEN free + GuardZ ELSE free
<1>1. z0 \in Nat /\ free \in Nat /\ target \in Nat /\ base \in Nat /\ base >= free
  <2>1. z0 \in Nat
    BY PaddingGrows
  <2>2. free \in Nat /\ hz \in Nat /\ GuardZ \in Nat
    BY DEF LayoutInv, TypeOK
  <2> HIDE DEF z0
  <2>3. QED
    BY <2>1, <2>2
<1>2. CASE \E err \in Errors : Fail(err)
  BY <1>2 DEF Fail, LayoutInv, TypeOK, Disjoint, ResetsNested, EndOf, Errors
<1>3. CASE /\ Bump(free, hz, z0, gz) /\ open' = more
           /\ UNCHANGED <<committed, limit>>
  <2>1. /\ regions' \subseteq Region /\ free' \in Nat
        /\ Disjoint' /\ ResetsNested'
    BY <1>1, <1>3, BumpKeepsLayout
  <2>2. QED
    BY <1>3, <2>1 DEF LayoutInv, TypeOK, Bump
<1>4. CASE /\ target <= hi
           /\ committed' = WithPadding(target, PageZ)
           /\ limit' = WithPadding(target, PageZ)
           /\ Bump(base, hz, z0, gz) /\ open' = more
  <2>1. /\ regions' \subseteq Region /\ free' \in Nat
        /\ Disjoint' /\ ResetsNested'
    BY <1>1, <1>4, BumpKeepsLayout
  <2>2. hi \in Nat /\ hi % PageZ = 0
    BY DEF LayoutInv, TypeOK
  <2>3. committed' \in Nat /\ committed' <= hi
    BY <1>1, <1>4, <2>2, PaddingGrows, PaddingBelowMultiple
  <2>4. QED
    BY <1>4, <2>1, <2>3 DEF LayoutInv, TypeOK, Bump
<1>5. QED
  BY <1>2, <1>3, <1>4 DEF AllocIn, Errors

(* The layout invariant holds in every reachable state, for every           *)
(* configuration: regions never overlap, committed memory is reserved       *)
(* memory, and an ArenaReset always cuts between two regions.               *)
THEOREM LayoutCorrect == Spec => []LayoutInv
<1>1. Init => LayoutInv
  <2> SUFFICES ASSUME Init PROVE LayoutInv
    OBVIOUS
  <2>1. TypeOK
    <3>1. resets \in Seq(Nat)
      BY EmptySeq DEF Init
    <3>2. QED
      BY <3>1 DEF Init, TypeOK, Errors
  <2>2. Disjoint /\ ResetsNested
    BY DEF Init, Disjoint, ResetsNested
  <2>3. QED
    BY <2>1, <2>2 DEF Init, LayoutInv
<1>2. LayoutInv /\ [Next]_vars => LayoutInv'
  <2> SUFFICES ASSUME LayoutInv, [Next]_vars PROVE LayoutInv'
    OBVIOUS
  <2>1. ASSUME NEW z \in ReqZ, Alloc(z) PROVE LayoutInv'
    BY <2>1, AllocInKeepsLayout DEF Alloc, HeaderSize, GuardSize
  <2>2. ASSUME NEW z \in ReqZ, SuperAlloc(z) PROVE LayoutInv'
    BY <2>2, AllocInKeepsLayout DEF SuperAlloc, HeaderSize
  <2>3. ASSUME NEW z \in ReqZ, NEW complete \in BOOLEAN, SubAlloc(z, complete)
        PROVE LayoutInv'
    <3>1. AllocIn(0, IF complete THEN GuardSize ELSE 0, z, ~complete)
      BY <2>3 DEF SubAlloc
    <3>2. (IF complete THEN GuardSize ELSE 0) \in {0, GuardZ}
      BY DEF GuardSize
    <3>3. QED
      BY <3>1, <3>2, AllocInKeepsLayout
  <2>4. CASE OpenReset
    <3>1. /\ resets \in Seq(Nat) /\ free \in Nat /\ resets' = Append(resets, free)
          /\ UNCHANGED <<hi, committed, limit, free, regions, open, last_error>>
      BY <2>4 DEF OpenReset, LayoutInv, TypeOK
    <3>2. /\ resets' \in Seq(Nat) /\ Len(resets') = Len(resets) + 1
          /\ \A i \in 1..Len(resets) : resets'[i] = resets[i]
          /\ resets'[Len(resets) + 1] = free /\ Len(resets) \in Nat
      BY <3>1
    <3>3. ResetsNested'
      BY <3>1, <3>2 DEF LayoutInv, ResetsNested, Disjoint, EndOf
    <3>4. QED
      BY <3>1, <3>2, <3>3 DEF LayoutInv, TypeOK, Disjoint, EndOf
  <2>5. CASE CloseReset
    <3> DEFINE ckp == resets[Len(resets)]
    <3>1. /\ resets \in Seq(Nat) /\ resets # <<>> /\ Len(resets) \in 1..Len(resets)
          /\ free' = ckp /\ regions' = {r \in regions : r.beg < ckp}
          /\ resets' = SubSeq(resets, 1, Len(resets) - 1)
          /\ UNCHANGED <<hi, committed, limit, open, last_error>>
      BY <2>5 DEF CloseReset, LayoutInv, TypeOK
    <3>2. /\ resets' \in Seq(Nat) /\ Len(resets') = Len(resets) - 1
          /\ \A i \in 1..Len(resets') : resets'[i] = resets[i]
          /\ ckp \in Nat /\ Len(resets) \in Nat
      <4>1. Len(resets) \in Nat /\ Len(resets) >= 1 /\ ckp \in Nat
        BY <3>1
      <4>2. /\ resets' \in Seq(Nat) /\ Len(resets') = Len(resets) - 1
            /\ \A i \in 1..(Len(resets) - 1) : resets'[i] = resets[i]
        <5>1. \A i \in 1..(Len(resets) - 1) : resets[i] \in Nat
          BY <3>1, <4>1
        <5>2. PICK n \in Nat : n = Len(resets) - 1
          BY <4>1
        <5>3. /\ SubSeq(resets, 1, n) \in Seq(Nat)
              /\ Len(SubSeq(resets, 1, n)) = IF 1 <= n THEN n - 1 + 1 ELSE 0
              /\ \A i \in 1..(n - 1 + 1) : SubSeq(resets, 1, n)[i] = resets[1 + i - 1]
          BY <5>1, <5>2, SubSeqProperties
        <5>4. QED
          BY <3>1, <5>2, <5>3
      <4>3. QED
        BY <4>1, <4>2
    <3>3. regions \subseteq Region
      BY DEF LayoutInv, TypeOK
    <3>4. \A r \in regions' : r \in regions /\ EndOf(r) <= ckp
      BY <3>1, <3>2, <3>3 DEF LayoutInv, ResetsNested, EndOf, Region
    <3>5. Disjoint'
      BY <3>1, <3>4 DEF LayoutInv, Disjoint, EndOf
    <3>6. ResetsNested'
      <4>1. \A i \in 1..Len(resets') : i \in 1..Len(resets) /\ i < Len(resets)
        BY <3>2
      <4>2. \A i \in 1..Len(resets') : resets'[i] <= free'
        BY <3>1, <3>2, <4>1 DEF LayoutInv, ResetsNested
      <4>3. QED
        BY <3>1, <3>2, <3>4, <4>1, <4>2 DEF LayoutInv, ResetsNested, EndOf
    <3>7. QED
      BY <3>1, <3>2, <3>3, <3>5, <3>6 DEF LayoutInv, TypeOK
  <2>6. CASE Clear
    BY <2>6 DEF Clear, LayoutInv, TypeOK, Disjoint, ResetsNested
  <2>7. CASE Unmap
    BY <2>7 DEF Unmap, LayoutInv, TypeOK, Disjoint, ResetsNested, Errors
  <2>8. CASE UNCHANGED vars
    BY <2>8 DEF vars, LayoutInv, TypeOK, Disjoint, ResetsNested, EndOf
  <2>9. QED
    BY <2>1, <2>2, <2>3, <2>4, <2>5, <2>6, <2>7, <2>8 DEF Next
<1>3. QED
  BY <1>1, <1>2, PTL DEF Spec

(* Type correctness of the arena.                                           *)
THEOREM TypeCorrect == Spec => []TypeOK
<1>1. LayoutInv => TypeOK
  BY DEF LayoutInv
<1>2. QED
  BY <1>1, LayoutCorrect, PTL

(* No region is ever clobbered by a later one.                              *)
THEOREM DisjointCorrect == Spec => []Disjoint
<1>1. LayoutInv => Disjoint
  BY DEF LayoutInv
<1>2. QED
  BY <1>1, LayoutCorrect, PTL

-----------------------------------------------------------------------------

(* With no guard bytes configured (the default), what is allocated is       *)
(* always committed: no store of the allocator or of a client faults.       *)
THEOREM CommittedCorrect ==
  ASSUME GuardZ = 0
  PROVE  Spec => []InCommitted
<1> DEFINE Inv == LayoutInv /\ InCommitted
<1>1. Init => InCommitted
  BY DEF Init, InCommitted
<1>2. LayoutInv /\ LayoutInv' /\ InCommitted /\ [Next]_vars => InCommitted'
  <2> SUFFICES ASSUME LayoutInv, LayoutInv', InCommitted, [Next]_vars
               PROVE  free' <= limit'
    BY DEF InCommitted, LayoutInv
  <2>1. ASSUME NEW hz \in {0, HeaderZ}, NEW gz, gz = 0, NEW z \in ReqZ,
               NEW more \in BOOLEAN, AllocIn(hz, gz, z, more)
        PROVE  free' <= limit'
    <3> DEFINE z0 == WithPadding(z, WordZ)
               pad == WithPadding(free + hz + z0, PageZ)
    <3>1. z0 \in Nat
      BY PaddingGrows
    <3>2. free \in Nat /\ limit \in Nat /\ hz \in Nat
      BY DEF LayoutInv, TypeOK
    <3>3. pad \in Nat /\ pad >= free + hz + z0
      <4>1. free + hz + z0 \in Nat
        BY <3>1, <3>2
      <4>2. QED
        BY <4>1, PaddingGrows
    <3> HIDE DEF z0, pad
    <3>4. CASE \E err \in Errors : Fail(err)
      BY <3>4 DEF Fail, InCommitted
    <3>5. CASE /\ free + hz + z0 <= committed /\ Bump(free, hz, z0, gz)
               /\ UNCHANGED <<committed, limit>>
      BY <2>1, <3>1, <3>2, <3>5 DEF Bump, InCommitted
    <3>6. CASE /\ limit' = pad
               /\ Bump(IF limit = 0 THEN free + GuardZ ELSE free, hz, z0, gz)
      BY <2>1, <3>1, <3>2, <3>3, <3>6 DEF Bump
    <3>7. QED
      BY <2>1, <3>4, <3>5, <3>6 DEF AllocIn, Errors, z0, pad
  <2>2. ASSUME NEW z \in ReqZ, Alloc(z) PROVE free' <= limit'
    BY <2>1, <2>2 DEF Alloc, HeaderSize, GuardSize
  <2>3. ASSUME NEW z \in ReqZ, SuperAlloc(z) PROVE free' <= limit'
    BY <2>1, <2>3 DEF SuperAlloc, HeaderSize
  <2>4. ASSUME NEW z \in ReqZ, NEW complete \in BOOLEAN, SubAlloc(z, complete)
        PROVE free' <= limit'
    BY <2>1, <2>4 DEF SubAlloc, GuardSize
  <2>5. CASE CloseReset
    <3>1. Len(resets) \in 1..Len(resets) /\ resets[Len(resets)] \in Nat
      BY <2>5 DEF CloseReset, LayoutInv, TypeOK
    <3>2. resets[Len(resets)] <= free /\ free \in Nat /\ limit \in Nat
      BY <3>1 DEF LayoutInv, TypeOK, ResetsNested
    <3>3. QED
      BY <2>5, <3>1, <3>2 DEF CloseReset, InCommitted
  <2>6. CASE OpenReset \/ Clear \/ Unmap \/ UNCHANGED vars
    BY <2>6 DEF OpenReset, Clear, Unmap, vars, InCommitted, LayoutInv, TypeOK
  <2>7. QED
    BY <2>2, <2>3, <2>4, <2>5, <2>6 DEF Next
<1>3. QED
  BY <1>1, <1>2, LayoutCorrect, PTL DEF Spec

-----------------------------------------------------------------------------

(* A new region extends the chain of headers by one link.                   *)
LEMMA BumpExtendsChain ==
  ASSUME LayoutInv, ChainInv, free <= limit,
         NEW base \in Nat, NEW z0 \in Nat,
         base = IF limit = 0 THEN free + GuardZ ELSE free,
         z0 % SizeMod = z0,
         Bump(base, HeaderZ, z0, GuardZ),
         limit' > 0, open' = FALSE
  PROVE  ChainInv'
<1> DEFINE new == [beg |-> base, hz |-> HeaderZ, z |-> z0, gz |-> GuardZ,
                   field |-> z0 % SizeMod]
<1>1. /\ regions' = regions \cup {new} /\ free' = EndOf(new)
      /\ resets' = resets /\ new.beg = base
      /\ EndOf(new) = base + HeaderZ + z0 + GuardZ
  BY DEF Bump, EndOf
<1>2. /\ free \in Nat /\ limit \in Nat /\ regions \subseteq Region
      /\ resets \in Seq(Nat) /\ \A i \in 1..Len(resets) : resets[i] \in Nat
  BY DEF LayoutInv, TypeOK
<1>3. \A r \in regions : r.beg \in Nat /\ EndOf(r) \in Nat
  <2>1. SUFFICES ASSUME NEW r \in regions
                 PROVE  r.beg \in Nat /\ EndOf(r) \in Nat
    OBVIOUS
  <2>2. r \in Region
    BY <1>2
  <2>3. QED
    BY <2>2 DEF Region, EndOf
<1>4. /\ new.hz = HeaderZ /\ new.gz = GuardZ /\ new.field = new.z
  OBVIOUS
<1>5. free' > base /\ BeginPos <= base
  BY <1>1, <1>2 DEF ChainInv, BeginPos
<1> HIDE DEF new
<1>6. \A i \in 1..Len(resets) :
        /\ BeginPos <= resets[i]
        /\ resets[i] = base \/ \E r \in regions : r.beg = resets[i]
        /\ resets[i] = BeginPos \/ \E r \in regions : EndOf(r) = resets[i]
  <2>1. CASE limit = 0
    <3>1. free = 0 /\ regions = {}
      BY <1>2, <2>1 DEF ChainInv
    <3>2. resets = <<>> \/ GuardZ = 0
      <4>1. SUFFICES ASSUME resets # <<>> PROVE GuardZ = 0
        OBVIOUS
      <4>2. 1 \in 1..Len(resets)
        BY <1>2, <4>1
      <4>3. BeginPos <= resets[1] /\ resets[1] <= free
        BY <4>2 DEF ChainInv, LayoutInv, ResetsNested
      <4>4. QED
        BY <1>2, <3>1, <4>2, <4>3 DEF BeginPos
    <3>3. CASE resets = <<>>
      BY <3>3
    <3>4. CASE GuardZ = 0
      BY <1>2, <2>1, <3>1, <3>4 DEF ChainInv, BeginPos
    <3>5. QED
      BY <3>2, <3>3, <3>4
  <2>2. CASE limit # 0
    BY <1>2, <2>2 DEF ChainInv
  <2>3. QED
    BY <2>1, <2>2
<1>7. BeginPos = base \/ \E r \in regions : r.beg = BeginPos
  BY <1>2 DEF ChainInv, BeginPos
<1>8. \A r \in regions : /\ BeginPos <= r.beg
                         /\ EndOf(r) = base \/ \E s \in regions : s.beg = EndOf(r)
                         /\ r.beg = BeginPos \/ \E s \in regions : EndOf(s) = r.beg
  BY <1>2 DEF ChainInv
<1>9. base = BeginPos \/ \E s \in regions : EndOf(s) = base
  <2>1. CASE limit = 0 \/ BeginPos = free
    BY <1>2, <2>1 DEF ChainInv, BeginPos
  <2>2. CASE limit # 0 /\ BeginPos # free
    <3>1. limit > 0 /\ base = free
      BY <1>2, <2>2
    <3>2. QED
      BY <2>2, <3>1 DEF ChainInv
  <2>3. QED
    BY <2>1, <2>2
<1>10. /\ \A r \in regions' : r.hz = HeaderZ /\ r.gz = GuardZ /\ r.field = r.z
  BY <1>1, <1>4 DEF ChainInv
<1>11. /\ BeginPos <= free'
       /\ \E r \in regions' : r.beg = BeginPos
       /\ \E r \in regions' : EndOf(r) = free'
       /\ \A r \in regions' :
            /\ BeginPos <= r.beg
            /\ EndOf(r) = free' \/ \E s \in regions' : s.beg = EndOf(r)
            /\ r.beg = BeginPos \/ \E s \in regions' : EndOf(s) = r.beg
  <2>1. free' \in Nat /\ BeginPos \in Nat /\ BeginPos <= free'
    BY <1>1, <1>5 DEF BeginPos
  <2>2. \E r \in regions' : r.beg = BeginPos
    BY <1>1, <1>7
  <2>3. \A r \in regions' : BeginPos <= r.beg
    BY <1>1, <1>5, <1>8
  <2>4. \A r \in regions' :
            EndOf(r) = free' \/ \E s \in regions' : s.beg = EndOf(r)
    BY <1>1, <1>8
  <2>5. \A r \in regions' :
            r.beg = BeginPos \/ \E s \in regions' : EndOf(s) = r.beg
    BY <1>1, <1>8, <1>9
  <2>6. \E r \in regions' : EndOf(r) = free'
    BY <1>1
  <2>7. QED
    BY <2>1, <2>2, <2>3, <2>4, <2>5, <2>6
<1>12. \A i \in 1..Len(resets') :
         /\ BeginPos <= resets'[i]
         /\ resets'[i] = free' \/ \E r \in regions' : r.beg = resets'[i]
         /\ resets'[i] = BeginPos \/ \E r \in regions' : EndOf(r) = resets'[i]
  BY <1>1, <1>6
<1>13. QED
  BY <1>10, <1>11, <1>12 DEF ChainInv, EndOf, BeginPos

(* Restoring a checkpoint cuts the chain at one of its links.               *)
LEMMA CloseResetKeepsChain ==
  ASSUME LayoutInv, ChainInv, CloseReset
  PROVE  ChainInv'
<1> DEFINE ckp == resets[Len(resets)]
<1>1. /\ resets \in Seq(Nat) /\ Len(resets) \in 1..Len(resets) /\ ckp \in Nat
      /\ free' = ckp /\ regions' = {r \in regions : r.beg < ckp}
      /\ resets' = SubSeq(resets, 1, Len(resets) - 1)
      /\ UNCHANGED <<limit, open>>
  BY DEF CloseReset, LayoutInv, TypeOK
<1>2. /\ Len(resets') = Len(resets) - 1
      /\ \A i \in 1..Len(resets') : resets'[i] = resets[i] /\ i \in 1..Len(resets)
  <2>1. PICK n \in Nat : n = Len(resets) - 1
    BY <1>1
  <2>2. \A i \in 1..n : resets[i] \in Nat
    BY <1>1, <2>1
  <2>3. /\ Len(SubSeq(resets, 1, n)) = IF 1 <= n THEN n - 1 + 1 ELSE 0
        /\ \A i \in 1..(n - 1 + 1) : SubSeq(resets, 1, n)[i] = resets[1 + i - 1]
    BY <2>2, SubSeqProperties
  <2>4. QED
    BY <1>1, <2>1, <2>3
<1>3. /\ regions \subseteq Region /\ free \in Nat /\ limit \in Nat
      /\ \A r \in regions : r.beg \in Nat /\ EndOf(r) \in Nat /\ r.beg < EndOf(r)
  BY DEF LayoutInv, TypeOK, Region, EndOf, ChainInv
<1>4. /\ ckp <= free /\ BeginPos <= ckp
      /\ ckp = free \/ \E r \in regions : r.beg = ckp
      /\ ckp = BeginPos \/ \E r \in regions : EndOf(r) = ckp
      /\ \A r \in regions : EndOf(r) <= ckp \/ ckp <= r.beg
      /\ \A r \in regions : EndOf(r) <= free
  BY <1>1 DEF LayoutInv, ResetsNested, Disjoint, ChainInv
<1> HIDE DEF ckp
<1>5. limit > 0 =>
       /\ BeginPos = ckp \/ \E r \in regions' : r.beg = BeginPos
       /\ BeginPos = ckp \/ \E r \in regions' : EndOf(r) = ckp
       /\ \A r \in regions' :
            /\ BeginPos <= r.beg
            /\ EndOf(r) = ckp \/ \E s \in regions' : s.beg = EndOf(r)
            /\ r.beg = BeginPos \/ \E s \in regions' : EndOf(s) = r.beg
  <2> SUFFICES ASSUME limit > 0 PROVE
       /\ BeginPos = ckp \/ \E r \in regions' : r.beg = BeginPos
       /\ BeginPos = ckp \/ \E r \in regions' : EndOf(r) = ckp
       /\ \A r \in regions' :
            /\ BeginPos <= r.beg
            /\ EndOf(r) = ckp \/ \E s \in regions' : s.beg = EndOf(r)
            /\ r.beg = BeginPos \/ \E s \in regions' : EndOf(s) = r.beg
    OBVIOUS
  <2>1. BeginPos = ckp \/ \E r \in regions' : r.beg = BeginPos
    BY <1>1, <1>3, <1>4 DEF ChainInv, BeginPos
  <2>2. BeginPos = ckp \/ \E r \in regions' : EndOf(r) = ckp
    BY <1>1, <1>3, <1>4
  <2>3. ASSUME NEW r \in regions' PROVE
            /\ BeginPos <= r.beg
            /\ EndOf(r) = ckp \/ \E s \in regions' : s.beg = EndOf(r)
            /\ r.beg = BeginPos \/ \E s \in regions' : EndOf(s) = r.beg
    <3>1. r \in regions /\ r.beg < ckp /\ EndOf(r) <= ckp
      BY <1>1, <1>3, <1>4
    <3>2. EndOf(r) = ckp \/ \E s \in regions' : s.beg = EndOf(r)
      <4>1. CASE EndOf(r) = free
        BY <1>1, <1>3, <1>4, <3>1, <4>1
      <4>2. CASE \E s \in regions : s.beg = EndOf(r)
        <5>1. PICK s \in regions : s.beg = EndOf(r)
          BY <4>2
        <5>2. s.beg < ckp \/ s.beg = ckp
          BY <1>1, <1>3, <3>1, <5>1
        <5>3. CASE s.beg < ckp
          BY <1>1, <5>1, <5>3
        <5>4. QED
          BY <5>1, <5>2, <5>3
      <4>3. QED
        BY <3>1, <4>1, <4>2 DEF ChainInv
    <3>3. r.beg = BeginPos \/ \E s \in regions' : EndOf(s) = r.beg
      <4>1. CASE r.beg # BeginPos
        <5>1. PICK s \in regions : EndOf(s) = r.beg
          BY <3>1, <4>1 DEF ChainInv
        <5>2. s.beg < ckp
          BY <1>1, <1>3, <3>1, <5>1
        <5>3. s \in regions'
          BY <1>1, <5>2
        <5>4. QED
          BY <5>1, <5>3
      <4>2. QED
        BY <4>1
    <3>4. QED
      BY <3>1, <3>2, <3>3 DEF ChainInv
  <2>4. QED
    BY <2>1, <2>2, <2>3
<1>6. ASSUME NEW i \in 1..Len(resets')
      PROVE  /\ BeginPos <= resets'[i]
             /\ resets'[i] = ckp \/ \E r \in regions' : r.beg = resets'[i]
             /\ resets'[i] = BeginPos \/ \E r \in regions' : EndOf(r) = resets'[i]
  <2>1. /\ resets'[i] = resets[i] /\ i \in 1..Len(resets) /\ i < Len(resets)
        /\ resets[i] \in Nat
    BY <1>1, <1>2
  <2>2. resets[i] <= ckp /\ resets[i] <= free
    BY <1>1, <2>1 DEF LayoutInv, ResetsNested, ckp
  <2>3. /\ BeginPos <= resets[i]
        /\ resets[i] = free \/ \E r \in regions : r.beg = resets[i]
        /\ resets[i] = BeginPos \/ \E r \in regions : EndOf(r) = resets[i]
    BY <2>1 DEF ChainInv
  <2>4. resets[i] = ckp \/ \E r \in regions' : r.beg = resets[i]
    <3>1. CASE resets[i] # ckp
      <4>1. resets[i] < ckp /\ resets[i] < free
        <5>1. ckp \in Nat /\ free \in Nat /\ ckp <= free
          BY <1>1, <1>3, <1>4
        <5>2. resets[i] \in Nat /\ resets[i] <= ckp /\ resets[i] # ckp
          BY <2>1, <2>2, <3>1
        <5>3. QED
          BY <5>1, <5>2
      <4>2. PICK r \in regions : r.beg = resets[i]
        BY <2>1, <2>3, <4>1, <1>1
      <4>3. r \in regions'
        BY <1>1, <4>1, <4>2
      <4>4. QED
        BY <4>2, <4>3
    <3>2. QED
      BY <3>1
  <2>5. resets[i] = BeginPos \/ \E r \in regions' : EndOf(r) = resets[i]
    <3>1. CASE resets[i] # BeginPos
      <4>1. PICK r \in regions : EndOf(r) = resets[i]
        BY <2>3, <3>1
      <4>2. r.beg < ckp
        <5>1. r.beg \in Nat /\ EndOf(r) \in Nat /\ r.beg < EndOf(r)
          BY <1>3, <4>1
        <5>2. QED
          BY <5>1, <1>1, <2>1, <2>2, <4>1
      <4>3. r \in regions'
        BY <1>1, <4>2
      <4>4. QED
        BY <4>1, <4>3
    <3>2. QED
      BY <3>1
  <2>6. QED
    BY <2>1, <2>3, <2>4, <2>5
<1>7. \A r \in regions' : r \in regions
  BY <1>1
<1>8. limit' = 0 => regions' = {} /\ free' \in {0, GuardZ}
  <2>1. SUFFICES ASSUME limit = 0 PROVE regions' = {} /\ ckp \in {0, GuardZ}
    BY <1>1
  <2>2. regions = {} /\ free \in {0, GuardZ}
    BY <2>1 DEF ChainInv
  <2>3. QED
    BY <1>1, <1>3, <1>4, <2>2
<1>9. BeginPos <= free'
  BY <1>1, <1>4
<1>10. QED
  BY <1>1, <1>5, <1>6, <1>7, <1>8, <1>9 DEF ChainInv, EndOf, BeginPos

(* The chain of headers is kept: the strengthening behind the two theorems. *)
LEMMA ChainKept ==
  ASSUME StoreHeader, ~SuperAllocs, GuardZ = 0 \/ ~EmptyReset,
         \A z \in ReqZ : WithPadding(z, WordZ) < SizeMod
  PROVE  Spec => [](LayoutInv /\ ChainInv)
<1>1. Init => ChainInv
  BY DEF Init, ChainInv, BeginPos
<1>2. LayoutInv /\ ChainInv /\ [Next]_vars => ChainInv'
  <2> SUFFICES ASSUME LayoutInv, ChainInv, [Next]_vars PROVE ChainInv'
    OBVIOUS
  <2>1. ASSUME NEW z \in ReqZ, Alloc(z) PROVE ChainInv'
    <3> DEFINE z0 == WithPadding(z, WordZ)
               target == free + HeaderZ + z0
               base == IF limit = 0 THEN free + GuardZ ELSE free
    <3>1. free <= limit /\ AllocIn(HeaderZ, GuardZ, z, FALSE)
      BY <2>1 DEF Alloc, Alive, HeaderSize, GuardSize
    <3>2. /\ z0 \in Nat /\ free \in Nat /\ limit \in Nat
          /\ base \in Nat /\ target \in Nat
      <4>1. z0 \in Nat
        BY PaddingGrows
      <4>2. free \in Nat /\ limit \in Nat
        BY DEF LayoutInv, TypeOK
      <4> HIDE DEF z0
      <4>3. QED
        BY <4>1, <4>2
    <3>3. z0 % SizeMod = z0
      <4>1. z0 < SizeMod /\ z0 \in Nat
        BY <3>2
      <4> HIDE DEF z0
      <4>2. QED
        BY <4>1
    <3>4. limit = committed /\ WithPadding(target, PageZ) >= target
      BY <3>2, PaddingGrows DEF LayoutInv
    <3> HIDE DEF z0
    <3>5. CASE \E err \in Errors : Fail(err)
      BY <3>5 DEF Fail, ChainInv, EndOf, BeginPos
    <3>6. CASE /\ target <= committed /\ Bump(free, HeaderZ, z0, GuardZ)
               /\ open' = FALSE /\ UNCHANGED <<committed, limit>>
      <4>1. limit > 0 /\ limit' > 0 /\ base = free
        BY <3>2, <3>4, <3>6
      <4>2. QED
        BY <3>1, <3>2, <3>3, <3>6, <4>1, BumpExtendsChain
    <3>7. CASE /\ limit' = WithPadding(target, PageZ)
               /\ Bump(base, HeaderZ, z0, GuardZ) /\ open' = FALSE
      <4>1. limit' > 0
        <5> HIDE DEF base
        <5>1. target > 0
          BY <3>2
        <5> HIDE DEF target
        <5>2. QED
          BY <3>2, <3>4, <3>7, <5>1, PaddingGrows
      <4>2. QED
        BY <3>1, <3>2, <3>3, <3>7, <4>1, BumpExtendsChain
    <3>8. QED
      BY <3>1, <3>5, <3>6, <3>7 DEF AllocIn, Errors, z0
  <2>2. ASSUME NEW z \in ReqZ, SuperAlloc(z) PROVE ChainInv'
    BY <2>2 DEF SuperAlloc
  <2>3. ASSUME NEW z \in ReqZ, NEW complete \in BOOLEAN, SubAlloc(z, complete)
        PROVE ChainInv'
    BY <2>3 DEF SubAlloc, ChainInv
  <2>4. CASE OpenReset
    <3>1. /\ resets \in Seq(Nat) /\ free \in Nat /\ resets' = Append(resets, free)
          /\ UNCHANGED <<limit, free, regions, open>>
          /\ EmptyReset \/ limit > 0
          /\ limit \in Nat /\ free <= limit
      BY <2>4 DEF OpenReset, LayoutInv, TypeOK, Alive
    <3>2. /\ Len(resets') = Len(resets) + 1
          /\ \A i \in 1..Len(resets) : resets'[i] = resets[i]
          /\ resets'[Len(resets) + 1] = free /\ Len(resets) \in Nat
      BY <3>1
    <3>3. /\ BeginPos <= free
          /\ free = BeginPos \/ \E r \in regions : EndOf(r) = free
      <4>1. CASE limit > 0
        BY <4>1 DEF ChainInv
      <4>2. CASE ~(limit > 0)
        <5>1. GuardZ = 0 /\ limit = 0
          BY <2>4, <4>2 DEF OpenReset, LayoutInv, TypeOK
        <5>2. free = 0
          BY <5>1 DEF ChainInv
        <5>3. QED
          BY <5>1, <5>2 DEF BeginPos
      <4>3. QED
        BY <4>1, <4>2
    <3>4. \A i \in 1..Len(resets') :
            /\ BeginPos <= resets'[i]
            /\ resets'[i] = free \/ \E r \in regions : r.beg = resets'[i]
            /\ resets'[i] = BeginPos \/ \E r \in regions : EndOf(r) = resets'[i]
      BY <3>2, <3>3 DEF ChainInv
    <3>5. QED
      BY <3>1, <3>4 DEF ChainInv, EndOf, BeginPos
  <2>5. CASE CloseReset
    BY <2>5, CloseResetKeepsChain
  <2>6. CASE Clear
    BY <2>6 DEF Clear, ChainInv, BeginPos
  <2>7. CASE Unmap
    BY <2>7 DEF Unmap, ChainInv, BeginPos
  <2>8. CASE UNCHANGED vars
    BY <2>8 DEF vars, ChainInv, EndOf, BeginPos
  <2>9. QED
    BY <2>1, <2>2, <2>3, <2>4, <2>5, <2>6, <2>7, <2>8 DEF Next
<1>3. QED
  BY <1>1, <1>2, LayoutCorrect, PTL DEF Spec

(* DArenaIterator visits every allocation once and stops at end(), for      *)
(* every configuration with headers in which no super_alloc() is used, the  *)
(* sizes asked for fit the size field of the header, and an ArenaReset is   *)
(* never opened on a fresh arena that keeps guards.                         *)
THEOREM IterationCorrect ==
  ASSUME StoreHeader, ~SuperAllocs, GuardZ = 0 \/ ~EmptyReset,
         \A z \in ReqZ : WithPadding(z, WordZ) < SizeMod
  PROVE  Spec => []IterationExact
<1>1. LayoutInv /\ ChainInv => IterationExact
  <2> SUFFICES ASSUME LayoutInv, ChainInv, limit > 0 PROVE
        /\ BeginPos = free \/ \E r \in Headers : r.beg = BeginPos
        /\ \A r \in Headers :
             /\ NextPos(r) = free \/ \E s \in Headers : s.beg = NextPos(r)
             /\ r.beg = BeginPos \/ \E s \in Headers : NextPos(s) = r.beg
    BY DEF IterationExact
  <2>1. Headers = regions
    BY DEF Headers, ChainInv
  <2>2. \A r \in regions : NextPos(r) = EndOf(r)
    BY DEF ChainInv, NextPos, EndOf
  <2>3. QED
    BY <2>1, <2>2 DEF ChainInv
<1>2. QED
  BY <1>1, ChainKept, PTL

(* Iterating over an arena that holds no allocation visits nothing, however  *)
(* it came to be empty, for every configuration without guard bytes.         *)
THEOREM EmptyIterationCorrect ==
  ASSUME StoreHeader, ~SuperAllocs, GuardZ = 0,
         \A z \in ReqZ : WithPadding(z, WordZ) < SizeMod
  PROVE  Spec => []EmptyIteration
<1>1. LayoutInv /\ ChainInv => EmptyIteration
  BY DEF EmptyIteration, ChainInv, LayoutInv, TypeOK, BeginPos
<1>2. QED
  BY <1>1, ChainKept, PTL

=============================================================================
