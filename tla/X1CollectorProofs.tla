-------------------------- MODULE X1CollectorProofs --------------------------
(***************************************************************************)
(* Proofs about the collector, for every number of generations, objects,   *)
(* pointers and roots, every survival threshold and every configuration.   *)
(*                                                                         *)
(* The first half is about one object: types, ages, forwarding pointers    *)
(* and copies.  The second half is about the objects that the collector    *)
(* moves and the pointers between them: no pointer is left dangling, the   *)
(* remembered set is complete, and what a collection has scanned points    *)
(* nowhere into from-space.                                                *)
(*                                                                         *)
(* The invariant is Whole.  Tracked says that every pointer which leads,   *)
(* or will lead once both objects are promoted, from an older to a younger *)
(* generation is in a log that the next collection reads, or in one that   *)
(* this collection has still to read.  Settled says that every pointer     *)
(* into from-space is still to be visited, or in a log entry that this     *)
(* pass has still to read.                                                 *)
(*                                                                         *)
(* Most steps of a collection do one thing to the heap, Evac: they copy at *)
(* most one object and forward at most one pointer.  What Evac keeps is    *)
(* proved once.                                                            *)
(***************************************************************************)
EXTENDS X1Collector, SequenceTheorems, FiniteSetTheorems, WellFoundedInduction, TLAPS

USE X1Assumption DEF X1Assumption

(* A non-empty set of naturals has a least element.                         *)
LEMMA LeastNatural ==
  ASSUME NEW S \in SUBSET Nat, S # {}
  PROVE  \E m \in S : \A n \in S : m <= n
<1>1. \E m \in S : \A n \in S : <<n, m>> \notin OpToRel(<, Nat)
  BY WFMin, NatLessThanWellFounded
<1>2. PICK m \in S : \A n \in S : <<n, m>> \notin OpToRel(<, Nat)
  BY <1>1
<1>3. \A n \in S : ~(n < m)
  BY <1>2, Zenon DEF OpToRel
<1>4. QED
  BY <1>3

(* A non-empty set of sequence positions has a greatest element.            *)
LEMMA GreatestPosition ==
  ASSUME NEW len \in Nat, NEW S \in SUBSET (1..len), S # {}
  PROVE  \E m \in S : \A n \in S : n <= m
<1> DEFINE D == {n \in Nat : \E i \in S : n = len - i}
<1>1. D \in SUBSET Nat /\ D # {}
  <2>1. PICK i \in S : TRUE
    OBVIOUS
  <2>2. len - i \in D
    OBVIOUS
  <2>3. QED
    BY <2>2
<1>2. PICK d \in D : \A e \in D : d <= e
  <2> HIDE DEF D
  <2>1. QED
    BY <1>1, LeastNatural
<1>3. PICK m \in S : d = len - m
  OBVIOUS
<1>4. \A n \in S : len - n \in D /\ n \in 1..len
  OBVIOUS
<1> HIDE DEF D
<1>5. ASSUME NEW n \in S
      PROVE  n <= m
  <2>1. d <= len - n
    BY <1>2, <1>4
  <2>2. QED
    BY <1>3, <1>4, <2>1
<1>6. QED
  BY <1>5

-----------------------------------------------------------------------------

(* Generations, halves and addresses.                                       *)
LEMMA AddressFacts ==
  /\ Gens \subseteq Nat /\ 0 \in Gens /\ NGen \notin Gens /\ LogGens \subseteq Gens
  /\ 0 \in LogGens /\ Cells \subseteq Addr /\ Ext \subseteq Addr
  /\ Nil \notin Cells /\ Nil \notin Addr
  /\ \A a \in Cells : a[1] \in Gens /\ a[2] \in {0, 1} /\ a[3] \in 1..MaxObjs
                        /\ a = <<a[1], a[2], a[3]>>
  /\ \A g \in Gens, h \in {0, 1}, c \in 1..MaxObjs : <<g, h, c>> \in Cells
  /\ \A a \in Ext : a \notin Cells
<1>1. Gens \subseteq Nat /\ 0 \in Gens /\ NGen \notin Gens /\ LogGens \subseteq Gens /\ 0 \in LogGens
  BY DEF Gens, LogGens
<1>2. Cells \subseteq Addr /\ Ext \subseteq Addr /\ Nil \notin Cells /\ Nil \notin Addr
  BY NilAssumption DEF Addr
<1>3. \A a \in Cells : a[1] \in Gens /\ a[2] \in {0, 1} /\ a[3] \in 1..MaxObjs
                        /\ a = <<a[1], a[2], a[3]>>
  BY DEF Cells
<1>4. \A g \in Gens, h \in {0, 1}, c \in 1..MaxObjs : <<g, h, c>> \in Cells
  BY DEF Cells
<1>5. \A a \in Ext : a[1] = NGen
  BY DEF Ext
<1>6. QED
  BY <1>1, <1>2, <1>3, <1>4, <1>5

LEMMA MaxAgeIsNat == MaxAge \in Nat
<1>1. \A x, y \in Nat : x * y \in Nat
  OBVIOUS
<1>2. NSurvive \in Nat /\ NGen - 1 \in Nat
  OBVIOUS
<1>3. QED
  BY <1>1, <1>2 DEF MaxAge

(* An age is in one generation, and a copy's age is an age.                 *)
LEMMA AgeFacts ==
  /\ Age2Gen(0) = 0
  /\ \A age \in 0..MaxAge : Age2Gen(age) \in Gens /\ Older(age) \in 0..MaxAge
<1>1. 0 \div NSurvive = 0
  OBVIOUS
<1>2. Age2Gen(0) = 0
  BY <1>1 DEF Age2Gen
<1>3. ASSUME NEW age \in 0..MaxAge
      PROVE  Age2Gen(age) \in Gens
  <2>1. age \div NSurvive \in Nat
    BY MaxAgeIsNat
  <2>2. QED
    BY <2>1 DEF Age2Gen, Gens
<1>4. ASSUME NEW age \in 0..MaxAge
      PROVE  Older(age) \in 0..MaxAge
  BY MaxAgeIsNat DEF Older
<1>5. QED
  BY <1>2, <1>3, <1>4

-----------------------------------------------------------------------------
(* Types of what the operators of the collector compute.                    *)

Kid == Addr \cup {Nil}
Frames == [obj : Addr, k : 1..NField]
Frees == [Gens -> [{0, 1} -> 0..MaxObjs]]

(* Storing a pointer in an object leaves a memory of objects.               *)
LEMMA StoreType ==
  ASSUME NEW m \in [Addr -> Cell], NEW p \in Addr, NEW k \in 1..NField, NEW v \in Kid
  PROVE  [m EXCEPT ![p].kid[k] = v] \in [Addr -> Cell]
<1>1. m[p] \in Cell /\ m[p].kid \in [1..NField -> Kid]
  BY DEF Cell, Kid
<1>2. [m[p].kid EXCEPT ![k] = v] \in [1..NField -> Kid]
  BY <1>1
<1>3. [m[p] EXCEPT !.kid = [m[p].kid EXCEPT ![k] = v]] \in Cell
  BY <1>1, <1>2 DEF Cell, Kid
<1>4. QED
  BY <1>3

(* A half that has room for a cell and gains it.                            *)
LEMMA GrowType ==
  ASSUME NEW f \in Frees, NEW g \in Gens, NEW h \in {0, 1}, NEW n \in 0..MaxObjs
  PROVE  [f EXCEPT ![g][h] = n] \in Frees
BY DEF Frees

(* Where an object is now is an address, and it stays in the spaces.        *)
LEMMA NowType ==
  ASSUME TypeOK, NEW a \in Addr
  PROVE  Now(a) \in Addr /\ (a \in Cells => Now(a) \in Cells)
<1>1. mem[a].fwd \in Cells \cup {Nil}
  BY DEF TypeOK, Cell
<1>2. QED
  BY <1>1, AddressFacts DEF Now

(* A copy is a cell, is written as an object, and is counted in its half.   *)
LEMMA CopyType ==
  ASSUME TypeOK, NEW a \in Addr, CanMove(a)
  PROVE  Dest(a) \in Cells /\ Moved(a) \in [Addr -> Cell] /\ Grown(a) \in Frees
<1> DEFINE d == Dest(a)
           copy == [mem[a] EXCEPT !.age = Older(mem[a].age)]
<1>1. d \in Cells /\ d \in Addr
  BY AddressFacts DEF CanMove
<1>2. mem \in [Addr -> Cell] /\ mem[a] \in Cell /\ free \in Frees
  BY DEF TypeOK, Frees
<1>3. mem[a].age \in 0..MaxAge
  BY <1>2 DEF Cell
<1>4. copy \in Cell
  <2>1. Older(mem[a].age) \in 0..MaxAge
    BY <1>3, AgeFacts
  <2>2. QED
    BY <1>2, <2>1 DEF Cell
<1>5. [mem EXCEPT ![d] = copy] \in [Addr -> Cell]
  BY <1>1, <1>2, <1>4
<1>6. Moved(a) \in [Addr -> Cell]
  <2> DEFINE m == [mem EXCEPT ![d] = copy]
  <2>1. Moved(a) = [m EXCEPT ![a].fwd = d]
    BY DEF Moved
  <2>2. [m[a] EXCEPT !.fwd = d] \in Cell
    <3>1. m[a] \in Cell
      BY <1>5
    <3> HIDE DEF m, d
    <3>2. QED
      BY <3>1, <1>1 DEF Cell
  <2>3. m \in [Addr -> Cell]
    BY <1>5
  <2> HIDE DEF m, d
  <2>4. QED
    BY <2>1, <2>2, <2>3
<1>7. Grown(a) \in Frees
  <2>1. d[1] \in Gens /\ d[2] \in {0, 1} /\ d[3] \in 1..MaxObjs
    BY <1>1, AddressFacts
  <2>2. d[3] = free[d[1]][d[2]] + 1 /\ d[3] \in 0..MaxObjs
    BY <2>1 DEF Dest
  <2>3. Grown(a) = [free EXCEPT ![d[1]][d[2]] = d[3]]
    BY <2>2 DEF Grown
  <2> HIDE DEF d
  <2>4. [free EXCEPT ![d[1]][d[2]] = d[3]] \in Frees
    BY <2>1, <2>2, <1>2, GrowType, Zenon
  <2>5. QED
    BY <2>3, <2>4, Zenon
<1>8. QED
  BY <1>1, <1>6, <1>7

(* The innermost pending visit is of a pointer of an object.                *)
LEMMA VisitFacts ==
  ASSUME TypeOK, Visiting
  PROVE  Top.obj \in Addr /\ Top.k \in 1..NField /\ Slot \in Kid
<1>1. stack \in Seq(Frames) /\ stack # <<>>
  BY DEF TypeOK, Visiting, Frames
<1>2. Top \in Frames
  BY <1>1 DEF Top
<1>3. mem[Top.obj] \in Cell
  BY <1>2 DEF TypeOK, Frames
<1>4. QED
  BY <1>2, <1>3 DEF Slot, Frames, Cell, Kid

(* Leaving a pointer leaves a stack of visits of pointers.                  *)
LEMMA NextSlotType ==
  ASSUME TypeOK
  PROVE  NextSlot \in Seq(Frames)
<1> DEFINE todo == {i \in 1..Len(stack) : stack[i].k < NField}
           inner == {i \in todo : \A j \in todo : j <= i}
           n == CHOOSE i \in inner : TRUE
<1>1. stack \in Seq(Frames) /\ Len(stack) \in Nat
  BY DEF TypeOK, Frames
<1>2. CASE todo = {}
  <2>1. NextSlot = <<>>
    BY <1>2 DEF NextSlot
  <2>2. QED
    BY <2>1
<1>3. CASE todo # {}
  <2>1. inner # {}
    BY <1>1, <1>3, GreatestPosition
  <2>2. n \in todo
    BY <2>1
  <2> HIDE DEF n
  <2>3. n \in 1..Len(stack) /\ stack[n].k < NField
    BY <2>2
  <2>4. n \in 1..Len(stack) /\ stack[n] \in Frames /\ stack[n].k < NField
    BY <1>1, <2>3
  <2> DEFINE kept == SubSeq(stack, 1, n)
             advanced == [stack[n] EXCEPT !.k = @ + 1]
  <2>5. NextSlot = [kept EXCEPT ![n].k = @ + 1]
    BY <1>3 DEF NextSlot, n
  <2>6. kept \in Seq(Frames) /\ n \in 1..Len(kept) /\ kept[n] = stack[n]
    <3>1. n \in Nat /\ 1 <= n /\ n <= Len(stack) /\ n \in 1..n
      BY <1>1, <2>4
    <3>2. \A i \in 1..n : stack[i] \in Frames
      BY <1>1, <3>1
    <3>3. /\ kept \in Seq(Frames) /\ Len(kept) = n
          /\ kept[n] = stack[n]
      BY <1>1, <3>1, <3>2
    <3>4. QED
      BY <3>1, <3>3
  <2>7. advanced \in Frames
    BY <2>4 DEF Frames
  <2>8. NextSlot = [kept EXCEPT ![n] = advanced]
    <3> HIDE DEF kept
    <3>1. QED
      BY <2>5, <2>6
  <2>9. [kept EXCEPT ![n] = advanced] \in Seq(Frames)
    <3> HIDE DEF kept, advanced
    <3>1. QED
      BY <2>6, <2>7, ExceptSeq
  <2>10. QED
    BY <2>8, <2>9
<1>4. QED
  BY <1>2, <1>3

(* A log that takes an entry, or drops it, is a log.                        *)
LEMMA PutType ==
  ASSUME NEW log \in Seq(LogEntry), NEW e \in LogEntry
  PROVE  Put(log, e) \in Seq(LogEntry)
BY DEF Put

(* The entry being looked at, refreshed or not, is an entry.                *)
LEMMA EntryFacts ==
  ASSUME TypeOK, InLog
  PROVE  /\ Entry \in LogEntry /\ Refreshed(Entry) \in LogEntry
         /\ Tail(fromlog[cg]) \in Seq(LogEntry)
<1>1. fromlog[cg] \in Seq(LogEntry) /\ fromlog[cg] # <<>>
  BY DEF TypeOK, Log, InLog
<1>2. Entry \in LogEntry /\ Tail(fromlog[cg]) \in Seq(LogEntry)
  BY <1>1 DEF Entry
<1>3. Entry.parent \in Cells /\ Entry.snap \in Cells /\ Entry.k \in 1..NField
  BY <1>2 DEF LogEntry
<1>4. Now(Entry.parent) \in Cells /\ Now(Entry.snap) \in Cells
  BY <1>3, NowType, AddressFacts
<1>5. QED
  BY <1>2, <1>3, <1>4 DEF Refreshed, LogEntry

(* Writing the new place of the child into its parent.                      *)
LEMMA RepairedType ==
  ASSUME TypeOK, InLog
  PROVE  Repaired(Entry) \in [Addr -> Cell]
<1>1. Refreshed(Entry) \in LogEntry
  BY EntryFacts
<1>2. Now(Entry.parent) \in Addr /\ Now(Entry.snap) \in Kid /\ Entry.k \in 1..NField
  BY <1>1, AddressFacts DEF Refreshed, LogEntry, Kid
<1>3. mem \in [Addr -> Cell]
  BY DEF TypeOK
<1>4. QED
  BY <1>2, <1>3, StoreType DEF Repaired

-----------------------------------------------------------------------------
(* Every action keeps the types.                                            *)

(* TypeOK, conjunct by conjunct, with the abbreviations of this module.     *)
LEMMA TypeParts ==
  ASSUME TypeInv
  PROVE  /\ mem \in [Addr -> Cell] /\ free \in Frees /\ to \in [Gens -> {0, 1}]
         /\ root \in [1..NRoot -> Kid]
         /\ tolog \in Log /\ fromlog \in Log /\ triage \in Log
         /\ upto \in 0..NGen /\ ri \in 0..(NRoot + 1) /\ stack \in Seq(Frames)
         /\ gray \in [Gens -> 0..MaxObjs] /\ sg \in Gens /\ cg \in LogGens
         /\ rescued \in BOOLEAN /\ back \in {"idle", "roots", "mlog"}
         /\ pc \in {"idle", "roots", "scan", "mlog", "dead"}
         /\ (pc \in {"roots", "scan", "mlog"} => ri >= 1)
BY DEF TypeInv, TypeOK, RootsStarted, Frees, Frames, Kid

(* The converse, for the next state.                                        *)
LEMMA TypeWhole ==
  ASSUME mem' \in [Addr -> Cell], free' \in Frees, to' \in [Gens -> {0, 1}],
         root' \in [1..NRoot -> Kid],
         tolog' \in Log, fromlog' \in Log, triage' \in Log,
         upto' \in 0..NGen, ri' \in 0..(NRoot + 1), stack' \in Seq(Frames),
         gray' \in [Gens -> 0..MaxObjs], sg' \in Gens, cg' \in LogGens,
         rescued' \in BOOLEAN, back' \in {"idle", "roots", "mlog"},
         pc' \in {"idle", "roots", "scan", "mlog", "dead"},
         pc' \in {"roots", "scan", "mlog"} => ri' >= 1
  PROVE  TypeInv'
BY DEF TypeInv, TypeOK, RootsStarted, Frees, Frames, Kid

(* A new object, whichever its identity.                                    *)
LEMMA BlankType ==
  Blank \in Cell /\ \A i \in 0..(MaxObjs + NExt) : [Blank EXCEPT !.id = i] \in Cell
<1>1. NoKids \in [1..NField -> Addr \cup {Nil}]
  BY DEF NoKids
<1>2. Blank \in Cell
  BY <1>1, MaxAgeIsNat DEF Blank, Cell
<1>3. \A i \in 0..(MaxObjs + NExt) : [Blank EXCEPT !.id = i] \in Cell
  BY <1>2 DEF Cell
<1>4. QED
  BY <1>2, <1>3

LEMMA InitType == Init => TypeInv
<1> SUFFICES ASSUME Init PROVE TypeInv
  OBVIOUS
<1>1. mem \in [Addr -> Cell]
  <2>1. \A a \in Ext : a[3] \in 1..NExt
    BY DEF Ext
  <2>2. \A a \in Ext : MaxObjs + a[3] \in 0..(MaxObjs + NExt)
    BY <2>1
  <2>3. QED
    BY <2>2, BlankType DEF Init
<1>2. root \in [1..NRoot -> Addr \cup {Nil}]
  BY DEF Init, Addr, Ext
<1>3. tolog \in Log /\ fromlog \in Log /\ triage \in Log
  BY DEF Init, Log
<1>4. stack \in Seq([obj : Addr, k : 1..NField])
  BY DEF Init
<1>5. /\ free \in [Gens -> [{0, 1} -> 0..MaxObjs]] /\ to \in [Gens -> {0, 1}]
      /\ gray \in [Gens -> 0..MaxObjs]
  BY DEF Init
<1>6. /\ upto \in 0..NGen /\ ri \in 0..(NRoot + 1)
      /\ pc = "idle" /\ back = "idle" /\ cg = 0 /\ sg = 0
  BY DEF Init
<1>7. rescued \in BOOLEAN
  BY DEF Init
<1>8. 0 \in Gens /\ 0 \in LogGens
  BY AddressFacts
<1>9. QED
  BY <1>1, <1>2, <1>3, <1>4, <1>5, <1>6, <1>7, <1>8 DEF TypeInv, TypeOK, RootsStarted

LEMMA NewType ==
  ASSUME TypeInv, NEW r \in 1..NRoot, New(r), UNCHANGED pc
  PROVE  TypeInv'
<1> DEFINE a == <<0, to[0], free[0][to[0]] + 1>>
           i == CHOOSE x \in UnusedIds : \A y \in UnusedIds : x <= y
<1>1. a \in Cells
  BY DEF New
<1>2. a \in Addr /\ 0 \in Gens /\ to[0] \in {0, 1} /\ free[0][to[0]] + 1 \in 1..MaxObjs
  BY <1>1, AddressFacts
<1>3. i \in 0..(MaxObjs + NExt)
  <2>1. UnusedIds \in SUBSET Nat /\ UnusedIds \subseteq 1..MaxObjs
    BY DEF UnusedIds
  <2>2. UnusedIds # {}
    BY DEF New
  <2>3. i \in UnusedIds
    BY <2>1, <2>2, LeastNatural
  <2> HIDE DEF i
  <2>4. QED
    BY <2>1, <2>3
<1>4. mem' \in [Addr -> Cell]
  <2>1. mem' = [mem EXCEPT ![a] = [Blank EXCEPT !.id = i]]
    BY DEF New
  <2> HIDE DEF i, a
  <2>2. QED
    BY <1>2, <1>3, <2>1, BlankType, TypeParts
<1>5. free' \in Frees
  <2> DEFINE n == free[0][to[0]] + 1
             h == to[0]
  <2>1. free' = [free EXCEPT ![0][h] = n] /\ n \in 0..MaxObjs
    BY <1>2 DEF New
  <2>2. free \in Frees /\ h \in {0, 1} /\ 0 \in Gens
    BY <1>2, TypeParts
  <2> HIDE DEF n, h
  <2>3. [free EXCEPT ![0][h] = n] \in Frees
    BY <2>1, <2>2, GrowType, Zenon
  <2>4. QED
    BY <2>1, <2>3, Zenon
<1>6. root' \in [1..NRoot -> Kid]
  <2>1. root' = [root EXCEPT ![r] = a]
    BY DEF New
  <2> HIDE DEF a
  <2>2. QED
    BY <1>2, <2>1, TypeParts DEF Kid
<1>7. UNCHANGED <<to, tolog, fromlog, triage, upto, ri, stack, gray, sg, back, cg, rescued>>
  BY DEF New, logs, scan
<1>8. QED
  BY <1>4, <1>5, <1>6, <1>7, TypeParts, TypeWhole

LEMMA SetRootType ==
  ASSUME TypeInv, NEW r \in 1..NRoot, NEW v \in Kid, SetRoot(r, v), UNCHANGED pc
  PROVE  TypeInv'
<1>1. root' \in [1..NRoot -> Kid]
  BY TypeParts DEF SetRoot
<1>2. UNCHANGED <<mem, free, to, tolog, fromlog, triage, upto, ri, stack, gray, sg, back,
                  cg, rescued>>
  BY DEF SetRoot, logs, scan
<1>3. QED
  BY <1>1, <1>2, TypeParts, TypeWhole

(* An assignment that is logged is of one cell to another, in the log of    *)
(* the child's generation.                                                  *)
LEMMA AssignType ==
  ASSUME TypeInv, NEW p \in Addr, NEW v \in Addr, NEW k \in 1..NField,
         Assign(p, k, v), UNCHANGED pc
  PROVE  TypeInv'
<1>1. mem' \in [Addr -> Cell]
  <2>1. mem' = [mem EXCEPT ![p].kid[k] = v] /\ v \in Kid
    BY DEF Assign, Kid
  <2>2. QED
    BY <2>1, StoreType, TypeParts
<1>2. tolog' \in Log
  <2> DEFINE e == [parent |-> p, k |-> k, snap |-> v]
  <2>1. CASE MustLog(p, v)
    <3>1. p \in Cells /\ v \in Cells /\ v[1] + 1 < NGen
      BY <2>1 DEF MustLog, Loggable, InTo
    <3>2. v[1] \in LogGens
      BY <3>1, AddressFacts DEF Gens, LogGens
    <3>3. e \in LogEntry
      BY <3>1 DEF LogEntry
    <3>4. tolog' = [tolog EXCEPT ![v[1]] = Put(tolog[v[1]], e)]
      BY <2>1 DEF Assign
    <3>5. tolog[v[1]] \in Seq(LogEntry)
      BY <3>2, TypeParts DEF Log
    <3> HIDE DEF e
    <3>6. Put(tolog[v[1]], e) \in Seq(LogEntry)
      BY <3>3, <3>5, PutType
    <3>7. QED
      BY <3>4, <3>6, TypeParts DEF Log
  <2>2. CASE ~MustLog(p, v)
    BY <2>2, TypeParts DEF Assign
  <2>3. QED
    BY <2>1, <2>2
<1>3. UNCHANGED <<free, to, root, fromlog, triage, upto, ri, stack, gray, sg, back, cg, rescued>>
  BY DEF Assign, scan
<1>4. QED
  BY <1>1, <1>2, <1>3, TypeParts, TypeWhole

LEMMA RequestGcType ==
  ASSUME TypeInv, NEW u \in Upto, RequestGc(u)
  PROVE  TypeInv'
<1>1. to' \in [Gens -> {0, 1}]
  BY TypeParts DEF RequestGc
<1>2. tolog' \in Log /\ fromlog' \in Log
  BY TypeParts DEF RequestGc, Log
<1>3. pc' = "roots" /\ upto' \in 0..NGen /\ ri' = 1 /\ 1 \in 0..(NRoot + 1)
  BY DEF RequestGc
<1>4. UNCHANGED <<mem, free, root, triage, stack, gray, sg, back, cg, rescued>>
  BY DEF RequestGc, scan
<1>5. QED
  BY <1>1, <1>2, <1>3, <1>4, TypeParts, TypeWhole

LEMMA CheckpointType ==
  ASSUME TypeInv, Checkpoint
  PROVE  gray' \in [Gens -> 0..MaxObjs]
<1>1. ASSUME NEW g \in Gens
      PROVE  free[g][to[g]] \in 0..MaxObjs /\ gray[g] \in 0..MaxObjs
  <2>1. to[g] \in {0, 1} /\ gray[g] \in 0..MaxObjs /\ free \in Frees
    BY TypeParts
  <2>2. free[g] \in [{0, 1} -> 0..MaxObjs]
    BY <2>1 DEF Frees
  <2>3. QED
    BY <2>1, <2>2
<1>2. QED
  BY <1>1 DEF Checkpoint

LEMMA DeepMoveType ==
  ASSUME TypeInv, NEW a \in Addr, NEW caller, DeepMove(a, caller)
  PROVE  /\ mem' \in [Addr -> Cell] /\ free' \in Frees /\ gray' \in [Gens -> 0..MaxObjs]
         /\ Dest(a) \in Kid /\ pc' = "scan" /\ sg' = 0 /\ back' = caller /\ stack' = stack
<1>1. CanMove(a) /\ Checkpoint /\ mem' = Moved(a) /\ free' = Grown(a)
  BY DEF DeepMove
<1>2. Dest(a) \in Cells /\ Moved(a) \in [Addr -> Cell] /\ Grown(a) \in Frees
  BY <1>1, CopyType DEF TypeInv
<1>3. gray' \in [Gens -> 0..MaxObjs]
  BY <1>1, CheckpointType
<1>4. pc' = "scan" /\ sg' = 0 /\ back' = caller /\ stack' = stack
  BY DEF DeepMove
<1>5. QED
  BY <1>1, <1>2, <1>3, <1>4, AddressFacts DEF Kid

LEMMA CopyRootType ==
  ASSUME TypeInv, CopyRoot
  PROVE  TypeInv'
<1> DEFINE a == root[ri]
<1>1. pc = "roots" /\ ri \in 1..NRoot
  BY TypeParts DEF CopyRoot
<1>2. UNCHANGED <<to, tolog, fromlog, triage, upto, cg, rescued>>
  BY DEF CopyRoot, logs
<1>3. a \in Kid
  BY <1>1, TypeParts
<1>4. CASE a = Nil /\ RootDone /\ UNCHANGED root
  <2>1. ri' = ri + 1 /\ UNCHANGED <<mem, free, pc, stack, gray, sg, back, root>>
    BY <1>4 DEF RootDone, scan
  <2>2. QED
    BY <1>1, <1>2, <2>1, TypeParts, TypeWhole
<1>5. CASE /\ a # Nil /\ InFrom(a) /\ mem[a].fwd # Nil
           /\ root' = [root EXCEPT ![ri] = mem[a].fwd] /\ RootDone
  <2>1. ri' = ri + 1 /\ UNCHANGED <<mem, free, pc, stack, gray, sg, back>>
    BY <1>5 DEF RootDone, scan
  <2>2. mem[a].fwd \in Kid
    <3>1. mem[a] \in Cell
      BY <1>3, <1>5, TypeParts DEF Kid
    <3>2. QED
      BY <3>1, AddressFacts DEF Cell, Kid
  <2>3. root' \in [1..NRoot -> Kid]
    BY <1>5, <2>2, TypeParts
  <2>4. QED
    BY <1>1, <1>2, <2>1, <2>3, TypeParts, TypeWhole
<1>6. CASE /\ a # Nil /\ InFrom(a) /\ mem[a].fwd = Nil
           /\ DeepMove(a, "roots")
           /\ root' = [root EXCEPT ![ri] = Dest(a)] /\ ri' = ri + 1
  <2>1. a \in Addr
    BY <1>3, <1>6 DEF Kid
  <2>2. /\ mem' \in [Addr -> Cell] /\ free' \in Frees /\ gray' \in [Gens -> 0..MaxObjs]
        /\ Dest(a) \in Kid /\ pc' = "scan" /\ sg' = 0 /\ back' = "roots" /\ stack' = stack
    BY <1>6, <2>1, DeepMoveType
  <2>3. root' \in [1..NRoot -> Kid]
    BY <1>6, <2>2, TypeParts
  <2>4. ri' \in 0..(NRoot + 1) /\ ri' >= 1 /\ sg' \in Gens
    BY <1>1, <1>6, <2>2, AddressFacts
  <2>5. QED
    BY <1>2, <2>2, <2>3, <2>4, TypeParts, TypeWhole
<1>7. CASE /\ a # Nil /\ ~InFrom(a)
           /\ Checkpoint /\ stack' = <<Frame(a)>>
           /\ pc' = "scan" /\ sg' = 0 /\ back' = "roots"
           /\ ri' = ri + 1 /\ UNCHANGED <<mem, free, root>>
  <2>1. Frame(a) \in Frames
    BY <1>3, <1>7 DEF Kid, Frame, Frames
  <2>2. stack' \in Seq(Frames)
    BY <1>7, <2>1
  <2>3. gray' \in [Gens -> 0..MaxObjs]
    BY <1>7, CheckpointType
  <2>4. ri' \in 0..(NRoot + 1) /\ ri' >= 1 /\ sg' \in Gens
    BY <1>1, <1>7, AddressFacts
  <2>5. pc' = "scan" /\ back' = "roots" /\ UNCHANGED <<mem, free, root>>
    BY <1>7
  <2>6. QED
    BY <1>2, <2>2, <2>3, <2>4, <2>5, TypeParts, TypeWhole
<1>8. QED
  BY <1>4, <1>5, <1>6, <1>7 DEF CopyRoot

LEMMA RootsDoneType ==
  ASSUME TypeInv, RootsDone
  PROVE  TypeInv'
<1>1. /\ UNCHANGED <<mem, free, to, root, tolog, fromlog, triage, upto, ri, stack, gray, sg, back>>
      /\ pc' = "mlog" /\ pc = "roots" /\ cg' = 0
  BY DEF RootsDone, heap, logs, scan
<1>2. cg' \in LogGens
  BY <1>1, AddressFacts
<1>3. rescued' \in BOOLEAN
  BY DEF RootsDone
<1>4. QED
  BY <1>1, <1>2, <1>3, TypeParts, TypeWhole

(* The visits of a pointer: the null pointer, a pointer outside from-space, *)
(* a forwarded one and one whose object has to be copied.                   *)
LEMMA VisitType ==
  ASSUME TypeInv, Visit
  PROVE  TypeInv'
<1>1. UNCHANGED <<to, root, tolog, fromlog, triage, pc, upto, ri, gray, sg, back, cg, rescued>>
  BY DEF Visit, SkipNull, VisitChildren, FollowForward, MoveChild, OnlyScan, logs
<1>2. Visiting
  BY DEF Visit, SkipNull, VisitChildren, FollowForward, MoveChild
<1>3. Top.obj \in Addr /\ Top.k \in 1..NField /\ Slot \in Kid /\ NextSlot \in Seq(Frames)
  BY <1>2, VisitFacts, NextSlotType DEF TypeInv
<1>4. CASE SkipNull
  BY <1>1, <1>3, <1>4, TypeParts, TypeWhole DEF SkipNull
<1>5. CASE VisitChildren
  <2>1. Frame(Slot) \in Frames
    BY <1>3, <1>5 DEF VisitChildren, Kid, Frame, Frames
  <2>2. stack' \in Seq(Frames)
    BY <1>5, <2>1, TypeParts DEF VisitChildren
  <2>3. UNCHANGED <<mem, free>>
    BY <1>5 DEF VisitChildren
  <2>4. QED
    BY <1>1, <2>2, <2>3, TypeParts, TypeWhole
<1>6. CASE FollowForward
  <2>1. Slot \in Addr /\ UNCHANGED free /\ stack' = NextSlot
    BY <1>3, <1>6 DEF FollowForward, Kid
  <2>2. mem[Slot] \in Cell
    BY <2>1, TypeParts
  <2>3. mem[Slot].fwd \in Kid
    BY <2>2, AddressFacts DEF Cell, Kid
  <2>4. mem' = [mem EXCEPT ![Top.obj].kid[Top.k] = mem[Slot].fwd]
    BY <1>6 DEF FollowForward
  <2>5. mem' \in [Addr -> Cell]
    BY <1>3, <2>3, <2>4, StoreType, TypeParts
  <2>6. QED
    BY <1>1, <1>3, <2>1, <2>5, TypeParts, TypeWhole
<1>7. CASE MoveChild
  <2>1. Slot \in Addr /\ CanMove(Slot) /\ stack' = NextSlot /\ free' = Grown(Slot)
    BY <1>3, <1>7 DEF MoveChild, Kid
  <2>2. Dest(Slot) \in Cells /\ Moved(Slot) \in [Addr -> Cell] /\ Grown(Slot) \in Frees
    BY <2>1, CopyType DEF TypeInv
  <2>3. mem' = [Moved(Slot) EXCEPT ![Top.obj].kid[Top.k] = Dest(Slot)]
    BY <1>7 DEF MoveChild
  <2>4. Dest(Slot) \in Kid
    BY <2>2, AddressFacts DEF Kid
  <2>5. mem' \in [Addr -> Cell]
    BY <1>3, <2>2, <2>3, <2>4, StoreType
  <2>6. QED
    BY <1>1, <1>3, <2>1, <2>2, <2>5, TypeParts, TypeWhole
<1>8. QED
  BY <1>4, <1>5, <1>6, <1>7 DEF Visit

LEMMA ScanGrayType ==
  ASSUME TypeInv, ScanGray
  PROVE  TypeInv'
<1>1. UNCHANGED <<mem, free, to, root, tolog, fromlog, triage, pc, upto, ri, back, cg, rescued>>
  BY DEF ScanGray, FixpointStep, heap, logs
<1>2. PICK g \in Gray(sg..(ScanEnd - 1)) \cup Gray(0..(ScanEnd - 1)) :
             /\ sg' = g /\ gray' = [gray EXCEPT ![g] = @ + 1]
             /\ stack' = <<Frame(<<g, to[g], gray[g] + 1>>)>>
  BY DEF ScanGray, GrayGens
<1>3. g \in Gens /\ gray[g] < free[g][to[g]]
  <2>1. upto \in 0..NGen /\ sg \in Gens
    BY TypeParts
  <2>2. ScanEnd \in 0..NGen
    BY <2>1 DEF ScanEnd
  <2>3. QED
    BY <1>2, <2>1, <2>2 DEF Gray, Gens
<1>4. to[g] \in {0, 1} /\ gray[g] \in 0..MaxObjs /\ free[g][to[g]] \in 0..MaxObjs
  <2>1. to[g] \in {0, 1} /\ gray[g] \in 0..MaxObjs /\ free \in Frees
    BY <1>3, TypeParts
  <2>2. free[g] \in [{0, 1} -> 0..MaxObjs]
    BY <1>3, <2>1 DEF Frees
  <2>3. QED
    BY <2>1, <2>2
<1>5. gray[g] + 1 \in 1..MaxObjs
  BY <1>3, <1>4
<1>6. gray' \in [Gens -> 0..MaxObjs]
  BY <1>2, <1>3, <1>5, TypeParts
<1>7. stack' \in Seq(Frames)
  <2>1. <<g, to[g], gray[g] + 1>> \in Addr
    BY <1>3, <1>4, <1>5, AddressFacts
  <2>2. Frame(<<g, to[g], gray[g] + 1>>) \in Frames
    BY <2>1 DEF Frame, Frames
  <2>3. QED
    BY <1>2, <2>2
<1>8. sg' \in Gens
  BY <1>2, <1>3
<1>9. QED
  BY <1>1, <1>6, <1>7, <1>8, TypeParts, TypeWhole

LEMMA FixpointType ==
  ASSUME TypeInv, Fixpoint
  PROVE  TypeInv'
<1>1. /\ UNCHANGED <<mem, free, to, root, tolog, fromlog, triage, upto, ri, back, cg, rescued, stack>>
      /\ pc = "scan" /\ pc' = back /\ sg' = 0
  BY DEF Fixpoint, FixpointStep, heap, logs
<1>2. gray' \in [Gens -> 0..MaxObjs]
  BY DEF Fixpoint
<1>3. sg' \in Gens
  BY <1>1, AddressFacts
<1>4. QED
  BY <1>1, <1>2, <1>3, TypeParts, TypeWhole

(* A log of the generation being looked at that becomes another log.        *)
LEMMA LogUpdateType ==
  ASSUME NEW log \in Log, NEW g \in LogGens, NEW s \in Seq(LogEntry)
  PROVE  [log EXCEPT ![g] = s] \in Log
BY DEF Log

(* What the actions on one entry of the log have in common.                 *)
LEMMA NextEntryType ==
  ASSUME TypeInv, InLog, NextEntry
  PROVE  /\ fromlog' \in Log
         /\ UNCHANGED <<to, root, upto, ri, cg, pc, free, stack, gray, sg, back>>
<1>1. Tail(fromlog[cg]) \in Seq(LogEntry)
  BY EntryFacts DEF TypeInv
<1>2. fromlog' = [fromlog EXCEPT ![cg] = Tail(fromlog[cg])]
  BY DEF NextEntry
<1>3. fromlog' \in Log
  BY <1>1, <1>2, LogUpdateType, TypeParts
<1>4. QED
  BY <1>3 DEF InLog, NextEntry, scan

LEMMA DropEntryType ==
  ASSUME TypeInv, DropEntry
  PROVE  TypeInv'
<1>1. InLog /\ NextEntry /\ UNCHANGED <<mem, tolog, triage, rescued>>
  BY DEF DropEntry
<1>2. QED
  BY <1>1, NextEntryType, TypeParts, TypeWhole

LEMMA TriageEntryType ==
  ASSUME TypeInv, TriageEntry
  PROVE  TypeInv'
<1>1. /\ InLog /\ NextEntry /\ UNCHANGED <<tolog, rescued>> /\ mem' = Repaired(Entry)
      /\ triage' = [triage EXCEPT ![cg] = Put(triage[cg], Refreshed(Entry))]
  BY DEF TriageEntry
<1>2. mem' \in [Addr -> Cell]
  BY <1>1, RepairedType DEF TypeInv
<1>3. triage' \in Log
  <2>1. triage[cg] \in Seq(LogEntry) /\ Refreshed(Entry) \in LogEntry
    BY <1>1, EntryFacts, TypeParts DEF Log, TypeInv
  <2>2. Put(triage[cg], Refreshed(Entry)) \in Seq(LogEntry)
    BY <2>1, PutType
  <2>3. QED
    BY <1>1, <2>2, LogUpdateType, TypeParts
<1>4. QED
  BY <1>1, <1>2, <1>3, NextEntryType, TypeParts, TypeWhole

LEMMA RescueChildType ==
  ASSUME TypeInv, RescueChild
  PROVE  TypeInv'
<1>1. /\ InLog /\ DeepMove(Entry.snap, "mlog") /\ pc = "mlog"
      /\ UNCHANGED <<to, root, upto, ri, cg, tolog, fromlog, triage>>
  BY DEF RescueChild, InLog, logs
<1>2. Entry.snap \in Addr
  BY <1>1, EntryFacts, AddressFacts DEF TypeInv, LogEntry
<1>3. /\ mem' \in [Addr -> Cell] /\ free' \in Frees /\ gray' \in [Gens -> 0..MaxObjs]
      /\ pc' = "scan" /\ sg' = 0 /\ back' = "mlog" /\ stack' = stack
  BY <1>1, <1>2, DeepMoveType
<1>4. sg' \in Gens
  BY <1>3, AddressFacts
<1>5. rescued' \in BOOLEAN
  BY DEF RescueChild
<1>6. QED
  BY <1>1, <1>3, <1>4, <1>5, TypeParts, TypeWhole

LEMMA KeepEntryType ==
  ASSUME TypeInv, KeepEntry
  PROVE  TypeInv'
<1> DEFINE e == Refreshed(Entry)
<1>1. /\ InLog /\ NextEntry /\ UNCHANGED triage /\ mem' = Repaired(Entry)
      /\ tolog' = IF KeepsEntry(e) THEN [tolog EXCEPT ![cg] = Put(tolog[cg], e)] ELSE tolog
  BY DEF KeepEntry
<1>2. rescued' \in BOOLEAN
  BY DEF KeepEntry
<1>3. mem' \in [Addr -> Cell]
  BY <1>1, RepairedType DEF TypeInv
<1>4. tolog' \in Log
  <2>1. tolog[cg] \in Seq(LogEntry) /\ e \in LogEntry
    BY <1>1, EntryFacts, TypeParts DEF Log, TypeInv
  <2> HIDE DEF e
  <2>2. Put(tolog[cg], e) \in Seq(LogEntry)
    BY <2>1, PutType
  <2>3. [tolog EXCEPT ![cg] = Put(tolog[cg], e)] \in Log
    BY <2>2, LogUpdateType, TypeParts
  <2>4. QED
    BY <1>1, <2>3, TypeParts
<1>5. QED
  BY <1>1, <1>2, <1>3, <1>4, NextEntryType, TypeParts, TypeWhole

LEMMA NextLogType ==
  ASSUME TypeInv, NextLog
  PROVE  TypeInv'
<1>1. /\ pc = "mlog" /\ RotateLogs
      /\ UNCHANGED <<mem, free, to, root, tolog, pc, upto, ri, stack, gray, sg, back>>
  BY DEF NextLog, LogDone, heap, scan
<1>2. fromlog' \in Log /\ triage' \in Log
  <2>1. triage[cg] \in Seq(LogEntry) /\ <<>> \in Seq(LogEntry)
    BY TypeParts DEF Log
  <2>2. QED
    BY <1>1, <2>1, LogUpdateType, TypeParts DEF RotateLogs
<1>3. cg' \in LogGens
  <2>1. CASE cg + 2 # NGen /\ cg' = cg + 1
    BY <2>1, TypeParts DEF LogGens
  <2>2. CASE cg' = 0
    BY <2>2, AddressFacts
  <2>3. QED
    BY <2>1, <2>2 DEF NextLog, LastLog
<1>4. rescued' \in BOOLEAN
  BY TypeParts DEF NextLog
<1>5. QED
  BY <1>1, <1>2, <1>3, <1>4, TypeParts, TypeWhole

LEMMA CleanupType ==
  ASSUME TypeInv, Cleanup
  PROVE  TypeInv'
<1>1. /\ fromlog' = [fromlog EXCEPT ![cg] = triage[cg]]
      /\ triage' = [g \in LogGens |-> IF g = cg \/ g + 2 < NGen THEN <<>> ELSE triage[g]]
      /\ free' = Emptied /\ mem' = IF Sanitize THEN Scrubbed ELSE mem
      /\ pc' = "idle" /\ upto' = 0 /\ ri' = 0 /\ back' = "idle" /\ cg' = 0
      /\ UNCHANGED <<to, root, tolog, stack, gray, sg, rescued>>
  BY DEF Cleanup
<1>2. fromlog' \in Log /\ triage' \in Log
  <2>1. triage[cg] \in Seq(LogEntry) /\ <<>> \in Seq(LogEntry)
    BY TypeParts DEF Log
  <2>2. fromlog' \in Log
    BY <1>1, <2>1, LogUpdateType, TypeParts
  <2>3. triage' \in Log
    BY <1>1, <2>1, TypeParts DEF Log
  <2>4. QED
    BY <2>2, <2>3
<1>3. free' \in Frees
  <2>1. ASSUME NEW g \in Gens
        PROVE  [free[g] EXCEPT ![1 - to[g]] = 0] \in [{0, 1} -> 0..MaxObjs]
    <3>1. free[g] \in [{0, 1} -> 0..MaxObjs]
      BY TypeParts DEF Frees
    <3>2. to[g] \in {0, 1} /\ 1 - to[g] \in {0, 1} /\ 0 \in 0..MaxObjs
      BY TypeParts
    <3>3. QED
      BY <3>1, <3>2
  <2>2. \A g \in Gens : free[g] \in [{0, 1} -> 0..MaxObjs]
    BY TypeParts DEF Frees
  <2>3. QED
    BY <1>1, <2>1, <2>2 DEF Emptied, Frees
<1>4. mem' \in [Addr -> Cell]
  BY <1>1, BlankType, TypeParts DEF Scrubbed
<1>5. 0 \in 0..NGen /\ 0 \in 0..(NRoot + 1) /\ 0 \in LogGens
  BY AddressFacts
<1>6. QED
  BY <1>1, <1>2, <1>3, <1>4, <1>5, TypeParts, TypeWhole

LEMMA CrashType ==
  ASSUME TypeInv, Crash
  PROVE  TypeInv'
<1>1. /\ UNCHANGED <<mem, free, to, root, tolog, fromlog, triage, upto, ri, stack, gray, sg, back,
                    cg, rescued>>
      /\ pc' = "dead"
  BY DEF Crash, heap, logs, scan
<1>2. QED
  BY <1>1, TypeParts, TypeWhole

LEMMA MutateType ==
  ASSUME TypeInv, Mutate
  PROVE  TypeInv'
<1>1. Reachable \subseteq Addr
  BY DEF Reachable, Reached
<1>2. CASE \E r \in (NExt + 1)..NRoot : New(r)
  <2>1. PICK r \in 1..NRoot : New(r)
    BY <1>2
  <2>2. UNCHANGED pc
    BY <2>1 DEF New
  <2>3. QED
    BY <2>1, <2>2, NewType
<1>3. CASE \E r \in (NExt + 1)..NRoot, v \in Reachable \cup {Nil} : SetRoot(r, v)
  <2>1. PICK r \in 1..NRoot, v \in Kid : SetRoot(r, v)
    BY <1>1, <1>3 DEF Kid
  <2>2. UNCHANGED pc
    BY <2>1 DEF SetRoot
  <2>3. QED
    BY <2>1, <2>2, SetRootType
<1>4. CASE \E p, v \in Reachable, k \in 1..NField : Assign(p, k, v)
  <2>1. PICK p \in Addr, v \in Addr, k \in 1..NField : Assign(p, k, v)
    BY <1>1, <1>4
  <2>2. UNCHANGED pc
    BY <2>1 DEF Assign
  <2>3. QED
    BY <2>1, <2>2, AssignType
<1>5. CASE \E u \in Upto : RequestGc(u)
  BY <1>5, RequestGcType
<1>6. QED
  BY <1>2, <1>3, <1>4, <1>5 DEF Mutate

(* Every step of the client and of a collection keeps the types.            *)
LEMMA NextType ==
  ASSUME TypeInv, Next
  PROVE  TypeInv'
<1>1. CASE Mutate
  BY <1>1, MutateType
<1>2. CASE CopyRoot \/ RootsDone \/ Visit \/ ScanGray \/ Fixpoint
  BY <1>2, CopyRootType, RootsDoneType, VisitType, ScanGrayType, FixpointType
<1>3. CASE DropEntry \/ TriageEntry \/ RescueChild \/ KeepEntry
  BY <1>3, DropEntryType, TriageEntryType, RescueChildType, KeepEntryType
<1>4. CASE NextLog \/ Cleanup \/ Crash
  BY <1>4, NextLogType, CleanupType, CrashType
<1>5. QED
  BY <1>1, <1>2, <1>3, <1>4 DEF Next, Collect

(* Every variable keeps its type, and a collection that copies anything has *)
(* a root to go on with, whatever the client does.                          *)
THEOREM TypeCorrect == Spec => []TypeInv
<1>1. Init => TypeInv
  BY InitType
<1>2. TypeInv /\ [Next]_vars => TypeInv'
  <2> SUFFICES ASSUME TypeInv, [Next]_vars PROVE TypeInv'
    OBVIOUS
  <2>1. CASE Next
    BY <2>1, NextType
  <2>2. CASE UNCHANGED vars
    BY <2>2, TypeParts, TypeWhole DEF vars, heap, logs, scan
  <2>3. QED
    BY <2>1, <2>2
<1>3. QED
  BY <1>1, <1>2, PTL DEF Spec

-----------------------------------------------------------------------------
(* Ages and generations.                                                    *)

(* An object that was there and is not disturbed, or that is new and in the *)
(* generation of its age.                                                   *)
LEMMA CopyAge ==
  ASSUME TypeInv, AgeGeneration, NEW a \in Addr, CanMove(a),
         NEW b \in Cells, b[3] <= Grown(a)[b[1]][b[2]]
  PROVE  Age2Gen(Moved(a)[b].age) = b[1]
<1> DEFINE d == Dest(a)
           copy == [mem[a] EXCEPT !.age = Older(mem[a].age)]
           m == [mem EXCEPT ![d] = copy]
<1>1. d \in Cells /\ mem \in [Addr -> Cell] /\ free \in Frees
  BY CopyType, TypeParts DEF TypeInv
<1>2. b \in Addr /\ d \in Addr /\ b[1] \in Gens /\ b[2] \in {0, 1} /\ b[3] \in 1..MaxObjs
  BY <1>1, AddressFacts
<1>3. mem[a] \in Cell /\ mem[b] \in Cell
  BY <1>1, <1>2
<1>4. copy \in Cell /\ copy.age = Older(mem[a].age)
  <2>1. Older(mem[a].age) \in 0..MaxAge
    BY <1>3, AgeFacts DEF Cell
  <2>2. QED
    BY <1>3, <2>1 DEF Cell
<1>5. Age2Gen(copy.age) = d[1]
  BY <1>4 DEF Dest
<1>6. Moved(a)[b].age = m[b].age
  <2>1. m \in [Addr -> Cell]
    <3> HIDE DEF d, copy
    <3>1. QED
      BY <1>1, <1>2, <1>4
  <2>2. Moved(a) = [m EXCEPT ![a].fwd = d]
    BY DEF Moved
  <2> HIDE DEF m, d
  <2>3. QED
    BY <1>2, <2>1, <2>2 DEF Cell
<1>7. CASE b = d
  <2>1. m[b] = copy
    BY <1>1, <1>2, <1>7
  <2>2. QED
    BY <1>5, <1>6, <1>7, <2>1
<1>8. CASE b # d
  <2>1. m[b] = mem[b]
    BY <1>1, <1>2, <1>8
  <2>2. Allocated(b)
    <3>1. d[1] \in Gens /\ d[2] \in {0, 1} /\ d = <<d[1], d[2], d[3]>>
      BY <1>1, AddressFacts
    <3>2. Grown(a) = [free EXCEPT ![d[1]][d[2]] = free[d[1]][d[2]] + 1]
      BY DEF Grown
    <3>3. d[3] = free[d[1]][d[2]] + 1
      BY DEF Dest
    <3>4. b = <<b[1], b[2], b[3]>>
      BY AddressFacts
    <3> HIDE DEF d
    <3>5. free[b[1]] \in [{0, 1} -> 0..MaxObjs] /\ free[b[1]][b[2]] \in 0..MaxObjs
      BY <1>1, <1>2 DEF Frees
    <3>6. CASE b[1] = d[1] /\ b[2] = d[2]
      <4>1. b[3] <= free[b[1]][b[2]] + 1
        BY <3>1, <3>2, <3>5, <3>6, <1>1 DEF Frees
      <4>2. b[3] # d[3]
        BY <3>1, <3>4, <3>6, <1>8
      <4>3. QED
        BY <4>1, <4>2, <3>3, <3>5, <3>6, <1>2 DEF Allocated
    <3>7. CASE ~(b[1] = d[1] /\ b[2] = d[2])
      <4>1. Grown(a)[b[1]][b[2]] = free[b[1]][b[2]]
        BY <3>1, <3>2, <3>5, <3>7, <1>1, <1>2 DEF Frees
      <4>2. QED
        BY <4>1 DEF Allocated
    <3>8. QED
      BY <3>6, <3>7
  <2>3. QED
    BY <1>6, <2>1, <2>2 DEF AgeGeneration
<1>9. QED
  BY <1>7, <1>8

(* Storing a pointer changes no age.                                        *)
LEMMA StoreAge ==
  ASSUME NEW m \in [Addr -> Cell], NEW p \in Addr, NEW k \in 1..NField, NEW v,
         NEW b \in Addr
  PROVE  [m EXCEPT ![p].kid[k] = v][b].age = m[b].age
<1>1. m[b] \in Cell /\ m[p] \in Cell
  OBVIOUS
<1>2. QED
  BY <1>1 DEF Cell

(* Ages and cells that stay are in the same generation.                     *)
LEMMA SameAge ==
  ASSUME AgeGeneration, UNCHANGED free, \A b \in Cells : mem'[b].age = mem[b].age
  PROVE  AgeGeneration'
BY AddressFacts DEF AgeGeneration, Allocated

(* A copy in the halves that have grown.                                    *)
LEMMA DeepMoveAge ==
  ASSUME TypeInv, AgeGeneration, NEW a \in Addr, CanMove(a), free' = Grown(a),
         \A b \in Cells : mem'[b].age = Moved(a)[b].age
  PROVE  AgeGeneration'
<1>1. \A b \in Cells : Allocated(b)' => b[3] <= Grown(a)[b[1]][b[2]]
  BY AddressFacts DEF Allocated
<1>2. QED
  BY <1>1, CopyAge DEF AgeGeneration

LEMMA NewAge ==
  ASSUME TypeInv, AgeGeneration, NEW r \in 1..NRoot, New(r)
  PROVE  AgeGeneration'
<1> DEFINE a == <<0, to[0], free[0][to[0]] + 1>>
           blank == [Blank EXCEPT !.id = CHOOSE i \in UnusedIds : \A j \in UnusedIds : i <= j]
<1>1. a \in Cells /\ mem' = [mem EXCEPT ![a] = blank]
      /\ free' = [free EXCEPT ![0][to[0]] = free[0][to[0]] + 1]
  BY DEF New
<1>2. blank.age = 0 /\ a[1] = 0
  BY DEF Blank
<1>3. mem \in [Addr -> Cell] /\ free \in Frees /\ 0 \in Gens /\ to[0] \in {0, 1}
  BY TypeParts, AddressFacts
<1> HIDE DEF blank
<1>4. ASSUME NEW b \in Cells, Allocated(b)'
      PROVE  Age2Gen(mem'[b].age) = b[1]
  <2>1. b \in Addr /\ b[1] \in Gens /\ b[2] \in {0, 1} /\ b[3] \in 1..MaxObjs
        /\ b = <<b[1], b[2], b[3]>> /\ b[3] <= free'[b[1]][b[2]]
    BY <1>4, AddressFacts DEF Allocated
  <2>2. CASE b = a
    BY <1>1, <1>2, <1>3, <2>1, <2>2, AgeFacts
  <2>3. CASE b # a
    <3>1. mem'[b] = mem[b]
      <4> HIDE DEF a
      <4>1. QED
        BY <1>1, <1>3, <2>1, <2>3
    <3>2. free[b[1]] \in [{0, 1} -> 0..MaxObjs] /\ free[b[1]][b[2]] \in 0..MaxObjs
      BY <1>3, <2>1 DEF Frees
    <3>3. CASE b[1] = 0 /\ b[2] = to[0]
      <4>1. b[3] <= free[b[1]][b[2]] + 1
        BY <1>1, <1>3, <2>1, <3>2, <3>3 DEF Frees
      <4>2. b[3] # free[b[1]][b[2]] + 1
        BY <2>1, <2>3, <3>3
      <4>3. b[3] <= free[b[1]][b[2]]
        BY <2>1, <3>2, <4>1, <4>2
      <4>4. QED
        BY <3>1, <4>3 DEF AgeGeneration, Allocated
    <3>4. CASE ~(b[1] = 0 /\ b[2] = to[0])
      <4>1. free'[b[1]][b[2]] = free[b[1]][b[2]]
        BY <1>1, <1>3, <2>1, <3>4 DEF Frees
      <4>2. QED
        BY <2>1, <3>1, <4>1 DEF AgeGeneration, Allocated
    <3>5. QED
      BY <3>3, <3>4
  <2>4. QED
    BY <2>2, <2>3
<1>5. QED
  BY <1>4 DEF AgeGeneration

LEMMA CleanupAge ==
  ASSUME TypeInv, AgeGeneration, Cleanup
  PROVE  AgeGeneration'
<1>1. free' = Emptied /\ mem' = IF Sanitize THEN Scrubbed ELSE mem
  BY DEF Cleanup
<1>2. ASSUME NEW b \in Cells, Allocated(b)'
      PROVE  Age2Gen(mem'[b].age) = b[1]
  <2>1. b \in Addr /\ b \notin Ext /\ b[1] \in Gens /\ b[2] \in {0, 1} /\ b[3] \in 1..MaxObjs
    BY AddressFacts
  <2>2. /\ to[b[1]] \in {0, 1} /\ upto \in 0..NGen
        /\ free[b[1]] \in [{0, 1} -> 0..MaxObjs]
    BY <2>1, TypeParts DEF Frees
  <2>3. b[3] <= Emptied[b[1]][b[2]]
    BY <1>1, <1>2, <2>1 DEF Allocated
  <2>4. Emptied[b[1]] = IF b[1] < upto THEN [free[b[1]] EXCEPT ![1 - to[b[1]]] = 0]
                                      ELSE free[b[1]]
    BY <2>1 DEF Emptied
  <2>5. ~(InFrom(b) /\ b[1] < upto)
    <3> SUFFICES ASSUME b[2] # to[b[1]], b[1] < upto PROVE FALSE
      BY DEF InFrom
    <3>1. b[2] = 1 - to[b[1]]
      BY <2>1, <2>2
    <3>2. Emptied[b[1]][b[2]] = 0
      BY <2>1, <2>2, <2>4, <3>1
    <3>3. QED
      BY <2>1, <2>3, <3>2
  <2>6. Emptied[b[1]][b[2]] = free[b[1]][b[2]]
    <3>1. CASE b[1] < upto
      <4>1. b[2] = to[b[1]] /\ b[2] # 1 - to[b[1]]
        BY <2>1, <2>2, <2>5, <3>1 DEF InFrom
      <4>2. QED
        BY <2>1, <2>2, <2>4, <3>1, <4>1
    <3>2. CASE ~(b[1] < upto)
      BY <2>4, <3>2
    <3>3. QED
      BY <3>1, <3>2
  <2>7. mem'[b] = mem[b]
    BY <1>1, <2>1, <2>5 DEF Scrubbed
  <2>8. QED
    BY <2>1, <2>3, <2>6, <2>7 DEF AgeGeneration, Allocated
<1>3. QED
  BY <1>2 DEF AgeGeneration

LEMMA NextAge ==
  ASSUME TypeInv, AgeGeneration, Next
  PROVE  AgeGeneration'
<1> DEFINE AgesSame == \A b \in Cells : mem'[b].age = mem[b].age
<1>0. mem \in [Addr -> Cell] /\ Cells \subseteq Addr
  BY TypeParts, AddressFacts
<1>1. CASE UNCHANGED <<mem, free>>
  BY <1>1, SameAge
<1>2. CASE \E r \in (NExt + 1)..NRoot : New(r)
  BY <1>2, NewAge
<1>3. CASE \E p, v \in Reachable, k \in 1..NField : Assign(p, k, v)
  <2>1. PICK p \in Addr, v \in Addr, k \in 1..NField : Assign(p, k, v)
    BY <1>3 DEF Reachable, Reached
  <2>2. mem' = [mem EXCEPT ![p].kid[k] = v] /\ UNCHANGED free
    BY <2>1 DEF Assign
  <2>3. AgesSame
    BY <1>0, <2>2, StoreAge
  <2>4. QED
    BY <2>2, <2>3, SameAge
<1>4. CASE FollowForward
  <2>1. /\ mem' = [mem EXCEPT ![Top.obj].kid[Top.k] = mem[Slot].fwd] /\ UNCHANGED free
        /\ Visiting
    BY <1>4 DEF FollowForward
  <2>2. Top.obj \in Addr /\ Top.k \in 1..NField
    BY <2>1, VisitFacts DEF TypeInv
  <2>3. AgesSame
    BY <1>0, <2>1, <2>2, StoreAge
  <2>4. QED
    BY <2>1, <2>3, SameAge
<1>5. CASE TriageEntry \/ KeepEntry
  <2>1. InLog /\ mem' = Repaired(Entry) /\ UNCHANGED free
    BY <1>5 DEF TriageEntry, KeepEntry, NextEntry
  <2>2. Now(Entry.parent) \in Addr /\ Entry.k \in 1..NField
    BY <2>1, EntryFacts, AddressFacts DEF TypeInv, Refreshed, LogEntry
  <2>3. AgesSame
    BY <1>0, <2>1, <2>2, StoreAge DEF Repaired
  <2>4. QED
    BY <2>1, <2>3, SameAge
<1>6. CASE \E a \in Addr, caller \in {"roots", "mlog"} : DeepMove(a, caller)
  BY <1>6, DeepMoveAge DEF DeepMove
<1>7. CASE MoveChild
  <2>1. /\ Visiting /\ Slot # Nil /\ CanMove(Slot) /\ free' = Grown(Slot)
        /\ mem' = [Moved(Slot) EXCEPT ![Top.obj].kid[Top.k] = Dest(Slot)]
    BY <1>7 DEF MoveChild
  <2>2. Top.obj \in Addr /\ Top.k \in 1..NField /\ Slot \in Addr
    BY <2>1, VisitFacts DEF TypeInv, Kid
  <2>3. Moved(Slot) \in [Addr -> Cell]
    BY <2>1, <2>2, CopyType DEF TypeInv
  <2>4. \A b \in Cells : mem'[b].age = Moved(Slot)[b].age
    BY <1>0, <2>1, <2>2, <2>3, StoreAge
  <2>5. QED
    BY <2>1, <2>2, <2>4, DeepMoveAge
<1>8. CASE Cleanup
  BY <1>8, CleanupAge
<1>9. CASE Mutate
  <2>1. CASE \E r \in (NExt + 1)..NRoot, v \in Reachable \cup {Nil} : SetRoot(r, v)
    BY <1>1, <2>1 DEF SetRoot
  <2>2. CASE \E u \in Upto : RequestGc(u)
    BY <1>1, <2>2 DEF RequestGc
  <2>3. QED
    BY <1>2, <1>3, <1>9, <2>1, <2>2 DEF Mutate
<1>10. CASE CopyRoot
  <2>1. CASE UNCHANGED <<mem, free>>
    BY <1>1, <2>1
  <2>2. CASE /\ root[ri] # Nil /\ DeepMove(root[ri], "roots")
    <3>1. ri \in 1..NRoot
      BY <1>10, TypeParts DEF CopyRoot
    <3>2. root[ri] \in Addr
      BY <2>2, <3>1, TypeParts DEF Kid
    <3>3. QED
      BY <1>6, <2>2, <3>2
  <2>3. QED
    BY <1>10, <2>1, <2>2 DEF CopyRoot, RootDone
<1>11. CASE RescueChild
  <2>1. InLog /\ DeepMove(Entry.snap, "mlog")
    BY <1>11 DEF RescueChild
  <2>2. Entry.snap \in Addr
    BY <2>1, EntryFacts, AddressFacts DEF TypeInv, LogEntry
  <2>3. QED
    BY <1>6, <2>1, <2>2
<1>12. CASE RootsDone \/ SkipNull \/ VisitChildren \/ ScanGray \/ Fixpoint
  BY <1>1, <1>12 DEF RootsDone, SkipNull, VisitChildren, ScanGray, Fixpoint, FixpointStep, heap
<1>13. CASE DropEntry \/ NextLog \/ Crash
  BY <1>1, <1>13 DEF DropEntry, NextEntry, NextLog, Crash, heap
<1>14. QED
  BY <1>4, <1>5, <1>7, <1>8, <1>9, <1>10, <1>11, <1>12, <1>13 DEF Next, Collect, Visit

(* Every object, in to-space or not, is in the generation of its age: what  *)
(* _verify_aux counts as n_age_ok_, for every threshold and generation.     *)
THEOREM AgeCorrect == Spec => []AgeGeneration
<1>1. Init => AgeGeneration
  <2> SUFFICES ASSUME Init, NEW a \in Cells, Allocated(a) PROVE FALSE
    BY DEF AgeGeneration
  <2>1. a[1] \in Gens /\ a[2] \in {0, 1} /\ a[3] \in 1..MaxObjs /\ a \notin Ext
    BY AddressFacts
  <2>2. free[a[1]][a[2]] = 0
    BY <2>1 DEF Init
  <2>3. QED
    BY <2>1, <2>2 DEF Allocated
<1>2. TypeInv /\ AgeGeneration /\ [Next]_vars => AgeGeneration'
  <2> SUFFICES ASSUME TypeInv, AgeGeneration, [Next]_vars PROVE AgeGeneration'
    OBVIOUS
  <2>1. CASE Next
    BY <2>1, NextAge
  <2>2. CASE UNCHANGED vars
    BY <2>2, SameAge DEF vars, heap
  <2>3. QED
    BY <2>1, <2>2
<1>3. QED
  BY <1>1, <1>2, TypeCorrect, PTL DEF Spec

-----------------------------------------------------------------------------
(* Copies: where an object is, and that it is in one place. *)

(* What is not collected has nothing in from-space, and nothing has between *)
(* collections.                                                             *)
FromEmpty == \A g \in Gens : g >= upto => free[g][1 - to[g]] = 0
Phases == /\ pc = "idle" => upto = 0
          /\ pc = "scan" => back \in {"roots", "mlog"}
ExtStays == \A a \in Ext : mem[a].fwd = Nil
UniqueIds == \A a, b \in Objects : mem[a].id = mem[b].id => a = b
CopyInv == FromEmpty /\ Phases /\ ExtStays /\ ForwardsToCopy /\ UniqueIds

(* What a step does to the identities and the forwarding of objects: it     *)
(* changes pointers at most, or it copies an object.                        *)
KidsOnly ==
  /\ UNCHANGED <<free, to>>
  /\ \A b \in Addr : mem'[b].id = mem[b].id /\ mem'[b].fwd = mem[b].fwd
Copies(a) ==
  /\ InFrom(a) /\ CanMove(a) /\ free' = Grown(a) /\ UNCHANGED to
  /\ \A b \in Addr :
       /\ mem'[b].id = IF b = Dest(a) THEN mem[a].id ELSE mem[b].id
       /\ mem'[b].fwd = IF b = Dest(a) THEN Nil ELSE IF b = a THEN Dest(a) ELSE mem[b].fwd
SameHeap == UNCHANGED <<mem, free, to>>
SamePhase == UNCHANGED upto /\ Phases'

(* The cell of a copy was free, and is the one that its half gains.         *)
LEMMA DestFacts ==
  ASSUME TypeInv, NEW a \in Addr, CanMove(a)
  PROVE  /\ Dest(a) \in Cells /\ InTo(Dest(a)) /\ ~Allocated(Dest(a)) /\ Dest(a) # a
         /\ \A b \in Addr :
              (b \in Ext \/ b[3] <= Grown(a)[b[1]][b[2]]) <=> Allocated(b) \/ b = Dest(a)
<1> DEFINE d == Dest(a)
<1>1. d \in Cells /\ free \in Frees /\ to \in [Gens -> {0, 1}]
  BY TypeParts DEF CanMove
<1>2. /\ d[1] \in Gens /\ d[2] \in {0, 1} /\ d[3] \in 1..MaxObjs /\ d \notin Ext
      /\ d = <<d[1], d[2], d[3]>>
  BY <1>1, AddressFacts
<1>3. d[2] = to[d[1]] /\ d[3] = free[d[1]][d[2]] + 1
  BY DEF Dest
<1>4. Grown(a) = [free EXCEPT ![d[1]][d[2]] = free[d[1]][d[2]] + 1]
  BY DEF Grown
<1>5. InTo(d)
  BY <1>1, <1>3 DEF InTo
<1>6. free[d[1]] \in [{0, 1} -> 0..MaxObjs] /\ free[d[1]][d[2]] \in 0..MaxObjs
  BY <1>1, <1>2 DEF Frees
<1>7. ~Allocated(d)
  BY <1>2, <1>3, <1>6 DEF Allocated
<1>8. d # a
  BY <1>7 DEF CanMove
<1> HIDE DEF d
<1>9. ASSUME NEW b \in Addr
      PROVE  (b \in Ext \/ b[3] <= Grown(a)[b[1]][b[2]]) <=> Allocated(b) \/ b = d
  <2>1. CASE b \in Ext
    BY <2>1 DEF Allocated
  <2>2. CASE b \in Cells
    <3>1. /\ b[1] \in Gens /\ b[2] \in {0, 1} /\ b[3] \in 1..MaxObjs /\ b \notin Ext
          /\ b = <<b[1], b[2], b[3]>>
      BY <2>2, AddressFacts
    <3>2. free[b[1]] \in [{0, 1} -> 0..MaxObjs] /\ free[b[1]][b[2]] \in 0..MaxObjs
      BY <1>1, <3>1 DEF Frees
    <3>3. CASE b[1] = d[1] /\ b[2] = d[2]
      <4>1. Grown(a)[b[1]][b[2]] = free[b[1]][b[2]] + 1
        BY <1>1, <1>2, <1>4, <3>2, <3>3 DEF Frees
      <4>2. b = d <=> b[3] = free[b[1]][b[2]] + 1
        BY <1>2, <1>3, <3>1, <3>3
      <4>3. QED
        BY <3>1, <3>2, <4>1, <4>2 DEF Allocated
    <3>4. CASE ~(b[1] = d[1] /\ b[2] = d[2])
      <4>1. Grown(a)[b[1]][b[2]] = free[b[1]][b[2]]
        BY <1>1, <1>2, <1>4, <3>1, <3>2, <3>4 DEF Frees
      <4>2. QED
        BY <3>1, <3>4, <4>1 DEF Allocated
    <3>5. QED
      BY <3>3, <3>4
  <2>3. QED
    BY <2>1, <2>2 DEF Addr
<1>10. QED
  BY <1>1, <1>5, <1>7, <1>8, <1>9 DEF d

(* What copying writes, pointers aside.                                     *)
LEMMA MovedFacts ==
  ASSUME TypeInv, NEW a \in Addr, CanMove(a)
  PROVE  /\ Moved(a) \in [Addr -> Cell]
         /\ \A b \in Addr :
              /\ Moved(a)[b].id = IF b = Dest(a) THEN mem[a].id ELSE mem[b].id
              /\ Moved(a)[b].fwd = IF b = Dest(a) THEN Nil
                                   ELSE IF b = a THEN Dest(a) ELSE mem[b].fwd
              /\ Moved(a)[b].kid = IF b = Dest(a) THEN mem[a].kid ELSE mem[b].kid
              /\ Moved(a)[b].age = IF b = Dest(a) THEN Older(mem[a].age) ELSE mem[b].age
<1> DEFINE d == Dest(a)
           copy == [mem[a] EXCEPT !.age = Older(mem[a].age)]
           m == [mem EXCEPT ![d] = copy]
<1>1. /\ Moved(a) \in [Addr -> Cell] /\ d \in Addr /\ mem \in [Addr -> Cell] /\ d # a
      /\ mem[a].fwd = Nil
  BY CopyType, TypeParts, DestFacts, AddressFacts DEF TypeInv, CanMove
<1>2. Moved(a) = [m EXCEPT ![a].fwd = d]
  BY DEF Moved
<1>3. mem[a] \in Cell
  BY <1>1
<1>4. /\ copy.id = mem[a].id /\ copy.fwd = Nil /\ copy.kid = mem[a].kid
      /\ copy.age = Older(mem[a].age)
  BY <1>1, <1>3 DEF Cell
<1> HIDE DEF d, copy
<1>5. \A b \in Addr : m[b] = IF b = d THEN copy ELSE mem[b]
  BY <1>1
<1>6. DOMAIN m = Addr
  BY <1>1
<1> HIDE DEF m
<1>7. \A b \in Addr : Moved(a)[b] = IF b = a THEN [m[a] EXCEPT !.fwd = d] ELSE m[b]
  BY <1>2, <1>6
<1>8. m[a] = mem[a]
  BY <1>1, <1>5
<1>9. /\ Moved(a)[a].id = mem[a].id /\ Moved(a)[a].fwd = d /\ Moved(a)[a].kid = mem[a].kid
      /\ Moved(a)[a].age = mem[a].age
  BY <1>3, <1>7, <1>8 DEF Cell
<1>10. QED
  BY <1>1, <1>4, <1>5, <1>7, <1>9 DEF d

(* Storing a pointer changes no identity, no forwarding, no other pointer.  *)
LEMMA StoreFacts ==
  ASSUME NEW m \in [Addr -> Cell], NEW p \in Addr, NEW k \in 1..NField, NEW v, NEW b \in Addr
  PROVE  /\ [m EXCEPT ![p].kid[k] = v][b].id = m[b].id
         /\ [m EXCEPT ![p].kid[k] = v][b].fwd = m[b].fwd
         /\ [m EXCEPT ![p].kid[k] = v][b].age = m[b].age
         /\ \A j \in 1..NField :
              [m EXCEPT ![p].kid[k] = v][b].kid[j] =
                IF b = p /\ j = k THEN v ELSE m[b].kid[j]
<1>1. m[b] \in Cell /\ m[p] \in Cell
  OBVIOUS
<1>2. m[p].kid \in [1..NField -> Kid]
  BY <1>1 DEF Cell, Kid
<1>3. QED
  BY <1>1, <1>2 DEF Cell

LEMMA DeepMoveCopies ==
  ASSUME TypeInv, NEW a \in Addr, InFrom(a), NEW caller, DeepMove(a, caller), UNCHANGED to
  PROVE  Copies(a)
BY MovedFacts DEF DeepMove, Copies

(* Every step changes pointers at most, copies one object, makes one, swaps *)
(* the halves, or empties from-space.                                       *)
LEMMA StepEffect ==
  ASSUME TypeInv, Phases, [Next]_vars
  PROVE  \/ KidsOnly /\ SamePhase
         \/ (\E a \in Addr : Copies(a)) /\ SamePhase
         \/ (\E r \in 1..NRoot : New(r)) /\ SamePhase /\ pc = "idle"
         \/ (\E u \in Upto : RequestGc(u)) /\ pc = "idle" /\ Phases'
         \/ Cleanup /\ Phases'
<1>0. mem \in [Addr -> Cell] /\ Cells \subseteq Addr
  BY TypeParts, AddressFacts
<1>1. CASE UNCHANGED vars
  BY <1>1 DEF vars, heap, logs, scan, KidsOnly, SamePhase, Phases
<1>2. CASE \E r \in (NExt + 1)..NRoot : New(r) /\ pc = "idle"
  <2>1. PICK r \in 1..NRoot : New(r)
    BY <1>2
  <2>2. UNCHANGED <<pc, upto, back>>
    BY <2>1 DEF New, scan
  <2>3. QED
    BY <1>2, <2>1, <2>2 DEF SamePhase, Phases
<1>3. CASE \E r \in (NExt + 1)..NRoot, v \in Reachable \cup {Nil} : SetRoot(r, v)
  BY <1>3 DEF SetRoot, KidsOnly, SamePhase, Phases, scan
<1>4. CASE \E p, v \in Reachable, k \in 1..NField : Assign(p, k, v)
  <2>1. PICK p \in Addr, v \in Addr, k \in 1..NField : Assign(p, k, v)
    BY <1>4 DEF Reachable, Reached
  <2>2. mem' = [mem EXCEPT ![p].kid[k] = v] /\ UNCHANGED <<free, to, pc, upto, back>>
    BY <2>1 DEF Assign, scan
  <2>3. KidsOnly
    BY <1>0, <2>2, StoreFacts DEF KidsOnly
  <2>4. QED
    BY <2>2, <2>3 DEF SamePhase, Phases
<1>5. CASE pc = "idle" /\ \E u \in Upto : RequestGc(u)
  BY <1>5 DEF RequestGc, Phases, scan
<1>6. CASE CopyRoot
  <2>0. pc = "roots" /\ ri \in 1..NRoot /\ UNCHANGED <<to, upto>>
    BY <1>6, TypeParts DEF CopyRoot
  <2>1. CASE RootDone
    BY <2>0, <2>1 DEF RootDone, KidsOnly, SamePhase, Phases
  <2>2. CASE InFrom(root[ri]) /\ DeepMove(root[ri], "roots")
    <3>1. root[ri] \in Addr
      BY <2>2, AddressFacts DEF InFrom
    <3>2. pc' = "scan" /\ back' = "roots"
      BY <2>2 DEF DeepMove
    <3>3. QED
      BY <2>0, <2>2, <3>1, <3>2, DeepMoveCopies DEF SamePhase, Phases
  <2>3. CASE UNCHANGED <<mem, free>> /\ pc' = "scan" /\ back' = "roots"
    BY <2>0, <2>3 DEF KidsOnly, SamePhase, Phases
  <2>4. QED
    BY <1>6, <2>1, <2>2, <2>3 DEF CopyRoot
<1>7. CASE RootsDone
  BY <1>7 DEF RootsDone, KidsOnly, SamePhase, Phases, heap, scan
<1>8. CASE SkipNull \/ VisitChildren
  BY <1>8 DEF SkipNull, VisitChildren, OnlyScan, KidsOnly, SamePhase, Phases, Visiting
<1>9. CASE FollowForward
  <2>1. /\ mem' = [mem EXCEPT ![Top.obj].kid[Top.k] = mem[Slot].fwd] /\ UNCHANGED free
        /\ Visiting /\ UNCHANGED <<to, pc, upto, back>>
    BY <1>9 DEF FollowForward, OnlyScan
  <2>2. Top.obj \in Addr /\ Top.k \in 1..NField
    BY <2>1, VisitFacts DEF TypeInv
  <2>3. KidsOnly
    BY <1>0, <2>1, <2>2, StoreFacts DEF KidsOnly
  <2>4. QED
    BY <2>1, <2>3 DEF SamePhase, Phases
<1>10. CASE MoveChild
  <2>1. /\ Visiting /\ Slot # Nil /\ InFrom(Slot) /\ CanMove(Slot) /\ free' = Grown(Slot)
        /\ mem' = [Moved(Slot) EXCEPT ![Top.obj].kid[Top.k] = Dest(Slot)]
        /\ UNCHANGED <<to, pc, upto, back>>
    BY <1>10 DEF MoveChild, OnlyScan
  <2>2. Top.obj \in Addr /\ Top.k \in 1..NField /\ Slot \in Addr
    BY <2>1, VisitFacts DEF TypeInv, Kid
  <2>3. Copies(Slot)
    BY <2>1, <2>2, MovedFacts, StoreFacts DEF Copies
  <2>4. QED
    BY <2>1, <2>2, <2>3 DEF SamePhase, Phases
<1>11. CASE ScanGray
  BY <1>11 DEF ScanGray, FixpointStep, KidsOnly, SamePhase, Phases, heap
<1>12. CASE Fixpoint
  BY <1>12 DEF Fixpoint, FixpointStep, KidsOnly, SamePhase, Phases, heap
<1>13. CASE DropEntry \/ NextLog
  BY <1>13 DEF DropEntry, NextEntry, InLog, NextLog, LogDone, KidsOnly, SamePhase, Phases, heap, scan
<1>14. CASE TriageEntry \/ KeepEntry
  <2>1. InLog /\ mem' = Repaired(Entry) /\ UNCHANGED <<free, pc, upto, back>>
    BY <1>14 DEF TriageEntry, KeepEntry, NextEntry, scan, InLog
  <2>2. Now(Entry.parent) \in Addr /\ Entry.k \in 1..NField
    BY <2>1, EntryFacts, AddressFacts DEF TypeInv, Refreshed, LogEntry
  <2>3. KidsOnly
    BY <1>0, <2>1, <2>2, StoreFacts DEF Repaired, KidsOnly, InLog
  <2>4. QED
    BY <2>1, <2>3 DEF SamePhase, Phases
<1>15. CASE RescueChild
  <2>1. InLog /\ DeepMove(Entry.snap, "mlog") /\ InFrom(Now(Entry.snap))
    BY <1>15 DEF RescueChild
  <2>2. Entry.snap \in Addr /\ mem[Entry.snap].fwd = Nil
    BY <2>1, EntryFacts, AddressFacts DEF TypeInv, LogEntry, DeepMove, CanMove
  <2>3. Copies(Entry.snap)
    BY <2>1, <2>2, DeepMoveCopies DEF Now, InLog
  <2>4. QED
    BY <2>1, <2>2, <2>3 DEF DeepMove, InLog, SamePhase, Phases
<1>16. CASE Cleanup
  BY <1>16 DEF Cleanup, Phases
<1>17. CASE Crash
  BY <1>17 DEF Crash, KidsOnly, SamePhase, Phases, heap, scan
<1>18. QED
  <2>1. CASE Mutate
    BY <1>2, <1>3, <1>4, <1>5, <2>1 DEF Mutate
  <2>2. CASE Collect
    BY <1>6, <1>7, <1>8, <1>9, <1>10, <1>11, <1>12, <1>13, <1>14, <1>15, <1>16, <1>17, <2>2
    DEF Collect, Visit
  <2>3. QED
    BY <1>1, <2>1, <2>2 DEF Next

(* A cell with an object, and where it can be.                              *)
LEMMA PlaceFacts ==
  ASSUME TypeInv, FromEmpty, NEW b \in Cells
  PROVE  /\ b[1] \in Gens /\ b[2] \in {0, 1} /\ b[3] \in 1..MaxObjs /\ b \notin Ext
         /\ free[b[1]] \in [{0, 1} -> 0..MaxObjs] /\ to[b[1]] \in {0, 1} /\ upto \in 0..NGen
         /\ InFrom(b) <=> b[2] = 1 - to[b[1]]
         /\ InTo(b) <=> ~InFrom(b)
         /\ InFrom(b) /\ Allocated(b) => b[1] < upto
<1>1. /\ b[1] \in Gens /\ b[2] \in {0, 1} /\ b[3] \in 1..MaxObjs /\ b \notin Ext
      /\ free \in Frees /\ to \in [Gens -> {0, 1}] /\ upto \in 0..NGen
  BY AddressFacts, TypeParts
<1>2. free[b[1]] \in [{0, 1} -> 0..MaxObjs] /\ to[b[1]] \in {0, 1}
  BY <1>1 DEF Frees
<1>3. InFrom(b) <=> b[2] = 1 - to[b[1]]
  BY <1>1, <1>2 DEF InFrom
<1>4. InTo(b) <=> ~InFrom(b)
  BY DEF InTo, InFrom
<1>5. ASSUME InFrom(b), Allocated(b)
      PROVE  b[1] < upto
  <2>1. free[b[1]][1 - to[b[1]]] # 0
    BY <1>1, <1>2, <1>3, <1>5 DEF Allocated
  <2>2. ~(b[1] >= upto)
    BY <1>1, <2>1 DEF FromEmpty
  <2>3. QED
    BY <1>1, <2>2 DEF Gens
<1>6. QED
  BY <1>1, <1>2, <1>3, <1>4, <1>5

LEMMA KidsOnlyCopyInv ==
  ASSUME TypeInv, CopyInv, KidsOnly, SamePhase
  PROVE  CopyInv'
<1> USE DEF KidsOnly, SamePhase
<1>1. \A b \in Addr : Allocated(b)' <=> Allocated(b)
  BY DEF Allocated
<1>2. \A b : (InTo(b)' <=> InTo(b)) /\ (InFrom(b)' <=> InFrom(b))
  BY DEF InTo, InFrom
<1>3. Objects' = Objects
  BY <1>1 DEF Objects
<1>4. FromEmpty' /\ Phases' /\ ExtStays'
  BY AddressFacts DEF CopyInv, FromEmpty, ExtStays
<1>5. ForwardsToCopy'
  <2> SUFFICES ASSUME NEW a \in Cells, Allocated(a)', mem'[a].fwd # Nil
               PROVE  /\ InFrom(a)' /\ InTo(mem[a].fwd)' /\ Allocated(mem[a].fwd)'
                      /\ mem'[mem'[a].fwd].id = mem'[a].id
    BY DEF ForwardsToCopy
  <2>1. a \in Addr /\ mem'[a].fwd = mem[a].fwd
    BY AddressFacts
  <2>2. /\ InFrom(a) /\ InTo(mem[a].fwd) /\ Allocated(mem[a].fwd)
        /\ mem[mem[a].fwd].id = mem[a].id
    BY <1>1, <2>1 DEF CopyInv, ForwardsToCopy
  <2>3. mem[a].fwd \in Addr
    BY <2>2, AddressFacts DEF InTo
  <2>4. QED
    BY <1>1, <1>2, <2>1, <2>2, <2>3
<1>6. UniqueIds'
  <2> SUFFICES ASSUME NEW b \in Objects, NEW c \in Objects, mem'[b].id = mem'[c].id
               PROVE  b = c
    BY <1>3 DEF UniqueIds
  <2>1. b \in Addr /\ c \in Addr
    BY DEF Objects
  <2>2. QED
    BY <2>1 DEF CopyInv, UniqueIds
<1>7. QED
  BY <1>4, <1>5, <1>6 DEF CopyInv

LEMMA CopiesCopyInv ==
  ASSUME TypeInv, CopyInv, NEW a \in Addr, Copies(a), SamePhase
  PROVE  CopyInv'
<1> DEFINE d == Dest(a)
<1>1. /\ InFrom(a) /\ CanMove(a) /\ free' = Grown(a) /\ to' = to /\ upto' = upto
      /\ a \in Cells /\ mem[a].fwd = Nil /\ Allocated(a)
  BY DEF Copies, SamePhase, InFrom, CanMove
<1>2. /\ d \in Cells /\ d \in Addr /\ d \notin Ext /\ InTo(d) /\ ~Allocated(d) /\ d # a
      /\ \A b \in Addr : Allocated(b)' <=> Allocated(b) \/ b = d
  BY <1>1, DestFacts, AddressFacts DEF Allocated
<1>3. \A b \in Addr :
        /\ mem'[b].id = IF b = d THEN mem[a].id ELSE mem[b].id
        /\ mem'[b].fwd = IF b = d THEN Nil ELSE IF b = a THEN d ELSE mem[b].fwd
  BY DEF Copies
<1>4. \A b : (InTo(b)' <=> InTo(b)) /\ (InFrom(b)' <=> InFrom(b))
  BY <1>1 DEF InTo, InFrom
<1> HIDE DEF d
<1>5. FromEmpty'
  <2> SUFFICES ASSUME NEW g \in Gens, g >= upto
               PROVE  Grown(a)[g][1 - to[g]] = 0
    BY <1>1 DEF FromEmpty
  <2>1. free \in Frees /\ d[1] \in Gens /\ d[2] = to[d[1]] /\ to[g] \in {0, 1} /\ d[2] \in {0, 1}
    BY <1>2, TypeParts, AddressFacts DEF InTo
  <2>2. Grown(a) = [free EXCEPT ![d[1]][d[2]] = @ + 1]
    BY DEF Grown, d
  <2>3. Grown(a)[g][1 - to[g]] = free[g][1 - to[g]]
    BY <2>1, <2>2 DEF Frees
  <2>4. QED
    BY <2>3 DEF CopyInv, FromEmpty
<1>6. ExtStays'
  BY <1>1, <1>2, <1>3, AddressFacts DEF CopyInv, ExtStays
<1>7. ForwardsToCopy'
  <2> SUFFICES ASSUME NEW b \in Cells, Allocated(b)', mem'[b].fwd # Nil
               PROVE  /\ InFrom(b)' /\ InTo(mem[b].fwd)' /\ Allocated(mem[b].fwd)'
                      /\ mem'[mem'[b].fwd].id = mem'[b].id
    BY DEF ForwardsToCopy
  <2>1. b \in Addr /\ b # d /\ Allocated(b)
    BY <1>2, <1>3, AddressFacts
  <2>2. CASE b = a
    BY <1>1, <1>2, <1>3, <1>4, <2>1, <2>2
  <2>3. CASE b # a
    <3>1. mem'[b].fwd = mem[b].fwd /\ mem'[b].id = mem[b].id
      BY <1>3, <2>1, <2>3
    <3>2. /\ InFrom(b) /\ InTo(mem[b].fwd) /\ Allocated(mem[b].fwd)
          /\ mem[mem[b].fwd].id = mem[b].id
      BY <2>1, <3>1 DEF CopyInv, ForwardsToCopy
    <3>3. mem[b].fwd \in Addr /\ mem[b].fwd # d
      BY <1>2, <3>2, AddressFacts DEF InTo
    <3>4. QED
      BY <1>2, <1>3, <1>4, <3>1, <3>2, <3>3
  <2>4. QED
    BY <2>2, <2>3
<1>8. UniqueIds'
  <2> SUFFICES ASSUME NEW b \in Objects', NEW c \in Objects', mem'[b].id = mem'[c].id
               PROVE  b = c
    BY DEF UniqueIds
  <2>1. \A x \in Objects' : x \in Addr /\ x # a /\ (x = d \/ x \in Objects)
    BY <1>2, <1>3, AddressFacts DEF Objects
  <2>2. a \in Objects
    BY <1>1 DEF Objects
  <2>3. QED
    BY <1>3, <2>1, <2>2 DEF CopyInv, UniqueIds
<1>9. QED
  BY <1>5, <1>6, <1>7, <1>8 DEF CopyInv, SamePhase

LEMMA NewCopyInv ==
  ASSUME TypeInv, CopyInv, NEW r \in 1..NRoot, New(r), SamePhase
  PROVE  CopyInv'
<1> DEFINE a == <<0, to[0], free[0][to[0]] + 1>>
           new == CHOOSE i \in UnusedIds : \A j \in UnusedIds : i <= j
<1>1. /\ UnusedIds # {} /\ a \in Cells /\ UNCHANGED <<to, upto>>
      /\ mem' = [mem EXCEPT ![a] = [Blank EXCEPT !.id = new]]
      /\ free' = [free EXCEPT ![0][to[0]] = @ + 1]
  BY DEF New, SamePhase
<1>2. mem \in [Addr -> Cell] /\ free \in Frees /\ 0 \in Gens /\ to[0] \in {0, 1}
  BY TypeParts, AddressFacts
<1>3. a \in Addr /\ a \notin Ext /\ free[0] \in [{0, 1} -> 0..MaxObjs] /\ InTo(a) /\ ~Allocated(a)
      /\ a[1] = 0 /\ a[2] = to[0]
  BY <1>1, <1>2, AddressFacts DEF Frees, InTo, Allocated
<1>4. new \in UnusedIds
  <2>1. UnusedIds \in SUBSET Nat
    BY DEF UnusedIds
  <2>2. QED
    BY <1>1, <2>1, LeastNatural
<1>5. \A b : (InTo(b)' <=> InTo(b)) /\ (InFrom(b)' <=> InFrom(b))
  BY <1>1 DEF InTo, InFrom
<1>6. ASSUME NEW b \in Addr
      PROVE  Allocated(b)' <=> Allocated(b) \/ b = a
  <2>1. CASE b \in Ext
    BY <2>1 DEF Allocated
  <2>2. CASE b \in Cells
    <3>1. /\ b[1] \in Gens /\ b[2] \in {0, 1} /\ b[3] \in 1..MaxObjs /\ b \notin Ext
          /\ b = <<b[1], b[2], b[3]>>
      BY <2>2, AddressFacts
    <3>2. free[b[1]] \in [{0, 1} -> 0..MaxObjs] /\ free[b[1]][b[2]] \in 0..MaxObjs
      BY <1>2, <3>1 DEF Frees
    <3>3. CASE b[1] = 0 /\ b[2] = to[0]
      <4>1. free'[b[1]][b[2]] = free[b[1]][b[2]] + 1
        BY <1>1, <1>2, <3>2, <3>3 DEF Frees
      <4>2. b = a <=> b[3] = free[b[1]][b[2]] + 1
        BY <3>1, <3>3
      <4>3. QED
        BY <3>1, <3>2, <4>1, <4>2 DEF Allocated
    <3>4. CASE ~(b[1] = 0 /\ b[2] = to[0])
      <4>1. free'[b[1]][b[2]] = free[b[1]][b[2]]
        BY <1>1, <1>2, <3>1, <3>2, <3>4 DEF Frees
      <4>2. b # a
        BY <3>4
      <4>3. QED
        BY <3>1, <4>1, <4>2 DEF Allocated
    <3>5. QED
      BY <3>3, <3>4
  <2>3. QED
    BY <2>1, <2>2 DEF Addr
<1> HIDE DEF a, new
<1>7. mem'[a].id = new /\ mem'[a].fwd = Nil /\ \A b \in Addr : b # a => mem'[b] = mem[b]
  BY <1>1, <1>2, <1>3 DEF Blank
<1>8. FromEmpty'
  <2> SUFFICES ASSUME NEW g \in Gens, g >= upto
               PROVE  free'[g][1 - to[g]] = free[g][1 - to[g]]
    BY <1>1 DEF FromEmpty, CopyInv
  <2>1. to[g] \in {0, 1}
    BY TypeParts
  <2>2. QED
    BY <1>1, <1>2, <2>1 DEF Frees
<1>9. ExtStays'
  BY <1>3, <1>7, AddressFacts DEF CopyInv, ExtStays
<1>10. ForwardsToCopy'
  <2> SUFFICES ASSUME NEW b \in Cells, Allocated(b)', mem'[b].fwd # Nil
               PROVE  /\ InFrom(b)' /\ InTo(mem[b].fwd)' /\ Allocated(mem[b].fwd)'
                      /\ mem'[mem'[b].fwd].id = mem'[b].id
    BY DEF ForwardsToCopy
  <2>1. b \in Addr /\ b # a /\ Allocated(b) /\ mem'[b] = mem[b]
    BY <1>6, <1>7, AddressFacts
  <2>2. /\ InFrom(b) /\ InTo(mem[b].fwd) /\ Allocated(mem[b].fwd)
        /\ mem[mem[b].fwd].id = mem[b].id
    BY <2>1 DEF CopyInv, ForwardsToCopy
  <2>3. mem[b].fwd \in Addr /\ mem[b].fwd # a
    BY <1>3, <2>2, AddressFacts DEF InTo
  <2>4. QED
    BY <1>5, <1>6, <1>7, <2>1, <2>2, <2>3
<1>11. UniqueIds'
  <2> SUFFICES ASSUME NEW b \in Objects', NEW c \in Objects', mem'[b].id = mem'[c].id
               PROVE  b = c
    BY DEF UniqueIds
  <2>1. \A x \in Objects' : x \in Addr /\ (x = a \/ x \in Objects)
    BY <1>6, <1>7 DEF Objects
  <2>2. \A x \in Objects : mem[x].id # new
    BY <1>4 DEF UnusedIds
  <2>3. QED
    BY <1>7, <2>1, <2>2 DEF CopyInv, UniqueIds
<1>12. QED
  BY <1>8, <1>9, <1>10, <1>11 DEF CopyInv, SamePhase

LEMMA RequestGcCopyInv ==
  ASSUME TypeInv, CopyInv, pc = "idle", NEW u \in Upto, RequestGc(u), Phases'
  PROVE  CopyInv'
<1>1. /\ UNCHANGED <<mem, free>> /\ upto = 0 /\ upto' = u /\ u \in 1..NGen
      /\ to' = [g \in Gens |-> IF g < u THEN 1 - to[g] ELSE to[g]]
  BY DEF RequestGc, CopyInv, Phases
<1>2. \A b : Allocated(b)' <=> Allocated(b)
  BY <1>1 DEF Allocated
<1>3. \A b \in Cells : Allocated(b) => mem[b].fwd = Nil
  <2> SUFFICES ASSUME NEW b \in Cells, Allocated(b), mem[b].fwd # Nil PROVE FALSE
    OBVIOUS
  <2>1. InFrom(b)
    BY DEF CopyInv, ForwardsToCopy
  <2>2. QED
    BY <1>1, <2>1, PlaceFacts DEF CopyInv, Gens
<1>4. FromEmpty'
  <2> SUFFICES ASSUME NEW g \in Gens, g >= u
               PROVE  free[g][1 - to'[g]] = 0
    BY <1>1 DEF FromEmpty
  <2>1. to'[g] = to[g] /\ g >= upto
    BY <1>1 DEF Gens
  <2>2. QED
    BY <2>1 DEF CopyInv, FromEmpty
<1>5. ExtStays' /\ ForwardsToCopy'
  BY <1>1, <1>2, <1>3 DEF CopyInv, ExtStays, ForwardsToCopy
<1>6. UniqueIds'
  <2>1. Objects' = Objects
    BY <1>1, <1>2 DEF Objects
  <2>2. QED
    BY <1>1, <2>1 DEF CopyInv, UniqueIds
<1>7. QED
  BY <1>4, <1>5, <1>6 DEF CopyInv

(* Cleanup keeps what is in to-space, as it was.                            *)
LEMMA CleanupFacts ==
  ASSUME TypeInv, FromEmpty, Cleanup
  PROVE  /\ \A b \in Addr : Allocated(b)' <=> Allocated(b) /\ ~InFrom(b)
         /\ \A b \in Addr : Allocated(b) /\ ~InFrom(b) => mem'[b] = mem[b]
         /\ \A b : (InTo(b)' <=> InTo(b)) /\ (InFrom(b)' <=> InFrom(b))
         /\ upto' = 0 /\ \A g \in Gens : free'[g][1 - to[g]] = 0
<1>1. /\ free' = Emptied /\ mem' = (IF Sanitize THEN Scrubbed ELSE mem) /\ to' = to
      /\ upto' = 0
  BY DEF Cleanup
<1>2. \A b : (InTo(b)' <=> InTo(b)) /\ (InFrom(b)' <=> InFrom(b))
  BY <1>1 DEF InTo, InFrom
<1>3. \A g \in Gens : free'[g][1 - to[g]] = 0
  <2> SUFFICES ASSUME NEW g \in Gens PROVE Emptied[g][1 - to[g]] = 0
    BY <1>1
  <2>1. free[g] \in [{0, 1} -> 0..MaxObjs] /\ to[g] \in {0, 1} /\ upto \in 0..NGen
    BY TypeParts DEF Frees
  <2>2. CASE g < upto
    BY <2>1, <2>2 DEF Emptied
  <2>3. CASE ~(g < upto)
    BY <2>1, <2>3 DEF Emptied, FromEmpty, Gens
  <2>4. QED
    BY <2>2, <2>3
<1>4. ASSUME NEW b \in Addr
      PROVE  /\ Allocated(b)' <=> Allocated(b) /\ ~InFrom(b)
             /\ Allocated(b) /\ ~InFrom(b) => mem'[b] = mem[b]
  <2>1. CASE b \in Ext
    BY <1>1, <2>1, AddressFacts DEF Allocated, InFrom, Scrubbed
  <2>2. CASE b \in Cells
    <3>1. /\ b[1] \in Gens /\ b[2] \in {0, 1} /\ b[3] \in 1..MaxObjs /\ b \notin Ext
          /\ free[b[1]] \in [{0, 1} -> 0..MaxObjs] /\ to[b[1]] \in {0, 1} /\ upto \in 0..NGen
          /\ InFrom(b) <=> b[2] = 1 - to[b[1]]
      BY <2>2, PlaceFacts
    <3>2. CASE InFrom(b)
      BY <1>1, <1>3, <3>1, <3>2 DEF Allocated
    <3>3. CASE ~InFrom(b)
      <4>1. free'[b[1]][b[2]] = free[b[1]][b[2]]
        BY <1>1, <3>1, <3>3 DEF Emptied
      <4>2. mem'[b] = mem[b]
        BY <1>1, <3>3 DEF Scrubbed
      <4>3. QED
        BY <3>1, <3>3, <4>1, <4>2 DEF Allocated
    <3>4. QED
      BY <3>2, <3>3
  <2>3. QED
    BY <2>1, <2>2 DEF Addr
<1>5. QED
  BY <1>1, <1>2, <1>3, <1>4

LEMMA CleanupCopyInv ==
  ASSUME TypeInv, CopyInv, Cleanup, Phases'
  PROVE  CopyInv'
<1>1. /\ \A b \in Addr : Allocated(b)' <=> Allocated(b) /\ ~InFrom(b)
      /\ \A b \in Addr : Allocated(b) /\ ~InFrom(b) => mem'[b] = mem[b]
      /\ \A g \in Gens : free'[g][1 - to[g]] = 0
      /\ to' = to
  BY CleanupFacts DEF CopyInv, Cleanup
<1>2. FromEmpty'
  BY <1>1 DEF FromEmpty
<1>3. ExtStays'
  BY <1>1, AddressFacts DEF CopyInv, ExtStays, Allocated, InFrom
<1>4. \A b \in Cells : Allocated(b)' => mem'[b].fwd = Nil
  BY <1>1, AddressFacts DEF CopyInv, ForwardsToCopy
<1>5. ForwardsToCopy'
  BY <1>4 DEF ForwardsToCopy
<1>6. UniqueIds'
  <2> SUFFICES ASSUME NEW b \in Objects', NEW c \in Objects', mem'[b].id = mem'[c].id
               PROVE  b = c
    BY DEF UniqueIds
  <2>1. \A x \in Objects' : x \in Objects /\ mem'[x] = mem[x]
    BY <1>1 DEF Objects
  <2>2. QED
    BY <2>1 DEF CopyInv, UniqueIds
<1>7. QED
  BY <1>2, <1>3, <1>5, <1>6 DEF CopyInv

LEMMA InitCopyInv == Init => CopyInv
<1> SUFFICES ASSUME Init PROVE CopyInv
  OBVIOUS
<1>1. \A b \in Cells : b[3] \in 1..MaxObjs /\ free[b[1]][b[2]] = 0 /\ b \notin Ext
  BY AddressFacts DEF Init
<1>2. \A b \in Cells : ~Allocated(b)
  BY <1>1 DEF Allocated
<1>3. FromEmpty /\ Phases
  BY AddressFacts DEF Init, FromEmpty, Phases
<1>4. \A b \in Ext : mem[b].fwd = Nil /\ mem[b].id = MaxObjs + b[3] /\ b = <<NGen, 0, b[3]>> /\ b[3] \in 1..NExt
  <2> TAKE b \in Ext
  <2>1. b \in Addr /\ mem[b] = [Blank EXCEPT !.id = MaxObjs + b[3]]
    BY AddressFacts DEF Init
  <2>2. PICK i \in 1..NExt : b = <<NGen, 0, i>>
    BY DEF Ext
  <2>3. QED
    BY <2>1, <2>2 DEF Blank
<1>5. ExtStays /\ ForwardsToCopy
  BY <1>2, <1>4 DEF ExtStays, ForwardsToCopy
<1>6. UniqueIds
  BY <1>2, <1>4 DEF UniqueIds, Objects, Addr
<1>7. QED
  BY <1>3, <1>5, <1>6 DEF CopyInv

LEMMA NextCopyInv ==
  ASSUME TypeInv, CopyInv, [Next]_vars
  PROVE  CopyInv'
<1>1. Phases
  BY DEF CopyInv
<1>2. QED
  BY <1>1, StepEffect, KidsOnlyCopyInv, CopiesCopyInv, NewCopyInv, RequestGcCopyInv, CleanupCopyInv

LEMMA CopyInvCorrect == Spec => []CopyInv
<1>1. TypeInv /\ CopyInv /\ [Next]_vars => CopyInv'
  BY NextCopyInv
<1>2. QED
  BY <1>1, InitCopyInv, TypeCorrect, PTL DEF Spec

(* A forwarding pointer leads from from-space to the one current copy of    *)
(* the object in to-space.                                                  *)
THEOREM ForwardsCorrect == Spec => []ForwardsToCopy
<1>1. CopyInv => ForwardsToCopy
  BY DEF CopyInv
<1>2. QED
  BY <1>1, CopyInvCorrect, PTL

LEMMA AddrFinite == IsFiniteSet(Addr)
<1>1. IsFiniteSet(Gens) /\ IsFiniteSet({0, 1}) /\ IsFiniteSet(1..MaxObjs) /\ IsFiniteSet(1..NExt)
  <2>1. {0, 1} = 0..1
    OBVIOUS
  <2>2. ASSUME NEW n \in Int PROVE IsFiniteSet(0..n) /\ IsFiniteSet(1..n)
    BY FS_Interval
  <2>3. NGen - 1 \in Int /\ MaxObjs \in Int /\ NExt \in Int /\ 1 \in Int
    OBVIOUS
  <2>4. QED
    BY <2>1, <2>2, <2>3, Zenon DEF Gens
<1>2. IsFiniteSet({0, 1} \X (1..MaxObjs))
  BY <1>1, FS_Product
<1>2a. IsFiniteSet(Gens \X ({0, 1} \X (1..MaxObjs)))
  BY <1>1, <1>2, FS_Product
<1>3. IsFiniteSet(Cells)
  <2> DEFINE S == Gens \X ({0, 1} \X (1..MaxObjs))
             f == [x \in S |-> <<x[1], x[2][1], x[2][2]>>]
  <2>1. f \in [S -> Cells]
    BY DEF Cells
  <2>2. ASSUME NEW a \in Cells PROVE \E x \in S : f[x] = a
    <3>1. a = <<a[1], a[2], a[3]>> /\ <<a[1], <<a[2], a[3]>>>> \in S
      BY AddressFacts
    <3>2. f[<<a[1], <<a[2], a[3]>>>>] = a
      BY <3>1
    <3>3. QED
      BY <3>1, <3>2
  <2> HIDE DEF f, S
  <2>3. f \in Surjection(S, Cells)
    BY <2>1, <2>2 DEF Surjection
  <2>4. IsFiniteSet(S)
    BY <1>2a DEF S
  <2>5. QED
    BY <2>3, <2>4, FS_Surjection
<1>4. IsFiniteSet(Ext)
  <2> DEFINE f == [i \in 1..NExt |-> <<NGen, 0, i>>]
  <2>1. f \in Surjection(1..NExt, Ext)
    BY DEF Surjection, Ext
  <2> HIDE DEF f
  <2>2. QED
    BY <1>1, <2>1, FS_Surjection
<1>5. QED
  BY <1>3, <1>4, FS_Union DEF Addr

(* An object is in one place: however many pointers and log entries lead to *)
(* it, its identity is that of one current object.                          *)
THEOREM CopiesOnce == Spec => []CopiedOnce
<1>1. ASSUME UniqueIds PROVE CopiedOnce
  <2> DEFINE ids == {mem[a].id : a \in Objects}
             f == [a \in Objects |-> mem[a].id]
  <2>1. IsFiniteSet(Objects)
    BY AddrFinite, FS_Subset DEF Objects
  <2>2. f \in Surjection(Objects, ids) /\ f \in Injection(Objects, ids)
    BY <1>1 DEF Surjection, Injection, IsInjective, UniqueIds
  <2> HIDE DEF f
  <2>3. f \in Bijection(Objects, ids)
    BY <2>2 DEF Bijection
  <2> HIDE DEF ids
  <2>4. Cardinality(ids) = Cardinality(Objects)
    BY <2>1, <2>3, FS_Bijection DEF ExistsBijection
  <2>5. QED
    BY <2>4 DEF CopiedOnce, ids
<1>2. CopyInv => CopiedOnce
  BY <1>1 DEF CopyInv
<1>3. QED
  BY <1>2, CopyInvCorrect, PTL

-----------------------------------------------------------------------------
(* The configurations in which the collector keeps its promises: freed      *)
(* memory is scrubbed, assignments are logged in logs that have room for    *)
(* every entry, and an object is promoted by the first collection of its    *)
(* generation that it survives a second time at the latest.                 *)
Faithful ==
  /\ Sanitize /\ MlogEnabled /\ MaxLog <= LogCap
  /\ NSurvive = 1 \/ (NSurvive = 2 /\ NGen = 2)

In(e, log) == \E i \in 1..Len(log) : log[i] = e

(* The age an object has when the collection is over, if it survives.       *)
FinalAge(a) == IF InFrom(a) THEN Older(mem[a].age) ELSE mem[a].age

(* The pointer k of p leads from an older object to a younger one, and the  *)
(* younger one is not in the last generation.                               *)
Ahead(p, v) == FinalAge(p) > FinalAge(Now(v)) /\ Age2Gen(FinalAge(Now(v))) < NGen - 1

(* The entry is about the pointer k of p, as it is.                         *)
About(e, p, k) == Now(e.parent) = p /\ e.k = k /\ mem[p].kid[k] \in {e.snap, Now(e.snap)}

Kept(p, k) ==
  LET v == mem[p].kid[k] IN
  /\ InTo(p) /\ InTo(v)
  /\ \E g \in LogGens : g <= v[1] /\ In([parent |-> p, k |-> k, snap |-> v], tolog[g])

(* An entry about the pointer has yet to be looked at, in this pass or, if  *)
(* p was copied in this pass, in the next one.                              *)
Pending(p, k) ==
  /\ pc # "idle"
  /\ \E g \in LogGens, e \in LogEntry :
       /\ About(e, p, k)
       /\ \/ In(e, fromlog[g]) /\ (g < cg /\ InTo(p) => rescued)
          \/ In(e, triage[g]) /\ (InTo(p) => rescued)

(* ... in this pass.                                                        *)
PendingNow(p, k) ==
  \E g \in LogGens, e \in LogEntry : g >= cg /\ In(e, fromlog[g]) /\ About(e, p, k)

InRoots == pc = "roots" \/ (pc = "scan" /\ back = "roots")

(* The visit of the pointer k of p lies ahead.                              *)
Gray1(p) == InTo(p) /\ p[1] < ScanEnd /\ p[3] > gray[p[1]]
Stacked(p, k) ==
  \E i \in 1..Len(stack) :
    stack[i].obj = p /\ IF i = Len(stack) THEN k >= stack[i].k ELSE k > stack[i].k
Todo(p, k) ==
  \/ pc = "scan" /\ (Gray1(p) \/ Stacked(p, k))
  \/ p \in Ext /\ InRoots /\ p[3] >= ri

Valid == \A a \in Addr : Allocated(a) =>
           \A k \in 1..NField : mem[a].kid[k] # Nil => Allocated(mem[a].kid[k])
Blanks == \A a \in Cells : ~Allocated(a) => mem[a].fwd = Nil /\ mem[a].kid = NoKids
RootsValid ==
  /\ \A r \in 1..NRoot : root[r] # Nil =>
       Allocated(root[r]) /\ (InFrom(root[r]) => InRoots /\ r >= ri)
  /\ \A r \in 1..NExt : root[r] = <<NGen, 0, r>>
StackValid ==
  /\ pc # "scan" => stack = <<>>
  /\ \A i \in 1..Len(stack) : Allocated(stack[i].obj) /\ ~InFrom(stack[i].obj)
GrayBelow == pc = "scan" => \A g \in Gens : g < ScanEnd => gray[g] <= free[g][to[g]]
ForwardsUp == \A a \in Cells : Allocated(a) /\ mem[a].fwd # Nil => mem[a].fwd[1] >= a[1]
Aged == \A a \in Cells : InTo(a) /\ Allocated(a) /\ a[1] < upto => mem[a].age >= 1
LogPhases ==
  /\ pc # "idle" => upto >= 1
  /\ \A g \in LogGens : g # cg => triage[g] = <<>>
  /\ pc = "idle" \/ InRoots => cg = 0 /\ triage[cg] = <<>>
  /\ pc = "scan" /\ back = "mlog" => rescued
LogBound == \A g \in LogGens : Len(tolog[g]) + Len(fromlog[g]) + Len(triage[g]) <= MaxLog
LogBelow == \A g \in LogGens, e \in LogEntry :
              In(e, tolog[g]) \/ In(e, fromlog[g]) \/ In(e, triage[g]) => g <= e.snap[1]
Tracked ==
  \A p \in Objects \cap Cells, k \in 1..NField :
    LET v == mem[p].kid[k] IN
    v \in Cells /\ Ahead(p, v) => Kept(p, k) \/ Pending(p, k)
Settled ==
  \A p \in Objects, k \in 1..NField :
    LET v == mem[p].kid[k] IN
    ~InFrom(p) /\ v # Nil /\ InFrom(v) =>
      Todo(p, k) \/ (InTo(p) /\ p[1] >= upto /\ PendingNow(p, k))

PathInv ==
  /\ Valid /\ Blanks /\ RootsValid /\ StackValid /\ GrayBelow /\ ForwardsUp /\ Aged
  /\ LogPhases /\ LogBound /\ LogBelow
Whole == PathInv /\ Tracked /\ Settled
StoreInv == pc # "dead" => Whole

-----------------------------------------------------------------------------
(* Steps of a collection: what they do to the heap.                         *)

Good == TypeInv /\ CopyInv /\ AgeGeneration /\ PathInv

(* Where an object is after the step.                                       *)
NowNext(x) == IF mem'[x].fwd = Nil THEN x ELSE mem'[x].fwd

AllocNext(x) == x \in Ext \/ x[3] <= free'[x[1]][x[2]]
CopiedTo(x, d) ==
  /\ Allocated(x) /\ mem[x].fwd = Nil /\ InFrom(x)
  /\ InTo(d) /\ d[1] >= x[1] /\ ~Allocated(d) /\ AllocNext(d)
  /\ mem'[d].fwd = Nil /\ mem'[d].kid = mem[x].kid /\ mem'[d].age = Older(mem[x].age)

(* Objects stay, with their ages; a pointer stays or is forwarded; a cell   *)
(* that gains an object gains the copy of one that was not copied before.   *)
Evac ==
  /\ UNCHANGED <<to, upto>>
  /\ \A x \in Addr : Allocated(x) =>
       /\ AllocNext(x) /\ mem'[x].age = mem[x].age
       /\ mem[x].fwd # Nil => mem'[x].fwd = mem[x].fwd
       /\ \A k \in 1..NField :
            \/ mem'[x].kid[k] = mem[x].kid[k]
            \/ mem[x].kid[k] # Nil /\ mem'[x].kid[k] = NowNext(mem[x].kid[k])
       /\ mem[x].fwd = Nil /\ mem'[x].fwd # Nil => CopiedTo(x, mem'[x].fwd)
  /\ \A x \in Addr : ~Allocated(x) /\ AllocNext(x) =>
       \E a \in Cells : mem'[a].fwd = x /\ CopiedTo(a, x)
  /\ \A x \in Addr : ~AllocNext(x) => mem'[x] = mem[x]

LEMMA DivMonotone ==
  ASSUME NEW x \in Nat, NEW y \in Nat, x <= y
  PROVE  x \div NSurvive <= y \div NSurvive
OBVIOUS

(* A copy is not in a younger generation.                                   *)
LEMMA OlderGen ==
  ASSUME NEW x \in 0..MaxAge
  PROVE  Age2Gen(Older(x)) >= Age2Gen(x)
<1>1. MaxAge \in Nat
  BY MaxAgeIsNat
<1>2. (x + 1) \div NSurvive >= x \div NSurvive
  BY <1>1, DivMonotone
<1>3. x \div NSurvive \in Nat /\ (x + 1) \div NSurvive \in Nat
  OBVIOUS
<1>4. QED
  BY <1>1, <1>2, <1>3 DEF Older, Age2Gen

LEMMA NowFacts ==
  ASSUME Good, NEW x \in Addr
  PROVE  /\ Now(x) \in Addr /\ mem[Now(x)].fwd = Nil
         /\ Allocated(x) => Allocated(Now(x))
         /\ ~Allocated(x) => Now(x) = x
         /\ mem[x].fwd # Nil => Allocated(x) /\ InFrom(x) /\ InTo(Now(x)) /\ Now(x) = mem[x].fwd
         /\ ~InFrom(x) => Now(x) = x
         /\ x \in Cells => Now(x) \in Cells
<1>1. CASE x \in Ext
  BY <1>1, AddressFacts DEF Good, CopyInv, ExtStays, Now, InFrom
<1>2. CASE x \in Cells /\ ~Allocated(x)
  BY <1>2, AddressFacts DEF Good, PathInv, Blanks, Now
<1>3. CASE x \in Cells /\ Allocated(x) /\ mem[x].fwd = Nil
  BY <1>3 DEF Now
<1>4. CASE x \in Cells /\ Allocated(x) /\ mem[x].fwd # Nil
  <2>1. /\ InFrom(x) /\ InTo(mem[x].fwd) /\ Allocated(mem[x].fwd)
        /\ Now(x) = mem[x].fwd
    BY <1>4 DEF Good, CopyInv, ForwardsToCopy, Now
  <2>2. Now(x) \in Cells /\ Now(x) \in Addr /\ ~InFrom(Now(x))
    BY <2>1, AddressFacts DEF InTo, InFrom
  <2>3. mem[Now(x)].fwd = Nil
    BY <2>1, <2>2 DEF Good, CopyInv, ForwardsToCopy
  <2>4. QED
    BY <1>4, <2>1, <2>2, <2>3
<1>5. QED
  BY <1>1, <1>2, <1>3, <1>4 DEF Addr

(* A pointer that a step writes is forwarded: the step is one of evacuation. *)
LEMMA ForwardEvac ==
  ASSUME Good, UNCHANGED <<free, to, upto>>,
         NEW p \in Addr, NEW k \in 1..NField, Allocated(p), mem[p].kid[k] # Nil,
         mem' = [mem EXCEPT ![p].kid[k] = Now(mem[p].kid[k])]
  PROVE  Evac
<1>1. mem \in [Addr -> Cell]
  BY TypeParts DEF Good
<1>2. \A x \in Addr : mem'[x].fwd = mem[x].fwd /\ mem'[x].age = mem[x].age
  BY <1>1, StoreFacts
<1>3. \A x \in Addr : AllocNext(x) <=> Allocated(x)
  BY DEF Allocated, AllocNext
<1>4. \A x \in Addr, j \in 1..NField :
        mem'[x].kid[j] = IF x = p /\ j = k THEN Now(mem[p].kid[k]) ELSE mem[x].kid[j]
  BY <1>1, StoreFacts
<1>5. \A x \in Addr : x # p => mem'[x] = mem[x]
  BY <1>1
<1>6. mem[p].kid[k] \in Addr
  BY <1>1 DEF Cell
<1>7. NowNext(mem[p].kid[k]) = Now(mem[p].kid[k])
  BY <1>2, <1>6 DEF Now, NowNext
<1>8. QED
  BY <1>2, <1>3, <1>4, <1>5, <1>7 DEF Evac

(* Nothing in the heap changes.                                             *)
LEMMA SameEvac ==
  ASSUME UNCHANGED <<mem, free, to, upto>>
  PROVE  Evac
BY DEF Evac, Allocated, AllocNext

(* An object of from-space is copied, and no pointer is written but one to  *)
(* the object.                                                              *)
LEMMA CopyEvac ==
  ASSUME Good, UNCHANGED <<to, upto>>, NEW a \in Addr, InFrom(a), CanMove(a), free' = Grown(a),
         \/ mem' = Moved(a)
         \/ \E p \in Addr, k \in 1..NField :
              /\ p # Dest(a) /\ Allocated(p) /\ mem[p].kid[k] = a
              /\ mem' = [Moved(a) EXCEPT ![p].kid[k] = Dest(a)]
  PROVE  Evac /\ Copies(a) /\ mem'[a].fwd = Dest(a)
<1> DEFINE d == Dest(a)
<1>1. /\ d \in Cells /\ d \in Addr /\ d \notin Ext /\ InTo(d) /\ ~Allocated(d) /\ d # a
      /\ \A b \in Addr : AllocNext(b) <=> Allocated(b) \/ b = d
      /\ a \in Cells /\ mem[a].fwd = Nil /\ Allocated(a) /\ Movable(a)
  BY DestFacts, AddressFacts DEF AllocNext, Good, InFrom, CanMove
<1>2. mem \in [Addr -> Cell] /\ Moved(a) \in [Addr -> Cell] /\ mem[a].age \in 0..MaxAge
  BY TypeParts, MovedFacts DEF Good, Cell
<1>3. \A b \in Addr :
        /\ mem'[b].id = IF b = d THEN mem[a].id ELSE mem[b].id
        /\ mem'[b].fwd = IF b = d THEN Nil ELSE IF b = a THEN d ELSE mem[b].fwd
        /\ mem'[b].age = IF b = d THEN Older(mem[a].age) ELSE mem[b].age
  <2> TAKE b \in Addr
  <2>1. CASE mem' = Moved(a)
    BY <2>1, MovedFacts DEF Good
  <2>2. CASE \E p \in Addr, k \in 1..NField : mem' = [Moved(a) EXCEPT ![p].kid[k] = d]
    <3>1. /\ mem'[b].id = Moved(a)[b].id /\ mem'[b].fwd = Moved(a)[b].fwd
          /\ mem'[b].age = Moved(a)[b].age
      BY <1>2, <2>2, StoreFacts
    <3>2. QED
      BY <3>1, MovedFacts DEF Good
  <2>3. QED
    BY <2>1, <2>2
<1>4. ASSUME NEW b \in Addr, b # d, NEW j \in 1..NField
      PROVE  mem'[b].kid[j] = mem[b].kid[j] \/ (mem[b].kid[j] = a /\ mem'[b].kid[j] = d)
  <2>1. CASE mem' = Moved(a)
    BY <1>4, <2>1, MovedFacts DEF Good
  <2>2. CASE \E p \in Addr, k \in 1..NField :
              /\ p # d /\ mem[p].kid[k] = a
              /\ mem' = [Moved(a) EXCEPT ![p].kid[k] = d]
    BY <1>2, <1>4, <2>2, MovedFacts, StoreFacts DEF Good
  <2>3. QED
    BY <2>1, <2>2
<1>5. mem'[d].kid = mem[a].kid
  <2>1. CASE mem' = Moved(a)
    BY <1>1, <2>1, MovedFacts DEF Good
  <2>2. ASSUME NEW p \in Addr, NEW k \in 1..NField, p # d,
               mem' = [Moved(a) EXCEPT ![p].kid[k] = d]
        PROVE  mem'[d].kid = mem[a].kid
    <3>1. mem'[d] = Moved(a)[d]
      BY <1>1, <1>2, <2>2
    <3>2. QED
      BY <1>1, <3>1, MovedFacts DEF Good
  <2>3. QED
    BY <2>1, <2>2
<1>6. \A b \in Addr : ~AllocNext(b) => mem'[b] = mem[b]
  <2> SUFFICES ASSUME NEW b \in Addr, ~Allocated(b), b # d PROVE mem'[b] = mem[b]
    BY <1>1
  <2>1. Moved(a)[b] = mem[b]
    <3>1. b # a
      BY <1>1
    <3>2. d \in Addr
      BY <1>1
    <3> DEFINE copy == [mem[a] EXCEPT !.age = Older(mem[a].age)]
    <3>3. Moved(a) = [mem EXCEPT ![d] = copy, ![a].fwd = d]
      BY DEF Moved
    <3> HIDE DEF d, copy
    <3>4. QED
      BY <1>2, <3>1, <3>2, <3>3
  <2>2. CASE mem' = Moved(a)
    BY <2>1, <2>2
  <2>3. ASSUME NEW p \in Addr, NEW k \in 1..NField, Allocated(p),
               mem' = [Moved(a) EXCEPT ![p].kid[k] = d]
        PROVE  mem'[b] = mem[b]
    <3>1. b # p
      BY <2>3
    <3>2. QED
      BY <1>2, <2>1, <2>3, <3>1
  <2>4. QED
    BY <2>2, <2>3
<1>7. d[1] >= a[1]
  <2>1. d[1] = Age2Gen(Older(mem[a].age)) /\ a[1] = Age2Gen(mem[a].age)
    BY <1>1 DEF Dest, Good, AgeGeneration
  <2>2. QED
    BY <1>2, <2>1, OlderGen
<1>8. NowNext(a) = d
  BY <1>1, <1>3, AddressFacts DEF NowNext
<1>9. \A b \in Addr : AllocNext(b) /\ ~Allocated(b) => b = d
  BY <1>1
<1>10. Copies(a)
  BY <1>3 DEF Copies
<1>11. mem'[a].fwd = d
  BY <1>1, <1>3
<1> HIDE DEF d
<1>12. CopiedTo(a, d)
  BY <1>1, <1>3, <1>5, <1>7 DEF CopiedTo
<1>13. ASSUME NEW x \in Addr, Allocated(x)
       PROVE  /\ AllocNext(x) /\ mem'[x].age = mem[x].age
              /\ mem[x].fwd # Nil => mem'[x].fwd = mem[x].fwd
              /\ \A k \in 1..NField :
                   \/ mem'[x].kid[k] = mem[x].kid[k]
                   \/ mem[x].kid[k] # Nil /\ mem'[x].kid[k] = NowNext(mem[x].kid[k])
              /\ mem[x].fwd = Nil /\ mem'[x].fwd # Nil => CopiedTo(x, mem'[x].fwd)
  <2>1. x # d
    BY <1>1, <1>13
  <2>2. a # Nil
    BY AddressFacts
  <2>3. mem'[x].fwd = (IF x = a THEN d ELSE mem[x].fwd)
    BY <1>3, <2>1
  <2>4. QED
    BY <1>1, <1>3, <1>4, <1>8, <1>12, <1>13, <2>1, <2>2, <2>3
<1>14. ASSUME NEW x \in Addr, ~Allocated(x), AllocNext(x)
       PROVE  \E b \in Cells : mem'[b].fwd = x /\ CopiedTo(b, x)
  BY <1>1, <1>9, <1>11, <1>12, <1>14
<1>15. Evac
  BY <1>6, <1>13, <1>14 DEF Evac
<1>16. QED
  BY <1>10, <1>11, <1>15 DEF d

-----------------------------------------------------------------------------
(* What every step of evacuation keeps.                                     *)

(* Where an object is after a step: where it was, or its copy.              *)
LEMMA NowNextFacts ==
  ASSUME Good, Evac, NEW x \in Addr, Allocated(x)
  PROVE  /\ NowNext(x) \in Addr /\ AllocNext(NowNext(x)) /\ mem'[NowNext(x)].fwd = Nil
         /\ NowNext(NowNext(x)) = NowNext(x) /\ NowNext(Now(x)) = NowNext(x)
         /\ ~InFrom(x) => NowNext(x) = x
         /\ mem[x].fwd # Nil => NowNext(x) = Now(x)
         /\ NowNext(x) # x => InFrom(x) /\ InTo(NowNext(x))
         /\ InFrom(NowNext(x)) => NowNext(x) = x
         /\ x \in Cells => NowNext(x) \in Cells
<1>0. /\ Now(x) \in Addr /\ mem[Now(x)].fwd = Nil /\ Allocated(Now(x))
      /\ mem[x].fwd # Nil => InFrom(x) /\ InTo(Now(x)) /\ Now(x) = mem[x].fwd
      /\ mem[x].fwd = Nil => Now(x) = x
  BY NowFacts DEF Now
<1>1. ASSUME NEW y, InTo(y) PROVE y \in Addr /\ y \in Cells /\ ~InFrom(y)
  BY <1>1, AddressFacts DEF InTo, InFrom
<1>2. CASE mem[x].fwd # Nil
  <2>1. mem'[x].fwd = mem[x].fwd /\ NowNext(x) = Now(x)
    BY <1>0, <1>2 DEF Evac, NowNext
  <2>2. AllocNext(Now(x)) /\ ~InFrom(Now(x))
    BY <1>0, <1>1, <1>2 DEF Evac
  <2>3. mem'[Now(x)].fwd = Nil
    BY <1>0, <2>2 DEF Evac, CopiedTo
  <2>4. NowNext(Now(x)) = Now(x)
    BY <2>3 DEF NowNext
  <2>5. QED
    BY <1>0, <1>1, <1>2, <2>1, <2>2, <2>3, <2>4
<1>3. CASE mem[x].fwd = Nil /\ mem'[x].fwd = Nil
  BY <1>0, <1>3 DEF Evac, NowNext
<1>4. CASE mem[x].fwd = Nil /\ mem'[x].fwd # Nil
  <2> DEFINE d == mem'[x].fwd
  <2>1. CopiedTo(x, d)
    BY <1>4 DEF Evac
  <2>2. NowNext(x) = d
    BY <1>4 DEF NowNext
  <2> HIDE DEF d
  <2>3. /\ d \in Addr /\ d \in Cells /\ ~InFrom(d) /\ InFrom(x) /\ InTo(d) /\ AllocNext(d)
        /\ mem'[d].fwd = Nil
    BY <1>1, <2>1 DEF CopiedTo
  <2>4. NowNext(d) = d
    BY <2>3 DEF NowNext
  <2>5. QED
    BY <1>0, <1>4, <2>2, <2>3, <2>4
<1>5. QED
  BY <1>2, <1>3, <1>4

(* The age an object will have is settled before it is copied.              *)
FinalAgeNext(x) == IF InFrom(x) THEN Older(mem'[x].age) ELSE mem'[x].age

LEMMA FinalAgeKept ==
  ASSUME Good, Evac, NEW x \in Addr, Allocated(x), mem[x].fwd = Nil
  PROVE  FinalAgeNext(NowNext(x)) = FinalAge(x)
<1>1. CASE mem'[x].fwd = Nil
  BY <1>1 DEF Evac, NowNext, FinalAge, FinalAgeNext
<1>2. CASE mem'[x].fwd # Nil
  <2>1. CopiedTo(x, mem'[x].fwd) /\ NowNext(x) = mem'[x].fwd
    BY <1>2 DEF Evac, NowNext
  <2>2. InFrom(x) /\ InTo(NowNext(x)) /\ mem'[NowNext(x)].age = Older(mem[x].age)
    BY <2>1 DEF CopiedTo
  <2>3. ~InFrom(NowNext(x))
    BY <2>2 DEF InTo, InFrom
  <2>4. QED
    BY <2>2, <2>3 DEF FinalAge, FinalAgeNext
<1>3. QED
  BY <1>1, <1>2

LEMMA AllocPrime ==
  ASSUME NEW x PROVE Allocated(x)' <=> AllocNext(x)
BY DEF Allocated, AllocNext

(* A current object is where it was, or it is the copy of the one that was. *)
LEMMA PastFacts ==
  ASSUME Good, Evac, NEW q \in Addr, AllocNext(q), mem'[q].fwd = Nil
  PROVE  \E p \in Objects : q = NowNext(p) /\ (q \in Cells => p \in Cells)
<1>1. CASE Allocated(q)
  <2>1. mem[q].fwd = Nil
    BY <1>1 DEF Evac
  <2>2. q \in Objects
    BY <1>1, <2>1 DEF Objects
  <2>3. q = NowNext(q)
    BY DEF NowNext
  <2>4. QED
    BY <2>2, <2>3
<1>2. CASE ~Allocated(q)
  <2>1. PICK a \in Cells : mem'[a].fwd = q /\ CopiedTo(a, q)
    BY <1>2 DEF Evac
  <2>2. a \in Objects
    BY <2>1, AddressFacts DEF CopiedTo, Objects
  <2>3. q = NowNext(a)
    BY <2>1, AddressFacts DEF NowNext
  <2>4. QED
    BY <2>2, <2>3
<1>3. QED
  BY <1>1, <1>2

LEMMA KidNext ==
  ASSUME Good, Evac, NEW p \in Objects, NEW k \in 1..NField
  PROVE  LET v == mem[p].kid[k] IN
         \/ mem'[NowNext(p)].kid[k] = v
         \/ v # Nil /\ mem'[NowNext(p)].kid[k] = NowNext(v)
<1>1. p \in Addr /\ Allocated(p) /\ mem[p].fwd = Nil
  BY DEF Objects
<1>2. CASE mem'[p].fwd = Nil
  BY <1>1, <1>2 DEF Evac, NowNext
<1>3. CASE mem'[p].fwd # Nil
  BY <1>1, <1>3 DEF Evac, NowNext, CopiedTo
<1>4. QED
  BY <1>2, <1>3

LEMMA KidFacts ==
  ASSUME Good, NEW p \in Addr, Allocated(p), NEW k \in 1..NField, mem[p].kid[k] # Nil
  PROVE  mem[p].kid[k] \in Addr /\ Allocated(mem[p].kid[k])
<1>1. mem[p].kid[k] \in Kid
  BY TypeParts DEF Good, Cell, Kid
<1>2. QED
  BY <1>1 DEF Good, PathInv, Valid, Kid

LEMMA EvacHeap ==
  ASSUME Good, Evac
  PROVE  Valid' /\ Blanks' /\ ForwardsUp' /\ Aged'
<1>1. Valid'
  <2> SUFFICES ASSUME NEW a \in Addr, AllocNext(a), NEW k \in 1..NField, mem'[a].kid[k] # Nil
               PROVE  AllocNext(mem'[a].kid[k])
    BY DEF Valid, Allocated, AllocNext
  <2>1. PICK b \in Addr : /\ Allocated(b)
                          /\ \/ mem'[a].kid[k] = mem[b].kid[k]
                             \/ mem[b].kid[k] # Nil /\ mem'[a].kid[k] = NowNext(mem[b].kid[k])
    BY AddressFacts DEF Evac, CopiedTo
  <2>2. mem[b].kid[k] # Nil
    BY <2>1
  <2>3. mem[b].kid[k] \in Addr /\ Allocated(mem[b].kid[k])
    BY <2>1, <2>2, KidFacts
  <2>4. AllocNext(mem[b].kid[k]) /\ AllocNext(NowNext(mem[b].kid[k]))
    BY <2>3, NowNextFacts DEF Evac
  <2>5. QED
    BY <2>1, <2>4
<1>2. Blanks'
  <2> SUFFICES ASSUME NEW a \in Cells, ~AllocNext(a)
               PROVE  mem'[a].fwd = Nil /\ mem'[a].kid = NoKids
    BY AllocPrime DEF Blanks, NoKids
  <2>1. a \in Addr /\ ~Allocated(a) /\ mem'[a] = mem[a]
    BY AddressFacts DEF Evac
  <2>2. QED
    BY <2>1 DEF Good, PathInv, Blanks
<1>3. ForwardsUp'
  <2> SUFFICES ASSUME NEW a \in Cells, AllocNext(a), mem'[a].fwd # Nil
               PROVE  mem'[a].fwd[1] >= a[1]
    BY AllocPrime DEF ForwardsUp
  <2>1. a \in Addr /\ Allocated(a)
    BY AddressFacts DEF Evac, CopiedTo
  <2>2. CASE mem[a].fwd # Nil
    BY <2>1, <2>2 DEF Evac, Good, PathInv, ForwardsUp
  <2>3. CASE mem[a].fwd = Nil
    BY <2>1, <2>3 DEF Evac, CopiedTo
  <2>4. QED
    BY <2>2, <2>3
<1>4. Aged'
  <2> SUFFICES ASSUME NEW a \in Cells, InTo(a), AllocNext(a), a[1] < upto
               PROVE  mem'[a].age >= 1
    BY AllocPrime DEF Aged, InTo, Evac
  <2>1. a \in Addr
    BY AddressFacts
  <2>2. CASE Allocated(a)
    BY <2>1, <2>2 DEF Evac, Good, PathInv, Aged
  <2>3. CASE ~Allocated(a)
    <3>1. PICK b \in Cells : mem'[a].age = Older(mem[b].age)
      BY <2>1, <2>3 DEF Evac, CopiedTo
    <3>2. mem[b].age \in 0..MaxAge
      BY TypeParts, AddressFacts DEF Good, Cell
    <3>3. MaxAge \in Nat /\ MaxAge >= 1
      <4>1. NSurvive >= 1 /\ NGen - 1 >= 1
        OBVIOUS
      <4>2. ASSUME NEW x \in Nat, NEW y \in Nat, x >= 1, y >= 1 PROVE x * y >= 1
        BY <4>2
      <4>3. QED
        BY <4>1, <4>2, MaxAgeIsNat DEF MaxAge
    <3>4. QED
      BY <3>1, <3>2, <3>3 DEF Older
  <2>4. QED
    BY <2>2, <2>3
<1>5. QED
  BY <1>1, <1>2, <1>3, <1>4

(* An entry about a pointer stays an entry about it.                        *)
LEMMA AboutKept ==
  ASSUME Good, Evac, NEW e \in LogEntry, NEW p \in Objects, NEW k \in 1..NField, About(e, p, k),
         NEW q, q = NowNext(p)
  PROVE  About(e, q, k)'
<1> DEFINE v == mem[p].kid[k]
<1>1. p \in Addr /\ Allocated(p) /\ mem[p].fwd = Nil
  BY DEF Objects
<1>2. e.parent \in Addr /\ e.snap \in Addr /\ e.snap \in Cells /\ e.parent \in Cells
  BY AddressFacts DEF LogEntry
<1>3. Now(e.parent) = p /\ e.k = k /\ v \in {e.snap, Now(e.snap)}
  BY DEF About
<1>4. Allocated(e.parent)
  BY <1>1, <1>2, <1>3, NowFacts
<1>5. NowNext(e.parent) = q
  BY <1>2, <1>3, <1>4, NowNextFacts
<1>6. v # Nil
  BY <1>2, <1>3, NowFacts, AddressFacts
<1>7. v \in Addr /\ Allocated(v)
  BY <1>1, <1>6, KidFacts
<1>8. Allocated(e.snap)
  BY <1>2, <1>3, <1>7, NowFacts
<1>9. NowNext(v) = NowNext(e.snap)
  BY <1>2, <1>3, <1>8, NowNextFacts
<1>10. mem'[q].kid[k] \in {v, NowNext(v)}
  BY KidNext
<1>11. v = e.snap \/ v = NowNext(v)
  <2>1. CASE mem[e.snap].fwd = Nil
    BY <1>3, <2>1 DEF Now
  <2>2. CASE mem[e.snap].fwd # Nil
    <3>1. NowNext(e.snap) = Now(e.snap)
      BY <1>2, <1>8, <2>2, NowNextFacts
    <3>2. QED
      BY <1>3, <1>9, <3>1
  <2>3. QED
    BY <2>1, <2>2
<1>12. mem'[q].kid[k] \in {e.snap, NowNext(e.snap)}
  BY <1>9, <1>10, <1>11
<1> HIDE DEF v
<1>13. QED
  BY <1>3, <1>5, <1>12 DEF About, Now, NowNext

(* ... and so does whether the pointer needs one.                           *)
LEMMA AheadKept ==
  ASSUME Good, Evac, NEW p \in Objects, NEW k \in 1..NField, mem[p].kid[k] # Nil,
         NEW q, q = NowNext(p), Ahead(q, mem[q].kid[k])'
  PROVE  Ahead(p, mem[p].kid[k])
<1> DEFINE v == mem[p].kid[k]
           w == mem'[q].kid[k]
<1>1. p \in Addr /\ Allocated(p) /\ mem[p].fwd = Nil
  BY DEF Objects
<1>2. v \in Addr /\ Allocated(v)
  BY <1>1, KidFacts
<1>3. w \in {v, NowNext(v)}
  BY KidNext
<1>4. NowNext(w) = NowNext(v)
  BY <1>2, <1>3, NowNextFacts
<1>5. Now(v) \in Addr /\ Allocated(Now(v)) /\ mem[Now(v)].fwd = Nil
  BY <1>2, NowFacts
<1>6. FinalAgeNext(NowNext(Now(v))) = FinalAge(Now(v)) /\ NowNext(Now(v)) = NowNext(v)
  BY <1>2, <1>5, FinalAgeKept, NowNextFacts
<1>7. FinalAgeNext(q) = FinalAge(p)
  BY <1>1, FinalAgeKept
<1> HIDE DEF v
<1>8. \A x : FinalAge(x)' = FinalAgeNext(x)
  BY DEF FinalAge, FinalAgeNext, InFrom, Evac
<1>9. FinalAgeNext(q) > FinalAgeNext(NowNext(w)) /\ Age2Gen(FinalAgeNext(NowNext(w))) < NGen - 1
  BY <1>8 DEF Ahead, Now, NowNext
<1>10. QED
  BY <1>4, <1>6, <1>7, <1>9 DEF Ahead, v

LogsGrow == \A g \in LogGens, e \in LogEntry : In(e, tolog[g]) => In(e, tolog'[g])

LEMMA KeptKept ==
  ASSUME Good, Evac, LogsGrow, NEW p \in Objects, NEW k \in 1..NField, Kept(p, k)
  PROVE  NowNext(p) = p /\ Kept(p, k)'
<1> DEFINE v == mem[p].kid[k]
           e == [parent |-> p, k |-> k, snap |-> v]
<1>1. p \in Addr /\ Allocated(p) /\ InTo(p) /\ InTo(v)
  BY DEF Objects, Kept
<1>2. ~InFrom(p) /\ ~InFrom(v) /\ v # Nil /\ e \in LogEntry
  BY <1>1, AddressFacts DEF InTo, InFrom, LogEntry
<1>3. v \in Addr /\ Allocated(v)
  BY <1>1, <1>2, KidFacts
<1>4. NowNext(p) = p /\ NowNext(v) = v
  BY <1>1, <1>2, <1>3, NowNextFacts
<1>5. mem'[p].kid[k] = v
  BY <1>4, KidNext
<1>6. \A y : InTo(y)' <=> InTo(y)
  BY DEF InTo, Evac
<1>7. PICK g \in LogGens : g <= v[1] /\ In(e, tolog[g])
  BY DEF Kept
<1>8. In(e, tolog'[g])
  BY <1>2, <1>7 DEF LogsGrow
<1> HIDE DEF v
<1>9. QED
  BY <1>1, <1>4, <1>5, <1>6, <1>7, <1>8 DEF Kept, In

(* Pointers to objects that are not ahead need no entry; the others keep    *)
(* theirs, in a log that was rewritten or in one still to be read.          *)
LEMMA TrackedKept ==
  ASSUME Good, Evac, Tracked, LogsGrow,
         \A p \in Objects \cap Cells, k \in 1..NField, q \in Addr :
           q = NowNext(p) /\ Pending(p, k) /\ Ahead(q, mem[q].kid[k])' =>
             Kept(q, k)' \/ Pending(q, k)'
  PROVE  Tracked'
<1> SUFFICES ASSUME NEW q \in Cells, AllocNext(q), mem'[q].fwd = Nil, NEW k \in 1..NField,
                    mem'[q].kid[k] \in Cells, Ahead(q, mem[q].kid[k])'
             PROVE  Kept(q, k)' \/ Pending(q, k)'
  BY AllocPrime DEF Tracked, Objects
<1>1. PICK p \in Objects : q = NowNext(p) /\ p \in Cells
  BY PastFacts, AddressFacts
<1>2. mem[p].kid[k] # Nil
  BY <1>1, KidNext, AddressFacts
<1>3. Ahead(p, mem[p].kid[k])
  BY <1>1, <1>2, AheadKept
<1>4. mem[p].kid[k] \in Cells
  <2>1. mem[p].kid[k] \in Addr /\ Allocated(mem[p].kid[k])
    BY <1>2, KidFacts DEF Objects
  <2>2. CASE mem[p].kid[k] \in Ext
    <3>1. ~InFrom(mem[p].kid[k])
      BY <2>2, AddressFacts DEF InFrom
    <3>2. NowNext(mem[p].kid[k]) = mem[p].kid[k]
      BY <2>1, <3>1, NowNextFacts
    <3>3. QED
      BY <1>1, <3>2, KidNext
  <2>3. QED
    BY <2>1, <2>2 DEF Addr
<1>5. CASE Kept(p, k)
  BY <1>1, <1>5, KeptKept
<1>6. CASE Pending(p, k)
  BY <1>1, <1>6, AddressFacts
<1>7. QED
  BY <1>1, <1>3, <1>4, <1>5, <1>6 DEF Tracked

(* A step that leaves the logs alone leaves an entry that is to be looked   *)
(* at; one that copies an object does it before the logs are read, or makes *)
(* sure of another pass.                                                    *)
Copied == \E a \in Addr : Allocated(a) /\ mem[a].fwd = Nil /\ mem'[a].fwd # Nil

LEMMA PendingKept ==
  ASSUME Good, Evac, UNCHANGED <<tolog, fromlog, triage, cg>>, pc' # "idle",
         rescued => rescued', Copied => InRoots \/ rescued',
         NEW p \in Objects, NEW k \in 1..NField, NEW q, q = NowNext(p), Pending(p, k)
  PROVE  Pending(q, k)'
<1>1. PICK g \in LogGens, e \in LogEntry :
        /\ About(e, p, k)
        /\ \/ In(e, fromlog[g]) /\ (g < cg /\ InTo(p) => rescued)
           \/ In(e, triage[g]) /\ (InTo(p) => rescued)
  BY DEF Pending
<1>2. About(e, q, k)'
  BY <1>1, AboutKept
<1>3. \A y : InTo(y)' <=> InTo(y)
  BY DEF InTo, Evac
<1>4. CASE q = p
  <2>1. CASE In(e, fromlog[g]) /\ (g < cg /\ InTo(p) => rescued)
    BY <1>2, <1>3, <1>4, <2>1 DEF Pending, In
  <2>2. CASE In(e, triage[g]) /\ (InTo(p) => rescued)
    BY <1>2, <1>3, <1>4, <2>2 DEF Pending, In
  <2>3. QED
    BY <1>1, <2>1, <2>2
<1>5. CASE q # p
  <2>1. InRoots \/ rescued'
    BY <1>5 DEF Copied, NowNext, Objects
  <2>2. CASE rescued'
    BY <1>1, <1>2, <2>2 DEF Pending, In
  <2>3. CASE InRoots
    <3>1. cg = 0 /\ triage[g] = <<>>
      BY <2>3 DEF Good, PathInv, LogPhases
    <3>2. ~In(e, triage[g]) /\ ~(g < cg)
      BY <3>1 DEF In, LogGens
    <3>3. QED
      BY <1>1, <1>2, <3>1, <3>2 DEF Pending, In
  <2>4. QED
    BY <2>1, <2>2, <2>3
<1>6. QED
  BY <1>4, <1>5

LEMMA TrackedUnread ==
  ASSUME Good, Evac, Tracked, UNCHANGED <<tolog, fromlog, triage, cg>>, pc' # "idle",
         rescued => rescued', Copied => InRoots \/ rescued'
  PROVE  Tracked'
<1>1. LogsGrow
  BY DEF LogsGrow
<1>2. QED
  BY <1>1, PendingKept, TrackedKept

(* A pointer into from-space that stays one must stay to be visited, or in  *)
(* the logs still to be read; a copy must be gray.                          *)
StillInFrom(p, k) ==
  LET v == mem[p].kid[k] IN ~InFrom(p) /\ v # Nil /\ InFrom(v) /\ mem'[p].kid[k] = v

LEMMA SettledKept ==
  ASSUME Good, Evac, Settled,
         \A p \in Objects, k \in 1..NField :
           StillInFrom(p, k) => /\ Todo(p, k) => Todo(p, k)'
                                /\ PendingNow(p, k) => PendingNow(p, k)',
         \A x \in Addr : ~Allocated(x) /\ AllocNext(x) => pc' = "scan" /\ Gray1(x)'
  PROVE  Settled'
<1>1. \A y : (InTo(y)' <=> InTo(y)) /\ (InFrom(y)' <=> InFrom(y))
  BY DEF InTo, InFrom, Evac
<1> SUFFICES ASSUME NEW p \in Addr, AllocNext(p), mem'[p].fwd = Nil, NEW k \in 1..NField,
                    ~InFrom(p), mem'[p].kid[k] # Nil, InFrom(mem'[p].kid[k])
             PROVE  Todo(p, k)' \/ (InTo(p) /\ p[1] >= upto /\ PendingNow(p, k)')
  BY <1>1, AllocPrime DEF Settled, Objects, Evac
<1>2. CASE ~Allocated(p)
  BY <1>2 DEF Todo
<1>3. CASE Allocated(p)
  <2> DEFINE v == mem[p].kid[k]
  <2>1. p \in Objects /\ NowNext(p) = p
    BY <1>3 DEF Objects, Evac, NowNext
  <2>2. mem'[p].kid[k] = v \/ (v # Nil /\ mem'[p].kid[k] = NowNext(v))
    BY <2>1, KidNext
  <2>3. v \in Addr /\ Allocated(v)
    BY <1>3, <2>2, KidFacts
  <2>4. mem'[p].kid[k] = v
    BY <2>2, <2>3, NowNextFacts
  <2>5. StillInFrom(p, k)
    BY <2>4 DEF StillInFrom
  <2>6. Todo(p, k) \/ (InTo(p) /\ p[1] >= upto /\ PendingNow(p, k))
    BY <2>1, <2>5 DEF Settled, StillInFrom
  <2>7. QED
    BY <2>1, <2>5, <2>6
<1>4. QED
  BY <1>2, <1>3

LEMMA PendingNowKept ==
  ASSUME Good, Evac, NEW p \in Objects, NEW k \in 1..NField, ~InFrom(p), PendingNow(p, k),
         UNCHANGED <<fromlog, cg>>
  PROVE  PendingNow(p, k)'
<1>1. PICK g \in LogGens, e \in LogEntry : g >= cg /\ In(e, fromlog[g]) /\ About(e, p, k)
  BY DEF PendingNow
<1>2. p = NowNext(p)
  BY NowNextFacts DEF Objects
<1>3. About(e, p, k)'
  BY <1>1, <1>2, AboutKept
<1>4. QED
  BY <1>1, <1>3 DEF PendingNow, In

LEMMA CopyGray ==
  ASSUME Good, Evac, AgeGeneration', Checkpoint \/ (pc = "scan" /\ UNCHANGED gray),
         NEW x \in Addr, ~Allocated(x), AllocNext(x)
  PROVE  Gray1(x)'
<1>1. PICK a \in Cells : CopiedTo(a, x)
  BY DEF Evac
<1>2. /\ Allocated(a) /\ InFrom(a) /\ InTo(x) /\ x \in Cells /\ mem'[x].age = Older(mem[a].age)
      /\ a \in Addr
  BY <1>1, AddressFacts DEF CopiedTo, InTo
<1>3. /\ a[1] < upto /\ a[1] \in Gens /\ x[1] \in Gens /\ x[3] \in 1..MaxObjs /\ x[2] = to[x[1]]
      /\ upto \in 0..NGen /\ free[x[1]] \in [{0, 1} -> 0..MaxObjs] /\ to[x[1]] \in {0, 1}
      /\ x \notin Ext
  BY <1>2, PlaceFacts DEF Good, CopyInv, InTo
<1>4. x[1] <= a[1] + 1
  <2>1. x[1] = Age2Gen(Older(mem[a].age)) /\ a[1] = Age2Gen(mem[a].age)
    BY <1>2, AllocPrime DEF Good, AgeGeneration
  <2>2. mem[a].age \in 0..MaxAge
    BY <1>2, TypeParts DEF Good, Cell
  <2>3. ASSUME NEW n \in Nat
        PROVE  (n + 1) \div NSurvive <= n \div NSurvive + 1
    OBVIOUS
  <2>4. mem[a].age \div NSurvive \in Nat /\ (mem[a].age + 1) \div NSurvive \in Nat
        /\ MaxAge \in Nat
    BY <2>2, MaxAgeIsNat
  <2>5. QED
    BY <2>1, <2>2, <2>3, <2>4 DEF Age2Gen, Older
<1>5. x[1] < ScanEnd /\ ScanEnd' = ScanEnd
  BY <1>3, <1>4 DEF ScanEnd, Gens, Evac
<1>6. x[3] > free[x[1]][to[x[1]]]
  BY <1>3 DEF Allocated
<1>7. gray'[x[1]] <= free[x[1]][to[x[1]]]
  BY <1>3, <1>5 DEF Checkpoint, Good, PathInv, GrayBelow
<1>8. gray'[x[1]] \in Nat
  BY <1>3, <1>5, TypeParts DEF Checkpoint, Good
<1>9. InTo(x)'
  BY <1>2 DEF InTo, Evac
<1>10. QED
  BY <1>3, <1>5, <1>6, <1>7, <1>8, <1>9 DEF Gray1

(* Leaving a pointer leaves every other pointer to be visited.              *)
LEMMA NextSlotStacked ==
  ASSUME TypeInv, Visiting, stack' = NextSlot, NEW p, NEW k \in 1..NField, Stacked(p, k)
  PROVE  (p = Top.obj /\ k = Top.k) \/ Stacked(p, k)'
<1> DEFINE todo == {i \in 1..Len(stack) : stack[i].k < NField}
           inner == {i \in todo : \A j \in todo : j <= i}
           n == CHOOSE i \in inner : TRUE
<1>1. stack \in Seq(Frames) /\ Len(stack) \in Nat /\ Len(stack) >= 1
  BY TypeParts DEF Visiting
<1>1a. \A i \in 1..Len(stack) : stack[i] \in Frames
  BY <1>1
<1>2. \A i \in 1..Len(stack) : stack[i].k \in 1..NField
  BY <1>1a DEF Frames
<1>3. PICK i \in 1..Len(stack) :
        stack[i].obj = p /\ IF i = Len(stack) THEN k >= stack[i].k ELSE k > stack[i].k
  BY DEF Stacked
<1>4. CASE i = Len(stack) /\ k = stack[i].k
  BY <1>3, <1>4 DEF Top
<1>5. CASE k > stack[i].k
  <2>1. i \in todo
    BY <1>2, <1>5
  <2>2. inner # {}
    BY <1>1, <2>1, GreatestPosition
  <2>3. n \in inner
    BY <2>2
  <2>4. n \in 1..Len(stack) /\ i <= n
    BY <2>1, <2>3
  <2> DEFINE sub == SubSeq(stack, 1, n)
  <2>5. stack' = [sub EXCEPT ![n].k = sub[n].k + 1]
    BY <2>1 DEF NextSlot
  <2> HIDE DEF n, todo
  <2>6. sub \in Seq(Frames) /\ Len(sub) = n /\ \A j \in 1..n : sub[j] = stack[j]
    BY <1>1, <2>4, SubSeqProperties
  <2> HIDE DEF sub
  <2>7. Len(stack') = n /\ \A j \in 1..n : stack'[j] = IF j = n THEN [sub[n] EXCEPT !.k = sub[n].k + 1] ELSE sub[j]
    BY <2>4, <2>5, <2>6
  <2>8. stack'[i].obj = p /\ IF i = n THEN stack'[i].k = stack[i].k + 1 ELSE stack'[i].k = stack[i].k
    <3>1. stack[i] \in [obj : Addr, k : 1..NField]
      BY <1>1a DEF Frames
    <3>2. stack'[i] = IF i = n THEN [stack[i] EXCEPT !.k = stack[i].k + 1] ELSE stack[i]
      BY <2>4, <2>6, <2>7
    <3>3. QED
      BY <1>3, <3>1, <3>2
  <2>9. i \in 1..Len(stack')
    BY <2>4, <2>7
  <2>10. IF i = n THEN k >= stack'[i].k ELSE k > stack'[i].k
    BY <1>2, <1>5, <2>8
  <2>11. QED
    BY <2>7, <2>8, <2>9, <2>10 DEF Stacked
<1>6. QED
  BY <1>2, <1>3, <1>4, <1>5

-----------------------------------------------------------------------------
(* Copying and visiting, before the logs are read and between two entries.  *)

LEMMA ScanLogs ==
  ASSUME Good, Evac, Tracked, UNCHANGED <<logs, upto, cg, rescued>>,
         pc \in {"roots", "scan"}, pc' # "idle", InRoots' => InRoots,
         pc' = "scan" /\ back' = "mlog" => pc = "scan" /\ back = "mlog"
  PROVE  Tracked' /\ LogPhases' /\ LogBound' /\ LogBelow'
<1>1. UNCHANGED <<tolog, fromlog, triage>>
  BY DEF logs
<1>2. InRoots \/ rescued
  BY DEF InRoots, Good, CopyInv, Phases, PathInv, LogPhases
<1>3. Tracked'
  BY <1>1, <1>2, TrackedUnread
<1>4. LogBound' /\ LogBelow'
  BY <1>1 DEF Good, PathInv, LogBound, LogBelow
<1>5. LogPhases'
  BY <1>1 DEF Good, PathInv, LogPhases, InRoots
<1>6. QED
  BY <1>3, <1>4, <1>5

LEMMA SameRoots ==
  ASSUME Good, Evac, UNCHANGED <<root, ri>>, InRoots => InRoots'
  PROVE  RootsValid'
<1>1. ASSUME NEW r \in 1..NRoot, root[r] # Nil
      PROVE  AllocNext(root[r]) /\ (InFrom(root[r]) => InRoots' /\ r >= ri)
  <2>1. root[r] \in Addr /\ Allocated(root[r]) /\ (InFrom(root[r]) => InRoots /\ r >= ri)
    BY <1>1, TypeParts DEF Good, PathInv, RootsValid, Kid
  <2>2. QED
    BY <2>1 DEF Evac
<1>2. \A y : InFrom(y)' <=> InFrom(y)
  BY DEF InFrom, Evac
<1>3. \A r \in 1..NExt : root'[r] = <<NGen, 0, r>>
  BY DEF Good, PathInv, RootsValid
<1>4. QED
  BY <1>1, <1>2, <1>3, AllocPrime DEF RootsValid

(* The frame of an object that is visited is one of the stack.              *)
LEMMA FrameStack ==
  ASSUME NEW a \in Addr
  PROVE  /\ Len(<<Frame(a)>>) = 1 /\ <<Frame(a)>>[1].obj = a /\ <<Frame(a)>>[1].k = 1
         /\ <<Frame(a)>> \in Seq(Frames)
BY DEF Frame, Frames

LEMMA EvacWhole ==
  ASSUME Good, Evac, RootsValid', StackValid', GrayBelow', LogPhases', LogBound', LogBelow',
         Tracked', Settled'
  PROVE  Whole'
BY EvacHeap DEF Whole, PathInv

LEMMA CheckpointBelow ==
  ASSUME Good, Evac, Checkpoint, \A g \in Gens : free'[g][to[g]] >= free[g][to[g]]
  PROVE  GrayBelow'
<1>1. ScanEnd' = ScanEnd /\ to' = to
  BY DEF ScanEnd, Evac
<1>2. QED
  BY <1>1 DEF Checkpoint, GrayBelow

(* _copy_roots leaves a root behind that points to to-space.                *)
LEMMA RootDoneWhole ==
  ASSUME Good, Tracked, Settled, CopyRoot, RootDone,
         \/ root[ri] = Nil /\ root' = root
         \/ /\ root[ri] # Nil /\ InFrom(root[ri]) /\ mem[root[ri]].fwd # Nil
            /\ root' = [root EXCEPT ![ri] = mem[root[ri]].fwd]
  PROVE  Whole'
<1>1. /\ pc = "roots" /\ ri \in 1..NRoot /\ UNCHANGED <<mem, free, to, logs, upto, cg, rescued>>
      /\ UNCHANGED <<pc, stack, gray, sg, back>> /\ ri' = ri + 1
  BY TypeParts DEF CopyRoot, RootDone, scan, Good
<1>2. Evac
  BY <1>1, SameEvac
<1>3. Tracked' /\ LogPhases' /\ LogBound' /\ LogBelow'
  BY <1>1, <1>2, ScanLogs DEF InRoots
<1>4. StackValid' /\ GrayBelow'
  BY <1>1 DEF Good, PathInv, StackValid, GrayBelow
<1>5. \A y : (InFrom(y)' <=> InFrom(y)) /\ (Allocated(y)' <=> Allocated(y))
  BY <1>1 DEF InFrom, Allocated
<1>6. root \in [1..NRoot -> Kid]
  BY TypeParts DEF Good
<1>7. InRoots /\ InRoots'
  BY <1>1 DEF InRoots
<1>8. RootsValid'
  <2>1. ASSUME NEW r \in 1..NRoot, root'[r] # Nil
        PROVE  Allocated(root'[r]) /\ (InFrom(root'[r]) => r >= ri + 1)
    <3>1. CASE r # ri
      <4>1. root'[r] = root[r]
        BY <1>6, <3>1
      <4>2. Allocated(root[r]) /\ (InFrom(root[r]) => r >= ri)
        BY <2>1, <4>1 DEF Good, PathInv, RootsValid
      <4>3. QED
        BY <1>1, <3>1, <4>1, <4>2
    <3>2. CASE r = ri
      <4>1. root[ri] # Nil /\ root'[r] = mem[root[ri]].fwd /\ mem[root[ri]].fwd # Nil
        BY <1>6, <2>1, <3>2
      <4>2. root[ri] \in Addr /\ Allocated(root[ri])
        BY <1>1, <1>6, <4>1 DEF Good, PathInv, RootsValid, Kid
      <4>3. Allocated(root'[r]) /\ InTo(root'[r])
        BY <4>1, <4>2, NowFacts
      <4>4. QED
        BY <4>3 DEF InTo, InFrom
    <3>3. QED
      BY <3>1, <3>2
  <2>2. ASSUME NEW r \in 1..NExt
        PROVE  root'[r] = <<NGen, 0, r>>
    <3>1. root[r] = <<NGen, 0, r>> /\ root[r] \in Ext
      BY DEF Good, PathInv, RootsValid, Ext
    <3>2. root[r] # Nil /\ ~InFrom(root[r])
      BY <3>1, AddressFacts DEF InFrom
    <3>3. r # ri
      BY <3>2
    <3>4. QED
      BY <1>6, <3>1, <3>3
  <2>3. QED
    BY <1>1, <1>5, <1>7, <2>1, <2>2 DEF RootsValid
<1>9. Settled'
  <2>1. ASSUME NEW p \in Objects, NEW k \in 1..NField, StillInFrom(p, k), Todo(p, k)
        PROVE  Todo(p, k)'
    <3>1. p \in Ext /\ p[3] >= ri
      BY <1>1, <2>1 DEF Todo
    <3>2. PICK i \in 1..NExt : p = <<NGen, 0, i>>
      BY <3>1 DEF Ext
    <3>3. root[i] = p /\ p # Nil /\ ~InFrom(p)
      BY <3>1, <3>2, AddressFacts DEF Good, PathInv, RootsValid, InFrom
    <3>4. i # ri
      BY <3>3
    <3>5. p[3] >= ri + 1
      BY <1>1, <3>1, <3>2, <3>4
    <3>6. QED
      BY <1>1, <1>7, <3>1, <3>5 DEF Todo
  <2>2. ASSUME NEW p \in Objects, NEW k \in 1..NField, StillInFrom(p, k), PendingNow(p, k)
        PROVE  PendingNow(p, k)'
    BY <1>1, <1>2, <2>2, PendingNowKept DEF StillInFrom, logs
  <2>3. \A x \in Addr : AllocNext(x) => Allocated(x)
    BY <1>1 DEF AllocNext, Allocated
  <2>4. QED
    BY <1>2, <2>1, <2>2, <2>3, SettledKept
<1>10. QED
  BY <1>2, <1>3, <1>4, <1>8, <1>9, EvacWhole

(* Frames stay frames of objects that are not in from-space.                *)
LEMMA SameStack ==
  ASSUME Good, Evac, stack' = stack \/ stack' = <<>>, pc' = "scan" \/ stack' = <<>>
  PROVE  StackValid'
<1>1. \A i \in 1..Len(stack) : AllocNext(stack[i].obj) /\ ~InFrom(stack[i].obj)
  <2> SUFFICES ASSUME NEW i \in 1..Len(stack)
               PROVE  AllocNext(stack[i].obj) /\ ~InFrom(stack[i].obj)
    OBVIOUS
  <2>1. stack[i] \in Frames
    BY TypeParts DEF Good
  <2>2. stack[i].obj \in Addr
    BY <2>1 DEF Frames
  <2>3. QED
    BY <2>2 DEF Good, PathInv, StackValid, Evac
<1>2. \A y : InFrom(y)' <=> InFrom(y)
  BY DEF InFrom, Evac
<1>3. CASE stack' = stack
  BY <1>1, <1>2, <1>3, AllocPrime DEF StackValid
<1>4. CASE stack' = <<>>
  BY <1>4 DEF StackValid
<1>5. QED
  BY <1>3, <1>4

LEMMA DeepMoveFacts ==
  ASSUME Good, AgeGeneration', UNCHANGED <<to, upto>>, NEW a \in Addr, InFrom(a), NEW caller,
         DeepMove(a, caller)
  PROVE  /\ Evac /\ mem'[a].fwd = Dest(a) /\ StackValid' /\ GrayBelow'
         /\ \A x \in Addr : ~Allocated(x) /\ AllocNext(x) => pc' = "scan" /\ Gray1(x)'
<1>1. Evac /\ mem'[a].fwd = Dest(a)
  BY CopyEvac DEF DeepMove
<1>2. StackValid'
  BY <1>1, SameStack DEF DeepMove
<1>3. \A g \in Gens : free'[g][to[g]] >= free[g][to[g]]
  <2> DEFINE d == Dest(a)
  <2>1. free' = [free EXCEPT ![d[1]][d[2]] = free[d[1]][d[2]] + 1]
    BY DEF DeepMove, Grown
  <2>2. d[1] \in Gens /\ d[2] \in {0, 1} /\ free \in Frees /\ to \in [Gens -> {0, 1}]
    BY TypeParts, AddressFacts DEF DeepMove, CanMove, Good
  <2> HIDE DEF d
  <2>3. QED
    BY <2>1, <2>2 DEF Frees
<1>4. GrayBelow'
  BY <1>1, <1>3, CheckpointBelow DEF DeepMove
<1>5. \A x \in Addr : ~Allocated(x) /\ AllocNext(x) => pc' = "scan" /\ Gray1(x)'
  BY <1>1, CopyGray DEF DeepMove
<1>6. QED
  BY <1>1, <1>2, <1>4, <1>5

(* _copy_roots copies the object that a root points to.                     *)
LEMMA RootMovedWhole ==
  ASSUME Good, Tracked, Settled, AgeGeneration', CopyRoot,
         root[ri] # Nil, InFrom(root[ri]), DeepMove(root[ri], "roots"),
         root' = [root EXCEPT ![ri] = Dest(root[ri])], ri' = ri + 1
  PROVE  Whole'
<1> DEFINE a == root[ri]
<1>1. /\ pc = "roots" /\ ri \in 1..NRoot /\ UNCHANGED <<to, logs, upto, cg, rescued>>
      /\ pc' = "scan" /\ back' = "roots" /\ CanMove(a)
  BY TypeParts DEF CopyRoot, DeepMove, Good
<1>2. a \in Addr /\ InFrom(a)
  BY AddressFacts DEF InFrom
<1>3. /\ Evac /\ mem'[a].fwd = Dest(a) /\ StackValid' /\ GrayBelow'
      /\ \A x \in Addr : ~Allocated(x) /\ AllocNext(x) => pc' = "scan" /\ Gray1(x)'
  BY <1>1, <1>2, DeepMoveFacts
<1>4. InRoots /\ InRoots'
  BY <1>1 DEF InRoots
<1>5. Tracked' /\ LogPhases' /\ LogBound' /\ LogBelow'
  BY <1>1, <1>3, <1>4, ScanLogs
<1>6. \A y : InFrom(y)' <=> InFrom(y)
  BY <1>1 DEF InFrom
<1>7. root \in [1..NRoot -> Kid]
  BY TypeParts DEF Good
<1>8. RootsValid'
  <2>1. ASSUME NEW r \in 1..NRoot, root'[r] # Nil
        PROVE  AllocNext(root'[r]) /\ (InFrom(root'[r]) => r >= ri + 1)
    <3>1. CASE r # ri
      <4>1. root'[r] = root[r]
        BY <1>7, <3>1
      <4>2. root[r] \in Addr /\ Allocated(root[r]) /\ (InFrom(root[r]) => r >= ri)
        BY <1>7, <2>1, <4>1 DEF Good, PathInv, RootsValid, Kid
      <4>3. QED
        BY <1>1, <1>3, <3>1, <4>1, <4>2 DEF Evac
    <3>2. CASE r = ri
      <4>1. root'[r] = Dest(a)
        BY <1>7, <3>2
      <4>2. InTo(Dest(a)) /\ Dest(a) \in Addr /\ Dest(a) # Nil
        BY <1>1, <1>2, DestFacts, AddressFacts DEF Good
      <4>3. mem[a].fwd = Nil /\ Allocated(a)
        BY <1>1 DEF CanMove
      <4>4. AllocNext(Dest(a))
        BY <1>2, <1>3, <4>2, <4>3 DEF Evac, CopiedTo
      <4>5. QED
        BY <4>1, <4>2, <4>4 DEF InTo, InFrom
    <3>3. QED
      BY <3>1, <3>2
  <2>2. ASSUME NEW r \in 1..NExt
        PROVE  root'[r] = <<NGen, 0, r>>
    <3>1. root[r] = <<NGen, 0, r>> /\ root[r] \in Ext
      BY DEF Good, PathInv, RootsValid, Ext
    <3>2. ~InFrom(root[r])
      BY <3>1, AddressFacts DEF InFrom
    <3>3. r # ri
      BY <3>2
    <3>4. QED
      BY <1>7, <3>1, <3>3
  <2>3. QED
    BY <1>4, <1>6, <2>1, <2>2, AllocPrime DEF RootsValid
<1>9. Settled'
  <2>1. ASSUME NEW p \in Objects, NEW k \in 1..NField, StillInFrom(p, k), Todo(p, k)
        PROVE  Todo(p, k)'
    <3>1. p \in Ext /\ p[3] >= ri
      BY <1>1, <2>1 DEF Todo
    <3>2. PICK i \in 1..NExt : p = <<NGen, 0, i>>
      BY <3>1 DEF Ext
    <3>3. root[i] = p /\ ~InFrom(p)
      BY <3>1, <3>2, AddressFacts DEF Good, PathInv, RootsValid, InFrom
    <3>4. i # ri
      BY <3>3
    <3>5. p[3] >= ri + 1
      BY <1>1, <3>1, <3>2, <3>4
    <3>6. QED
      BY <1>1, <1>4, <3>1, <3>5 DEF Todo
  <2>2. ASSUME NEW p \in Objects, NEW k \in 1..NField, StillInFrom(p, k), PendingNow(p, k)
        PROVE  PendingNow(p, k)'
    BY <1>1, <1>3, <2>2, PendingNowKept DEF StillInFrom, logs
  <2>3. QED
    BY <1>3, <2>1, <2>2, SettledKept
<1>10. QED
  BY <1>3, <1>5, <1>8, <1>9, EvacWhole

(* _copy_roots visits an object that is not collected.                      *)
LEMMA RootVisitedWhole ==
  ASSUME Good, Tracked, Settled, CopyRoot,
         root[ri] # Nil, ~InFrom(root[ri]), Checkpoint, stack' = <<Frame(root[ri])>>,
         pc' = "scan", back' = "roots", ri' = ri + 1, UNCHANGED <<mem, free, root>>
  PROVE  Whole'
<1> DEFINE a == root[ri]
<1>1. pc = "roots" /\ ri \in 1..NRoot /\ UNCHANGED <<to, logs, upto, cg, rescued>>
  BY TypeParts DEF CopyRoot, Good
<1>2. Evac
  BY <1>1, SameEvac
<1>3. InRoots /\ InRoots'
  BY <1>1 DEF InRoots
<1>4. Tracked' /\ LogPhases' /\ LogBound' /\ LogBelow'
  BY <1>1, <1>2, <1>3, ScanLogs
<1>5. \A y : (InFrom(y)' <=> InFrom(y)) /\ (Allocated(y)' <=> Allocated(y))
  BY <1>1 DEF InFrom, Allocated
<1>6. a \in Addr /\ Allocated(a) /\ ~InFrom(a)
  BY <1>1, TypeParts DEF Good, PathInv, RootsValid, Kid
<1>7. Len(stack') = 1 /\ stack'[1].obj = a /\ stack'[1].k = 1
  BY <1>6, FrameStack
<1>8. StackValid'
  BY <1>5, <1>6, <1>7 DEF StackValid
<1>9. GrayBelow'
  <2>1. \A g \in Gens : free[g][to[g]] \in 0..MaxObjs
    <3> TAKE g \in Gens
    <3>1. free[g] \in [{0, 1} -> 0..MaxObjs] /\ to[g] \in {0, 1}
      BY TypeParts DEF Good, Frees
    <3>2. QED
      BY <3>1
  <2>2. QED
    BY <1>2, <2>1, CheckpointBelow
<1>10. RootsValid'
  <2>1. ASSUME NEW r \in 1..NRoot, root[r] # Nil
        PROVE  Allocated(root[r]) /\ (InFrom(root[r]) => r >= ri + 1)
    <3>1. Allocated(root[r]) /\ (InFrom(root[r]) => r >= ri)
      BY <2>1 DEF Good, PathInv, RootsValid
    <3>2. QED
      BY <1>1, <3>1
  <2>2. \A r \in 1..NExt : root[r] = <<NGen, 0, r>>
    BY DEF Good, PathInv, RootsValid
  <2>3. QED
    BY <1>3, <1>5, <2>1, <2>2 DEF RootsValid
<1>11. Settled'
  <2>1. ASSUME NEW p \in Objects, NEW k \in 1..NField, StillInFrom(p, k), Todo(p, k)
        PROVE  Todo(p, k)'
    <3>1. p \in Ext /\ p[3] >= ri
      BY <1>1, <2>1 DEF Todo
    <3>2. PICK i \in 1..NExt : p = <<NGen, 0, i>>
      BY <3>1 DEF Ext
    <3>3. root[i] = p
      BY <3>2 DEF Good, PathInv, RootsValid
    <3>4. CASE i = ri
      <4>1. Stacked(p, k)'
        BY <1>7, <3>3, <3>4 DEF Stacked
      <4>2. QED
        BY <4>1 DEF Todo
    <3>5. CASE i # ri
      <4>1. p[3] >= ri + 1
        BY <1>1, <3>1, <3>2, <3>5
      <4>2. QED
        BY <1>3, <3>1, <4>1 DEF Todo
    <3>6. QED
      BY <3>4, <3>5
  <2>2. ASSUME NEW p \in Objects, NEW k \in 1..NField, StillInFrom(p, k), PendingNow(p, k)
        PROVE  PendingNow(p, k)'
    BY <1>1, <1>2, <2>2, PendingNowKept DEF StillInFrom, logs
  <2>3. \A x \in Addr : AllocNext(x) => Allocated(x)
    BY DEF AllocNext, Allocated
  <2>4. QED
    BY <1>2, <2>1, <2>2, <2>3, SettledKept
<1>12. QED
  BY <1>2, <1>4, <1>8, <1>9, <1>10, <1>11, EvacWhole

LEMMA CopyRootWhole ==
  ASSUME Good, Tracked, Settled, AgeGeneration', CopyRoot
  PROVE  Whole'
<1>1. CASE root[ri] = Nil /\ RootDone /\ UNCHANGED root
  BY <1>1, RootDoneWhole
<1>2. CASE /\ root[ri] # Nil /\ InFrom(root[ri]) /\ mem[root[ri]].fwd # Nil
           /\ root' = [root EXCEPT ![ri] = mem[root[ri]].fwd] /\ RootDone
  BY <1>2, RootDoneWhole
<1>3. CASE /\ root[ri] # Nil /\ InFrom(root[ri]) /\ DeepMove(root[ri], "roots")
           /\ root' = [root EXCEPT ![ri] = Dest(root[ri])] /\ ri' = ri + 1
  BY <1>3, RootMovedWhole
<1>4. CASE /\ root[ri] # Nil /\ ~InFrom(root[ri])
           /\ Checkpoint /\ stack' = <<Frame(root[ri])>>
           /\ pc' = "scan" /\ back' = "roots" /\ ri' = ri + 1 /\ UNCHANGED <<mem, free, root>>
  BY <1>4, RootVisitedWhole
<1>5. QED
  BY <1>1, <1>2, <1>3, <1>4 DEF CopyRoot

LEMMA RootsDoneWhole ==
  ASSUME Good, Tracked, Settled, RootsDone
  PROVE  Whole'
<1>1. /\ pc = "roots" /\ ri > NRoot /\ pc' = "mlog" /\ cg' = 0 /\ rescued' = FALSE
      /\ UNCHANGED <<mem, free, to, root, tolog, fromlog, triage, upto, ri, stack, gray, sg, back>>
  BY DEF RootsDone, heap, logs, scan
<1>2. Evac
  BY <1>1, SameEvac
<1>3. InRoots /\ ~InRoots' /\ cg = 0 /\ cg' = cg /\ \A g \in LogGens : triage[g] = <<>>
  BY <1>1 DEF InRoots, Good, PathInv, LogPhases
<1>4. Tracked'
  <2>1. LogsGrow
    BY <1>1 DEF LogsGrow
  <2>2. ASSUME NEW p \in Objects, NEW k \in 1..NField, NEW q, q = NowNext(p), Pending(p, k)
        PROVE  Pending(q, k)'
    <3>1. PICK g \in LogGens, e \in LogEntry :
            About(e, p, k) /\ (In(e, fromlog[g]) \/ In(e, triage[g]))
      BY <2>2 DEF Pending
    <3>2. About(e, q, k)'
      BY <1>2, <2>2, <3>1, AboutKept
    <3>3. ~In(e, triage[g]) /\ ~(g < 0)
      BY <1>3 DEF In, LogGens
    <3>4. QED
      BY <1>1, <3>1, <3>2, <3>3 DEF Pending, In
  <2>3. QED
    BY <1>2, <2>1, <2>2, TrackedKept
<1>5. LogBound' /\ LogBelow'
  BY <1>1 DEF Good, PathInv, LogBound, LogBelow
<1>6. LogPhases'
  BY <1>1, <1>3 DEF Good, PathInv, LogPhases
<1>7. StackValid' /\ GrayBelow'
  BY <1>1, <1>2, SameStack DEF Good, PathInv, StackValid, GrayBelow
<1>8. RootsValid'
  <2>1. ASSUME NEW r \in 1..NRoot, root[r] # Nil
        PROVE  Allocated(root[r]) /\ ~InFrom(root[r])
    <3>1. Allocated(root[r]) /\ (InFrom(root[r]) => r >= ri)
      BY <2>1 DEF Good, PathInv, RootsValid
    <3>2. QED
      BY <1>1, <3>1, TypeParts DEF Good
  <2>2. \A r \in 1..NExt : root[r] = <<NGen, 0, r>>
    BY DEF Good, PathInv, RootsValid
  <2>3. \A y : (InFrom(y)' <=> InFrom(y)) /\ (Allocated(y)' <=> Allocated(y))
    BY <1>1 DEF InFrom, Allocated
  <2>4. QED
    BY <1>1, <2>1, <2>2, <2>3 DEF RootsValid
<1>9. Settled'
  <2>1. ASSUME NEW p \in Objects, NEW k \in 1..NField, Todo(p, k)
        PROVE  FALSE
    <3>1. p \in Ext /\ p[3] >= ri
      BY <1>1, <2>1 DEF Todo
    <3>2. p[3] \in 1..NRoot
      BY <3>1 DEF Ext
    <3>3. QED
      BY <1>1, <3>1, <3>2, TypeParts DEF Good
  <2>2. ASSUME NEW p \in Objects, NEW k \in 1..NField, StillInFrom(p, k), PendingNow(p, k)
        PROVE  PendingNow(p, k)'
    BY <1>1, <1>2, <1>3, <2>2, PendingNowKept DEF StillInFrom
  <2>3. \A x \in Addr : AllocNext(x) => Allocated(x)
    BY <1>1 DEF AllocNext, Allocated
  <2>4. QED
    BY <1>2, <2>1, <2>2, <2>3, SettledKept
<1>10. QED
  BY <1>2, <1>4, <1>5, <1>6, <1>7, <1>8, <1>9, EvacWhole

(* visit_gco_children.                                                      *)
LEMMA TopFacts ==
  ASSUME Good, Visiting
  PROVE  /\ Top.obj \in Addr /\ Top.k \in 1..NField /\ Allocated(Top.obj) /\ ~InFrom(Top.obj)
         /\ Top.obj \in Objects /\ Len(stack) \in Nat /\ Len(stack) >= 1
         /\ Slot # Nil => Slot \in Addr /\ Allocated(Slot)
<1>1. Top.obj \in Addr /\ Top.k \in 1..NField
  BY VisitFacts DEF Good, TypeInv
<1>2. stack \in Seq(Frames) /\ stack # <<>>
  BY TypeParts DEF Good, Visiting
<1>3. Len(stack) \in Nat /\ Len(stack) >= 1
  BY <1>2
<1>4. Allocated(Top.obj) /\ ~InFrom(Top.obj)
  BY <1>3 DEF Good, PathInv, StackValid, Top
<1>5. Top.obj \in Objects
  BY <1>1, <1>4, NowFacts DEF Objects
<1>6. Slot # Nil => Slot \in Addr /\ Allocated(Slot)
  BY <1>1, <1>4, KidFacts DEF Slot
<1>7. QED
  BY <1>1, <1>3, <1>4, <1>5, <1>6

LEMMA StoreAt ==
  ASSUME NEW m \in [Addr -> Cell], NEW p \in Addr, NEW k \in 1..NField, NEW v,
         mem' = [m EXCEPT ![p].kid[k] = v]
  PROVE  mem'[p].kid[k] = v
<1>1. m[p] \in Cell
  OBVIOUS
<1>2. m[p].kid \in [1..NField -> Kid]
  BY <1>1 DEF Cell, Kid
<1>3. QED
  BY <1>1, <1>2 DEF Cell

LEMMA NextSlotFrames ==
  ASSUME TypeInv, Visiting, NEW i \in 1..Len(NextSlot)
  PROVE  \E j \in 1..Len(stack) : NextSlot[i].obj = stack[j].obj
<1> DEFINE todo == {x \in 1..Len(stack) : stack[x].k < NField}
           inner == {x \in todo : \A j \in todo : j <= x}
           n == CHOOSE x \in inner : TRUE
           sub == SubSeq(stack, 1, n)
<1>1. stack \in Seq(Frames) /\ Len(stack) \in Nat
  BY TypeParts
<1>2. todo # {}
  BY DEF NextSlot
<1>3. inner # {}
  BY <1>1, <1>2, GreatestPosition
<1>4. n \in 1..Len(stack)
  BY <1>3
<1>5. NextSlot = [sub EXCEPT ![n].k = sub[n].k + 1]
  BY <1>2 DEF NextSlot
<1> HIDE DEF n, todo
<1>6. sub \in Seq(Frames) /\ Len(sub) = n /\ \A j \in 1..n : sub[j] = stack[j]
  BY <1>1, <1>4, SubSeqProperties
<1> HIDE DEF sub
<1>7. Len(NextSlot) = n /\ \A j \in 1..n : NextSlot[j] = IF j = n THEN [sub[n] EXCEPT !.k = sub[n].k + 1] ELSE sub[j]
  BY <1>4, <1>5, <1>6
<1>8. i \in 1..n /\ i \in 1..Len(stack)
  BY <1>4, <1>7
<1>9. stack[i] \in Frames
  BY <1>1, <1>8
<1>10. NextSlot[i].obj = stack[i].obj
  BY <1>6, <1>7, <1>8, <1>9 DEF Frames
<1>11. QED
  BY <1>8, <1>10

LEMMA FreeGrows ==
  ASSUME TypeInv, TypeInv', Evac, NEW g \in Gens
  PROVE  free'[g][to[g]] >= free[g][to[g]]
<1> DEFINE c == free[g][to[g]]
           a == <<g, to[g], c>>
<1>1. to[g] \in {0, 1} /\ free[g] \in [{0, 1} -> 0..MaxObjs] /\ c \in 0..MaxObjs
  BY TypeParts DEF Frees
<1>2. free' \in Frees
  BY DEF TypeInv, TypeOK, Frees
<1>3. free'[g][to[g]] \in 0..MaxObjs
  BY <1>1, <1>2 DEF Frees
<1>4. CASE c = 0
  BY <1>3, <1>4
<1>5. CASE c # 0
  <2>1. a \in Cells /\ a[1] = g /\ a[2] = to[g] /\ a[3] = c
    BY <1>1, <1>5, AddressFacts
  <2>2. a \in Addr /\ a \notin Ext /\ Allocated(a)
    BY <2>1, AddressFacts DEF Allocated
  <2>3. AllocNext(a)
    BY <2>2 DEF Evac
  <2> HIDE DEF a
  <2>4. QED
    BY <2>1, <2>2, <2>3 DEF AllocNext
<1>6. QED
  BY <1>4, <1>5

(* A step of the visit: the pointer to forward is forwarded, and the other  *)
(* ones that are in the stack stay there.                                   *)
LEMMA VisitStepWhole ==
  ASSUME Good, TypeInv', AgeGeneration', Tracked, Settled, Visiting, OnlyScan, Evac, StackValid',
         \A p \in Objects, k \in 1..NField :
           StillInFrom(p, k) /\ Stacked(p, k) => Stacked(p, k)'
  PROVE  Whole'
<1>1. pc = "scan" /\ pc' = "scan" /\ UNCHANGED <<to, root, logs, upto, ri, gray, sg, back, cg, rescued>>
  BY DEF Visiting, OnlyScan
<1>2. (InRoots' <=> InRoots) /\ ScanEnd' = ScanEnd
  BY <1>1 DEF InRoots, ScanEnd
<1>3. Tracked' /\ LogPhases' /\ LogBound' /\ LogBelow'
  BY <1>1, <1>2, ScanLogs
<1>4. RootsValid'
  BY <1>1, <1>2, SameRoots
<1>5. GrayBelow'
  <2>1. ASSUME NEW g \in Gens, g < ScanEnd
        PROVE  gray[g] <= free'[g][to[g]]
    <3>1. gray[g] <= free[g][to[g]] /\ free'[g][to[g]] >= free[g][to[g]]
      BY <1>1, <2>1, FreeGrows DEF Good, PathInv, GrayBelow
    <3>2. gray[g] \in Nat /\ to[g] \in {0, 1} /\ free[g] \in [{0, 1} -> 0..MaxObjs]
          /\ free'[g] \in [{0, 1} -> 0..MaxObjs]
      BY TypeParts DEF Good, TypeInv, TypeOK, Frees
    <3>3. QED
      BY <3>1, <3>2
  <2>2. QED
    BY <1>1, <1>2, <2>1 DEF GrayBelow
<1>6. Settled'
  <2>1. ASSUME NEW p \in Objects, NEW k \in 1..NField, StillInFrom(p, k), Todo(p, k)
        PROVE  Todo(p, k)'
    <3>1. CASE p \in Ext /\ InRoots /\ p[3] >= ri
      BY <1>1, <1>2, <3>1 DEF Todo
    <3>2. CASE Gray1(p)
      <4>1. Gray1(p)'
        BY <1>1, <1>2, <3>2 DEF Gray1, InTo
      <4>2. QED
        BY <1>1, <4>1 DEF Todo
    <3>3. CASE Stacked(p, k)
      BY <1>1, <2>1, <3>3 DEF Todo
    <3>4. QED
      BY <2>1, <3>1, <3>2, <3>3 DEF Todo
  <2>2. ASSUME NEW p \in Objects, NEW k \in 1..NField, StillInFrom(p, k), PendingNow(p, k)
        PROVE  PendingNow(p, k)'
    BY <1>1, <2>2, PendingNowKept DEF StillInFrom, logs
  <2>3. \A x \in Addr : ~Allocated(x) /\ AllocNext(x) => pc' = "scan" /\ Gray1(x)'
    BY <1>1, CopyGray
  <2>4. QED
    BY <2>1, <2>2, <2>3, SettledKept
<1>7. QED
  BY <1>3, <1>4, <1>5, <1>6, EvacWhole

LEMMA NextSlotValid ==
  ASSUME Good, Visiting, Evac, stack' = NextSlot, pc' = "scan"
  PROVE  StackValid'
<1>1. ASSUME NEW i \in 1..Len(NextSlot)
      PROVE  AllocNext(NextSlot[i].obj) /\ ~InFrom(NextSlot[i].obj)
  <2>1. PICK j \in 1..Len(stack) : NextSlot[i].obj = stack[j].obj
    BY NextSlotFrames DEF Good
  <2>2. stack[j] \in Frames
    BY TypeParts DEF Good
  <2>3. stack[j].obj \in Addr /\ Allocated(stack[j].obj) /\ ~InFrom(stack[j].obj)
    BY <2>2 DEF Good, PathInv, StackValid, Frames
  <2>4. QED
    BY <2>1, <2>3 DEF Evac
<1>2. \A y : InFrom(y)' <=> InFrom(y)
  BY DEF InFrom, Evac
<1>3. QED
  BY <1>1, <1>2, AllocPrime DEF StackValid

(* A visit that goes on with the next pointer has dealt with this one.      *)
LEMMA NextSlotWhole ==
  ASSUME Good, TypeInv', AgeGeneration', Tracked, Settled, Visiting, OnlyScan, Evac,
         stack' = NextSlot, ~StillInFrom(Top.obj, Top.k)
  PROVE  Whole'
<1>1. StackValid'
  BY NextSlotValid DEF Visiting, OnlyScan
<1>2. ASSUME NEW p \in Objects, NEW k \in 1..NField, StillInFrom(p, k), Stacked(p, k)
      PROVE  Stacked(p, k)'
  BY <1>2, NextSlotStacked DEF Good
<1>3. QED
  BY <1>1, <1>2, VisitStepWhole

LEMMA VisitWhole ==
  ASSUME Good, TypeInv', AgeGeneration', Tracked, Settled, Visit
  PROVE  Whole'
<1>1. CASE SkipNull
  <2>1. Visiting /\ OnlyScan /\ stack' = NextSlot /\ UNCHANGED <<mem, free, to, upto>> /\ Slot = Nil
    BY <1>1 DEF SkipNull, OnlyScan
  <2>2. Evac /\ ~StillInFrom(Top.obj, Top.k)
    BY <2>1, SameEvac DEF StillInFrom, Slot
  <2>3. QED
    BY <2>1, <2>2, NextSlotWhole
<1>2. CASE VisitChildren
  <2>1. /\ Visiting /\ OnlyScan /\ UNCHANGED <<mem, free, to, upto>> /\ Slot # Nil /\ ~InFrom(Slot)
        /\ stack' = Append(stack, Frame(Slot)) /\ pc' = "scan"
    BY <1>2 DEF VisitChildren, OnlyScan, Visiting
  <2>2. /\ Slot \in Addr /\ Allocated(Slot) /\ Len(stack) \in Nat
        /\ Len(stack) >= 1 /\ stack \in Seq(Frames)
    BY <2>1, TopFacts, TypeParts DEF Good
  <2>3. Evac
    BY <2>1, SameEvac
  <2>4. /\ Len(stack') = Len(stack) + 1 /\ \A i \in 1..Len(stack) : stack'[i] = stack[i]
        /\ stack'[Len(stack) + 1].obj = Slot
    BY <2>1, <2>2 DEF Frame, Frames
  <2>5. \A y : (InFrom(y)' <=> InFrom(y)) /\ (Allocated(y)' <=> Allocated(y))
    BY <2>1 DEF InFrom, Allocated
  <2>6. StackValid'
    BY <2>1, <2>2, <2>4, <2>5 DEF StackValid, Good, PathInv
  <2>7. ASSUME NEW p \in Objects, NEW k \in 1..NField, StillInFrom(p, k), Stacked(p, k)
        PROVE  Stacked(p, k)'
    <3>1. PICK i \in 1..Len(stack) :
            stack[i].obj = p /\ IF i = Len(stack) THEN k >= stack[i].k ELSE k > stack[i].k
      BY <2>7 DEF Stacked
    <3>2. ~(i = Len(stack) /\ k = stack[i].k)
      BY <2>1, <2>7, <3>1 DEF StillInFrom, Slot, Top
    <3>3. stack[i] \in Frames
      BY <2>2
    <3>4. k > stack[i].k
      BY <3>1, <3>2, <3>3 DEF Frames
    <3>5. i \in 1..Len(stack') /\ i # Len(stack') /\ stack'[i] = stack[i]
      BY <2>2, <2>4
    <3>6. QED
      BY <3>1, <3>4, <3>5 DEF Stacked
  <2>8. QED
    BY <2>1, <2>3, <2>6, <2>7, VisitStepWhole
<1>3. CASE FollowForward
  <2>1. /\ Visiting /\ OnlyScan /\ stack' = NextSlot /\ UNCHANGED <<free, to, upto>>
        /\ Slot # Nil /\ InFrom(Slot) /\ mem[Slot].fwd # Nil
        /\ mem' = [mem EXCEPT ![Top.obj].kid[Top.k] = mem[Slot].fwd]
    BY <1>3 DEF FollowForward, OnlyScan
  <2>2. /\ Top.obj \in Addr /\ Top.k \in 1..NField /\ Allocated(Top.obj) /\ Slot \in Addr
        /\ Slot = mem[Top.obj].kid[Top.k]
    BY <2>1, TopFacts DEF Slot
  <2>3. Now(Slot) = mem[Slot].fwd /\ InTo(Now(Slot))
    BY <2>1, <2>2, NowFacts
  <2>4. Evac
    BY <2>1, <2>2, <2>3, ForwardEvac
  <2>5. mem'[Top.obj].kid[Top.k] = Now(Slot)
    BY <2>1, <2>2, <2>3, StoreAt, TypeParts DEF Good
  <2>6. ~StillInFrom(Top.obj, Top.k)
    BY <2>1, <2>2, <2>3, <2>5 DEF StillInFrom, InTo, InFrom
  <2>7. QED
    BY <2>1, <2>4, <2>6, NextSlotWhole
<1>4. CASE MoveChild
  <2>1. /\ Visiting /\ OnlyScan /\ stack' = NextSlot /\ UNCHANGED <<to, upto>>
        /\ Slot # Nil /\ InFrom(Slot) /\ CanMove(Slot) /\ free' = Grown(Slot)
        /\ mem' = [Moved(Slot) EXCEPT ![Top.obj].kid[Top.k] = Dest(Slot)]
    BY <1>4 DEF MoveChild, OnlyScan
  <2>2. /\ Top.obj \in Addr /\ Top.k \in 1..NField /\ Allocated(Top.obj) /\ Slot \in Addr
        /\ Slot = mem[Top.obj].kid[Top.k]
    BY <2>1, TopFacts DEF Slot
  <2>3. InTo(Dest(Slot)) /\ ~Allocated(Dest(Slot))
    BY <2>1, <2>2, DestFacts DEF Good
  <2>4. Top.obj # Dest(Slot)
    BY <2>2, <2>3
  <2>5. Evac
    BY <2>1, <2>2, <2>4, CopyEvac
  <2>6. mem'[Top.obj].kid[Top.k] = Dest(Slot)
    <3>1. Moved(Slot) \in [Addr -> Cell]
      BY <2>1, <2>2, MovedFacts DEF Good
    <3>2. QED
      BY <2>1, <2>2, <3>1, StoreAt
  <2>7. ~StillInFrom(Top.obj, Top.k)
    BY <2>1, <2>2, <2>3, <2>6 DEF StillInFrom, InTo, InFrom
  <2>8. QED
    BY <2>1, <2>5, <2>7, NextSlotWhole
<1>5. QED
  BY <1>1, <1>2, <1>3, <1>4 DEF Visit

(* _forward_children_until_fixpoint.                                        *)
LEMMA ScanGrayWhole ==
  ASSUME Good, Tracked, Settled, ScanGray
  PROVE  Whole'
<1>1. /\ pc = "scan" /\ pc' = "scan" /\ stack = <<>>
      /\ UNCHANGED <<mem, free, to, root, logs, upto, ri, back, cg, rescued>>
  BY DEF ScanGray, FixpointStep, heap
<1>2. PICK g \in 0..(ScanEnd - 1) :
        /\ gray[g] < free[g][to[g]] /\ gray' = [gray EXCEPT ![g] = gray[g] + 1]
        /\ stack' = <<Frame(<<g, to[g], gray[g] + 1>>)>>
  <2>1. sg \in 0..(NGen - 1) /\ upto \in 0..NGen
    BY TypeParts DEF Good, Gens
  <2>2. ScanEnd \in Nat
    BY <2>1 DEF ScanEnd
  <2>3. PICK g \in Gray(sg..(ScanEnd - 1)) \cup GrayGens :
          /\ gray' = [gray EXCEPT ![g] = gray[g] + 1]
          /\ stack' = <<Frame(<<g, to[g], gray[g] + 1>>)>>
    BY DEF ScanGray
  <2>4. gray[g] < free[g][to[g]] /\ g \in 0..(ScanEnd - 1)
    BY <2>1, <2>2 DEF Gray, GrayGens
  <2>5. QED
    BY <2>3, <2>4
<1> DEFINE a == <<g, to[g], gray[g] + 1>>
<1>3. ScanEnd \in Nat /\ ScanEnd <= NGen /\ ScanEnd' = ScanEnd /\ g \in Gens
  <2>1. upto \in 0..NGen
    BY TypeParts DEF Good
  <2>2. ScanEnd \in Nat /\ ScanEnd <= NGen /\ ScanEnd' = ScanEnd
    BY <1>1, <2>1 DEF ScanEnd
  <2>3. QED
    BY <2>2 DEF Gens
<1>4. /\ to[g] \in {0, 1} /\ free[g] \in [{0, 1} -> 0..MaxObjs] /\ gray \in [Gens -> 0..MaxObjs]
      /\ gray[g] \in Nat /\ free[g][to[g]] \in 0..MaxObjs
  BY <1>3, TypeParts DEF Good, Frees
<1>5. a \in Cells /\ a[1] = g /\ a[2] = to[g] /\ a[3] = gray[g] + 1
  BY <1>2, <1>3, <1>4, AddressFacts
<1>6. a \in Addr /\ InTo(a) /\ Allocated(a)
  BY <1>2, <1>4, <1>5, AddressFacts DEF InTo, Allocated
<1>7. ~InFrom(a)
  BY <1>6 DEF InTo, InFrom
<1> HIDE DEF a
<1>8. stack' = <<Frame(a)>>
  BY <1>2 DEF a
<1>9. Len(stack') = 1 /\ stack'[1].obj = a /\ stack'[1].k = 1
  BY <1>6, <1>8, FrameStack
<1>10. Evac /\ (InRoots' <=> InRoots)
  BY <1>1, SameEvac DEF InRoots
<1>11. Tracked' /\ LogPhases' /\ LogBound' /\ LogBelow' /\ RootsValid'
  BY <1>1, <1>10, ScanLogs, SameRoots
<1>12. \A y : (InTo(y)' <=> InTo(y)) /\ (InFrom(y)' <=> InFrom(y)) /\ (Allocated(y)' <=> Allocated(y))
  BY <1>1 DEF InTo, InFrom, Allocated
<1>13. StackValid'
  BY <1>1, <1>6, <1>7, <1>9, <1>12 DEF StackValid
<1>14. GrayBelow'
  BY <1>1, <1>2, <1>3, <1>4 DEF GrayBelow, Good, PathInv
<1>15. Settled'
  <2>1. ASSUME NEW p \in Objects, NEW k \in 1..NField, StillInFrom(p, k), Todo(p, k)
        PROVE  Todo(p, k)'
    <3>1. CASE p \in Ext /\ InRoots /\ p[3] >= ri
      BY <1>1, <1>10, <3>1 DEF Todo
    <3>2. CASE Gray1(p)
      <4>1. InTo(p) /\ p[1] < ScanEnd /\ p[3] > gray[p[1]]
        BY <3>2 DEF Gray1
      <4>2. p[1] \in Gens /\ p[3] \in Nat /\ p = <<p[1], p[2], p[3]>> /\ p[2] = to[p[1]]
        BY <4>1, AddressFacts DEF InTo
      <4>3. CASE p = a
        <5>1. Stacked(p, k)'
          BY <1>9, <4>3 DEF Stacked
        <5>2. QED
          BY <1>1, <5>1 DEF Todo
      <4>4. CASE p # a
        <5>1. p[3] > gray'[p[1]]
          <6>1. CASE p[1] # g
            BY <1>2, <1>4, <4>1, <4>2, <6>1
          <6>2. CASE p[1] = g
            <7>1. p[3] # gray[g] + 1
              BY <4>2, <4>4, <6>2 DEF a
            <7>2. QED
              BY <1>2, <1>3, <1>4, <4>1, <4>2, <6>2, <7>1
          <6>3. QED
            BY <6>1, <6>2
        <5>2. Gray1(p)'
          BY <1>3, <1>12, <4>1, <5>1 DEF Gray1
        <5>3. QED
          BY <1>1, <5>2 DEF Todo
      <4>5. QED
        BY <4>3, <4>4
    <3>3. ~Stacked(p, k)
      BY <1>1 DEF Stacked
    <3>4. QED
      BY <2>1, <3>1, <3>2, <3>3 DEF Todo
  <2>2. ASSUME NEW p \in Objects, NEW k \in 1..NField, StillInFrom(p, k), PendingNow(p, k)
        PROVE  PendingNow(p, k)'
    BY <1>1, <1>10, <2>2, PendingNowKept DEF StillInFrom, logs
  <2>3. \A x \in Addr : AllocNext(x) => Allocated(x)
    BY <1>1 DEF AllocNext, Allocated
  <2>4. QED
    BY <1>10, <2>1, <2>2, <2>3, SettledKept
<1>16. QED
  BY <1>10, <1>11, <1>13, <1>14, <1>15, EvacWhole

LEMMA FixpointWhole ==
  ASSUME Good, Tracked, Settled, Fixpoint
  PROVE  Whole'
<1>1. /\ pc = "scan" /\ pc' = back /\ stack = <<>> /\ stack' = <<>> /\ GrayGens = {}
      /\ UNCHANGED <<mem, free, to, root, logs, upto, ri, back, cg, rescued>>
  BY DEF Fixpoint, FixpointStep, heap
<1>2. back \in {"roots", "mlog"}
  BY <1>1 DEF Good, CopyInv, Phases
<1>3. Evac /\ (InRoots' <=> InRoots)
  BY <1>1, <1>2, SameEvac DEF InRoots
<1>4. Tracked' /\ LogPhases' /\ LogBound' /\ LogBelow' /\ RootsValid'
  BY <1>1, <1>2, <1>3, ScanLogs, SameRoots
<1>5. StackValid' /\ GrayBelow'
  BY <1>1, <1>2 DEF StackValid, GrayBelow
<1>6. Settled'
  <2>1. ASSUME NEW p \in Objects, NEW k \in 1..NField, StillInFrom(p, k), Todo(p, k)
        PROVE  Todo(p, k)'
    <3>1. CASE p \in Ext /\ InRoots /\ p[3] >= ri
      BY <1>1, <1>3, <3>1 DEF Todo
    <3>2. ~Gray1(p)
      <4> SUFFICES ASSUME Gray1(p) PROVE FALSE
        OBVIOUS
      <4>1. p \in Cells /\ p[2] = to[p[1]] /\ p[1] < ScanEnd /\ p[3] > gray[p[1]]
        BY DEF Gray1, InTo
      <4>2. /\ p[1] \in Gens /\ p[3] \in Nat /\ p \notin Ext /\ upto \in 0..NGen
            /\ free[p[1]] \in [{0, 1} -> 0..MaxObjs] /\ to[p[1]] \in {0, 1}
        BY <4>1, PlaceFacts DEF Good, CopyInv
      <4>3. p[3] <= free[p[1]][to[p[1]]]
        BY <4>1, <4>2 DEF Objects, Allocated
      <4>4. p[1] \notin GrayGens
        BY <1>1
      <4>5. p[1] \in 0..(ScanEnd - 1)
        BY <4>1, <4>2 DEF ScanEnd, Gens
      <4>6. ~(gray[p[1]] < free[p[1]][to[p[1]]])
        BY <4>4, <4>5 DEF GrayGens, Gray
      <4>7. gray[p[1]] \in Nat
        BY <4>2, TypeParts DEF Good
      <4>8. QED
        BY <4>1, <4>2, <4>3, <4>6, <4>7
    <3>3. ~Stacked(p, k)
      BY <1>1 DEF Stacked
    <3>4. QED
      BY <2>1, <3>1, <3>2, <3>3 DEF Todo
  <2>2. ASSUME NEW p \in Objects, NEW k \in 1..NField, StillInFrom(p, k), PendingNow(p, k)
        PROVE  PendingNow(p, k)'
    BY <1>1, <1>3, <2>2, PendingNowKept DEF StillInFrom, logs
  <2>3. \A x \in Addr : AllocNext(x) => Allocated(x)
    BY <1>1 DEF AllocNext, Allocated
  <2>4. QED
    BY <1>3, <2>1, <2>2, <2>3, SettledKept
<1>7. QED
  BY <1>3, <1>4, <1>5, <1>6, EvacWhole

-----------------------------------------------------------------------------
(* forward_mutation_log.                                                    *)

LEMMA PutFacts ==
  ASSUME NEW log \in Seq(LogEntry), NEW r \in LogEntry, Len(log) < LogCap
  PROVE  /\ Put(log, r) \in Seq(LogEntry) /\ Len(Put(log, r)) = Len(log) + 1
         /\ In(r, Put(log, r))
         /\ \A e : In(e, log) => In(e, Put(log, r))
         /\ \A e : In(e, Put(log, r)) => e = r \/ In(e, log)
<1>1. Put(log, r) = Append(log, r) /\ Len(log) \in Nat
  BY DEF Put
<1>2. /\ Put(log, r) \in Seq(LogEntry) /\ Len(Put(log, r)) = Len(log) + 1
      /\ \A i \in 1..Len(log) : Put(log, r)[i] = log[i]
      /\ Put(log, r)[Len(log) + 1] = r
  BY <1>1
<1>3. QED
  BY <1>1, <1>2 DEF In

LEMMA TailFacts ==
  ASSUME NEW log \in Seq(LogEntry), log # <<>>
  PROVE  /\ Tail(log) \in Seq(LogEntry) /\ Len(Tail(log)) = Len(log) - 1 /\ Len(log) >= 1
         /\ In(Head(log), log)
         /\ \A e : In(e, log) => e = Head(log) \/ In(e, Tail(log))
         /\ \A e : In(e, Tail(log)) => In(e, log)
<1>1. /\ Tail(log) \in Seq(LogEntry) /\ Len(Tail(log)) = Len(log) - 1
      /\ Len(log) \in Nat /\ Len(log) >= 1 /\ Head(log) = log[1]
      /\ \A i \in 1..(Len(log) - 1) : Tail(log)[i] = log[i + 1]
  OBVIOUS
<1>2. ASSUME NEW e, In(e, log), e # Head(log)
      PROVE  In(e, Tail(log))
  <2>1. PICK i \in 1..Len(log) : log[i] = e
    BY <1>2 DEF In
  <2>2. i # 1 /\ i - 1 \in 1..Len(Tail(log)) /\ Tail(log)[i - 1] = e
    BY <1>1, <1>2, <2>1
  <2>3. QED
    BY <2>2 DEF In
<1>3. ASSUME NEW e, In(e, Tail(log))
      PROVE  In(e, log)
  <2>1. PICK i \in 1..Len(Tail(log)) : Tail(log)[i] = e
    BY <1>3 DEF In
  <2>2. i + 1 \in 1..Len(log) /\ log[i + 1] = e
    BY <1>1, <2>1
  <2>3. QED
    BY <2>2 DEF In
<1>4. QED
  BY <1>1, <1>2, <1>3 DEF In

(* The entry at the head of the log.                                        *)
LEMMA HeadFacts ==
  ASSUME Good, InLog
  PROVE  /\ Entry \in LogEntry /\ Refreshed(Entry) \in LogEntry /\ cg \in LogGens
         /\ Entry.parent \in Cells /\ Entry.snap \in Cells /\ Entry.k \in 1..NField
         /\ Now(Entry.parent) \in Cells /\ Now(Entry.snap) \in Cells
         /\ cg <= Entry.snap[1] /\ cg <= Now(Entry.snap)[1]
<1>1. /\ Entry \in LogEntry /\ Refreshed(Entry) \in LogEntry /\ cg \in LogGens
      /\ fromlog[cg] \in Seq(LogEntry)
  BY EntryFacts, TypeParts DEF Good, TypeInv, Log
<1>2. /\ Entry.parent \in Cells /\ Entry.snap \in Cells /\ Entry.k \in 1..NField
      /\ Now(Entry.parent) \in Cells /\ Now(Entry.snap) \in Cells
  BY <1>1, NowFacts, AddressFacts DEF LogEntry
<1>3. In(Entry, fromlog[cg])
  BY <1>1, TailFacts DEF InLog, Entry
<1>4. cg <= Entry.snap[1]
  BY <1>1, <1>3 DEF Good, PathInv, LogBelow
<1>5. Now(Entry.snap)[1] >= Entry.snap[1]
  <2>1. CASE mem[Entry.snap].fwd = Nil
    <3>1. Entry.snap[1] \in Nat
      BY <1>2, AddressFacts
    <3>2. QED
      BY <2>1, <3>1 DEF Now
  <2>2. CASE mem[Entry.snap].fwd # Nil
    <3>1. Allocated(Entry.snap) /\ Now(Entry.snap) = mem[Entry.snap].fwd
      BY <1>2, <2>2, NowFacts, AddressFacts
    <3>2. QED
      BY <1>2, <2>2, <3>1 DEF Good, PathInv, ForwardsUp
  <2>3. QED
    BY <2>1, <2>2
<1>6. cg \in Nat /\ Entry.snap[1] \in Nat /\ Now(Entry.snap)[1] \in Nat
  BY <1>1, <1>2, AddressFacts
<1>7. QED
  BY <1>1, <1>2, <1>4, <1>5, <1>6

(* An entry that is current is about a pointer of an object.                *)
LEMMA CurrentFacts ==
  ASSUME Good, InLog, Current(Entry)
  PROVE  LET p == Now(Entry.parent) IN
         /\ p \in Objects /\ p \in Addr /\ Allocated(p) /\ Allocated(Entry.snap)
         /\ mem[p].kid[Entry.k] # Nil /\ Now(mem[p].kid[Entry.k]) = Now(Entry.snap)
<1> DEFINE p == Now(Entry.parent)
           v == mem[p].kid[Entry.k]
<1>1. /\ Entry.parent \in Addr /\ Entry.snap \in Addr /\ Entry.k \in 1..NField
      /\ p \in Cells /\ p \in Addr /\ Now(Entry.snap) \in Cells /\ Entry.snap \in Cells
      /\ mem[p].fwd = Nil /\ mem[Now(Entry.snap)].fwd = Nil
  BY HeadFacts, NowFacts, AddressFacts
<1>2. v \in {Entry.snap, Now(Entry.snap)}
  BY DEF Current, Target
<1>3. v # Nil
  BY <1>1, <1>2, AddressFacts
<1>4. Now(v) = Now(Entry.snap)
  BY <1>1, <1>2 DEF Now
<1>5. Allocated(p)
  <2>1. CASE ~Allocated(p)
    <3>1. mem[p].kid = NoKids
      BY <1>1, <2>1 DEF Good, PathInv, Blanks
    <3>2. QED
      BY <1>1, <1>3, <3>1 DEF NoKids
  <2>2. QED
    BY <2>1
<1>6. Allocated(v) /\ v \in Addr
  BY <1>1, <1>3, <1>5, KidFacts
<1>7. Allocated(Entry.snap)
  BY <1>1, <1>2, <1>6, NowFacts
<1>8. QED
  BY <1>1, <1>3, <1>4, <1>5, <1>7 DEF Objects

(* Storing where the child is now is a step of evacuation.                  *)
LEMMA RepairedEvac ==
  ASSUME Good, InLog, Current(Entry), UNCHANGED <<free, to, upto>>, mem' = Repaired(Entry)
  PROVE  Evac /\ mem'[Now(Entry.parent)].kid[Entry.k] = Now(Entry.snap)
<1> DEFINE p == Now(Entry.parent)
<1>1. /\ p \in Addr /\ Allocated(p) /\ Entry.k \in 1..NField
      /\ mem[p].kid[Entry.k] # Nil /\ Now(mem[p].kid[Entry.k]) = Now(Entry.snap)
  BY HeadFacts, CurrentFacts
<1>2. mem' = [mem EXCEPT ![p].kid[Entry.k] = Now(mem[p].kid[Entry.k])]
  BY <1>1 DEF Repaired
<1>3. Evac
  <2> HIDE DEF p
  <2>1. QED
    BY <1>1, <1>2, ForwardEvac
<1>4. mem \in [Addr -> Cell]
  BY TypeParts DEF Good
<1> DEFINE k == Entry.k
           v == Now(Entry.snap)
<1>5. p \in Addr /\ k \in 1..NField /\ mem' = [mem EXCEPT ![p].kid[k] = v]
  BY <1>1 DEF Repaired
<1> HIDE DEF p, k, v
<1>6. mem'[p].kid[k] = v
  <2>1. mem[p] \in Cell
    BY <1>4, <1>5
  <2>2. mem[p].kid \in [1..NField -> Kid]
    BY <2>1 DEF Cell, Kid
  <2>3. QED
    BY <1>4, <1>5, <2>1, <2>2 DEF Cell
<1>7. QED
  BY <1>3, <1>6 DEF p, k, v

(* The logs after a step on the entry: it leaves from-log, and to-log or    *)
(* triage-log has room for it.                                              *)
ToLog == tolog' = [tolog EXCEPT ![cg] = Put(tolog[cg], Refreshed(Entry))]
ToTriage == triage' = [triage EXCEPT ![cg] = Put(triage[cg], Refreshed(Entry))]

LEMMA LogChange ==
  ASSUME Faithful, Good, InLog, NextEntry,
         \/ UNCHANGED <<tolog, triage>>
         \/ ToLog /\ UNCHANGED triage
         \/ ToTriage /\ UNCHANGED tolog
  PROVE  /\ LogBound' /\ LogBelow' /\ LogsGrow
         /\ ToLog => In(Refreshed(Entry), tolog'[cg])
         /\ ToTriage => In(Refreshed(Entry), triage'[cg])
         /\ \A g \in LogGens : g # cg => triage'[g] = triage[g]
         /\ \A g \in LogGens, e \in LogEntry :
              /\ In(e, triage[g]) => In(e, triage'[g])
              /\ In(e, fromlog[g]) => In(e, fromlog'[g]) \/ (g = cg /\ e = Entry)
<1> DEFINE r == Refreshed(Entry)
<1>1. /\ tolog \in Log /\ fromlog \in Log /\ triage \in Log /\ cg \in LogGens
      /\ r \in LogEntry /\ fromlog[cg] # <<>> /\ cg <= r.snap[1]
      /\ fromlog' = [fromlog EXCEPT ![cg] = Tail(fromlog[cg])]
  BY HeadFacts, TypeParts DEF Good, InLog, NextEntry, Refreshed
<1>2. \A g \in LogGens : /\ tolog[g] \in Seq(LogEntry) /\ fromlog[g] \in Seq(LogEntry)
                         /\ triage[g] \in Seq(LogEntry)
  BY <1>1 DEF Log
<1>3. \A g \in LogGens : /\ Len(tolog[g]) \in Nat /\ Len(fromlog[g]) \in Nat /\ Len(triage[g]) \in Nat
                         /\ Len(tolog[g]) + Len(fromlog[g]) + Len(triage[g]) <= MaxLog
  <2>1. \A g \in LogGens : Len(tolog[g]) + Len(fromlog[g]) + Len(triage[g]) <= MaxLog
    BY DEF Good, PathInv, LogBound
  <2>2. ASSUME NEW log \in Seq(LogEntry) PROVE Len(log) \in Nat
    OBVIOUS
  <2>3. QED
    BY <1>2, <2>1, <2>2
<1>4. /\ Len(fromlog'[cg]) = Len(fromlog[cg]) - 1 /\ Len(fromlog[cg]) >= 1
      /\ \A e : In(e, fromlog[cg]) => e = Entry \/ In(e, fromlog'[cg])
      /\ \A e : In(e, fromlog'[cg]) => In(e, fromlog[cg])
  BY <1>1, <1>2, TailFacts DEF Log, Entry
<1>5. \A g \in LogGens : g # cg => fromlog'[g] = fromlog[g]
  BY <1>1 DEF Log
<1>6. Len(tolog[cg]) < LogCap /\ Len(triage[cg]) < LogCap
  <2>1. /\ Len(tolog[cg]) \in Nat /\ Len(fromlog[cg]) \in Nat /\ Len(triage[cg]) \in Nat
        /\ Len(tolog[cg]) + Len(fromlog[cg]) + Len(triage[cg]) <= MaxLog
    BY <1>1, <1>3
  <2>2. MaxLog <= LogCap
    BY DEF Faithful
  <2>3. ASSUME NEW x \in Nat, NEW y \in Nat, NEW z \in Nat, x + y + z <= MaxLog, y >= 1
        PROVE  x < LogCap /\ z < LogCap
    BY <2>2, <2>3
  <2>4. QED
    BY <1>4, <2>1, <2>3
<1> HIDE DEF r
<1>7. /\ Len(Put(tolog[cg], r)) = Len(tolog[cg]) + 1 /\ In(r, Put(tolog[cg], r))
      /\ \A e : In(e, tolog[cg]) => In(e, Put(tolog[cg], r))
      /\ \A e : In(e, Put(tolog[cg], r)) => e = r \/ In(e, tolog[cg])
  BY <1>1, <1>2, <1>6, PutFacts
<1>8. /\ Len(Put(triage[cg], r)) = Len(triage[cg]) + 1 /\ In(r, Put(triage[cg], r))
      /\ \A e : In(e, triage[cg]) => In(e, Put(triage[cg], r))
      /\ \A e : In(e, Put(triage[cg], r)) => e = r \/ In(e, triage[cg])
  BY <1>1, <1>2, <1>6, PutFacts
<1>9. ASSUME NEW g \in LogGens, g # cg
      PROVE  /\ ToLog => tolog'[g] = tolog[g]
             /\ ToTriage => triage'[g] = triage[g]
  BY <1>1, <1>9 DEF ToLog, ToTriage, Log
<1>10. /\ ToLog => tolog'[cg] = Put(tolog[cg], r)
       /\ ToTriage => triage'[cg] = Put(triage[cg], r)
  BY <1>1 DEF ToLog, ToTriage, Log, r
<1>11. LogBound'
  <2> SUFFICES ASSUME NEW g \in LogGens
               PROVE  Len(tolog'[g]) + Len(fromlog'[g]) + Len(triage'[g]) <= MaxLog
    BY DEF LogBound
  <2>1. CASE g # cg
    <3>1. fromlog'[g] = fromlog[g] /\ tolog'[g] = tolog[g] /\ triage'[g] = triage[g]
      BY <1>5, <1>9, <2>1
    <3>2. QED
      BY <1>3, <3>1
  <2>2. CASE g = cg
    <3>1. /\ Len(tolog[g]) \in Nat /\ Len(fromlog[g]) \in Nat /\ Len(triage[g]) \in Nat
          /\ Len(tolog[g]) + Len(fromlog[g]) + Len(triage[g]) <= MaxLog
          /\ Len(fromlog'[g]) = Len(fromlog[g]) - 1
      BY <1>3, <1>4, <2>2
    <3>2. ASSUME NEW x \in Nat, NEW y \in Nat, NEW z \in Nat, x + y + z <= MaxLog
          PROVE  /\ x + (y - 1) + z <= MaxLog
                 /\ (x + 1) + (y - 1) + z <= MaxLog /\ x + (y - 1) + (z + 1) <= MaxLog
      BY <3>2
    <3>3. CASE UNCHANGED <<tolog, triage>>
      BY <3>1, <3>2, <3>3
    <3>4. CASE ToLog /\ UNCHANGED triage
      <4>1. Len(tolog'[g]) = Len(tolog[g]) + 1
        BY <1>7, <1>10, <2>2, <3>4
      <4>2. QED
        BY <3>1, <3>2, <3>4, <4>1
    <3>5. CASE ToTriage /\ UNCHANGED tolog
      <4>1. Len(triage'[g]) = Len(triage[g]) + 1
        BY <1>8, <1>10, <2>2, <3>5
      <4>2. QED
        BY <3>1, <3>2, <3>5, <4>1
    <3>6. QED
      BY <3>3, <3>4, <3>5
  <2>3. QED
    BY <2>1, <2>2
<1>12. LogBelow'
  <2> SUFFICES ASSUME NEW g \in LogGens, NEW e \in LogEntry,
                      In(e, tolog'[g]) \/ In(e, fromlog'[g]) \/ In(e, triage'[g])
               PROVE  g <= e.snap[1]
    BY DEF LogBelow, In
  <2>1. CASE g # cg
    BY <1>5, <1>9, <2>1 DEF Good, PathInv, LogBelow
  <2>2. CASE g = cg
    <3>1. e = r \/ In(e, tolog[g]) \/ In(e, fromlog[g]) \/ In(e, triage[g])
      BY <1>4, <1>7, <1>8, <1>10, <2>2
    <3>2. QED
      BY <1>1, <2>2, <3>1 DEF Good, PathInv, LogBelow
  <2>3. QED
    BY <2>1, <2>2
<1>13. LogsGrow
  BY <1>7, <1>9, <1>10 DEF LogsGrow
<1>14. \A g \in LogGens : g # cg => triage'[g] = triage[g]
  BY <1>9
<1>15. \A g \in LogGens, e \in LogEntry :
         /\ In(e, triage[g]) => In(e, triage'[g])
         /\ In(e, fromlog[g]) => In(e, fromlog'[g]) \/ (g = cg /\ e = Entry)
  BY <1>4, <1>5, <1>8, <1>9, <1>10
<1>16. ToLog => In(r, tolog'[cg])
  BY <1>7, <1>10
<1>17. ToTriage => In(r, triage'[cg])
  BY <1>8, <1>10
<1>18. QED
  BY <1>11, <1>12, <1>13, <1>14, <1>15, <1>16, <1>17 DEF r

(* A step on an entry deals with the pointer that the entry is about.       *)
LEMMA LogStepWhole ==
  ASSUME Faithful, Good, Tracked, Settled, InLog, NextEntry, Evac, rescued => rescued',
         \/ UNCHANGED <<tolog, triage>>
         \/ ToLog /\ UNCHANGED triage
         \/ ToTriage /\ UNCHANGED tolog,
         \A p \in Objects, k \in 1..NField :
           About(Entry, p, k) =>
             /\ Ahead(p, mem[p].kid[k])' => Kept(p, k)' \/ Pending(p, k)'
             /\ InTo(p) => ~StillInFrom(p, k)
  PROVE  Whole'
<1>1. /\ pc = "mlog" /\ pc' = "mlog" /\ cg' = cg /\ cg \in LogGens
      /\ UNCHANGED <<free, to, root, upto, ri, stack, gray, sg, back>>
  BY HeadFacts DEF InLog, NextEntry, scan
<1>2. /\ LogBound' /\ LogBelow' /\ LogsGrow
      /\ \A g \in LogGens : g # cg => triage'[g] = triage[g]
      /\ \A g \in LogGens, e \in LogEntry :
           /\ In(e, triage[g]) => In(e, triage'[g])
           /\ In(e, fromlog[g]) => In(e, fromlog'[g]) \/ (g = cg /\ e = Entry)
  BY LogChange
<1>3. \A x \in Addr : AllocNext(x) => Allocated(x)
  BY <1>1 DEF AllocNext, Allocated
<1>4. \A p \in Objects : NowNext(p) = p
  <2> TAKE p \in Objects
  <2>1. p \in Addr /\ Allocated(p) /\ mem[p].fwd = Nil
    BY DEF Objects
  <2>2. mem'[p].fwd = Nil
    <3> SUFFICES ASSUME mem'[p].fwd # Nil PROVE FALSE
      OBVIOUS
    <3>1. CopiedTo(p, mem'[p].fwd)
      BY <2>1 DEF Evac
    <3>2. mem'[p].fwd \in Addr
      BY <3>1, AddressFacts DEF CopiedTo, InTo
    <3>3. QED
      BY <1>3, <3>1, <3>2 DEF CopiedTo
  <2>3. QED
    BY <2>2 DEF NowNext
<1>5. \A y : (InTo(y)' <=> InTo(y)) /\ (InFrom(y)' <=> InFrom(y))
  BY <1>1 DEF InTo, InFrom
<1>6. ASSUME NEW p \in Objects, NEW k \in 1..NField, Pending(p, k), ~About(Entry, p, k)
      PROVE  Pending(p, k)'
  <2>1. PICK g \in LogGens, e \in LogEntry :
          /\ About(e, p, k)
          /\ \/ In(e, fromlog[g]) /\ (g < cg /\ InTo(p) => rescued)
             \/ In(e, triage[g]) /\ (InTo(p) => rescued)
    BY <1>6 DEF Pending
  <2>2. About(e, p, k)' /\ e # Entry
    BY <1>4, <1>6, <2>1, AboutKept
  <2>3. \/ In(e, fromlog'[g]) /\ (g < cg /\ InTo(p) => rescued)
        \/ In(e, triage'[g]) /\ (InTo(p) => rescued)
    BY <1>2, <2>1, <2>2
  <2>4. QED
    BY <1>1, <1>5, <2>2, <2>3 DEF Pending, In
<1>7. Tracked'
  <2>1. ASSUME NEW p \in Objects \cap Cells, NEW k \in 1..NField, NEW q \in Addr,
               q = NowNext(p), Pending(p, k), Ahead(q, mem[q].kid[k])'
        PROVE  Kept(q, k)' \/ Pending(q, k)'
    <3>1. q = p
      BY <1>4, <2>1
    <3>2. QED
      BY <1>6, <2>1, <3>1
  <2>2. QED
    BY <1>2, <2>1, TrackedKept
<1>8. ASSUME NEW p \in Objects, NEW k \in 1..NField, StillInFrom(p, k), PendingNow(p, k), InTo(p)
      PROVE  PendingNow(p, k)'
  <2>1. PICK g \in LogGens, e \in LogEntry : g >= cg /\ In(e, fromlog[g]) /\ About(e, p, k)
    BY <1>8 DEF PendingNow
  <2>2. e # Entry
    BY <1>8, <2>1
  <2>3. About(e, p, k)' /\ In(e, fromlog'[g])
    BY <1>2, <1>4, <2>1, <2>2, AboutKept
  <2>4. QED
    BY <1>1, <2>1, <2>3 DEF PendingNow, In
<1>9. ~InRoots /\ ~InRoots'
  BY <1>1 DEF InRoots
<1>10. LogPhases'
  BY <1>1, <1>2, <1>9 DEF LogPhases, Good, PathInv
<1>11. StackValid' /\ GrayBelow' /\ RootsValid'
  <2>1. stack' = stack /\ stack = <<>>
    BY <1>1 DEF Good, PathInv, StackValid
  <2>2. QED
    BY <1>1, <1>9, <2>1, SameRoots, SameStack DEF GrayBelow
<1>12. Settled'
  <2>1. \A p \in Objects, k \in 1..NField : ~Todo(p, k)
    BY <1>1, <1>9 DEF Todo
  <2>2. ASSUME NEW p \in Addr, AllocNext(p), mem'[p].fwd = Nil, NEW k \in 1..NField,
               ~InFrom(p), mem'[p].kid[k] # Nil, InFrom(mem'[p].kid[k])
        PROVE  InTo(p) /\ p[1] >= upto /\ PendingNow(p, k)'
    <3> DEFINE v == mem[p].kid[k]
    <3>1. Allocated(p)
      BY <1>3, <2>2
    <3>2. p \in Objects /\ NowNext(p) = p
      BY <2>2, <3>1 DEF Objects, Evac, NowNext
    <3>3. mem'[p].kid[k] = v \/ (v # Nil /\ mem'[p].kid[k] = NowNext(v))
      BY <3>2, KidNext
    <3>4. v \in Addr /\ Allocated(v)
      BY <2>2, <3>1, <3>3, KidFacts
    <3>5. mem'[p].kid[k] = v
      BY <2>2, <3>3, <3>4, NowNextFacts
    <3>6. StillInFrom(p, k)
      BY <2>2, <3>5 DEF StillInFrom
    <3>7. InTo(p) /\ p[1] >= upto /\ PendingNow(p, k)
      BY <2>1, <3>2, <3>6 DEF Settled, StillInFrom
    <3>8. QED
      BY <1>8, <3>2, <3>6, <3>7
  <2>3. QED
    BY <1>1, <1>5, <2>2, AllocPrime DEF Settled, Objects
<1>13. QED
  BY <1>2, <1>7, <1>10, <1>11, <1>12, EvacWhole

(* During a collection the copies in one generation that is not the last    *)
(* have one age.                                                            *)
LEMMA OneAge ==
  ASSUME Faithful, Good, pc # "idle", NEW p \in Cells, NEW v \in Cells, InTo(p), InTo(v),
         Allocated(p), Allocated(v), p[1] = v[1], v[1] < NGen - 1
  PROVE  mem[p].age = mem[v].age
<1>1. /\ mem[p].age \in 0..MaxAge /\ mem[v].age \in 0..MaxAge /\ MaxAge \in Nat
      /\ v[1] \in 0..(NGen - 1) /\ upto \in 1..NGen
  <2>1. p \in Addr /\ v \in Addr /\ v[1] \in Gens
    BY AddressFacts
  <2>2. upto >= 1 /\ upto \in 0..NGen
    BY TypeParts DEF Good, PathInv, LogPhases
  <2>3. mem[p] \in Cell /\ mem[v] \in Cell
    BY <2>1, TypeParts DEF Good
  <2>4. mem[p].age \in 0..MaxAge /\ mem[v].age \in 0..MaxAge
    BY <2>3 DEF Cell
  <2>5. v[1] \in 0..(NGen - 1)
    BY <2>1 DEF Gens
  <2>6. QED
    BY <2>2, <2>4, <2>5, MaxAgeIsNat
<1>2. Age2Gen(mem[p].age) = v[1] /\ Age2Gen(mem[v].age) = v[1]
  BY DEF Good, AgeGeneration
<1>3. mem[p].age \div NSurvive = v[1] /\ mem[v].age \div NSurvive = v[1]
  BY <1>1, <1>2 DEF Age2Gen
<1>4. CASE NSurvive = 1
  BY <1>1, <1>3, <1>4
<1>5. CASE NSurvive = 2 /\ NGen = 2
  <2>1. v[1] = 0 /\ v[1] < upto
    BY <1>1, <1>5
  <2>2. mem[p].age >= 1 /\ mem[v].age >= 1
    BY <2>1 DEF Good, PathInv, Aged
  <2>3. mem[p].age < 2 /\ mem[v].age < 2
    BY <1>1, <1>3, <1>5, <2>1
  <2>4. QED
    BY <1>1, <2>2, <2>3
<1>6. QED
  BY <1>4, <1>5 DEF Faithful

LEMMA AboutEntry ==
  ASSUME NEW p, NEW k, About(Entry, p, k)
  PROVE  Current(Entry) /\ p = Now(Entry.parent) /\ k = Entry.k
BY DEF About, Current, Target

LEMMA DropEntryWhole ==
  ASSUME Faithful, Good, Tracked, Settled, DropEntry
  PROVE  Whole'
<1>1. /\ InLog /\ NextEntry /\ UNCHANGED <<mem, free, to, upto, tolog, triage, rescued>>
      /\ ~Current(Entry)
  BY DEF DropEntry, NextEntry, InLog
<1>2. Evac
  BY <1>1, SameEvac
<1>3. QED
  BY <1>1, <1>2, AboutEntry, LogStepWhole

LEMMA TriageEntryWhole ==
  ASSUME Faithful, Good, Tracked, Settled, TriageEntry
  PROVE  Whole'
<1>1. /\ InLog /\ NextEntry /\ UNCHANGED <<free, to, upto, tolog, rescued>> /\ ToTriage
      /\ Current(Entry) /\ ~InTo(Now(Entry.parent)) /\ mem' = Repaired(Entry)
  BY DEF TriageEntry, NextEntry, InLog, ToTriage, ParentLive
<1>2. Evac /\ mem'[Now(Entry.parent)].kid[Entry.k] = Now(Entry.snap)
  BY <1>1, RepairedEvac
<1>3. In(Refreshed(Entry), triage'[cg]) /\ cg \in LogGens /\ Refreshed(Entry) \in LogEntry
  BY <1>1, LogChange, HeadFacts
<1>4. pc' = "mlog" /\ cg' = cg
  BY <1>1 DEF InLog, NextEntry
<1>5. ASSUME NEW p \in Objects, NEW k \in 1..NField, About(Entry, p, k)
      PROVE  Pending(p, k)' /\ ~InTo(p)
  <2>1. p = Now(Entry.parent) /\ k = Entry.k
    BY <1>5, AboutEntry
  <2>2. PICK r \in LogEntry :
          r = Refreshed(Entry) /\ r.parent = p /\ r.k = k /\ r.snap = mem'[p].kid[k]
    BY <1>2, <1>3, <2>1 DEF Refreshed
  <2>3. mem'[p].fwd = Nil
    <3>1. p \in Addr /\ Entry.k \in 1..NField /\ mem \in [Addr -> Cell] /\ mem[p].fwd = Nil
      BY <1>1, HeadFacts, TypeParts DEF Good, Objects
    <3>2. mem[p] \in Cell
      BY <3>1
    <3>3. mem'[p] = [mem[p] EXCEPT !.kid[Entry.k] = Now(Entry.snap)]
      BY <1>1, <2>1, <3>1 DEF Repaired
    <3>4. QED
      BY <3>1, <3>2, <3>3 DEF Cell
  <2>4. About(r, p, k)'
    BY <2>2, <2>3 DEF About, Now
  <2>5. ~InTo(p) /\ ~InTo(p)'
    BY <1>1, <2>1 DEF InTo
  <2>6. In(r, triage'[cg])
    BY <1>3, <2>2
  <2>7. QED
    BY <1>3, <1>4, <2>2, <2>4, <2>5, <2>6 DEF Pending, In
<1>6. QED
  BY <1>1, <1>2, <1>5, LogStepWhole

LEMMA KeepEntryWhole ==
  ASSUME Faithful, Good, Tracked, Settled, KeepEntry
  PROVE  Whole'
<1>0. InLog
  BY DEF KeepEntry
<1> PICK p \in Cells, v \in Cells, k \in 1..NField :
      p = Now(Entry.parent) /\ v = Now(Entry.snap) /\ k = Entry.k
  BY <1>0, HeadFacts
<1>1. /\ InLog /\ NextEntry /\ UNCHANGED <<free, to, upto, triage>> /\ rescued'
      /\ Current(Entry) /\ InTo(p) /\ InTo(v) /\ mem' = Repaired(Entry)
      /\ IF KeepsEntry(Refreshed(Entry)) THEN ToLog ELSE UNCHANGED tolog
  BY DEF KeepEntry, NextEntry, InLog, ToLog, ParentLive, Refreshed
<1>2. Evac /\ mem'[p].kid[k] = v
  BY <1>1, RepairedEvac
<1>3. cg \in LogGens /\ Refreshed(Entry) \in LogEntry /\ cg <= v[1] /\ p \in Cells /\ v \in Cells
  BY <1>1, HeadFacts
<1>4. p \in Objects /\ Allocated(p) /\ Allocated(Entry.snap) /\ Entry.snap \in Addr
  BY <1>1, CurrentFacts, HeadFacts, AddressFacts
<1>5. Allocated(v) /\ mem[v].fwd = Nil /\ v \in Addr /\ p \in Addr
  BY <1>4, NowFacts DEF Objects
<1>6. \A y : (InTo(y)' <=> InTo(y)) /\ (InFrom(y)' <=> InFrom(y))
  BY <1>1 DEF InTo, InFrom
<1>7. ~InFrom(p) /\ ~InFrom(v)
  BY <1>1 DEF InTo, InFrom
<1>8. Refreshed(Entry) = [parent |-> p, k |-> k, snap |-> v]
  BY DEF Refreshed
<1>9. /\ UNCHANGED <<tolog, triage>> \/ (ToLog /\ UNCHANGED triage)
      /\ ToLog => In(Refreshed(Entry), tolog'[cg])
  BY <1>1, LogChange
<1>10. NowNext(v) = v /\ mem'[v].age = mem[v].age /\ mem'[p].age = mem[p].age
  BY <1>2, <1>4, <1>5, <1>7, NowNextFacts DEF Evac
<1>11. ASSUME Ahead(p, mem[p].kid[k])'
       PROVE  Kept(p, k)'
  <2>1. mem[p].age > mem[v].age /\ Age2Gen(mem[v].age) < NGen - 1
    BY <1>2, <1>6, <1>7, <1>10, <1>11 DEF Ahead, Now, NowNext, FinalAge
  <2>2. Age2Gen(mem[v].age) = v[1] /\ Age2Gen(mem[p].age) = p[1]
    BY <1>3, <1>4, <1>5 DEF Good, AgeGeneration
  <2>3. p[1] >= v[1]
    <3>1. mem[p].age \in Nat /\ mem[v].age \in Nat
      BY <1>4, <1>5, TypeParts DEF Good, Cell, Objects
    <3>2. mem[v].age \div NSurvive <= mem[p].age \div NSurvive
      BY <2>1, <3>1, DivMonotone
    <3>3. mem[v].age \div NSurvive \in Nat /\ mem[p].age \div NSurvive \in Nat
      BY <3>1
    <3>4. QED
      BY <2>2, <3>2, <3>3 DEF Age2Gen
  <2>4. p[1] # v[1]
    <3>1. mem[p].age \in Nat /\ mem[v].age \in Nat
      BY <1>4, <1>5, TypeParts DEF Good, Cell, Objects
    <3>2. pc # "idle"
      BY <1>1 DEF InLog
    <3>3. QED
      BY <1>1, <1>3, <1>4, <1>5, <2>1, <2>2, <3>1, <3>2, OneAge
  <2>5. KeepsEntry(Refreshed(Entry))
    <3>1. p[1] \in Nat /\ v[1] \in Nat
      BY <1>3, AddressFacts
    <3>2. QED
      BY <1>8, <2>1, <2>2, <2>3, <2>4, <3>1 DEF KeepsEntry
  <2>6. In([parent |-> p, k |-> k, snap |-> v], tolog'[cg])
    BY <1>1, <1>8, <1>9, <2>5
  <2>7. QED
    BY <1>1, <1>2, <1>3, <1>6, <2>6 DEF Kept, In
<1>12. ~StillInFrom(p, k)
  BY <1>2, <1>7 DEF StillInFrom
<1>13. ASSUME NEW q \in Objects, NEW j \in 1..NField, About(Entry, q, j)
       PROVE  /\ Ahead(q, mem[q].kid[j])' => Kept(q, j)' \/ Pending(q, j)'
              /\ InTo(q) => ~StillInFrom(q, j)
  <2>1. q = p /\ j = k
    BY <1>13, AboutEntry
  <2>2. QED
    BY <1>11, <1>12, <2>1
<1>14. QED
  BY <1>1, <1>2, <1>9, <1>13, LogStepWhole

LEMMA RescueChildWhole ==
  ASSUME Good, Tracked, Settled, AgeGeneration', RescueChild
  PROVE  Whole'
<1>1. /\ pc = "mlog" /\ InLog /\ UNCHANGED <<to, root, upto, ri, cg, tolog, fromlog, triage>>
      /\ Current(Entry) /\ InFrom(Now(Entry.snap)) /\ rescued' /\ DeepMove(Entry.snap, "mlog")
      /\ pc' = "scan" /\ back' = "mlog"
  BY DEF RescueChild, InLog, logs, DeepMove
<1>2. Entry.snap \in Addr /\ Now(Entry.snap) = Entry.snap
  BY <1>1, HeadFacts, AddressFacts DEF DeepMove, CanMove, Now
<1>3. /\ Evac /\ StackValid' /\ GrayBelow'
      /\ \A x \in Addr : ~Allocated(x) /\ AllocNext(x) => pc' = "scan" /\ Gray1(x)'
  BY <1>1, <1>2, DeepMoveFacts
<1>4. ~InRoots /\ ~InRoots'
  BY <1>1 DEF InRoots
<1>5. Tracked'
  BY <1>1, <1>3, TrackedUnread
<1>6. LogBound' /\ LogBelow' /\ LogPhases' /\ RootsValid'
  BY <1>1, <1>3, <1>4, SameRoots DEF Good, PathInv, LogBound, LogBelow, LogPhases
<1>7. Settled'
  <2>1. \A p \in Objects, k \in 1..NField : ~Todo(p, k)
    BY <1>1, <1>4 DEF Todo
  <2>2. ASSUME NEW p \in Objects, NEW k \in 1..NField, StillInFrom(p, k), PendingNow(p, k)
        PROVE  PendingNow(p, k)'
    BY <1>1, <1>3, <2>2, PendingNowKept DEF StillInFrom
  <2>3. QED
    BY <1>3, <2>1, <2>2, SettledKept
<1>8. QED
  BY <1>3, <1>5, <1>6, <1>7, EvacWhole

LEMMA NextLogWhole ==
  ASSUME Good, Tracked, Settled, NextLog
  PROVE  Whole'
<1>1. /\ pc = "mlog" /\ pc' = "mlog" /\ fromlog[cg] = <<>> /\ cg \in LogGens
      /\ UNCHANGED <<mem, free, to, root, tolog, upto, ri, stack, gray, sg, back>>
      /\ fromlog' = [fromlog EXCEPT ![cg] = triage[cg]]
      /\ triage' = [triage EXCEPT ![cg] = <<>>]
      /\ \/ cg' = cg + 1 /\ UNCHANGED rescued
         \/ cg + 2 = NGen /\ rescued /\ cg' = 0 /\ rescued' = FALSE
  BY TypeParts DEF NextLog, LogDone, heap, scan, RotateLogs, LastLog, Good
<1>2. Evac
  BY <1>1, SameEvac
<1>3. fromlog \in Log /\ triage \in Log /\ cg \in Nat /\ LogGens \subseteq Nat
  BY TypeParts, AddressFacts DEF Good
<1>4. /\ \A g \in LogGens : triage'[g] = <<>> /\ (g # cg => fromlog'[g] = fromlog[g] /\ triage[g] = <<>>)
      /\ fromlog'[cg] = triage[cg]
  BY <1>1, <1>3 DEF Log, Good, PathInv, LogPhases
<1>5. \A e : ~In(e, <<>>)
  BY DEF In
<1>6. ~InRoots /\ ~InRoots'
  BY <1>1 DEF InRoots
<1>7. Tracked'
  <2>1. LogsGrow
    BY <1>1 DEF LogsGrow
  <2>2. ASSUME NEW p \in Objects, NEW k \in 1..NField, NEW q, q = NowNext(p), Pending(p, k)
        PROVE  Pending(q, k)'
    <3>1. PICK g \in LogGens, e \in LogEntry :
            /\ About(e, p, k)
            /\ \/ In(e, fromlog[g]) /\ (g < cg /\ InTo(p) => rescued)
               \/ In(e, triage[g]) /\ (InTo(p) => rescued)
      BY <2>2 DEF Pending
    <3>2. About(e, q, k)'
      BY <1>2, <2>2, <3>1, AboutKept
    <3>3. q = p
      BY <1>1, <2>2 DEF NowNext, Objects
    <3>4. \A y : InTo(y)' <=> InTo(y)
      BY <1>1 DEF InTo
    <3>5. CASE In(e, fromlog[g]) /\ (g < cg /\ InTo(p) => rescued)
      <4>1. g # cg
        BY <1>1, <1>5, <3>5
      <4>2. In(e, fromlog'[g])
        BY <1>4, <3>5, <4>1
      <4>3. g < cg' /\ InTo(p) => rescued'
        BY <1>1, <1>3, <3>5, <4>1
      <4>4. QED
        BY <1>1, <3>2, <3>3, <3>4, <4>2, <4>3 DEF Pending, In
    <3>6. CASE In(e, triage[g]) /\ (InTo(p) => rescued)
      <4>1. g = cg
        BY <1>4, <1>5, <3>6
      <4>2. In(e, fromlog'[g])
        BY <1>4, <3>6, <4>1
      <4>3. ASSUME g < cg', InTo(p) PROVE rescued'
        <5>1. cg' # 0
          BY <1>3, <4>3
        <5>2. rescued' = rescued
          BY <1>1, <5>1
        <5>3. QED
          BY <3>6, <4>3, <5>2
      <4>4. QED
        BY <1>1, <3>2, <3>3, <3>4, <4>2, <4>3 DEF Pending, In
    <3>7. QED
      BY <3>1, <3>5, <3>6
  <2>3. QED
    BY <1>2, <2>1, <2>2, TrackedKept
<1>8. LogPhases'
  BY <1>1, <1>4, <1>6 DEF LogPhases, Good, PathInv
<1>9. LogBound'
  <2> SUFFICES ASSUME NEW g \in LogGens
               PROVE  Len(tolog[g]) + Len(fromlog'[g]) + Len(triage'[g]) <= MaxLog
    BY <1>1 DEF LogBound
  <2>1. Len(tolog[g]) + Len(fromlog[g]) + Len(triage[g]) <= MaxLog
    BY DEF Good, PathInv, LogBound
  <2>2. \/ g = cg /\ fromlog'[g] = triage[g] /\ triage'[g] = fromlog[g]
        \/ fromlog'[g] = fromlog[g] /\ triage'[g] = triage[g]
    BY <1>1, <1>4
  <2>3. Len(tolog[g]) \in Nat /\ Len(fromlog[g]) \in Nat /\ Len(triage[g]) \in Nat
    BY TypeParts DEF Good, Log
  <2>4. ASSUME NEW x \in Nat, NEW y \in Nat, NEW z \in Nat, x + y + z <= MaxLog
        PROVE  x + z + y <= MaxLog
    BY <2>4
  <2>5. QED
    BY <2>1, <2>2, <2>3, <2>4
<1>10. LogBelow'
  BY <1>1, <1>4, <1>5 DEF LogBelow, Good, PathInv
<1>11. StackValid' /\ GrayBelow' /\ RootsValid'
  <2>1. stack' = stack /\ stack = <<>>
    BY <1>1 DEF Good, PathInv, StackValid
  <2>2. QED
    BY <1>1, <1>2, <1>6, <2>1, SameRoots, SameStack DEF GrayBelow
<1>12. Settled'
  <2>1. \A p \in Objects, k \in 1..NField : ~Todo(p, k)
    BY <1>1, <1>6 DEF Todo
  <2>2. ASSUME NEW p \in Objects, NEW k \in 1..NField, StillInFrom(p, k), PendingNow(p, k)
        PROVE  PendingNow(p, k)'
    <3>1. PICK g \in LogGens, e \in LogEntry : g >= cg /\ In(e, fromlog[g]) /\ About(e, p, k)
      BY <2>2 DEF PendingNow
    <3>2. g # cg
      BY <1>1, <1>5, <3>1
    <3>3. p = NowNext(p)
      BY <1>1 DEF NowNext, Objects
    <3>4. About(e, p, k)' /\ In(e, fromlog'[g])
      BY <1>2, <1>4, <3>1, <3>2, <3>3, AboutKept
    <3>5. g >= cg'
      BY <1>1, <1>3, <3>1, <3>2 DEF LogGens
    <3>6. QED
      BY <3>4, <3>5 DEF PendingNow, In
  <2>3. \A x \in Addr : AllocNext(x) => Allocated(x)
    BY <1>1 DEF AllocNext, Allocated
  <2>4. QED
    BY <1>2, <2>1, <2>2, <2>3, SettledKept
<1>13. QED
  BY <1>2, <1>7, <1>8, <1>9, <1>10, <1>11, <1>12, EvacWhole

-----------------------------------------------------------------------------
(* The end of a collection, and the client between collections.             *)

(* Between collections nothing is in from-space and nothing is forwarded.   *)
LEMMA IdleFacts ==
  ASSUME Good, pc = "idle", NEW x \in Addr, Allocated(x)
  PROVE  /\ upto = 0 /\ ~InFrom(x) /\ mem[x].fwd = Nil /\ Now(x) = x /\ x \in Objects
         /\ x \in Cells => InTo(x)
<1>1. upto = 0 /\ FromEmpty
  BY DEF Good, CopyInv, Phases
<1>2. CASE x \in Ext
  <2>1. ~InFrom(x) /\ x \notin Cells
    BY <1>2, AddressFacts DEF InFrom
  <2>2. QED
    BY <1>1, <1>2, <2>1 DEF Good, CopyInv, ExtStays, Now, Objects
<1>3. CASE x \in Cells
  <2>1. ~InFrom(x) /\ InTo(x)
    <3>1. /\ InFrom(x) => x[1] < upto
          /\ InTo(x) <=> ~InFrom(x)
          /\ x[1] \in Gens
      BY <1>1, <1>3, PlaceFacts DEF Good
    <3>2. QED
      BY <1>1, <3>1, AddressFacts
  <2>2. mem[x].fwd = Nil
    BY <1>3, <2>1, NowFacts
  <2>3. QED
    BY <1>1, <2>1, <2>2 DEF Now, Objects
<1>4. QED
  BY <1>2, <1>3 DEF Addr

(* ... so that nothing points into from-space.                              *)
LEMMA IdleSettled ==
  ASSUME TypeInv', CopyInv', Valid', pc' = "idle"
  PROVE  Settled'
<1> SUFFICES ASSUME NEW v \in Cells, Allocated(v)'
             PROVE  ~InFrom(v)'
  BY DEF Settled, Valid, Objects, InFrom
<1>1. /\ upto' = 0
      /\ \A g \in Gens : g >= 0 => free'[g][1 - to'[g]] = 0
  BY DEF CopyInv, Phases, FromEmpty
<1>2. v[1] \in Gens /\ v[2] \in {0, 1} /\ v[3] \in 1..MaxObjs /\ v \notin Ext /\ v[1] >= 0
  BY AddressFacts
<1>3. to' \in [Gens -> {0, 1}]
  BY DEF TypeInv, TypeOK
<1>4. free'[v[1]][1 - to'[v[1]]] = 0
  BY <1>1, <1>2
<1>5. v[3] <= free'[v[1]][v[2]]
  BY <1>2 DEF Allocated
<1>6. v[2] # 1 - to'[v[1]]
  BY <1>2, <1>4, <1>5
<1>7. QED
  BY <1>2, <1>3, <1>6 DEF InFrom

LEMMA CleanupWhole ==
  ASSUME Faithful, Good, CopyInv', TypeInv', Tracked, Settled, Cleanup
  PROVE  Whole'
<1>1. /\ pc = "mlog" /\ fromlog[cg] = <<>> /\ cg + 2 = NGen /\ ~rescued
      /\ fromlog' = [fromlog EXCEPT ![cg] = triage[cg]]
      /\ triage' = [g \in LogGens |-> IF g = cg \/ g + 2 < NGen THEN <<>> ELSE triage[g]]
      /\ mem' = Scrubbed /\ pc' = "idle" /\ upto' = 0 /\ cg' = 0
      /\ UNCHANGED <<to, root, tolog, stack, gray, sg, rescued>>
      /\ fromlog \in Log /\ triage \in Log /\ tolog \in Log /\ cg \in LogGens
  BY TypeParts DEF Cleanup, LogDone, LastLog, Faithful, Good
<1>2. /\ \A b \in Addr : Allocated(b)' <=> Allocated(b) /\ ~InFrom(b)
      /\ \A b \in Addr : Allocated(b) /\ ~InFrom(b) => mem'[b] = mem[b]
      /\ \A b : (InTo(b)' <=> InTo(b)) /\ (InFrom(b)' <=> InFrom(b))
  BY CleanupFacts DEF Good, CopyInv
<1>3. ~InRoots /\ ~InRoots' /\ \A e : ~In(e, <<>>)
  BY <1>1 DEF InRoots, In
<1>4. \A g \in LogGens : g <= cg /\ g \in Nat
  BY <1>1 DEF LogGens
<1>5. \A b \in Addr : Allocated(b) /\ ~InFrom(b) => b \in Objects
  BY NowFacts DEF Objects, Now
<1>6. ASSUME NEW p \in Objects, ~InFrom(p), NEW k \in 1..NField, mem[p].kid[k] # Nil
      PROVE  Allocated(mem[p].kid[k]) /\ ~InFrom(mem[p].kid[k]) /\ mem[p].kid[k] \in Addr
  <2>1. Allocated(mem[p].kid[k]) /\ mem[p].kid[k] \in Addr
    BY <1>6, KidFacts DEF Objects
  <2>2. ~Todo(p, k)
    BY <1>1, <1>3 DEF Todo
  <2>3. ~PendingNow(p, k)
    <3>1. \A g \in LogGens : g >= cg => g = cg
      BY <1>1, <1>4
    <3>2. QED
      BY <1>1, <1>3, <3>1 DEF PendingNow
  <2>4. QED
    BY <1>6, <2>1, <2>2, <2>3 DEF Settled
<1>7. Valid'
  BY <1>2, <1>5, <1>6 DEF Valid
<1>8. Blanks'
  <2> SUFFICES ASSUME NEW a \in Cells, ~Allocated(a)'
               PROVE  mem'[a].fwd = Nil /\ mem'[a].kid = NoKids
    BY DEF Blanks
  <2>1. a \in Addr
    BY AddressFacts
  <2>2. CASE Allocated(a)
    <3>1. InFrom(a) /\ a[1] < upto
      BY <1>2, <2>1, <2>2, PlaceFacts DEF Good, CopyInv
    <3>2. mem'[a] = Blank
      BY <1>1, <2>1, <2>2, <3>1 DEF Scrubbed
    <3>3. QED
      BY <3>2 DEF Blank
  <2>3. CASE ~Allocated(a)
    <3>1. mem'[a] = mem[a]
      BY <1>1, <2>1, <2>3 DEF Scrubbed
    <3>2. QED
      BY <2>3, <3>1 DEF Good, PathInv, Blanks
  <2>4. QED
    BY <2>2, <2>3
<1>9. RootsValid'
  <2>1. ASSUME NEW r \in 1..NRoot, root[r] # Nil
        PROVE  Allocated(root[r])' /\ ~InFrom(root[r])'
    <3>1. Allocated(root[r]) /\ ~InFrom(root[r])
      BY <1>3, <2>1 DEF Good, PathInv, RootsValid
    <3>2. root[r] \in Addr
      BY <2>1, TypeParts DEF Good, Kid
    <3>3. QED
      BY <1>1, <1>2, <3>1, <3>2
  <2>2. QED
    BY <1>1, <2>1 DEF RootsValid, Good, PathInv
<1>10. StackValid' /\ GrayBelow'
  BY <1>1 DEF StackValid, GrayBelow, Good, PathInv
<1>11. ForwardsUp' /\ Aged'
  <2>1. \A a \in Cells : Allocated(a)' => mem'[a].fwd = Nil
    BY <1>2, <1>5, AddressFacts DEF Objects
  <2>2. \A a \in Cells : ~(a[1] < 0)
    BY AddressFacts
  <2>3. QED
    BY <1>1, <2>1, <2>2 DEF ForwardsUp, Aged
<1>12. \A g \in LogGens : triage'[g] = <<>>
  BY <1>1, <1>4
<1>13. LogPhases'
  BY <1>1, <1>12, AddressFacts DEF LogPhases
<1>14. LogBound'
  <2> SUFFICES ASSUME NEW g \in LogGens
               PROVE  Len(tolog[g]) + Len(fromlog'[g]) + Len(triage'[g]) <= MaxLog
    BY <1>1 DEF LogBound
  <2>1. Len(tolog[g]) + Len(fromlog[g]) + Len(triage[g]) <= MaxLog
    BY DEF Good, PathInv, LogBound
  <2>2. Len(triage'[g]) = 0 /\ (fromlog'[g] = fromlog[g] \/ (g = cg /\ fromlog'[g] = triage[g]))
    BY <1>1, <1>12 DEF Log
  <2>3. Len(tolog[g]) \in Nat /\ Len(fromlog[g]) \in Nat /\ Len(triage[g]) \in Nat
    BY <1>1 DEF Log
  <2>4. ASSUME NEW x \in Nat, NEW y \in Nat, NEW z \in Nat, x + y + z <= MaxLog
        PROVE  x + y + 0 <= MaxLog /\ x + z + 0 <= MaxLog
    BY <2>4
  <2>5. QED
    BY <2>1, <2>2, <2>3, <2>4
<1>15. LogBelow'
  <2>1. \A g \in LogGens : fromlog'[g] = fromlog[g] \/ fromlog'[g] = triage[g]
    BY <1>1 DEF Log
  <2>2. QED
    BY <1>1, <1>3, <1>12, <2>1 DEF LogBelow, Good, PathInv
<1>16. Tracked'
  <2> SUFFICES ASSUME NEW p \in Cells, Allocated(p)', NEW k \in 1..NField,
                      mem'[p].kid[k] \in Cells, Ahead(p, mem[p].kid[k])'
               PROVE  Kept(p, k)'
    BY DEF Tracked, Objects
  <2>1. p \in Objects /\ Allocated(p) /\ ~InFrom(p) /\ mem'[p] = mem[p] /\ InTo(p)
    <3>1. p \in Addr
      BY AddressFacts
    <3>2. Allocated(p) /\ ~InFrom(p)
      BY <1>2, <3>1
    <3>3. QED
      BY <1>2, <1>5, <3>1, <3>2 DEF InTo, InFrom
  <2> DEFINE v == mem[p].kid[k]
  <2>2. v # Nil /\ v \in Cells /\ v \in Addr /\ Allocated(v) /\ ~InFrom(v) /\ mem'[v] = mem[v]
    BY <1>2, <1>6, <2>1, AddressFacts
  <2>3. mem[v].fwd = Nil
    BY <1>5, <2>2 DEF Objects
  <2>4. Ahead(p, v)
    BY <1>2, <2>1, <2>2, <2>3 DEF Ahead, FinalAge, Now
  <2>5. ~Pending(p, k)
    BY <1>1, <1>3, <1>4, <2>1, AddressFacts DEF Pending, Good, PathInv, LogPhases
  <2>6. Kept(p, k)
    BY <2>1, <2>2, <2>4, <2>5 DEF Tracked
  <2>7. QED
    BY <1>1, <1>2, <2>1, <2>6 DEF Kept, In
<1>17. Settled'
  BY <1>1, <1>7, IdleSettled
<1>18. QED
  BY <1>7, <1>8, <1>9, <1>10, <1>11, <1>13, <1>14, <1>15, <1>16, <1>17 DEF Whole, PathInv

LEMMA SetRootWhole ==
  ASSUME Good, Tracked, pc = "idle", TypeInv', CopyInv', NEW r \in (NExt + 1)..NRoot,
         NEW v \in Kid, v # Nil => Allocated(v), SetRoot(r, v)
  PROVE  Whole'
<1>1. /\ root' = [root EXCEPT ![r] = v]
      /\ UNCHANGED <<mem, free, to, logs, pc, upto, ri, scan, cg, rescued>>
  BY DEF SetRoot
<1>2. RootsValid'
  <2>1. ASSUME NEW x \in 1..NRoot, root'[x] # Nil
        PROVE  Allocated(root'[x]) /\ ~InFrom(root'[x])
    <3>1. CASE x = r
      <4>1. root'[x] = v /\ v \in Addr
        BY <1>1, <2>1, <3>1, TypeParts DEF Good, Kid
      <4>2. QED
        BY <2>1, <4>1, IdleFacts
    <3>2. CASE x # r
      <4>1. root'[x] = root[x] /\ root[x] \in Addr
        BY <1>1, <2>1, <3>2, TypeParts DEF Good, Kid
      <4>2. Allocated(root[x])
        BY <2>1, <4>1 DEF Good, PathInv, RootsValid
      <4>3. QED
        BY <4>1, <4>2, IdleFacts
    <3>3. QED
      BY <3>1, <3>2
  <2>2. \A x \in 1..NExt : root'[x] = <<NGen, 0, x>>
    BY <1>1, TypeParts DEF Good, PathInv, RootsValid
  <2>3. \A y : (Allocated(y)' <=> Allocated(y)) /\ (InFrom(y)' <=> InFrom(y))
    BY <1>1 DEF Allocated, InFrom
  <2>4. QED
    BY <2>1, <2>2, <2>3 DEF RootsValid
<1>3. UNCHANGED <<mem, free, to, tolog, fromlog, triage, pc, upto, ri, stack, gray, sg, back, cg, rescued>>
  BY <1>1 DEF logs, scan
<1>4. Valid' /\ Blanks' /\ StackValid' /\ GrayBelow' /\ ForwardsUp' /\ Aged'
  BY <1>3 DEF Good, PathInv, Valid, Blanks, StackValid, GrayBelow, ForwardsUp, Aged, Allocated,
              InFrom, InTo, ScanEnd
<1>5. LogPhases' /\ LogBound' /\ LogBelow'
  BY <1>3 DEF Good, PathInv, LogPhases, LogBound, LogBelow, InRoots, In
<1>6. Tracked'
  <2>1. Objects' = Objects
    BY <1>3 DEF Objects, Allocated
  <2>2. ASSUME NEW p \in Objects, NEW k \in 1..NField, Ahead(p, mem[p].kid[k])'
        PROVE  Ahead(p, mem[p].kid[k])
    BY <1>3, <2>2 DEF Ahead, FinalAge, Now, InFrom
  <2>3. ASSUME NEW p \in Objects, NEW k \in 1..NField, Kept(p, k)
        PROVE  Kept(p, k)'
    BY <1>3, <2>3 DEF Kept, InTo, In
  <2>4. \A p, k : ~Pending(p, k)
    BY DEF Pending
  <2>5. QED
    BY <1>3, <2>1, <2>2, <2>3, <2>4 DEF Tracked
<1>7. Settled'
  BY <1>3, <1>4, IdleSettled
<1>8. QED
  BY <1>2, <1>4, <1>5, <1>6, <1>7 DEF Whole, PathInv

(* A pointer that the client stores.                                        *)
LEMMA AssignWhole ==
  ASSUME Faithful, Good, Tracked, pc = "idle", TypeInv', CopyInv', NEW p \in Addr, NEW v \in Addr,
         NEW k \in 1..NField, Allocated(p), Allocated(v), Assign(p, k, v)
  PROVE  Whole'
<1>1. /\ MustLog(p, v) => LogRoom
      /\ mem' = [mem EXCEPT ![p].kid[k] = v]
      /\ tolog' = IF MustLog(p, v)
                  THEN [tolog EXCEPT ![v[1]] = Put(@, [parent |-> p, k |-> k, snap |-> v])]
                  ELSE tolog
      /\ UNCHANGED <<free, to, root, fromlog, triage, pc, upto, ri, stack, gray, sg, back, cg, rescued>>
      /\ mem \in [Addr -> Cell]
  BY TypeParts DEF Assign, scan, Good
<1>2. \A a \in Addr : /\ mem'[a].fwd = mem[a].fwd /\ mem'[a].age = mem[a].age
                      /\ a # p => mem'[a] = mem[a]
                      /\ \A j \in 1..NField :
                           mem'[a].kid[j] = IF a = p /\ j = k THEN v ELSE mem[a].kid[j]
  <2>0. \A x \in Addr, j \in 1..NField :
          mem'[x].kid[j] = IF x = p /\ j = k THEN v ELSE mem[x].kid[j]
    <3>1. mem' = [mem EXCEPT ![p].kid[k] = v] /\ mem \in [Addr -> Cell]
      BY <1>1
    <3>2. mem[p] \in Cell
      BY <3>1
    <3>3. mem[p].kid \in [1..NField -> Addr \cup {Nil}]
      BY <3>2 DEF Cell
    <3>4. mem'[p] = [mem[p] EXCEPT !.kid = [mem[p].kid EXCEPT ![k] = v]]
      BY <3>1
    <3>5. mem'[p].kid = [mem[p].kid EXCEPT ![k] = v]
      BY <3>2, <3>4 DEF Cell
    <3>6. \A j \in 1..NField : mem'[p].kid[j] = IF j = k THEN v ELSE mem[p].kid[j]
      BY <3>3, <3>5
    <3>7. \A x \in Addr : x # p => mem'[x] = mem[x]
      BY <3>1
    <3>8. QED
      BY <3>6, <3>7
  <2> TAKE a \in Addr
  <2>1. a # p => mem'[a] = mem[a]
    BY <1>1
  <2>2. mem'[a].fwd = mem[a].fwd /\ mem'[a].age = mem[a].age
    BY <1>1, StoreFacts
  <2>3. QED
    BY <2>0, <2>1, <2>2
<1>3. \A y : /\ Allocated(y)' <=> Allocated(y)
             /\ InFrom(y)' <=> InFrom(y)
             /\ InTo(y)' <=> InTo(y)
  BY <1>1 DEF Allocated, InFrom, InTo
<1>4. Valid'
  BY <1>2, <1>3 DEF Good, PathInv, Valid
<1>5. Blanks'
  <2>1. \A a \in Cells : ~Allocated(a) => a \in Addr /\ a # p
    BY AddressFacts
  <2>2. QED
    BY <1>2, <1>3, <2>1 DEF Good, PathInv, Blanks
<1>6. RootsValid' /\ StackValid' /\ GrayBelow'
  BY <1>1 DEF Good, PathInv, RootsValid, StackValid, GrayBelow, Allocated, InFrom, InRoots, ScanEnd
<1>7. ForwardsUp' /\ Aged'
  BY <1>1, <1>2, <1>3, AddressFacts DEF Good, PathInv, ForwardsUp, Aged
<1>8. LogPhases'
  BY <1>1 DEF Good, PathInv, LogPhases, InRoots
<1>9. \A g \in LogGens : triage[g] = <<>>
  BY DEF Good, PathInv, LogPhases
<1> DEFINE e == [parent |-> p, k |-> k, snap |-> v]
<1>10. ASSUME MustLog(p, v)
       PROVE  /\ v[1] \in LogGens /\ e \in LogEntry
              /\ tolog'[v[1]] \in Seq(LogEntry) /\ Len(tolog'[v[1]]) = Len(tolog[v[1]]) + 1
              /\ Len(tolog[v[1]]) + Len(fromlog[v[1]]) < MaxLog
              /\ In(e, tolog'[v[1]])
              /\ \A x : In(x, tolog[v[1]]) => In(x, tolog'[v[1]])
              /\ \A x : In(x, tolog'[v[1]]) => x = e \/ In(x, tolog[v[1]])
              /\ \A g \in LogGens : g # v[1] => tolog'[g] = tolog[g]
  <2>1. InTo(p) /\ InTo(v) /\ v[1] + 1 < NGen /\ LogRoom
    BY <1>1, <1>10 DEF MustLog, Loggable
  <2>2. v \in Cells /\ p \in Cells /\ v[1] \in Gens
    BY <2>1, AddressFacts DEF InTo
  <2>3. v[1] \in LogGens /\ e \in LogEntry
    BY <2>1, <2>2 DEF Gens, LogGens, LogEntry
  <2>4. tolog \in Log /\ fromlog \in Log
    BY TypeParts DEF Good
  <2>5. tolog[v[1]] \in Seq(LogEntry) /\ Len(tolog[v[1]]) \in Nat /\ Len(fromlog[v[1]]) \in Nat
    BY <2>3, <2>4 DEF Log
  <2>6. Len(tolog[v[1]]) + Len(fromlog[v[1]]) < MaxLog
    BY <2>1, <2>3 DEF LogRoom
  <2>7. Len(tolog[v[1]]) < LogCap
    <3>1. ASSUME NEW x \in Nat, NEW y \in Nat, x + y < MaxLog PROVE x < LogCap
      BY <3>1 DEF Faithful
    <3>2. QED
      BY <2>5, <2>6, <3>1
  <2>8. tolog'[v[1]] = Put(tolog[v[1]], e) /\ \A g \in LogGens : g # v[1] => tolog'[g] = tolog[g]
    BY <1>1, <1>10, <2>3, <2>4 DEF Log
  <2> HIDE DEF e
  <2>9. /\ Put(tolog[v[1]], e) \in Seq(LogEntry)
        /\ Len(Put(tolog[v[1]], e)) = Len(tolog[v[1]]) + 1
        /\ In(e, Put(tolog[v[1]], e))
        /\ \A x : In(x, tolog[v[1]]) => In(x, Put(tolog[v[1]], e))
        /\ \A x : In(x, Put(tolog[v[1]], e)) => x = e \/ In(x, tolog[v[1]])
    BY <2>3, <2>5, <2>7, PutFacts
  <2>10. QED
    BY <2>3, <2>6, <2>8, <2>9
<1> HIDE DEF e
<1>12. ASSUME NEW q \in Objects, NEW j \in 1..NField, Kept(q, j), q # p \/ j # k
       PROVE  Kept(q, j)'
  <2> DEFINE w == mem[q].kid[j]
  <2>1. mem'[q].kid[j] = w
    BY <1>2, <1>12 DEF Objects
  <2>2. PICK g \in LogGens : g <= w[1] /\ In([parent |-> q, k |-> j, snap |-> w], tolog[g])
    BY <1>12 DEF Kept
  <2>3. In([parent |-> q, k |-> j, snap |-> w], tolog'[g])
    BY <1>1, <1>10, <2>2
  <2>4. QED
    BY <1>3, <1>12, <2>1, <2>2, <2>3 DEF Kept, In
<1>13. LogBound'
  <2> SUFFICES ASSUME NEW g \in LogGens
               PROVE  Len(tolog'[g]) + Len(fromlog[g]) + Len(triage[g]) <= MaxLog
    BY <1>1 DEF LogBound
  <2>1. Len(tolog[g]) + Len(fromlog[g]) + Len(triage[g]) <= MaxLog
    BY DEF Good, PathInv, LogBound
  <2>2. CASE MustLog(p, v) /\ g = v[1]
    <3>1. Len(tolog[g]) \in Nat /\ Len(fromlog[g]) \in Nat /\ Len(triage[g]) = 0
      BY <1>9, TypeParts DEF Good, Log
    <3>2. ASSUME NEW x \in Nat, NEW y \in Nat, x + y < MaxLog PROVE (x + 1) + y + 0 <= MaxLog
      BY <3>2
    <3>3. QED
      BY <1>10, <2>2, <3>1, <3>2
  <2>3. CASE ~(MustLog(p, v) /\ g = v[1])
    BY <1>1, <1>10, <2>1, <2>3
  <2>4. QED
    BY <2>2, <2>3
<1>14. LogBelow'
  <2> SUFFICES ASSUME NEW g \in LogGens, NEW x \in LogEntry,
                      In(x, tolog'[g]) \/ In(x, fromlog[g]) \/ In(x, triage[g])
               PROVE  g <= x.snap[1]
    BY <1>1 DEF LogBelow, In
  <2>1. CASE MustLog(p, v) /\ g = v[1] /\ x = e
    <3>1. x.snap = v
      BY <2>1 DEF e
    <3>2. v[1] \in Nat
      BY <1>10, <2>1, AddressFacts
    <3>3. QED
      BY <2>1, <3>1, <3>2
  <2>2. CASE ~(MustLog(p, v) /\ g = v[1] /\ x = e)
    <3>1. In(x, tolog[g]) \/ In(x, fromlog[g]) \/ In(x, triage[g])
      BY <1>1, <1>10, <2>2
    <3>2. QED
      BY <3>1 DEF Good, PathInv, LogBelow
  <2>3. QED
    BY <2>1, <2>2
<1>15. Tracked'
  <2> SUFFICES ASSUME NEW q \in Cells, Allocated(q), NEW j \in 1..NField,
                      mem'[q].kid[j] \in Cells, Ahead(q, mem[q].kid[j])'
               PROVE  Kept(q, j)'
    BY <1>3 DEF Tracked, Objects
  <2> DEFINE w == mem'[q].kid[j]
  <2>1. q \in Addr /\ q \in Objects /\ InTo(q) /\ ~InFrom(q)
    BY IdleFacts, AddressFacts
  <2>2. w \in Addr /\ Allocated(w)
    BY <1>3, <1>4, <2>1, AddressFacts DEF Valid
  <2>3. InTo(w) /\ ~InFrom(w) /\ mem[w].fwd = Nil
    BY <2>2, IdleFacts
  <2>4. mem[q].age > mem[w].age /\ Age2Gen(mem[w].age) < NGen - 1
    BY <1>2, <1>3, <2>1, <2>2, <2>3 DEF Ahead, FinalAge, Now
  <2>5. CASE q # p \/ j # k
    <3>1. w = mem[q].kid[j]
      BY <1>2, <2>1, <2>5
    <3>2. Ahead(q, mem[q].kid[j])
      BY <2>1, <2>3, <2>4, <3>1 DEF Ahead, FinalAge, Now
    <3>3. Kept(q, j)
      BY <2>1, <3>1, <3>2 DEF Tracked, Pending
    <3>4. QED
      BY <1>12, <2>1, <2>5, <3>3
  <2>6. CASE q = p /\ j = k
    <3>1. w = v
      BY <1>2, <2>6
    <3>2. Age2Gen(mem[v].age) = v[1] /\ Age2Gen(mem[p].age) = p[1]
      BY <2>2, <2>6, <3>1 DEF Good, AgeGeneration
    <3>3. mem[p] \in Cell /\ mem[v] \in Cell
      BY <1>1
    <3>4. mem[p].age \in Nat /\ mem[v].age \in Nat
      BY <3>3 DEF Cell
    <3>5. mem[v].age \div NSurvive <= mem[p].age \div NSurvive
      BY <2>4, <2>6, <3>1, <3>4, DivMonotone
    <3>6. mem[v].age \div NSurvive \in Nat /\ mem[p].age \div NSurvive \in Nat
      BY <3>4
    <3>7. p[1] >= v[1] /\ v[1] + 1 < NGen /\ p[1] \in Nat /\ v[1] \in Nat
      <4>1. p[1] \in Nat /\ v[1] \in Nat
        BY <2>6, <3>1, AddressFacts
      <4>2. v[1] + 1 < NGen
        BY <2>4, <3>1, <3>2, <4>1
      <4>3. p[1] >= v[1]
        BY <3>2, <3>5, <3>6 DEF Age2Gen
      <4>4. QED
        BY <4>1, <4>2, <4>3
    <3>8. MustLog(p, v)
      BY <2>1, <2>3, <2>4, <2>6, <3>1, <3>7 DEF MustLog, Loggable, Faithful
    <3>9. v[1] \in LogGens /\ In([parent |-> p, k |-> k, snap |-> v], tolog'[v[1]])
      BY <1>10, <3>8 DEF e
    <3>10. QED
      BY <1>3, <2>1, <2>3, <2>6, <3>1, <3>7, <3>9 DEF Kept, In
  <2>7. QED
    BY <2>5, <2>6
<1>16. Settled'
  BY <1>1, <1>4, IdleSettled
<1>17. QED
  BY <1>4, <1>5, <1>6, <1>7, <1>8, <1>13, <1>14, <1>15, <1>16 DEF Whole, PathInv

(* A new object has no pointers, and nothing points to it yet.              *)
LEMMA NewWhole ==
  ASSUME Faithful, Good, Tracked, pc = "idle", TypeInv', CopyInv',
         NEW r \in (NExt + 1)..NRoot, New(r)
  PROVE  Whole'
<1> DEFINE a == <<0, to[0], free[0][to[0]] + 1>>
           new == CHOOSE i \in UnusedIds : \A j \in UnusedIds : i <= j
<1>1. /\ a \in Cells /\ mem' = [mem EXCEPT ![a] = [Blank EXCEPT !.id = new]]
      /\ free' = [free EXCEPT ![0][to[0]] = @ + 1] /\ root' = [root EXCEPT ![r] = a]
      /\ UNCHANGED <<to, tolog, fromlog, triage, pc, upto, ri, stack, gray, sg, back, cg, rescued>>
  BY DEF New, logs, scan
<1>2. mem \in [Addr -> Cell] /\ free \in Frees /\ 0 \in Gens /\ to[0] \in {0, 1} /\ a \in Addr
  BY <1>1, TypeParts, AddressFacts DEF Good
<1>3. ~Allocated(a) /\ InTo(a) /\ a[1] = 0
  BY <1>1, <1>2, AddressFacts DEF Allocated, InTo, Frees
<1>4. \A y : (InTo(y)' <=> InTo(y)) /\ (InFrom(y)' <=> InFrom(y))
  BY <1>1 DEF InTo, InFrom
<1>5. ASSUME NEW b \in Addr
      PROVE  Allocated(b)' <=> Allocated(b) \/ b = a
  <2>1. CASE b \in Ext
    BY <2>1 DEF Allocated
  <2>2. CASE b \in Cells
    <3>1. /\ b[1] \in Gens /\ b[2] \in {0, 1} /\ b[3] \in 1..MaxObjs /\ b \notin Ext
          /\ b = <<b[1], b[2], b[3]>>
      BY <2>2, AddressFacts
    <3>2. free[b[1]] \in [{0, 1} -> 0..MaxObjs] /\ free[b[1]][b[2]] \in 0..MaxObjs
      BY <1>2, <3>1 DEF Frees
    <3>3. CASE b[1] = 0 /\ b[2] = to[0]
      <4>1. free'[b[1]][b[2]] = free[b[1]][b[2]] + 1
        BY <1>1, <1>2, <3>2, <3>3 DEF Frees
      <4>2. b = a <=> b[3] = free[b[1]][b[2]] + 1
        BY <3>1, <3>3
      <4>3. QED
        BY <3>1, <3>2, <4>1, <4>2 DEF Allocated
    <3>4. CASE ~(b[1] = 0 /\ b[2] = to[0])
      <4>1. free'[b[1]][b[2]] = free[b[1]][b[2]]
        BY <1>1, <1>2, <3>1, <3>2, <3>4 DEF Frees
      <4>2. b # a
        BY <3>4
      <4>3. QED
        BY <3>1, <4>1, <4>2 DEF Allocated
    <3>5. QED
      BY <3>3, <3>4
  <2>3. QED
    BY <2>1, <2>2 DEF Addr
<1>6. \A b \in Addr : b # a => mem'[b] = mem[b]
  BY <1>1
<1>7. mem'[a].fwd = Nil /\ mem'[a].kid = NoKids
  BY <1>1, <1>2 DEF Blank
<1> HIDE DEF a, new
<1>8. \A b \in Addr : Allocated(b) => b # a /\ mem'[b] = mem[b]
  BY <1>3, <1>6
<1>9. \A b \in Addr, k \in 1..NField :
        Allocated(b) /\ mem[b].kid[k] # Nil => Allocated(mem[b].kid[k]) /\ mem[b].kid[k] \in Addr
  BY KidFacts
<1>10. Valid'
  <2> SUFFICES ASSUME NEW b \in Addr, Allocated(b)', NEW k \in 1..NField, mem'[b].kid[k] # Nil
               PROVE  Allocated(mem[b].kid[k])'
    BY DEF Valid
  <2>1. b # a
    BY <1>7 DEF NoKids
  <2>2. Allocated(b) /\ mem'[b] = mem[b]
    BY <1>5, <1>6, <2>1
  <2>3. mem[b].kid[k] \in Addr /\ Allocated(mem[b].kid[k])
    BY <1>9, <2>2
  <2>4. QED
    BY <1>5, <2>2, <2>3
<1>11. Blanks'
  BY <1>5, <1>6, AddressFacts DEF Good, PathInv, Blanks
<1>12. RootsValid'
  <2>1. ASSUME NEW x \in 1..NRoot, root'[x] # Nil
        PROVE  Allocated(root[x])' /\ ~InFrom(root[x])'
    <3>1. CASE x = r
      <4>1. root'[x] = a
        BY <1>1, <3>1, TypeParts DEF Good
      <4>2. QED
        BY <1>2, <1>3, <1>4, <1>5, <4>1 DEF InTo, InFrom
    <3>2. CASE x # r
      <4>1. root'[x] = root[x] /\ root[x] \in Addr
        BY <1>1, <2>1, <3>2, TypeParts DEF Good, Kid
      <4>2. Allocated(root[x])
        BY <2>1, <4>1 DEF Good, PathInv, RootsValid
      <4>3. ~InFrom(root[x])
        BY <4>1, <4>2, IdleFacts
      <4>4. QED
        BY <1>4, <1>5, <4>1, <4>2, <4>3
    <3>3. QED
      BY <3>1, <3>2
  <2>2. \A x \in 1..NExt : root'[x] = <<NGen, 0, x>>
    BY <1>1, TypeParts DEF Good, PathInv, RootsValid
  <2>3. QED
    BY <2>1, <2>2 DEF RootsValid
<1>13. StackValid' /\ GrayBelow'
  <2>1. stack = <<>>
    BY DEF Good, PathInv, StackValid
  <2>2. QED
    BY <1>1, <2>1 DEF StackValid, GrayBelow
<1>14. upto' = 0
  BY <1>1 DEF Good, CopyInv, Phases
<1>15. ForwardsUp' /\ Aged'
  <2>1. \A b \in Cells : Allocated(b)' => mem'[b].fwd = Nil
    BY <1>5, <1>7, <1>8, IdleFacts, AddressFacts
  <2>2. \A b \in Cells : ~(b[1] < 0)
    BY AddressFacts
  <2>3. QED
    BY <1>14, <2>1, <2>2 DEF ForwardsUp, Aged
<1>16. LogPhases' /\ LogBound' /\ LogBelow'
  BY <1>1 DEF Good, PathInv, LogPhases, LogBound, LogBelow, InRoots, In
<1>17. Tracked'
  <2> SUFFICES ASSUME NEW q \in Cells, Allocated(q)', NEW j \in 1..NField,
                      mem'[q].kid[j] \in Cells, Ahead(q, mem[q].kid[j])'
               PROVE  Kept(q, j)'
    BY DEF Tracked, Objects
  <2> DEFINE w == mem'[q].kid[j]
  <2>1. q # a
    BY <1>7, AddressFacts DEF NoKids
  <2>2. q \in Addr /\ Allocated(q) /\ mem'[q] = mem[q]
    BY <1>5, <1>6, <2>1, AddressFacts
  <2>3. w = mem[q].kid[j] /\ w # Nil
    BY <2>2, AddressFacts
  <2>4. w \in Addr /\ Allocated(w) /\ mem'[w] = mem[w]
    BY <1>8, <1>9, <2>2, <2>3
  <2>5. q \in Objects /\ mem[w].fwd = Nil
    BY <2>2, <2>4, IdleFacts
  <2>6. Ahead(q, w)
    BY <1>4, <2>2, <2>4, <2>5 DEF Ahead, FinalAge, Now
  <2>7. Kept(q, j)
    BY <2>3, <2>5, <2>6 DEF Tracked, Pending
  <2>8. QED
    BY <1>1, <1>4, <2>2, <2>3, <2>7 DEF Kept, In
<1>18. Settled'
  BY <1>1, <1>10, IdleSettled
<1>19. QED
  BY <1>10, <1>11, <1>12, <1>13, <1>15, <1>16, <1>17, <1>18 DEF Whole, PathInv

(* A collection is requested: the halves that it empties become from-space, *)
(* and the logs that it reads become from-logs.                             *)
LEMMA RequestGcWhole ==
  ASSUME Faithful, Good, Tracked, pc = "idle", NEW u \in Upto, RequestGc(u)
  PROVE  Whole'
<1>1. /\ to' = [g \in Gens |-> IF g < u THEN 1 - to[g] ELSE to[g]]
      /\ tolog' = [g \in LogGens |-> IF g < u THEN fromlog[g] ELSE tolog[g]]
      /\ fromlog' = [g \in LogGens |-> IF g < u THEN tolog[g] ELSE fromlog[g]]
      /\ pc' = "roots" /\ upto' = u /\ ri' = 1
      /\ UNCHANGED <<mem, free, root, triage, stack, gray, sg, back, cg, rescued>>
      /\ u \in 1..NGen /\ mem \in [Addr -> Cell]
  BY TypeParts DEF RequestGc, scan, Good
<1>2. /\ cg = 0 /\ \A g \in LogGens : triage[g] = <<>>
      /\ upto = 0 /\ FromEmpty /\ stack = <<>>
  BY DEF Good, PathInv, LogPhases, CopyInv, Phases, StackValid
<1>3. \A y : Allocated(y)' <=> Allocated(y)
  BY <1>1 DEF Allocated
<1>4. ASSUME NEW x \in Addr, Allocated(x)
      PROVE  /\ mem[x].fwd = Nil /\ x \in Objects /\ ~InFrom(x) /\ FinalAge(x) = mem[x].age
             /\ InFrom(x)' <=> x \in Cells /\ x[1] < u
             /\ InTo(x)' <=> x \in Cells /\ ~(x[1] < u)
             /\ x \in Cells => InTo(x) /\ x[1] \in Nat
             /\ Now(x) = x
  <2>1. /\ mem[x].fwd = Nil /\ x \in Objects /\ ~InFrom(x) /\ Now(x) = x
        /\ x \in Cells => InTo(x)
    BY <1>4, IdleFacts
  <2>2. ASSUME x \in Cells
        PROVE  (InFrom(x)' <=> x[1] < u) /\ (InTo(x)' <=> ~(x[1] < u)) /\ x[1] \in Nat
    <3>1. x[1] \in Gens /\ x[1] \in Nat /\ to[x[1]] \in {0, 1} /\ x[2] = to[x[1]]
      BY <2>1, <2>2, AddressFacts, TypeParts DEF InTo, Good
    <3>2. to'[x[1]] = IF x[1] < u THEN 1 - to[x[1]] ELSE to[x[1]]
      BY <1>1, <3>1
    <3>3. QED
      BY <2>2, <3>1, <3>2 DEF InFrom, InTo
  <2>3. x \notin Cells => ~InFrom(x)' /\ ~InTo(x)'
    BY DEF InFrom, InTo
  <2>4. QED
    BY <2>1, <2>2, <2>3 DEF FinalAge
<1>5. Valid' /\ Blanks' /\ ForwardsUp'
  BY <1>1, <1>3 DEF Good, PathInv, Valid, Blanks, ForwardsUp
<1>6. StackValid' /\ GrayBelow'
  BY <1>1, <1>2 DEF StackValid, GrayBelow
<1>7. RootsValid'
  <2>1. InRoots' /\ \A x \in 1..NRoot : x >= ri'
    BY <1>1 DEF InRoots
  <2>2. QED
    BY <1>1, <1>3, <2>1 DEF RootsValid, Good, PathInv
<1>8. Aged'
  <2> SUFFICES ASSUME NEW a \in Cells, InTo(a)', Allocated(a), a[1] < u PROVE FALSE
    BY <1>1, <1>3 DEF Aged
  <2>1. a \in Addr
    BY AddressFacts
  <2>2. QED
    BY <1>4, <2>1
<1>9. \A g \in LogGens : \/ g < u /\ tolog'[g] = fromlog[g] /\ fromlog'[g] = tolog[g]
                         \/ ~(g < u) /\ tolog'[g] = tolog[g] /\ fromlog'[g] = fromlog[g]
  BY <1>1
<1>10. LogBound'
  <2> SUFFICES ASSUME NEW g \in LogGens
               PROVE  Len(tolog'[g]) + Len(fromlog'[g]) + Len(triage[g]) <= MaxLog
    BY <1>1 DEF LogBound
  <2>1. Len(tolog[g]) + Len(fromlog[g]) + Len(triage[g]) <= MaxLog
    BY DEF Good, PathInv, LogBound
  <2>2. Len(tolog[g]) \in Nat /\ Len(fromlog[g]) \in Nat /\ Len(triage[g]) \in Nat
    BY TypeParts DEF Good, Log
  <2>3. ASSUME NEW x \in Nat, NEW y \in Nat, NEW z \in Nat, x + y + z <= MaxLog
        PROVE  y + x + z <= MaxLog
    BY <2>3
  <2>4. QED
    BY <1>9, <2>1, <2>2, <2>3
<1>11. LogBelow'
  BY <1>1, <1>9 DEF LogBelow, Good, PathInv, In
<1>12. LogPhases'
  <2>1. cg' = 0 /\ triage' = triage /\ 0 \in LogGens /\ upto' >= 1
    BY <1>1, <1>2, AddressFacts
  <2>2. QED
    BY <1>1, <1>2, <2>1 DEF LogPhases
<1>13. ASSUME NEW x \in Addr, Allocated(x)
       PROVE  /\ mem[x].age \in Nat /\ mem[x].age <= MaxAge /\ MaxAge \in Nat
              /\ x \in Cells => Age2Gen(mem[x].age) = x[1]
              /\ FinalAge(x)' = IF InFrom(x)' THEN Older(mem[x].age) ELSE mem[x].age
              /\ Now(x)' = x
  <2>1. mem[x] \in Cell
    BY <1>1
  <2>2. mem[x].age \in 0..MaxAge
    BY <2>1 DEF Cell
  <2>3. QED
    BY <1>1, <1>4, <1>13, <2>2, MaxAgeIsNat DEF Good, AgeGeneration, FinalAge, Now
<1>14. ASSUME NEW x \in Addr, NEW y \in Addr, Allocated(x), Allocated(y), x \in Cells, y \in Cells,
              x[1] > y[1]
       PROVE  mem[x].age > mem[y].age
  <2> SUFFICES ASSUME mem[x].age <= mem[y].age PROVE FALSE
    BY <1>13, <1>14
  <2>1. mem[x].age \in Nat /\ mem[y].age \in Nat
    BY <1>13, <1>14
  <2>2. mem[x].age \div NSurvive <= mem[y].age \div NSurvive
    BY <2>1, DivMonotone
  <2>3. mem[x].age \div NSurvive \in Nat /\ mem[y].age \div NSurvive \in Nat
    BY <2>1
  <2>4. Age2Gen(mem[x].age) <= Age2Gen(mem[y].age)
    BY <2>2, <2>3 DEF Age2Gen
  <2>5. x[1] <= y[1] /\ x[1] \in Nat /\ y[1] \in Nat
    BY <1>4, <1>13, <1>14, <2>4
  <2>6. QED
    BY <1>14, <2>5
<1>15. ASSUME NEW p \in Addr, NEW v \in Addr, Allocated(p), Allocated(v), p \in Cells, v \in Cells,
              Ahead(p, v)'
       PROVE  mem[p].age > mem[v].age /\ Age2Gen(mem[v].age) < NGen - 1
  <2> DEFINE ap == mem[p].age
             av == mem[v].age
  <2>1. ap \in 0..MaxAge /\ av \in 0..MaxAge /\ MaxAge \in Nat
    BY <1>13, <1>15
  <2>2. /\ FinalAge(p)' > FinalAge(v)' /\ Age2Gen(FinalAge(v)') < NGen - 1
        /\ FinalAge(p)' = IF p[1] < u THEN Older(ap) ELSE ap
        /\ FinalAge(v)' = IF v[1] < u THEN Older(av) ELSE av
    BY <1>4, <1>13, <1>15 DEF Ahead
  <2>3. Age2Gen(Older(av)) >= Age2Gen(av) /\ Age2Gen(av) \in Nat /\ Age2Gen(Older(av)) \in Nat
    BY <2>1, OlderGen, AgeFacts, AddressFacts
  <2>4. Age2Gen(av) < NGen - 1
    BY <2>2, <2>3
  <2>5. ap > av
    <3>1. CASE p[1] < u /\ ~(v[1] < u)
      <4>1. v[1] > p[1]
        BY <1>1, <1>4, <1>15, <3>1
      <4>2. av > ap
        BY <1>14, <1>15, <4>1
      <4>3. QED
        BY <2>1, <2>2, <3>1, <4>2 DEF Older
    <3>2. CASE ~(p[1] < u /\ ~(v[1] < u))
      BY <2>1, <2>2, <3>2 DEF Older
    <3>3. QED
      BY <3>1, <3>2
  <2>6. QED
    BY <2>4, <2>5
<1>16. ASSUME NEW e \in LogEntry, NEW p \in Addr, Allocated(p), NEW k \in 1..NField,
              NEW v \in Addr, Allocated(v), e = [parent |-> p, k |-> k, snap |-> v], mem[p].kid[k] = v
       PROVE  About(e, p, k)'
  BY <1>1, <1>13, <1>16 DEF About
<1>17. ASSUME NEW p \in Cells, Allocated(p), NEW k \in 1..NField, mem[p].kid[k] \in Cells,
              mem[p].age > mem[mem[p].kid[k]].age, Age2Gen(mem[mem[p].kid[k]].age) < NGen - 1
       PROVE  \E v \in Addr, g \in LogGens, e \in LogEntry :
                /\ v = mem[p].kid[k] /\ Allocated(v) /\ v \in Cells
                /\ e = [parent |-> p, k |-> k, snap |-> v]
                /\ g <= v[1] /\ In(e, tolog[g]) /\ About(e, p, k)'
  <2> PICK v \in Cells : v = mem[p].kid[k]
    BY <1>17
  <2>1. p \in Addr /\ p \in Objects /\ v \in Addr /\ Allocated(v) /\ v # Nil
    BY <1>4, <1>17, KidFacts, AddressFacts
  <2>2. Ahead(p, v)
    BY <1>4, <1>17, <2>1 DEF Ahead
  <2>3. Kept(p, k)
    BY <1>17, <2>1, <2>2 DEF Tracked, Pending
  <2>4. PICK g \in LogGens : g <= v[1] /\ In([parent |-> p, k |-> k, snap |-> v], tolog[g])
    BY <2>3 DEF Kept
  <2>5. [parent |-> p, k |-> k, snap |-> v] \in LogEntry
    BY <1>17 DEF LogEntry
  <2>6. About([parent |-> p, k |-> k, snap |-> v], p, k)'
    BY <1>16, <1>17, <2>1, <2>5
  <2>7. QED
    BY <1>17, <2>1, <2>4, <2>5, <2>6
<1>18. Tracked'
  <2> SUFFICES ASSUME NEW p \in Cells, Allocated(p), NEW k \in 1..NField,
                      mem[p].kid[k] \in Cells, Ahead(p, mem[p].kid[k])'
               PROVE  Kept(p, k)' \/ Pending(p, k)'
    BY <1>1, <1>3 DEF Tracked, Objects
  <2>1. p \in Addr /\ mem[p].kid[k] \in Addr /\ Allocated(mem[p].kid[k])
    BY KidFacts, AddressFacts
  <2>2. mem[p].age > mem[mem[p].kid[k]].age /\ Age2Gen(mem[mem[p].kid[k]].age) < NGen - 1
    BY <1>1, <1>15, <2>1 DEF Ahead
  <2>3. PICK v \in Addr, g \in LogGens, e \in LogEntry :
          /\ v = mem[p].kid[k] /\ Allocated(v) /\ v \in Cells
          /\ e = [parent |-> p, k |-> k, snap |-> v]
          /\ g <= v[1] /\ In(e, tolog[g]) /\ About(e, p, k)'
    BY <1>17, <2>2
  <2>4. CASE g < u
    <3>1. In(e, fromlog'[g]) /\ ~(g < cg')
      BY <1>1, <1>2, <1>9, <2>3, <2>4, AddressFacts
    <3>2. QED
      BY <1>1, <2>3, <3>1 DEF Pending, In
  <2>5. CASE ~(g < u)
    <3>1. In(e, tolog'[g])
      BY <1>9, <2>3, <2>5
    <3>2. p[1] >= v[1]
      <4>1. ~(v[1] > p[1])
        <5>1. v[1] > p[1] => mem[v].age > mem[p].age
          BY <1>14, <2>1, <2>3
        <5>2. mem[v].age \in Nat /\ mem[p].age \in Nat
          BY <1>13, <2>1, <2>3
        <5>3. QED
          BY <2>2, <2>3, <5>1, <5>2
      <4>2. QED
        BY <1>4, <2>1, <2>3, <4>1
    <3>3. ~(v[1] < u) /\ ~(p[1] < u)
      <4>1. p[1] \in Nat /\ v[1] \in Nat /\ g \in Nat /\ u \in Nat
        BY <1>1, <1>4, <2>1, <2>3, AddressFacts
      <4>2. QED
        BY <2>3, <2>5, <3>2, <4>1
    <3>4. InTo(p)' /\ InTo(v)'
      BY <1>4, <2>1, <2>3, <3>3
    <3>5. QED
      BY <1>1, <2>3, <3>1, <3>4 DEF Kept, In
  <2>6. QED
    BY <2>4, <2>5
<1>19. Settled'
  <2> SUFFICES ASSUME NEW p \in Addr, Allocated(p), NEW k \in 1..NField, ~InFrom(p)',
                      mem[p].kid[k] # Nil, InFrom(mem[p].kid[k])'
               PROVE  Todo(p, k)' \/ (InTo(p)' /\ p[1] >= u /\ PendingNow(p, k)')
    BY <1>1, <1>3 DEF Settled, Objects
  <2>1. CASE p \in Ext
    <3>1. p[3] >= 1
      BY <2>1 DEF Ext
    <3>2. QED
      BY <1>1, <2>1, <3>1 DEF Todo, InRoots
  <2>2. CASE p \in Cells
    <3> PICK w \in Addr : w = mem[p].kid[k] /\ Allocated(w)
      BY KidFacts
    <3>1. w \in Addr /\ Allocated(w) /\ InFrom(w)'
      BY <1>1
    <3>2. w \in Cells /\ w[1] < u /\ ~(p[1] < u) /\ InTo(p)'
      BY <1>4, <2>2, <3>1
    <3>3. p[1] > w[1] /\ p[1] >= u /\ w[1] < NGen - 1
      <4>1. p[1] \in 0..(NGen - 1) /\ w[1] \in Nat /\ u \in Nat
        BY <1>1, <2>2, <3>2, AddressFacts DEF Gens
      <4>2. w[1] < u /\ ~(p[1] < u)
        BY <3>2
      <4>3. QED
        BY <4>1, <4>2
    <3>4. mem[p].age > mem[w].age /\ Age2Gen(mem[w].age) < NGen - 1
      BY <1>13, <1>14, <2>2, <3>1, <3>2, <3>3
    <3>5. PICK v \in Addr, g \in LogGens, e \in LogEntry :
            /\ v = w /\ e = [parent |-> p, k |-> k, snap |-> v]
            /\ g <= v[1] /\ In(e, tolog[g]) /\ About(e, p, k)'
      BY <1>17, <2>2, <3>2, <3>4
    <3>6. g < u /\ g >= 0
      <4>1. g \in Nat /\ w[1] \in Nat
        BY <3>2, AddressFacts
      <4>2. QED
        BY <1>1, <3>2, <3>5, <4>1
    <3>7. In(e, fromlog'[g])
      BY <1>9, <3>5, <3>6
    <3>8. PendingNow(p, k)'
      BY <1>1, <1>2, <3>5, <3>6, <3>7 DEF PendingNow, In
    <3>9. QED
      BY <3>2, <3>3, <3>8
  <2>3. QED
    BY <2>1, <2>2 DEF Addr
<1>20. QED
  BY <1>5, <1>6, <1>7, <1>8, <1>10, <1>11, <1>12, <1>18, <1>19 DEF Whole, PathInv

-----------------------------------------------------------------------------
(* What the client reaches is allocated.                                    *)

LEMMA NatSetInduction ==
  ASSUME NEW S \in SUBSET Nat, 0 \in S, \A n \in S : n + 1 \in S
  PROVE  S = Nat
<1>1. SUFFICES ASSUME Nat \ S # {} PROVE FALSE
  OBVIOUS
<1>2. PICK x \in Nat \ S : \A y \in Nat \ S : x <= y
  <2> DEFINE Q == Nat \ S
  <2>1. Q \in SUBSET Nat /\ Q # {}
    BY <1>1
  <2> HIDE DEF Q
  <2>2. \E n \in Q : \A m \in Q : n <= m
    BY <2>1, LeastNatural
  <2>3. QED
    BY <2>2 DEF Q
<1>3. x # 0 /\ x - 1 \in Nat
  BY <1>2
<1>4. x - 1 \in S
  <2>1. ~(x <= x - 1)
    BY <1>3
  <2>2. QED
    BY <1>2, <1>3, <2>1
<1>5. x \in S
  <2>1. (x - 1) + 1 = x
    BY <1>2
  <2>2. QED
    BY <1>4, <2>1
<1>6. QED
  BY <1>2, <1>5

LEMMA ReachedAllocated ==
  ASSUME Good, NEW s \in SUBSET Addr, \A a \in s : Allocated(a)
  PROVE  \A x \in Reached(s) : x \in Addr /\ Allocated(x)
<1> DEFINE D == 0..(MaxObjs + NExt)
           kids(b) == {Now(c) : c \in {mem[b].kid[k] : k \in 1..NField} \ {Nil}}
           start == {Now(a) : a \in s}
           step(T) == UNION {{b} \cup kids(b) : b \in T}
           body(f) == [n \in D |-> IF n = 0 THEN start ELSE step(f[n - 1])]
           r == CHOOSE f : f = body(f)
           live == {x \in Addr : Allocated(x)}
<1>1. Reached(s) = Addr \cap r[MaxObjs + NExt]
  BY DEF Reached
<1>2. start \subseteq live
  BY NowFacts
<1>3. \A T \in SUBSET live : step(T) \subseteq live
  <2> SUFFICES ASSUME NEW b \in live, NEW k \in 1..NField, mem[b].kid[k] # Nil
               PROVE  Now(mem[b].kid[k]) \in live
    OBVIOUS
  <2>1. mem[b].kid[k] \in live
    BY KidFacts
  <2>2. QED
    BY <2>1, NowFacts
<1> HIDE DEF start, step
<1>4. \E f : f = body(f)
  <2> DEFINE S == {m \in Nat : \E f : f = [n \in 0..m |-> IF n = 0 THEN start ELSE step(f[n - 1])]}
  <2>1. 0 \in S
    <3>1. [n \in {0} |-> start] = [n \in 0..0 |-> IF n = 0 THEN start
                                                  ELSE step([i \in {0} |-> start][n - 1])]
      OBVIOUS
    <3>2. QED
      BY <3>1
  <2>2. ASSUME NEW m \in S PROVE m + 1 \in S
    <3>1. m \in Nat /\ m + 1 \in Nat
      OBVIOUS
    <3>2. PICK f : f = [n \in 0..m |-> IF n = 0 THEN start ELSE step(f[n - 1])]
      OBVIOUS
    <3> DEFINE h == [n \in 0..(m + 1) |-> IF n = 0 THEN start ELSE step(f[n - 1])]
    <3>3. \A n \in 0..m : h[n] = f[n]
      <4>1. \A n \in 0..m : n \in 0..(m + 1)
        BY <3>1
      <4>2. QED
        BY <3>2, <4>1
    <3>4. \A n \in 0..(m + 1) : n = 0 \/ n - 1 \in 0..m
      BY <3>1
    <3>5. h = [n \in 0..(m + 1) |-> IF n = 0 THEN start ELSE step(h[n - 1])]
      <4>1. \A n \in 0..(m + 1) : n # 0 => h[n - 1] = f[n - 1]
        BY <3>3, <3>4
      <4> HIDE DEF h
      <4>2. [n \in 0..(m + 1) |-> IF n = 0 THEN start ELSE step(f[n - 1])]
            = [n \in 0..(m + 1) |-> IF n = 0 THEN start ELSE step(h[n - 1])]
        BY <4>1
      <4>3. QED
        BY <4>2 DEF h
    <3>6. QED
      BY <3>1, <3>5
  <2> HIDE DEF S
  <2>3. S \in SUBSET Nat
    BY DEF S
  <2>4. S = Nat
    BY <2>1, <2>2, <2>3, NatSetInduction
  <2>5. MaxObjs + NExt \in S
    BY <2>4
  <2>6. QED
    BY <2>5 DEF S
<1>5. r = body(r)
  BY <1>4
<1> HIDE DEF r
<1>6. \A n \in D : r[n] = IF n = 0 THEN start ELSE step(r[n - 1])
  BY <1>5
<1>7. \A n \in D : r[n] \subseteq live
  <2> DEFINE S == {n \in Nat : n \in D => r[n] \subseteq live}
  <2>1. 0 \in S
    BY <1>2, <1>6
  <2>2. ASSUME NEW n \in S PROVE n + 1 \in S
    <3>1. CASE n + 1 \in D
      <4>1. n \in D /\ (n + 1) - 1 = n /\ n + 1 # 0 /\ n \in Nat
        BY <3>1
      <4>2. r[n] \in SUBSET live
        BY <4>1
      <4>3. r[n + 1] = step(r[n])
        BY <1>6, <3>1, <4>1
      <4>4. QED
        BY <1>3, <4>1, <4>2, <4>3
    <3>2. CASE n + 1 \notin D
      BY <3>2
    <3>3. QED
      BY <3>1, <3>2
  <2> HIDE DEF S
  <2>3. S \in SUBSET Nat
    BY DEF S
  <2>4. S = Nat
    BY <2>1, <2>2, <2>3, NatSetInduction
  <2>5. \A n \in D : n \in S
    BY <2>4
  <2>6. QED
    BY <2>5 DEF S
<1>8. MaxObjs + NExt \in D
  OBVIOUS
<1>9. QED
  BY <1>1, <1>7, <1>8

LEMMA ReachableAllocated ==
  ASSUME Good
  PROVE  \A x \in Reachable : x \in Addr /\ Allocated(x)
<1> DEFINE s == {root[r] : r \in 1..NRoot} \ {Nil}
<1>1. \A r \in 1..NRoot : root[r] # Nil => root[r] \in Addr /\ Allocated(root[r])
  BY TypeParts DEF Good, PathInv, RootsValid, Kid
<1>2. s \in SUBSET Addr /\ \A a \in s : Allocated(a)
  BY <1>1
<1> HIDE DEF s
<1>3. \A x \in Reached(s) : x \in Addr /\ Allocated(x)
  BY <1>2, ReachedAllocated
<1>4. QED
  BY <1>3 DEF Reachable, s

LEMMA MutateWhole ==
  ASSUME Faithful, Good, Tracked, TypeInv', CopyInv', Mutate
  PROVE  Whole'
<1>1. pc = "idle"
  BY DEF Mutate
<1>2. \A x \in Reachable : x \in Addr /\ Allocated(x)
  BY ReachableAllocated
<1>3. CASE \E r \in (NExt + 1)..NRoot : New(r)
  BY <1>1, <1>3, NewWhole
<1>4. CASE \E r \in (NExt + 1)..NRoot, v \in Reachable \cup {Nil} : SetRoot(r, v)
  <2>1. PICK r \in (NExt + 1)..NRoot, v \in Reachable \cup {Nil} : SetRoot(r, v)
    BY <1>4
  <2>2. v \in Kid /\ (v # Nil => Allocated(v))
    BY <1>2 DEF Kid
  <2>3. QED
    BY <1>1, <2>1, <2>2, SetRootWhole
<1>5. CASE \E p, v \in Reachable, k \in 1..NField : Assign(p, k, v)
  <2>1. PICK p \in Reachable, v \in Reachable, k \in 1..NField : Assign(p, k, v)
    BY <1>5
  <2>2. p \in Addr /\ v \in Addr /\ Allocated(p) /\ Allocated(v)
    BY <1>2
  <2>3. QED
    BY <1>1, <2>1, <2>2, AssignWhole
<1>6. CASE \E u \in Upto : RequestGc(u)
  BY <1>1, <1>6, RequestGcWhole
<1>7. QED
  BY <1>3, <1>4, <1>5, <1>6 DEF Mutate

LEMMA InitWhole == Init => Whole
<1> SUFFICES ASSUME Init PROVE Whole
  OBVIOUS
<1>1. /\ free = [g \in Gens |-> [h \in {0, 1} |-> 0]]
      /\ tolog = [g \in LogGens |-> <<>>] /\ fromlog = tolog /\ triage = tolog
      /\ pc = "idle" /\ upto = 0 /\ stack = <<>> /\ cg = 0 /\ back = "idle"
      /\ root = [r \in 1..NRoot |-> IF r <= NExt THEN <<NGen, 0, r>> ELSE Nil]
      /\ mem = [a \in Addr |-> IF a \in Ext THEN [Blank EXCEPT !.id = MaxObjs + a[3]]
                                            ELSE Blank]
  BY DEF Init
<1>2. \A a \in Cells : ~Allocated(a) /\ a \in Addr /\ a \notin Ext
  BY <1>1, AddressFacts DEF Allocated
<1>3. \A a \in Addr : mem[a].fwd = Nil /\ mem[a].kid = NoKids
  BY <1>1 DEF Blank
<1>4. \A a \in Addr : \A k \in 1..NField : mem[a].kid[k] = Nil
  BY <1>3 DEF NoKids
<1>5. Valid /\ Blanks /\ StackValid /\ GrayBelow /\ ForwardsUp /\ Aged
  BY <1>1, <1>2, <1>3, <1>4 DEF Valid, Blanks, StackValid, GrayBelow, ForwardsUp, Aged
<1>6. RootsValid
  <2>1. \A r \in 1..NExt : r \in 1..NRoot /\ <<NGen, 0, r>> \in Ext
    BY DEF Ext
  <2>2. \A r \in 1..NRoot : root[r] # Nil => root[r] \in Ext
    BY <1>1, <2>1
  <2>3. \A a \in Ext : Allocated(a) /\ ~InFrom(a)
    BY AddressFacts DEF Allocated, InFrom
  <2>4. QED
    BY <1>1, <2>1, <2>2, <2>3 DEF RootsValid
<1>7. \A g \in LogGens : tolog[g] = <<>> /\ fromlog[g] = <<>> /\ triage[g] = <<>>
  BY <1>1
<1>8. LogPhases
  BY <1>1, <1>7, AddressFacts DEF LogPhases
<1>9. LogBound /\ LogBelow
  <2>1. \A e : ~In(e, <<>>)
    BY DEF In
  <2>2. Len(<<>>) = 0 /\ 0 + 0 + 0 <= MaxLog
    OBVIOUS
  <2>3. LogBound
    BY <1>7, <2>2 DEF LogBound
  <2>4. LogBelow
    BY <1>7, <2>1 DEF LogBelow
  <2>5. QED
    BY <2>3, <2>4
<1>10. Tracked /\ Settled
  BY <1>2, <1>4, AddressFacts DEF Tracked, Settled, Objects
<1>11. QED
  BY <1>5, <1>6, <1>8, <1>9, <1>10 DEF Whole, PathInv

(* A process that is lost takes no step.                                    *)
LEMMA DeadStays ==
  ASSUME pc = "dead", [Next]_vars
  PROVE  pc' = "dead"
<1>1. CASE UNCHANGED vars
  BY <1>1 DEF vars
<1>2. ASSUME Mutate PROVE FALSE
  BY <1>2 DEF Mutate
<1>3. ASSUME Collect PROVE pc' = "dead"
  BY <1>3 DEF Collect, CopyRoot, RootsDone, Visit, SkipNull, VisitChildren, FollowForward,
              MoveChild, Visiting, ScanGray, Fixpoint, FixpointStep, DropEntry, TriageEntry,
              RescueChild, KeepEntry, InLog, NextLog, Cleanup, LogDone, Crash
<1>4. QED
  BY <1>1, <1>2, <1>3 DEF Next

(* Every step of a collection, and every step of the client.                *)
LEMMA NextWhole ==
  ASSUME Faithful, TypeInv, CopyInv, AgeGeneration, TypeInv', CopyInv', AgeGeneration', StoreInv,
         [Next]_vars
  PROVE  StoreInv'
<1> SUFFICES ASSUME pc' # "dead" PROVE Whole'
  BY DEF StoreInv
<1>1. pc # "dead"
  BY DeadStays
<1>2. Good /\ Tracked /\ Settled
  BY <1>1 DEF StoreInv, Whole, Good
<1>3. CASE UNCHANGED vars
  <2>1. UNCHANGED <<mem, free, to, root, tolog, fromlog, triage, pc, upto, ri, stack, gray, sg, back,
                    cg, rescued>>
    BY <1>3 DEF vars, heap, logs, scan
  <2>2. Valid' /\ Blanks' /\ StackValid' /\ GrayBelow' /\ ForwardsUp' /\ Aged' /\ RootsValid'
    BY <1>2, <2>1 DEF Good, PathInv, Valid, Blanks, StackValid, GrayBelow, ForwardsUp, Aged,
                      RootsValid, InRoots, Allocated, InFrom, InTo, ScanEnd
  <2>3. LogPhases' /\ LogBound' /\ LogBelow'
    BY <1>2, <2>1 DEF Good, PathInv, LogPhases, LogBound, LogBelow, InRoots, In
  <2>4. Evac /\ ~Copied
    BY <2>1, SameEvac DEF Copied
  <2>5. Tracked'
    <3>1. CASE pc = "idle"
      <4>1. \A p, k : ~Pending(p, k)
        BY <3>1 DEF Pending
      <4>2. \A p \in Objects \cap Cells, k \in 1..NField, q \in Addr :
              q = NowNext(p) /\ Pending(p, k) /\ Ahead(q, mem[q].kid[k])' =>
                Kept(q, k)' \/ Pending(q, k)'
        BY <4>1
      <4>3. LogsGrow
        BY <2>1 DEF LogsGrow
      <4>4. QED
        BY <1>2, <2>4, <4>2, <4>3, TrackedKept
    <3>2. CASE pc # "idle"
      BY <1>2, <2>1, <2>4, <3>2, TrackedUnread
    <3>3. QED
      BY <3>1, <3>2
  <2>6. Settled'
    <3>1. ASSUME NEW p \in Objects, NEW k \in 1..NField, StillInFrom(p, k)
          PROVE  /\ Todo(p, k) => Todo(p, k)'
                 /\ PendingNow(p, k) => PendingNow(p, k)'
      <4>1. Todo(p, k) => Todo(p, k)'
        BY <2>1 DEF Todo, Gray1, Stacked, InRoots, InTo, ScanEnd
      <4>2. PendingNow(p, k) => PendingNow(p, k)'
        BY <1>2, <2>1, <2>4, <3>1, PendingNowKept DEF StillInFrom
      <4>3. QED
        BY <4>1, <4>2
    <3>2. \A x \in Addr : AllocNext(x) => Allocated(x)
      BY <2>1 DEF AllocNext, Allocated
    <3>3. QED
      BY <1>2, <2>4, <3>1, <3>2, SettledKept
  <2>7. QED
    BY <2>2, <2>3, <2>5, <2>6 DEF Whole, PathInv
<1>4. CASE Mutate
  BY <1>2, <1>4, MutateWhole
<1>5. CASE CopyRoot
  BY <1>2, <1>5, CopyRootWhole
<1>6. CASE RootsDone
  BY <1>2, <1>6, RootsDoneWhole
<1>7. CASE Visit
  BY <1>2, <1>7, VisitWhole
<1>8. CASE ScanGray
  BY <1>2, <1>8, ScanGrayWhole
<1>9. CASE Fixpoint
  BY <1>2, <1>9, FixpointWhole
<1>10. CASE DropEntry
  BY <1>2, <1>10, DropEntryWhole
<1>11. CASE TriageEntry
  BY <1>2, <1>11, TriageEntryWhole
<1>12. CASE RescueChild
  BY <1>2, <1>12, RescueChildWhole
<1>13. CASE KeepEntry
  BY <1>2, <1>13, KeepEntryWhole
<1>14. CASE NextLog
  BY <1>2, <1>14, NextLogWhole
<1>15. CASE Cleanup
  BY <1>2, <1>15, CleanupWhole
<1>16. CASE Crash
  BY <1>16 DEF Crash
<1>17. QED
  BY <1>3, <1>4, <1>5, <1>6, <1>7, <1>8, <1>9, <1>10, <1>11, <1>12, <1>13, <1>14, <1>15, <1>16
  DEF Next, Collect

(* The inductive invariant holds.                                           *)
LEMMA StoreInvCorrect ==
  ASSUME Faithful
  PROVE  Spec => []StoreInv
<1>1. TypeInv /\ CopyInv /\ AgeGeneration /\ StoreInv /\ TypeInv' /\ CopyInv' /\ AgeGeneration'
        /\ [Next]_vars => StoreInv'
  BY NextWhole
<1>2. Init => StoreInv
  BY InitWhole DEF StoreInv
<1>3. QED
  BY <1>1, <1>2, TypeCorrect, CopyInvCorrect, AgeCorrect, PTL DEF Spec

-----------------------------------------------------------------------------
(* What verify_ok checks, and what the collector relies on.                 *)

(* NoDangling: what verify_ok checks after a collection, and what holds     *)
(* between two collections, of all objects in to-space, garbage included.   *)
THEOREM NothingDangles ==
  ASSUME Faithful
  PROVE  Spec => []NoDangling
<1>1. TypeInv /\ CopyInv /\ AgeGeneration /\ StoreInv => NoDangling
  <2> SUFFICES ASSUME TypeInv, CopyInv, AgeGeneration, StoreInv, pc = "idle",
                      NEW a \in Objects, NEW k \in 1..NField, mem[a].kid[k] # Nil
               PROVE  ~InFrom(mem[a].kid[k]) /\ Allocated(mem[a].kid[k])
    BY DEF NoDangling
  <2>1. Good
    BY DEF StoreInv, Whole, Good
  <2>2. a \in Addr /\ Allocated(a)
    BY DEF Objects
  <2>3. mem[a].kid[k] \in Addr /\ Allocated(mem[a].kid[k])
    BY <2>1, <2>2, KidFacts
  <2>4. QED
    BY <2>1, <2>3, IdleFacts
<1>2. QED
  BY <1>1, TypeCorrect, CopyInvCorrect, AgeCorrect, StoreInvCorrect, PTL

(* RememberedSet: every pointer from an older to a younger generation is in *)
(* a log that a collection of the younger generation reads.                 *)
THEOREM RememberedCorrect ==
  ASSUME Faithful
  PROVE  Spec => []RememberedSet
<1>1. TypeInv /\ CopyInv /\ AgeGeneration /\ StoreInv => RememberedSet
  <2> SUFFICES ASSUME TypeInv, CopyInv, AgeGeneration, StoreInv, pc = "idle",
                      NEW p \in Objects \ Ext, NEW k \in 1..NField,
                      mem[p].kid[k] # Nil, InTo(mem[p].kid[k]), mem[p].kid[k][1] < p[1]
               PROVE  Remembered(p, k)
    BY DEF RememberedSet
  <2> DEFINE v == mem[p].kid[k]
  <2>1. Good /\ Tracked
    BY DEF StoreInv, Whole, Good
  <2>2. p \in Addr /\ p \in Cells /\ Allocated(p)
    BY DEF Objects, Addr
  <2>3. v \in Addr /\ v \in Cells /\ Allocated(v)
    BY <2>1, <2>2, KidFacts DEF InTo
  <2>4. /\ FinalAge(p) = mem[p].age /\ FinalAge(v) = mem[v].age /\ Now(v) = v
    BY <2>1, <2>2, <2>3, IdleFacts DEF FinalAge
  <2>5. Age2Gen(mem[p].age) = p[1] /\ Age2Gen(mem[v].age) = v[1]
    BY <2>2, <2>3 DEF AgeGeneration
  <2>6. mem[p].age \in Nat /\ mem[v].age \in Nat
    <3>1. mem[p] \in Cell /\ mem[v] \in Cell
      BY <2>1, <2>2, <2>3, TypeParts DEF Good
    <3> HIDE DEF v
    <3>2. QED
      BY <3>1, MaxAgeIsNat DEF Cell
  <2>7. mem[p].age > mem[v].age
    <3> SUFFICES ASSUME mem[p].age <= mem[v].age PROVE FALSE
      BY <2>6
    <3>1. mem[p].age \div NSurvive <= mem[v].age \div NSurvive
      BY <2>6, DivMonotone
    <3>2. mem[p].age \div NSurvive \in Nat /\ mem[v].age \div NSurvive \in Nat
      BY <2>6
    <3>3. p[1] <= v[1]
      BY <2>5, <3>1, <3>2 DEF Age2Gen
    <3>4. p[1] \in Nat /\ v[1] \in Nat
      BY <2>2, <2>3, AddressFacts
    <3>5. QED
      BY <3>3, <3>4
  <2>8. Age2Gen(mem[v].age) < NGen - 1
    <3>1. p[1] \in 0..(NGen - 1) /\ v[1] \in Nat
      BY <2>2, <2>3, AddressFacts DEF Gens
    <3>2. v[1] < p[1]
      OBVIOUS
    <3>3. QED
      BY <2>5, <3>1, <3>2
  <2>9. Kept(p, k)
    BY <2>1, <2>2, <2>3, <2>4, <2>7, <2>8 DEF Tracked, Ahead, Pending
  <2>10. PICK g \in LogGens : g <= v[1] /\ In([parent |-> p, k |-> k, snap |-> v], tolog[g])
    BY <2>9 DEF Kept
  <2>11. g \in 0..v[1]
    BY <2>3, <2>10, AddressFacts
  <2>12. QED
    BY <2>10, <2>11 DEF Remembered, In
<1>2. QED
  BY <1>1, TypeCorrect, CopyInvCorrect, AgeCorrect, StoreInvCorrect, PTL

(* WhiteIsForwarded: the picture in _forward_children_until_fixpoint.       *)
THEOREM WhiteCorrect ==
  ASSUME Faithful
  PROVE  Spec => []WhiteIsForwarded
<1>1. TypeInv /\ CopyInv /\ AgeGeneration /\ StoreInv => WhiteIsForwarded
  <2> SUFFICES ASSUME TypeInv, CopyInv, AgeGeneration, StoreInv, pc \in {"roots", "scan", "mlog"},
                      NEW a \in Cells, Scanned(a), NEW k \in 1..NField,
                      mem[a].kid[k] # Nil, InFrom(mem[a].kid[k])
               PROVE  FALSE
    BY DEF WhiteIsForwarded
  <2>1. Good /\ Settled
    BY DEF StoreInv, Whole, Good
  <2>2. a \in Addr /\ InTo(a) /\ ~InFrom(a) /\ Allocated(a) /\ a[1] < upto /\ a \notin Ext
    BY AddressFacts DEF Scanned, InTo, InFrom
  <2>3. a \in Objects
    BY <2>1, <2>2, NowFacts DEF Objects, Now
  <2>4. ~(a[1] >= upto)
    <3>1. a[1] \in Nat /\ upto \in Nat
      BY <2>1, AddressFacts, TypeParts DEF Good
    <3>2. QED
      BY <2>2, <3>1
  <2>5. Todo(a, k)
    BY <2>1, <2>2, <2>3, <2>4 DEF Settled
  <2>6. pc = "scan" /\ (Gray1(a) \/ Stacked(a, k))
    BY <2>2, <2>5 DEF Todo
  <2>7. ~Stacked(a, k)
    BY <2>6 DEF Scanned, Stacked
  <2>8. ~Gray1(a)
    <3>1. a[3] <= gray[a[1]] /\ a[1] \in Gens /\ a[3] \in 1..MaxObjs
      BY <2>6, AddressFacts DEF Scanned
    <3> HIDE DEF Scanned
    <3>2. gray[a[1]] \in 0..MaxObjs
      BY <2>1, <3>1, TypeParts DEF Good
    <3>3. QED
      BY <3>1, <3>2 DEF Gray1
  <2>9. QED
    BY <2>6, <2>7, <2>8
<1>2. QED
  BY <1>1, TypeCorrect, CopyInvCorrect, AgeCorrect, StoreInvCorrect, PTL
=============================================================================
