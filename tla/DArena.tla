------------------------------- MODULE DArena -------------------------------
(***************************************************************************)
(* The arena allocator of xo-arena: a reserved address range [lo, hi) of   *)
(* which a prefix [lo, limit) is committed and a prefix [lo, free) is      *)
(* allocated.  Addresses are offsets from lo.                              *)
(*                                                                         *)
(* Memory content is kept as the set of regions written since the arena    *)
(* was last emptied: a region is one call of _alloc, with its header (if   *)
(* it has one), the padded payload and the guard bytes after it.           *)
(*                                                                         *)
(* last_header_ is left out: the code assigns it and never reads it.       *)
(***************************************************************************)
EXTENDS Integers, Sequences, FiniteSets

CONSTANTS
  WordZ,        \* padding::c_alloc_alignment
  HeaderZ,      \* sizeof(AllocHeader)
  GuardZ,       \* config_.header_.guard_z_, rounded up by the constructor
  PageZ,        \* arena_align_z_: page or hugepage size
  ReserveZ,     \* hi_ - lo_ of a mapped arena
  SizeMod,      \* 2 ^ size_bits_ (not 0 bits): a header stores the size modulo this
  StoreHeader,  \* config_.store_header_flag_
  ReqZ,         \* the sizes clients ask for
  SuperAllocs,  \* whether clients use super_alloc() and sub_alloc()
  EmptyReset,   \* whether an ArenaReset may be opened before the first commit
  MaxRegions,   \* bound: regions in the arena
  MaxResets     \* bound: nested ArenaReset scopes

\* Every size is a multiple of the word; mmap_util hands out whole pages.
ASSUME ArenaAssumption ==
  /\ WordZ \in Nat \ {0} /\ HeaderZ \in Nat \ {0} /\ PageZ \in Nat \ {0}
  /\ GuardZ \in Nat /\ ReserveZ \in Nat /\ SizeMod \in Nat \ {0, 1}
  /\ ReserveZ % PageZ = 0
  /\ ReqZ \subseteq Nat
  /\ StoreHeader \in BOOLEAN /\ SuperAllocs \in BOOLEAN /\ EmptyReset \in BOOLEAN
  /\ MaxRegions \in Nat /\ MaxResets \in Nat

VARIABLES
  hi,          \* hi_ : ReserveZ, or 0 once unmapped
  committed,   \* committed_z_
  limit,       \* limit_
  free,        \* free_
  regions,     \* what _alloc wrote below free_
  open,        \* a super_alloc() still waits for its last sub_alloc()
  resets,      \* checkpoints of the ArenaReset scopes now open, innermost last
  last_error   \* last_error_ : kind of the last captured error

vars == <<hi, committed, limit, free, regions, open, resets, last_error>>

Errors == {"ok", "reserve_exhausted", "commit_failed"}

\* padding::with_padding.  (Here and below, name_x is a plausible wrong
\* version of name: the properties are tested by putting it in its place.)
WithPadding_down(z, align) == z - (z % align)
WithPadding(z, align) == z + ((align - (z % align)) % align)

(* A store at or beyond limit_ hits PROT_NONE pages and kills the program. *)
Alive == free <= limit

(* Bound: how many regions a behaviour may hold at once. *)
Room == Cardinality(regions) < MaxRegions

-----------------------------------------------------------------------------

Init ==
  /\ hi = ReserveZ /\ committed = 0 /\ limit = 0 /\ free = 0
  /\ regions = {} /\ open = FALSE /\ resets = <<>> /\ last_error = "ok"

\* capture_error, and return without touching the arena
Fail(err) ==
  /\ last_error' = err
  /\ UNCHANGED <<hi, committed, limit, free, regions, open, resets>>

\* the tail of _alloc: header at base, payload after it, then the guard
Bump_guardless(base, hz, z0, gz) ==
  /\ regions' = regions \cup {[beg |-> base, hz |-> hz, z |-> z0, gz |-> gz,
                               field |-> z0 % SizeMod]}
  /\ free' = base + hz + z0
  /\ UNCHANGED <<hi, resets, last_error>>

Bump(base, hz, z0, gz) ==
  /\ regions' = regions \cup {[beg |-> base, hz |-> hz, z |-> z0, gz |-> gz,
                               field |-> z0 % SizeMod]}
  /\ free' = base + hz + z0 + gz
  /\ UNCHANGED <<hi, resets, last_error>>

\* _alloc and expand; hz and gz are what the mode stores around the payload
AllocIn(hz, gz, z, still_open) ==
  LET z0     == WithPadding(z, WordZ)
      target == free + hz + z0
  IN \/ /\ target <= committed
        /\ Bump(free, hz, z0, gz)
        /\ open' = still_open
        /\ UNCHANGED <<committed, limit>>
     \/ /\ target > committed
        /\ target > hi
        /\ Fail("reserve_exhausted")
     \/ /\ target > committed
        /\ target <= hi
        /\ \/ Fail("commit_failed")        \* mprotect refuses
           \/ /\ committed' = WithPadding(target, PageZ)
              /\ limit' = WithPadding(target, PageZ)
              /\ Bump(IF limit = 0 THEN free + GuardZ ELSE free, hz, z0, gz)
              /\ open' = still_open

HeaderSize == IF StoreHeader THEN HeaderZ ELSE 0
GuardSize  == IF StoreHeader THEN GuardZ ELSE 0

-----------------------------------------------------------------------------
(* Operations.  A client that has called super_alloc() calls nothing but    *)
(* sub_alloc() until the last one (DArena.hpp, super_alloc and sub_alloc).  *)

Alloc(z) ==
  /\ Alive /\ Room /\ ~open
  /\ AllocIn(HeaderSize, GuardSize, z, FALSE)

SuperAlloc(z) ==
  /\ Alive /\ Room /\ ~open /\ SuperAllocs
  /\ AllocIn(HeaderSize, 0, z, TRUE)

SubAlloc(z, complete) ==
  /\ Alive /\ Room /\ open
  /\ AllocIn(0, IF complete THEN GuardSize ELSE 0, z, ~complete)

\* ArenaReset constructor: checkpoint()
OpenReset ==
  /\ Alive /\ ~open
  /\ Len(resets) < MaxResets
  /\ EmptyReset \/ limit > 0
  /\ resets' = Append(resets, free)
  /\ UNCHANGED <<hi, committed, limit, free, regions, open, last_error>>

\* ArenaReset destructor: restore() of the innermost scope
CloseReset_outermost ==
  /\ Alive /\ ~open
  /\ resets # <<>>
  /\ free' = resets[1]
  /\ regions' = {r \in regions : r.beg < resets[1]}
  /\ resets' = SubSeq(resets, 1, Len(resets) - 1)
  /\ UNCHANGED <<hi, committed, limit, open, last_error>>

CloseReset ==
  /\ Alive /\ ~open
  /\ resets # <<>>
  /\ free' = resets[Len(resets)]
  /\ regions' = {r \in regions : r.beg < resets[Len(resets)]}
  /\ resets' = SubSeq(resets, 1, Len(resets) - 1)
  /\ UNCHANGED <<hi, committed, limit, open, last_error>>

\* clear(), outside every ArenaReset scope
Clear_unmoved ==
  /\ Alive /\ ~open /\ resets = <<>>
  /\ regions' = {}
  /\ UNCHANGED <<hi, committed, limit, free, open, resets, last_error>>

Clear ==
  /\ Alive /\ ~open /\ resets = <<>>
  /\ free' = GuardZ
  /\ regions' = {}
  /\ UNCHANGED <<hi, committed, limit, open, resets, last_error>>

\* unmap(), explicit or from the destructor
Unmap ==
  /\ Alive /\ ~open /\ resets = <<>>
  /\ hi' = 0 /\ committed' = 0 /\ limit' = 0 /\ free' = 0
  /\ regions' = {} /\ last_error' = "ok"
  /\ UNCHANGED <<open, resets>>

Next ==
  \/ \E z \in ReqZ : Alloc(z)
  \/ \E z \in ReqZ : SuperAlloc(z)
  \/ \E z \in ReqZ, complete \in BOOLEAN : SubAlloc(z, complete)
  \/ OpenReset
  \/ CloseReset
  \/ Clear
  \/ Unmap

Spec == Init /\ [][Next]_vars

-----------------------------------------------------------------------------
(* Properties.                                                              *)

Region == [beg : Nat, hz : {0, HeaderZ}, z : Nat, gz : {0, GuardZ}, field : Nat]

TypeOK ==
  /\ hi \in {0, ReserveZ} /\ committed \in Nat /\ limit \in Nat /\ free \in Nat
  /\ regions \subseteq Region
  /\ open \in BOOLEAN
  /\ resets \in Seq(Nat)
  /\ last_error \in Errors

(* Everything allocated is committed and everything committed is reserved:  *)
(* what alloc() returned may be written without a fault (DArena.hpp,        *)
(* free_, limit_ and hi_), however allocations, resets and clears follow    *)
(* each other.                                                              *)
InCommitted == free <= limit /\ limit = committed /\ committed <= hi

EndOf(r) == r.beg + r.hz + r.z + r.gz

(* Two regions never share a byte, and none reaches past free_: a payload   *)
(* is not clobbered by the header, payload or guard of a later allocation,  *)
(* even after an ArenaReset has moved free_ back.                           *)
Disjoint ==
  /\ \A r \in regions : EndOf(r) <= free
  /\ \A r, s \in regions :
       r # s => EndOf(r) <= s.beg \/ EndOf(s) <= r.beg

\* begin_header() and the position DArenaIterator::next() computes
BeginPos   == GuardZ
NextPos_headerless(r) == r.beg + r.field + GuardZ
NextPos(r) == r.beg + HeaderZ + r.field + GuardZ

Headers == {r \in regions : r.hz # 0}

(* The chain an iterator follows from begin() visits every region with a    *)
(* header once and ends at end(): begin_header() is the first header or     *)
(* free_, the header after each header is another header or free_, and      *)
(* every header but the first has a predecessor.  An arena that never       *)
(* committed memory is looked at by EmptyIteration alone.                   *)
IterationExact ==
  StoreHeader /\ ~open /\ limit > 0 =>
    /\ BeginPos = free \/ \E r \in Headers : r.beg = BeginPos
    /\ \A r \in Headers :
         /\ NextPos(r) = free \/ \E s \in Headers : s.beg = NextPos(r)
         /\ r.beg = BeginPos \/ \E s \in Headers : NextPos(s) = r.beg

(* Iterating over an arena that holds no allocation visits nothing: begin() *)
(* equals end() (as IAllocIterator-emptyarena tests it with no guard).      *)
EmptyIteration == StoreHeader /\ regions = {} => BeginPos = free

-----------------------------------------------------------------------------
(* The inductive invariants behind these properties.                       *)

(* Checkpoints are nested, none is above free_, and none is inside a        *)
(* region: restoring one keeps whole regions.                               *)
ResetsNested ==
  /\ \A i \in 1..Len(resets) : resets[i] <= free
  /\ \A i, j \in 1..Len(resets) : i < j => resets[i] <= resets[j]
  /\ \A i \in 1..Len(resets), r \in regions :
       EndOf(r) <= resets[i] \/ resets[i] <= r.beg

LayoutInv ==
  /\ TypeOK
  /\ limit = committed /\ committed <= hi
  /\ Disjoint
  /\ ResetsNested

(* The chain of headers also holds at every checkpoint, so that it holds    *)
(* again once the checkpoint is restored.                                   *)
ChainInv ==
  /\ ~open
  /\ \A r \in regions : r.hz = HeaderZ /\ r.gz = GuardZ /\ r.field = r.z
  /\ limit = 0 => regions = {} /\ free \in {0, GuardZ}
  /\ limit > 0 =>
       /\ BeginPos <= free
       /\ BeginPos = free \/ \E r \in regions : r.beg = BeginPos
       /\ BeginPos = free \/ \E r \in regions : EndOf(r) = free
       /\ \A r \in regions :
            /\ BeginPos <= r.beg
            /\ EndOf(r) = free \/ \E s \in regions : s.beg = EndOf(r)
            /\ r.beg = BeginPos \/ \E s \in regions : EndOf(s) = r.beg
  /\ \A i \in 1..Len(resets) :
       /\ BeginPos <= resets[i]
       /\ resets[i] = free \/ \E r \in regions : r.beg = resets[i]
       /\ resets[i] = BeginPos \/ \E r \in regions : EndOf(r) = resets[i]

=============================================================================
