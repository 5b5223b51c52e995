------------------------------ MODULE ArenaHashMap ------------------------------
(* DArenaHashMap, the swiss table of xo-arena, over its HashMapStore. A control     *)
(* byte per slot tells an empty slot, a tombstone, or seven bits of the hash of     *)
(* the key in the slot; the first group of control bytes is repeated after the      *)
(* last, so that a group can be loaded from any slot. A probe goes from the home    *)
(* slot of a key in steps of a group.                                               *)
EXTENDS Integers, FiniteSets

CONSTANTS Key, Val,
          GroupSize,          \* c_group_size
          LoadNum, LoadDen,   \* c_max_load_factor
          Hashes,             \* the hash functions a table may have
          MaxGroups           \* bound: n_group_

\* the load that is refused leaves a group with an empty slot, and a full table
\* can be copied into one of twice its size
ASSUME MapAssumption ==
  /\ GroupSize \in Nat \ {0} /\ MaxGroups \in Nat \ {0}
  /\ LoadNum \in Nat \ {0} /\ LoadDen \in Nat \ {0}
  /\ (GroupSize - 1) * LoadDen >= LoadNum * GroupSize
  /\ 2 * LoadNum > LoadDen
  /\ Val \subseteq Nat
  /\ Hashes \subseteq [Key -> [h1: Nat, h2: Nat]]

Empty == -1       \* c_empty_slot
Tombstone == -2   \* c_tombstone
Nil == -1         \* no slot: a null slot_addr, the end iterator

VARIABLES hash_,      \* the hash function
          store_,     \* [n_group_, size_, control_, slots_]
          map_fault   \* a failed assertion, or a loop that never ends: nothing follows

mapVars == <<hash_, store_, map_fault>>

Capacity(st) == st.n_group_ * GroupSize
AtMaxLoad(st) == st.size_ * LoadDen >= LoadNum * Capacity(st)
NoPair == <<>>

\* _init: a store of n groups
Fresh(n) ==
  [n_group_ |-> n, size_ |-> 0,
   control_ |-> [i \in 0 .. (IF n = 0 THEN 0 ELSE (n + 1) * GroupSize) - 1 |-> Empty],
   slots_ |-> [i \in 0 .. n * GroupSize - 1 |-> NoPair]]

MapInit ==
  /\ hash_ \in Hashes
  /\ store_ \in {Fresh(n): n \in {1, MaxGroups}}   \* hint_max_capacity
  /\ map_fault = "none"

-----------------------------------------------------------------------------
(* A probe: place j is the j'th control byte that a search for k looks at.          *)

Places(st) == 0 .. Capacity(st) - 1
GroupAt(st, k, j) == (hash_[k].h1 + GroupSize * (j \div GroupSize)) % Capacity(st)
Byte(st, k, j) == st.control_[GroupAt(st, k, j) + (j % GroupSize)]
SlotAt(st, k, j) == (GroupAt(st, k, j) + (j % GroupSize)) % Capacity(st)

FirstOf(S) == CHOOSE j \in S: \A i \in S: j <= i
Having(st, k, b) == {j \in Places(st): Byte(st, k, j) = b}
Matching(st, k) ==
  {j \in Having(st, k, hash_[k].h2): st.slots_[SlotAt(st, k, j)][1] = k}

Stops_at_tombstone(st, k) ==
  Matching(st, k) \cup Having(st, k, Empty) \cup Having(st, k, Tombstone)

\* a search ends with the first group that has a match or an empty slot
Stops(st, k) == Matching(st, k) \cup Having(st, k, Empty)
Match(st, k) ==
  {j \in Matching(st, k): \A i \in Stops(st, k): j \div GroupSize <= i \div GroupSize}

\* _find
FindSlot(st, k) ==
  LET match == Match(st, k) IN
  IF match = {} THEN Nil ELSE SlotAt(st, k, FirstOf(match))

\* the place a new key goes to: the first empty slot, or the first tombstone before it
RoomFor(st, k) ==
  LET empty == Having(st, k, Empty)
      first == IF empty = {} THEN Capacity(st) ELSE FirstOf(empty)
      tombs == {j \in Having(st, k, Tombstone): j < first}
  IN  IF tombs # {} THEN {FirstOf(tombs)} ELSE IF empty # {} THEN {first} ELSE {}

UpdateControl_no_copy(st, ix, b) == [st.control_ EXCEPT ![ix] = b]

\* _update_control: the copy at the end follows the first group
UpdateControl(st, ix, b) ==
  LET c == [st.control_ EXCEPT ![ix] = b]
      N == Capacity(st)
  IN  IF ix < GroupSize THEN [i \in DOMAIN c |-> IF i >= N THEN c[i - N] ELSE c[i]] ELSE c

\* _try_insert_aux: the table and the slot of k, or Nil when the table is too full.
\* The load is not looked at when there is a tombstone and no empty slot.
TryInsert(st, k, v) ==
  LET found == FindSlot(st, k)
      room == RoomFor(st, k)
      ix == SlotAt(st, k, FirstOf(room))
  IN  IF Capacity(st) = 0 THEN [at |-> Nil, store |-> st]
      ELSE IF found # Nil
      THEN [at |-> found, store |-> [st EXCEPT !.slots_[found] = <<k, v>>]]
      ELSE IF AtMaxLoad(st) /\ (room = {} \/ Having(st, k, Empty) # {})
      THEN [at |-> Nil, store |-> st]
      ELSE [at |-> ix,
            store |-> [st EXCEPT !.control_ = UpdateControl(st, ix, hash_[k].h2),
                                 !.slots_[ix] = <<k, v>>,
                                 !.size_ = @ + 1]]

\* _try_grow: what the slots hold is inserted into a store of twice the size
Grow(st) ==
  LET copied[i \in 0 .. Capacity(st)] ==   \* from the slots below i
        IF i = 0 THEN Fresh(IF st.n_group_ = 0 THEN 1 ELSE 2 * st.n_group_)
        ELSE IF st.control_[i - 1] \in {Empty, Tombstone} THEN copied[i - 1]
        ELSE TryInsert(copied[i - 1], st.slots_[i - 1][1], st.slots_[i - 1][2]).store
  IN  copied[Capacity(st)]

NeedsTombstone_only_after(st, ix) ==
  \A i \in 0 .. GroupSize - 1: st.control_[ix + i] # Empty

\* _needs_tombstone: some group that holds slot ix has no empty slot
NeedsTombstone(st, ix) ==
  LET g0 == ix - GroupSize + 1 + (IF ix >= GroupSize THEN 0 ELSE Capacity(st))
      before == {s \in 0 .. GroupSize - 1: st.control_[g0 + GroupSize - 1 - s] = Empty}
      after == {s \in 0 .. GroupSize - 1: st.control_[ix + s] = Empty}
      run(S) == IF S = {} THEN GroupSize ELSE FirstOf(S)
  IN  run(before) + run(after) >= GroupSize + 1

Erased(st, ix) ==
  LET marker == IF NeedsTombstone(st, ix) THEN Tombstone ELSE Empty
  IN  [st EXCEPT !.control_ = UpdateControl(st, ix, marker),
                 !.slots_[ix] = NoPair,
                 !.size_ = @ - 1]

-----------------------------------------------------------------------------
(* The operations. *)

\* try_insert
TryInsertOnly(k, v) ==
  /\ store_' = TryInsert(store_, k, v).store
  /\ UNCHANGED <<hash_, map_fault>>

\* insert. (operator[] and an assignment to what it returns have the same effect, but
\* for the assertion on the load, which operator[] does not have.)
Insert(k, v) ==
  LET try == TryInsert(store_, k, v)
      grown == Grow(store_)
  IN  /\ IF try.at # Nil
         THEN store_' = try.store /\ UNCHANGED map_fault
         ELSE /\ 2 * store_.n_group_ <= MaxGroups
              /\ IF grown.size_ # store_.size_
                    \/ (store_.size_ + 1) * LoadDen < LoadNum * Capacity(store_)
                 THEN map_fault' = "assert" /\ UNCHANGED store_
                 ELSE store_' = TryInsert(grown, k, v).store /\ UNCHANGED map_fault
      /\ UNCHANGED hash_

\* erase: the search of an absent key never ends when no slot is empty
Erase(k) ==
  LET ix == FindSlot(store_, k) IN
  /\ IF ix # Nil
     THEN store_' = Erased(store_, ix) /\ UNCHANGED map_fault
     ELSE /\ map_fault' = IF store_.n_group_ > 0 /\ Stops(store_, k) = {}
                          THEN "forever" ELSE map_fault
          /\ UNCHANGED store_
  /\ UNCHANGED hash_

MapClear == store_' = Fresh(0) /\ UNCHANGED <<hash_, map_fault>>

MapNext ==
  /\ map_fault = "none"
  /\ \/ \E k \in Key, v \in Val: TryInsertOnly(k, v) \/ Insert(k, v)
     \/ \E k \in Key: Erase(k)
     \/ MapClear

MapSpec == MapInit /\ [][MapNext]_mapVars

-----------------------------------------------------------------------------
(* Properties. *)

\* What a table holds, by looking every key up
Contents(st) ==
  LET slot == [k \in Key |-> FindSlot(st, k)] IN
  [k \in {x \in Key: slot[x] # Nil} |-> st.slots_[slot[k]][2]]

DataSlots == {i \in DOMAIN store_.slots_: store_.control_[i] \notin {Empty, Tombstone}}

\* The copy of the first group, the count of pairs and the slots that hold none
\* agree with the control bytes (verify_ok SM3.2, SM3.3, SM4.2), and only a table
\* that tombstones have left without an empty slot is loaded beyond the maximum
\* (verify_ok SM2.1 has no such exception).
TableVerifies ==
  LET N == Capacity(store_) IN
  /\ store_.n_group_ > 0 =>
       /\ \A i \in 0 .. GroupSize - 1: store_.control_[N + i] = store_.control_[i]
       /\ (store_.size_ - 1) * LoadDen >= LoadNum * N =>
            \A i \in DOMAIN store_.control_: store_.control_[i] # Empty
  /\ store_.size_ = Cardinality(DataSlots)
  /\ \A i \in DOMAIN store_.slots_ \ DataSlots: store_.slots_[i] = NoPair

\* In every table that calls can lead to each pair is found by its key, once
\* (verify_ok SM4.1.1, SM4.1.2). From there an insertion that finds room adds its
\* pair or replaces the value, growing keeps every pair and makes room, erase takes
\* its key out, and none of them touches another key.
CallsDoTheirPart ==
  LET old == Contents(store_) IN
  /\ store_.size_ = Cardinality(DOMAIN old)
  /\ \A k \in Key:   \* Nil: a value that the table does not hold
       LET try == TryInsert(store_, k, Nil) IN
       try.at # Nil => Contents(try.store) = [x \in DOMAIN old \cup {k} |->
                                                IF x = k THEN Nil ELSE old[x]]
  /\ AtMaxLoad(store_) =>
       LET grown == Grow(store_) IN Contents(grown) = old /\ ~AtMaxLoad(grown)
  /\ \A k \in DOMAIN old:
       Contents(Erased(store_, FindSlot(store_, k))) = [x \in DOMAIN old \ {k} |-> old[x]]

=============================================================================
