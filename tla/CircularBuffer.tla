----------------------------- MODULE CircularBuffer -----------------------------
(* DCircularBuffer, the input buffer of xo-arena. A range of addresses is reserved,  *)
(* a prefix of it is mapped; bytes are appended to the occupied range and consumed    *)
(* from the input range. Now and then what is left moves to the start of the buffer.  *)
(* The vector of pinned ranges reserves no memory (its ArenaConfig has size 0), so a  *)
(* pin is never recorded and pin_range does nothing. Addresses count from the start.  *)
EXTENDS Integers, Sequences, SequencesExt

CONSTANTS Page,         \* page_z_, and buffer_align_z_ of a buffer below the huge page size
          Reserves,     \* the sizes of the reserved range
          Efficiency,   \* threshold_move_efficiency_
          MaxPiece,     \* bound: bytes in a call
          Bytes         \* bound: bytes are numbers below this

ASSUME RingAssumption ==
  /\ Page \in Nat \ {0} /\ Efficiency \in Nat /\ MaxPiece \in Nat \ {0} /\ Bytes \in Nat \ {0}
  /\ Reserves \subseteq {r \in Nat \ {0}: r % Page = 0}   \* map_aligned_range rounds up

VARIABLES reserved_range_, mapped_range_,   \* their ends
          occupied_range_, input_range_,    \* [lo, hi]
          memory,                           \* the bytes at the reserved addresses
          ring_fault,                       \* a failed assertion: nothing follows
          next_byte, reported,              \* history: the next byte; report_append was called
          unread                            \* history: till then, bytes appended and not consumed

ringVars == <<reserved_range_, mapped_range_, occupied_range_, input_range_, memory,
              ring_fault, unread, next_byte, reported>>

Larger(a, b) == IF a > b THEN a ELSE b
Smaller(a, b) == IF a < b THEN a ELSE b

Span(lo, hi) == [lo |-> lo, hi |-> hi]
Size(span) == span.hi - span.lo

RingInit ==
  /\ reserved_range_ \in Reserves
  /\ mapped_range_ = 0
  /\ occupied_range_ = Span(0, 0) /\ input_range_ = Span(0, 0)
  /\ memory = [i \in 0 .. reserved_range_ - 1 |-> 0]
  /\ ring_fault = "none"
  /\ unread = <<>> /\ next_byte = 0 /\ reported = FALSE

\* span::suffix_from
SuffixFrom(span, p) == IF span.lo <= p /\ p <= span.hi THEN Span(p, span.hi)
                                                       ELSE Span(span.hi, span.hi)

\* padding::with_padding, to a whole number of pages
Padded(z) == z + ((Page - (z % Page)) % Page)

\* _expand_to: the end of the mapped range, which stays when mprotect fails
Expanded(hi) ==
  IF hi < mapped_range_
  THEN {mapped_range_}
  ELSE {mapped_range_,
        mapped_range_ + Padded(hi - mapped_range_)}

AppendSpan_unlimited(n) == Expanded(occupied_range_.hi + n)

\* get_append_span for n bytes
AppendSpan(n) == Expanded(Smaller(occupied_range_.hi + n, reserved_range_))

\* memory when z new bytes are written behind the occupied range
Written(z) ==
  [i \in DOMAIN memory |->
     IF occupied_range_.hi <= i /\ i < occupied_range_.hi + z
     THEN (next_byte + i - occupied_range_.hi) % Bytes ELSE memory[i]]
NewBytes(z) == [i \in 1 .. z |-> (next_byte + i - 1) % Bytes]
Kept(bytes) == IF reported THEN <<>> ELSE bytes

-----------------------------------------------------------------------------
(* append copies what fits and returns the rest. Extending a span asserts that the   *)
(* addition starts at its end.                                                       *)
RingAppend(n) ==
  \E hi \in AppendSpan(n):
    LET z == Smaller(n, hi - occupied_range_.hi) IN
    /\ mapped_range_' = hi
    /\ memory' = Written(z)
    /\ occupied_range_' = [occupied_range_ EXCEPT !.hi = @ + z]
    /\ IF input_range_.hi = occupied_range_.hi
       THEN input_range_' = [input_range_ EXCEPT !.hi = @ + z] /\ UNCHANGED ring_fault
       ELSE ring_fault' = "assert" /\ UNCHANGED input_range_
    /\ unread' = Kept(unread \o NewBytes(z)) /\ next_byte' = (next_byte + z) % Bytes
    /\ UNCHANGED <<reserved_range_, reported>>

GetAppendSpan(n) ==
  /\ mapped_range_' \in AppendSpan(n)
  /\ UNCHANGED <<reserved_range_, occupied_range_, input_range_, memory, ring_fault, unread,
                 next_byte, reported>>

\* report_append of the first z bytes of the append span, which the caller has written:
\* the input range does not grow
ReportAppend(z) ==
  /\ occupied_range_.hi + z <= mapped_range_
  /\ memory' = Written(z)
  /\ occupied_range_' = [occupied_range_ EXCEPT !.hi = @ + z]
  /\ next_byte' = (next_byte + z) % Bytes
  /\ unread' = <<>> /\ reported' = TRUE
  /\ UNCHANGED <<reserved_range_, mapped_range_, input_range_, ring_fault>>

MayMove_swapped(occupied, input) ==
  /\ input = occupied
  /\ Size(input) > Larger(Page, Efficiency * input.lo)
  /\ Size(input) < input.lo

\* _check_reset_map_start: what is left may move when that is little work
MayMove(occupied, input) ==
  /\ input = occupied
  /\ input.lo > Larger(Page, Efficiency * Size(input))
  /\ Size(input) < input.lo

Consume_no_copy(z) ==
  LET input == SuffixFrom(input_range_, input_range_.lo + z)
      start == IF MayMove(input, input) THEN Span(0, Size(input)) ELSE input
  IN  /\ input_range_.lo + z <= occupied_range_.hi
      /\ occupied_range_' = start /\ input_range_' = start
      /\ unread' = Kept(SubSeq(unread, z + 1, Len(unread)))
      /\ UNCHANGED <<reserved_range_, mapped_range_, memory, ring_fault, next_byte, reported>>

\* consume of the first z bytes of the occupied range
Consume(z) ==
  LET input == SuffixFrom(input_range_, input_range_.lo + z)
      occupied == IF occupied_range_.lo < input_range_.lo THEN occupied_range_ ELSE input
      start == Span(0, Size(input))
  IN  /\ input_range_.lo + z <= occupied_range_.hi
      /\ IF MayMove(occupied, input)
         THEN /\ occupied_range_' = start /\ input_range_' = start
              /\ memory' = [i \in DOMAIN memory |->
                              IF i < start.hi THEN memory[input.lo + i] ELSE memory[i]]
         ELSE /\ occupied_range_' = occupied /\ input_range_' = input
              /\ UNCHANGED memory
      /\ unread' = Kept(SubSeq(unread, z + 1, Len(unread)))
      /\ UNCHANGED <<reserved_range_, mapped_range_, ring_fault, next_byte, reported>>

\* unpin_range asserts that there is a pin
UnpinRange ==
  /\ ring_fault' = "assert"
  /\ UNCHANGED <<reserved_range_, mapped_range_, occupied_range_, input_range_, memory, unread,
                 next_byte, reported>>

RingNext ==
  /\ ring_fault = "none"
  /\ \/ \E z \in 1 .. MaxPiece: RingAppend(z) \/ GetAppendSpan(z) \/ ReportAppend(z) \/ Consume(z)
     \/ UnpinRange

RingSpec == RingInit /\ [][RingNext]_ringVars

-----------------------------------------------------------------------------
(* Properties. *)

\* The ranges are nested, none reaches past the reserved one, and what is mapped is a
\* whole number of pages (DCircularBuffer.hpp, invariants of the memory layout).
RangesNested ==
  /\ 0 <= input_range_.lo /\ input_range_.lo <= input_range_.hi
  /\ occupied_range_.lo = input_range_.lo /\ input_range_.hi <= occupied_range_.hi
  /\ occupied_range_.hi <= mapped_range_ /\ mapped_range_ <= reserved_range_
  /\ mapped_range_ % Page = 0

\* A reader finds in the input range the bytes that were appended and that it has not
\* consumed, in their order, through mappings that fail and moves to the start, unless
\* bytes were ever announced with report_append.
InputIsUnread ==
  ~reported => /\ Size(input_range_) = Len(unread)
               /\ \A i \in 1 .. Len(unread): memory[input_range_.lo + i - 1] = unread[i]

\* The space before the input that no append can use is at most a page, or as much as
\* it is not worth moving the input for: a buffer of more than a page never gets stuck
\* full of consumed bytes.
WasteIsBounded ==
  input_range_.lo <= Larger(Page, Larger(Efficiency, 1) * Size(input_range_))

=============================================================================
