---------------------------- MODULE ContainerProofs ----------------------------
(* Proofs about the two containers of xo-arena.                                    *)
(* The circular buffer: for every page size, every set of reserved sizes, every     *)
(* efficiency threshold and pieces of any length, its ranges stay nested, the space *)
(* it wastes is bounded and readers find the bytes that were appended.              *)
(* The hash table: for every set of keys, every hash function, group size and load  *)
(* factor, the table satisfies what verify_ok tests, and no call loses, doubles or  *)
(* invents a pair.                                                                  *)
EXTENDS CircularBuffer, ArenaHashMap, SequenceTheorems, FiniteSetTheorems,
        WellFoundedInduction, TLAPS

-----------------------------------------------------------------------------
(* The circular buffer.                                                            *)

USE RingAssumption DEF RingAssumption

(* Rounding up gives a whole number of pages, and passes no end that is on a page   *)
(* boundary.                                                                       *)
LEMMA PaddedIsWhole ==
  ASSUME NEW z \in Nat
  PROVE  Padded(z) \in Nat /\ Padded(z) >= z /\ Padded(z) % Page = 0
<1> DEFINE q == z \div Page
           r == z % Page
<1>1. z = Page * q + r /\ q \in Nat /\ r \in 0 .. (Page - 1)
  OBVIOUS
<1>2. CASE r = 0
  <2>1. (Page - r) % Page = 0
    BY <1>2
  <2>2. QED
    BY <1>1, <1>2, <2>1 DEF Padded
<1>3. CASE r # 0
  <2>1. (Page - r) % Page = Page - r
    BY <1>1, <1>3
  <2>2. Padded(z) = Page * (q + 1)
    BY <1>1, <2>1 DEF Padded
  <2>3. (Page * (q + 1)) % Page = 0
    BY <1>1
  <2>4. QED
    BY <1>1, <2>1, <2>2, <2>3 DEF Padded
<1>4. QED
  BY <1>2, <1>3

LEMMA PaddedStaysBelow ==
  ASSUME NEW z \in Nat, NEW end \in Nat, z <= end, end % Page = 0
  PROVE  Padded(z) <= end
<1> DEFINE q == z \div Page
           r == z % Page
           k == end \div Page
<1>1. z = Page * q + r /\ q \in Nat /\ r \in 0 .. (Page - 1)
  OBVIOUS
<1>2. end = Page * k /\ k \in Nat
  OBVIOUS
<1>3. CASE r = 0
  <2>1. (Page - r) % Page = 0
    BY <1>3
  <2>2. QED
    BY <2>1 DEF Padded
<1>4. CASE r # 0
  <2>1. (Page - r) % Page = Page - r
    BY <1>1, <1>4
  <2>2. Padded(z) = Page * q + Page
    BY <1>1, <2>1 DEF Padded
  <2>3. q < k
    <3>1. SUFFICES ASSUME k <= q PROVE FALSE
      BY <1>1, <1>2
    <3>2. Page * k <= Page * q
      BY <3>1, <1>1, <1>2
    <3>3. QED
      BY <3>2, <1>1, <1>2, <1>4
  <2>4. Page * (q + 1) <= Page * k
    BY <2>3, <1>1, <1>2
  <2>5. QED
    BY <2>2, <2>4, <1>1, <1>2
<1>5. QED
  BY <1>3, <1>4

(* Whole numbers of pages add up and subtract to whole numbers of pages.           *)
LEMMA WholePages ==
  ASSUME NEW a \in Nat, NEW b \in Nat, a % Page = 0, b % Page = 0
  PROVE  (a + b) % Page = 0 /\ (a <= b => (b - a) % Page = 0)
<1> DEFINE i == a \div Page
           j == b \div Page
<1>1. a = Page * i /\ b = Page * j /\ i \in Nat /\ j \in Nat
  OBVIOUS
<1>2. \A k \in Nat: (Page * k) % Page = 0
  OBVIOUS
<1>3. (a + b) % Page = 0
  <2>1. a + b = Page * (i + j) /\ i + j \in Nat
    BY <1>1
  <2>2. QED
    BY <1>2, <2>1
<1>4. ASSUME a <= b PROVE (b - a) % Page = 0
  <2>1. i <= j
    <3>1. SUFFICES ASSUME j + 1 <= i PROVE FALSE
      BY <1>1
    <3>2. Page * (j + 1) <= Page * i
      BY <1>1, <3>1
    <3>3. QED
      BY <1>1, <1>4, <3>2
  <2>2. b - a = Page * (j - i) /\ j - i \in Nat
    BY <1>1, <2>1
  <2>3. QED
    BY <1>2, <2>2
<1>5. QED
  BY <1>3, <1>4

-----------------------------------------------------------------------------
(* The inductive invariant: RangesNested with the types it needs.                   *)
RingType ==
  /\ reserved_range_ \in Reserves /\ mapped_range_ \in Nat
  /\ occupied_range_ \in [lo: Nat, hi: Nat] /\ input_range_ \in [lo: Nat, hi: Nat]
RingInv == RingType /\ RangesNested /\ WasteIsBounded

(* What get_append_span maps reaches neither back nor past the reserved range, and   *)
(* ends on a page boundary.                                                         *)
LEMMA AppendSpanFits ==
  ASSUME RingInv, NEW n \in Nat, NEW hi \in AppendSpan(n)
  PROVE  /\ hi \in Nat /\ mapped_range_ <= hi /\ hi <= reserved_range_ /\ hi % Page = 0
<1> DEFINE want == Smaller(occupied_range_.hi + n, reserved_range_)
           more == want - mapped_range_
<1>1. reserved_range_ \in Nat /\ reserved_range_ % Page = 0
  BY DEF RingInv, RingType
<1>2. /\ mapped_range_ \in Nat /\ mapped_range_ <= reserved_range_ /\ mapped_range_ % Page = 0
      /\ occupied_range_.hi \in Nat
  BY DEF RingInv, RingType, RangesNested
<1>3. want \in Nat /\ want <= reserved_range_
  BY <1>1, <1>2 DEF Smaller
<1>4. CASE hi = mapped_range_
  BY <1>2, <1>4
<1>5. CASE hi = mapped_range_ + Padded(more) /\ want >= mapped_range_
  <2>1. more \in Nat /\ more <= reserved_range_ - mapped_range_
    BY <1>1, <1>2, <1>3, <1>5
  <2>2. (reserved_range_ - mapped_range_) % Page = 0 /\ reserved_range_ - mapped_range_ \in Nat
    <3>1. mapped_range_ <= reserved_range_ => (reserved_range_ - mapped_range_) % Page = 0
      BY <1>1, <1>2, WholePages
    <3>2. QED
      BY <1>1, <1>2, <3>1
  <2> HIDE DEF more
  <2>3. Padded(more) \in Nat /\ Padded(more) % Page = 0
    BY <2>1, PaddedIsWhole
  <2>4. Padded(more) <= reserved_range_ - mapped_range_
    BY <2>1, <2>2, PaddedStaysBelow
  <2>5. (mapped_range_ + Padded(more)) % Page = 0
    BY <1>2, <2>3, WholePages
  <2>6. QED
    BY <1>1, <1>2, <1>5, <2>3, <2>4, <2>5
<1>6. QED
  BY <1>2, <1>3, <1>4, <1>5 DEF AppendSpan, Expanded
-----------------------------------------------------------------------------
(* More input only allows for more waste before it.                                *)
LEMMA WasteGrows ==
  ASSUME NEW lo \in Nat, NEW a \in Nat, NEW b \in Nat, a <= b,
         lo <= Larger(Page, Larger(Efficiency, 1) * a)
  PROVE  lo <= Larger(Page, Larger(Efficiency, 1) * b)
<1> DEFINE e == Larger(Efficiency, 1)
<1>1. e \in Nat
  BY DEF Larger
<1> HIDE DEF e
<1>2. e * a <= e * b /\ e * a \in Nat /\ e * b \in Nat
  BY <1>1
<1>3. QED
  BY <1>2 DEF Larger, e

LEMMA RingInitial == RingInit => RingInv
<1> SUFFICES ASSUME RingInit PROVE RingInv
  OBVIOUS
<1>1. RingType /\ RangesNested
  BY DEF RingInit, RingType, RangesNested, Span
<1>2. WasteIsBounded
  <2>1. Larger(Efficiency, 1) * 0 = 0 /\ Size(input_range_) = 0 /\ input_range_.lo = 0
    BY DEF RingInit, Span, Size, Larger
  <2>2. QED
    BY <2>1 DEF WasteIsBounded, Larger
<1>3. QED
  BY <1>1, <1>2 DEF RingInv

(* append                                                                          *)
LEMMA AppendKeeps ==
  ASSUME RingInv, NEW n \in Nat, RingAppend(n)
  PROVE  RingInv'
<1>1. PICK hi \in AppendSpan(n):
        LET z == Smaller(n, hi - occupied_range_.hi) IN
        /\ mapped_range_' = hi
        /\ occupied_range_' = [occupied_range_ EXCEPT !.hi = @ + z]
        /\ \/ /\ input_range_.hi = occupied_range_.hi
              /\ input_range_' = [input_range_ EXCEPT !.hi = @ + z]
           \/ input_range_' = input_range_
        /\ reserved_range_' = reserved_range_
  BY DEF RingAppend
<1> DEFINE z == Smaller(n, hi - occupied_range_.hi)
<1>2. hi \in Nat /\ mapped_range_ <= hi /\ hi <= reserved_range_ /\ hi % Page = 0
  BY AppendSpanFits
<1>3. z \in Nat /\ occupied_range_.hi + z <= hi
  BY <1>2 DEF RingInv, RingType, RangesNested, Smaller
<1> HIDE DEF z
<1>4. /\ mapped_range_' = hi /\ reserved_range_' = reserved_range_
      /\ occupied_range_' = [occupied_range_ EXCEPT !.hi = @ + z]
      /\ \/ /\ input_range_.hi = occupied_range_.hi
            /\ input_range_' = [input_range_ EXCEPT !.hi = @ + z]
         \/ input_range_' = input_range_
  BY <1>1 DEF z
<1>5. RingType'
  BY <1>2, <1>3, <1>4 DEF RingInv, RingType
<1>6. RangesNested'
  BY <1>2, <1>3, <1>4 DEF RingInv, RingType, RangesNested
<1>7. WasteIsBounded'
  <2>1. /\ input_range_.lo \in Nat /\ Size(input_range_) \in Nat
        /\ input_range_'.lo = input_range_.lo
        /\ Size(input_range_') \in Nat /\ Size(input_range_) <= Size(input_range_')
    BY <1>3, <1>4 DEF RingInv, RingType, RangesNested, Size
  <2>2. input_range_.lo <= Larger(Page, Larger(Efficiency, 1) * Size(input_range_))
    BY DEF RingInv, WasteIsBounded
  <2>3. QED
    BY <2>1, <2>2, WasteGrows DEF WasteIsBounded
<1>8. QED
  BY <1>5, <1>6, <1>7 DEF RingInv

(* consume                                                                         *)
LEMMA ConsumeKeeps ==
  ASSUME RingInv, NEW n \in Nat, Consume(n)
  PROVE  RingInv'
<1> DEFINE input == SuffixFrom(input_range_, input_range_.lo + n)
           start == Span(0, Size(input))
<1>1. input \in [lo: Nat, hi: Nat] /\ input.lo <= input.hi /\ input.hi = input_range_.hi
  BY DEF RingInv, RingType, RangesNested, SuffixFrom, Span
<1>2. /\ mapped_range_' = mapped_range_ /\ reserved_range_' = reserved_range_
      /\ occupied_range_' = input_range_'
      /\ \/ input_range_' = start
         \/ ~MayMove(input, input) /\ input_range_' = input
  BY DEF RingInv, RingType, RangesNested, Consume
<1> HIDE DEF input
<1>3. Size(input) \in Nat /\ Size(input) <= input.hi
  BY <1>1 DEF Size
<1>4. CASE input_range_' = start
  <2>1. input_range_'.lo = 0 /\ input_range_'.hi = Size(input)
    BY <1>4 DEF Span
  <2>2. RingType' /\ RangesNested'
    BY <1>1, <1>2, <1>3, <1>4, <2>1 DEF RingInv, RingType, RangesNested, Span
  <2>3. WasteIsBounded'
    <3>1. Larger(Efficiency, 1) * Size(input) \in Nat /\ Size(input_range_') = Size(input)
      BY <1>3, <2>1 DEF Larger, Size
    <3>2. QED
      BY <2>1, <3>1 DEF WasteIsBounded, Larger
  <2>4. QED
    BY <2>2, <2>3 DEF RingInv
<1>5. CASE ~MayMove(input, input) /\ input_range_' = input
  <2>1. RingType' /\ RangesNested'
    BY <1>1, <1>2, <1>5 DEF RingInv, RingType, RangesNested
  <2>2. input.lo <= Larger(Page, Efficiency * Size(input)) \/ input.lo <= Size(input)
    <3>1. Efficiency * Size(input) \in Nat
      BY <1>3
    <3>2. QED
      BY <1>1, <1>3, <1>5, <3>1 DEF MayMove, Larger
  <2>3. WasteIsBounded'
    <3>1. /\ Efficiency * Size(input) \in Nat
          /\ Efficiency < 1 => Efficiency * Size(input) = 0
          /\ Efficiency >= 1 => Size(input) <= Efficiency * Size(input)
      BY <1>3
    <3>2. QED
      BY <1>1, <1>3, <1>5, <2>2, <3>1 DEF WasteIsBounded, Larger
  <2>4. QED
    BY <2>1, <2>3 DEF RingInv
<1>6. QED
  BY <1>2, <1>4, <1>5

LEMMA RingStep == RingInv /\ [RingNext]_ringVars => RingInv'
<1> SUFFICES ASSUME RingInv, [RingNext]_ringVars PROVE RingInv'
  OBVIOUS
<1>1. ASSUME NEW n \in 1 .. MaxPiece, RingAppend(n) PROVE RingInv'
  BY <1>1, AppendKeeps
<1>2. ASSUME NEW n \in 1 .. MaxPiece, GetAppendSpan(n) PROVE RingInv'
  <2>1. mapped_range_' \in AppendSpan(n) /\ n \in Nat
    BY <1>2 DEF GetAppendSpan
  <2>2. /\ mapped_range_' \in Nat /\ mapped_range_ <= mapped_range_'
        /\ mapped_range_' <= reserved_range_ /\ mapped_range_' % Page = 0
    BY <2>1, AppendSpanFits
  <2>3. /\ reserved_range_' = reserved_range_ /\ occupied_range_' = occupied_range_
        /\ input_range_' = input_range_
    BY <1>2 DEF GetAppendSpan
  <2>4. RingType' /\ RangesNested'
    <3>1. mapped_range_ \in Nat /\ occupied_range_ \in [lo: Nat, hi: Nat]
      BY DEF RingInv, RingType
    <3>2. occupied_range_.hi <= mapped_range_'
      BY <2>2, <3>1 DEF RingInv, RangesNested
    <3>3. RingType'
      BY <2>2, <2>3 DEF RingInv, RingType
    <3>4. RangesNested'
      BY <2>2, <2>3, <3>2 DEF RingInv, RangesNested
    <3>5. QED
      BY <3>3, <3>4
  <2>5. WasteIsBounded'
    BY <2>3 DEF RingInv, WasteIsBounded
  <2>6. QED
    BY <2>4, <2>5 DEF RingInv
<1>3. ASSUME NEW n \in 1 .. MaxPiece, ReportAppend(n) PROVE RingInv'
  <2>1. /\ UNCHANGED <<reserved_range_, mapped_range_, input_range_>>
        /\ occupied_range_.hi + n <= mapped_range_
        /\ occupied_range_' = [occupied_range_ EXCEPT !.hi = @ + n]
    BY <1>3 DEF ReportAppend
  <2>2. RingType' /\ RangesNested'
    BY <2>1 DEF RingInv, RingType, RangesNested
  <2>3. WasteIsBounded'
    BY <2>1 DEF RingInv, WasteIsBounded
  <2>4. QED
    BY <2>2, <2>3 DEF RingInv
<1>4. ASSUME NEW n \in 1 .. MaxPiece, Consume(n) PROVE RingInv'
  BY <1>4, ConsumeKeeps
<1>5. CASE UnpinRange \/ UNCHANGED ringVars
  BY <1>5 DEF UnpinRange, ringVars, RingInv, RingType, RangesNested, WasteIsBounded
<1>6. QED
  BY <1>1, <1>2, <1>3, <1>4, <1>5 DEF RingNext

-----------------------------------------------------------------------------
(* The ranges of a buffer stay nested and inside the reserved memory, whatever is   *)
(* appended, reported and consumed, and whichever mappings fail.                    *)
THEOREM RangesStayNested == RingSpec => []RangesNested
<1>1. RingInv => RangesNested
  BY DEF RingInv
<1>2. QED
  BY RingInitial, RingStep, <1>1, PTL DEF RingSpec

(* The space lost before the input never exceeds a page, or what it is not worth     *)
(* moving the input for.                                                            *)
THEOREM WasteStaysBounded == RingSpec => []WasteIsBounded
<1>1. RingInv => WasteIsBounded
  BY DEF RingInv
<1>2. QED
  BY RingInitial, RingStep, <1>1, PTL DEF RingSpec

-----------------------------------------------------------------------------
(* The inductive invariant for the bytes: as long as none came by report_append, all *)
(* that is occupied is input, and the input is what is unread.                      *)
BytesInv ==
  /\ RingInv
  /\ reported \in BOOLEAN /\ next_byte \in Nat
  /\ memory \in [0 .. reserved_range_ - 1 -> Nat] /\ unread \in Seq(Nat)
  /\ ~reported => occupied_range_ = input_range_
  /\ InputIsUnread

LEMMA BytesInitial == RingInit => BytesInv
<1> SUFFICES ASSUME RingInit PROVE BytesInv
  OBVIOUS
<1>1. RingInv
  BY RingInitial
<1>2. reserved_range_ \in Nat /\ unread = <<>> /\ Len(unread) = 0
  BY DEF RingInit
<1>3. InputIsUnread
  BY <1>2 DEF RingInit, InputIsUnread, Size, Span
<1>4. memory \in [0 .. reserved_range_ - 1 -> Nat]
  BY <1>2 DEF RingInit
<1>5. unread \in Seq(Nat)
  BY <1>2, EmptySeq
<1>6. reported \in BOOLEAN /\ next_byte \in Nat /\ occupied_range_ = input_range_
  BY DEF RingInit
<1>7. QED
  BY <1>1, <1>3, <1>4, <1>5, <1>6 DEF BytesInv

LEMMA AppendKeepsBytes ==
  ASSUME BytesInv, NEW n \in Nat, RingAppend(n)
  PROVE  BytesInv'
<1>1. RingInv /\ RingInv'
  BY AppendKeeps DEF BytesInv
<1>2. PICK hi \in AppendSpan(n):
        LET z == Smaller(n, hi - occupied_range_.hi) IN
        /\ mapped_range_' = hi
        /\ memory' = Written(z)
        /\ occupied_range_' = [occupied_range_ EXCEPT !.hi = @ + z]
        /\ input_range_.hi = occupied_range_.hi =>
              input_range_' = [input_range_ EXCEPT !.hi = @ + z]
        /\ unread' = Kept(unread \o NewBytes(z)) /\ next_byte' = (next_byte + z) % Bytes
        /\ UNCHANGED <<reserved_range_, reported>>
  BY DEF RingAppend
<1> DEFINE z == Smaller(n, hi - occupied_range_.hi)
<1>3. z \in Nat
  BY <1>1, AppendSpanFits DEF RingInv, RingType, RangesNested, Smaller
<1> HIDE DEF z
<1>4. /\ memory' = Written(z)
      /\ occupied_range_' = [occupied_range_ EXCEPT !.hi = @ + z]
      /\ input_range_.hi = occupied_range_.hi =>
            input_range_' = [input_range_ EXCEPT !.hi = @ + z]
      /\ unread' = Kept(unread \o NewBytes(z)) /\ next_byte' = (next_byte + z) % Bytes
      /\ reserved_range_' = reserved_range_ /\ reported' = reported
  BY <1>2 DEF z
<1>5. \A k \in Nat: (next_byte + k) % Bytes \in Nat
  BY DEF BytesInv
<1>6. NewBytes(z) \in Seq(Nat) /\ Len(NewBytes(z)) = z
      /\ \A i \in 1 .. z: NewBytes(z)[i] = (next_byte + i - 1) % Bytes
  <2>1. \A i \in 1 .. z: (next_byte + i - 1) % Bytes \in Nat
    BY <1>3, <1>5 DEF BytesInv
  <2>2. QED
    BY <1>3, <2>1 DEF NewBytes
<1>7. memory' \in [0 .. reserved_range_' - 1 -> Nat]
  <2>1. occupied_range_.hi \in Nat /\ reserved_range_ \in Nat
    BY <1>1 DEF RingInv, RingType
  <2>2. \A i \in 0 .. reserved_range_ - 1:
          occupied_range_.hi <= i => (next_byte + i - occupied_range_.hi) % Bytes \in Nat
    <3>1. SUFFICES ASSUME NEW i \in 0 .. reserved_range_ - 1, occupied_range_.hi <= i
                   PROVE  (next_byte + i - occupied_range_.hi) % Bytes \in Nat
      OBVIOUS
    <3>2. (next_byte + (i - occupied_range_.hi)) % Bytes \in Nat
      BY <1>5, <2>1, <3>1
    <3>3. QED
      BY <2>1, <3>1, <3>2 DEF BytesInv
  <2>3. QED
    BY <1>4, <2>1, <2>2 DEF BytesInv, Written
<1>8. unread \o NewBytes(z) \in Seq(Nat) /\ Len(unread \o NewBytes(z)) = Len(unread) + z
      /\ \A i \in 1 .. Len(unread) + z:
           (unread \o NewBytes(z))[i] =
             IF i <= Len(unread) THEN unread[i] ELSE NewBytes(z)[i - Len(unread)]
  BY <1>3, <1>6, ConcatProperties DEF BytesInv
<1>9. unread' \in Seq(Nat)
  BY <1>4, <1>8 DEF Kept
<1>10. CASE ~reported
  <2>1. /\ occupied_range_ = input_range_ /\ Size(input_range_) = Len(unread)
        /\ \A i \in 1 .. Len(unread): memory[input_range_.lo + i - 1] = unread[i]
        /\ Len(unread) \in Nat
    BY <1>10 DEF BytesInv, InputIsUnread
  <2>2. input_range_ \in [lo: Nat, hi: Nat] /\ input_range_.hi = input_range_.lo + Len(unread)
    BY <1>1, <2>1 DEF RingInv, RingType, Size
  <2>3. /\ input_range_' = [input_range_ EXCEPT !.hi = @ + z]
        /\ input_range_'.lo = input_range_.lo /\ input_range_'.hi = input_range_.hi + z
        /\ occupied_range_' = input_range_' /\ unread' = unread \o NewBytes(z)
    BY <1>4, <1>10, <2>1, <2>2 DEF Kept
  <2>4. Size(input_range_') = Len(unread')
    BY <1>3, <1>8, <2>2, <2>3 DEF Size
  <2>5. ASSUME NEW i \in 1 .. Len(unread')
        PROVE  memory'[input_range_'.lo + i - 1] = unread'[i]
    <3>1. i \in 1 .. Len(unread) + z /\ i \in Nat
      BY <1>8, <2>3
    <3> DEFINE a == input_range_.lo + i - 1
    <3>2. a \in 0 .. reserved_range_ - 1
      <4>1. input_range_'.hi <= reserved_range_'
        BY <1>1 DEF RingInv, RingType, RangesNested
      <4>2. input_range_.hi + z <= reserved_range_ /\ reserved_range_ \in Nat
        BY <1>1, <1>4, <2>3, <4>1 DEF RingInv, RingType
      <4>3. QED
        BY <1>3, <2>1, <2>2, <3>1, <4>2
    <3>3. memory'[a] = IF input_range_.hi <= a /\ a < input_range_.hi + z
                       THEN (next_byte + a - input_range_.hi) % Bytes ELSE memory[a]
      BY <1>4, <2>1, <3>2 DEF Written, BytesInv
    <3>4. CASE i <= Len(unread)
      <4>1. a < input_range_.hi /\ i \in 1 .. Len(unread)
        BY <2>1, <2>2, <3>1, <3>4
      <4>2. memory'[a] = memory[a]
        BY <2>1, <2>2, <3>2, <3>3, <4>1
      <4>3. unread'[i] = unread[i] /\ memory[a] = unread[i]
        BY <1>8, <2>1, <2>3, <3>1, <3>4, <4>1
      <4>4. QED
        BY <2>3, <4>2, <4>3
    <3>5. CASE i > Len(unread)
      <4>1. input_range_.hi <= a /\ a < input_range_.hi + z
        BY <1>3, <2>1, <2>2, <3>1, <3>5
      <4>2. i - Len(unread) \in 1 .. z /\ a - input_range_.hi = i - Len(unread) - 1
        BY <1>3, <2>1, <2>2, <3>1, <3>5
      <4>3. NewBytes(z)[i - Len(unread)] = (next_byte + (i - Len(unread)) - 1) % Bytes
        BY <1>6, <4>2
      <4>4. next_byte + a - input_range_.hi = next_byte + (i - Len(unread)) - 1
        BY <2>2, <3>2, <4>2 DEF BytesInv
      <4>5. unread'[i] = NewBytes(z)[i - Len(unread)]
        BY <1>8, <2>1, <2>3, <3>1, <3>5
      <4>6. QED
        BY <2>3, <3>3, <4>1, <4>3, <4>4, <4>5
    <3>6. QED
      BY <2>1, <3>1, <3>4, <3>5
  <2>6. QED
    BY <1>1, <1>4, <1>5, <1>7, <1>9, <1>3, <2>3, <2>4, <2>5 DEF BytesInv, InputIsUnread
<1>11. CASE reported
  BY <1>1, <1>3, <1>4, <1>5, <1>7, <1>9, <1>11 DEF BytesInv, InputIsUnread
<1>12. QED
  BY <1>10, <1>11

LEMMA ConsumeKeepsBytes ==
  ASSUME BytesInv, NEW n \in Nat, Consume(n)
  PROVE  BytesInv'
<1> DEFINE input == SuffixFrom(input_range_, input_range_.lo + n)
           start == Span(0, Size(input))
           rest == SubSeq(unread, n + 1, Len(unread))
<1>1. RingInv /\ RingInv'
  BY ConsumeKeeps DEF BytesInv
<1>2. /\ input \in [lo: Nat, hi: Nat] /\ input.lo <= input.hi
      /\ input.hi = input_range_.hi /\ input.hi <= reserved_range_ /\ reserved_range_ \in Nat
  BY <1>1 DEF RingInv, RingType, RangesNested, SuffixFrom, Span
<1>3. /\ reserved_range_' = reserved_range_ /\ reported' = reported /\ next_byte' = next_byte
      /\ unread' = Kept(rest) /\ occupied_range_' = input_range_'
      /\ \/ /\ input_range_' = start
            /\ memory' = [i \in DOMAIN memory |->
                            IF i < start.hi THEN memory[input.lo + i] ELSE memory[i]]
         \/ input_range_' = input /\ memory' = memory
  BY <1>1 DEF RingInv, RingType, RangesNested, Consume
<1>4. Len(unread) \in Nat /\ \A i \in 1 .. Len(unread): unread[i] \in Nat
  BY LenProperties, ElementOfSeq DEF BytesInv
<1>5. /\ rest \in Seq(Nat)
      /\ Len(rest) = IF n + 1 <= Len(unread) THEN Len(unread) - n ELSE 0
      /\ \A i \in 1 .. Len(unread) - n: rest[i] = unread[n + i]
  <2>1. \A i \in n + 1 .. Len(unread): unread[i] \in Nat
    BY <1>4
  <2>2. /\ rest \in Seq(Nat)
        /\ Len(rest) = IF n + 1 <= Len(unread) THEN Len(unread) - (n + 1) + 1 ELSE 0
        /\ \A i \in 1 .. Len(unread) - (n + 1) + 1: rest[i] = unread[(n + 1) + i - 1]
    BY <1>4, <2>1, SubSeqProperties
  <2>3. QED
    BY <1>4, <2>2
<1> HIDE DEF input, rest
<1>6. Size(input) \in Nat /\ start = [lo |-> 0, hi |-> Size(input)]
  BY <1>2 DEF Size, Span
<1>7. memory' \in [0 .. reserved_range_' - 1 -> Nat]
  <2>1. \A i \in 0 .. reserved_range_ - 1:
          i < start.hi => input.lo + i \in 0 .. reserved_range_ - 1
    BY <1>2, <1>6 DEF Size
  <2>2. QED
    BY <1>3, <2>1 DEF BytesInv
<1>8. unread' \in Seq(Nat)
  BY <1>3, <1>5 DEF Kept
<1>9. CASE ~reported
  <2>1. /\ Size(input_range_) = Len(unread) /\ input_range_ \in [lo: Nat, hi: Nat]
        /\ \A i \in 1 .. Len(unread): memory[input_range_.lo + i - 1] = unread[i]
        /\ occupied_range_ = input_range_ /\ input_range_.lo + n <= occupied_range_.hi
    BY <1>1, <1>9 DEF BytesInv, InputIsUnread, RingInv, RingType, Consume
  <2>2. /\ input = [lo |-> input_range_.lo + n, hi |-> input_range_.hi]
        /\ n <= Len(unread) /\ Len(rest) = Len(unread) - n /\ Size(input) = Len(rest)
    BY <1>4, <1>5, <2>1 DEF input, SuffixFrom, Span, Size
  <2>3. unread' = rest /\ Size(input_range_') = Len(unread')
    BY <1>3, <1>6, <1>9, <2>2 DEF Kept, Size
  <2>4. ASSUME NEW i \in 1 .. Len(unread')
        PROVE  memory'[input_range_'.lo + i - 1] = unread'[i]
    <3>1. /\ i \in 1 .. Len(unread) - n /\ n + i \in 1 .. Len(unread)
          /\ unread'[i] = unread[n + i]
      BY <1>4, <1>5, <2>2, <2>3
    <3>2. memory[input.lo + i - 1] = unread'[i]
      <4>1. memory[input_range_.lo + (n + i) - 1] = unread[n + i]
        BY <2>1, <3>1
      <4>2. input.lo + i - 1 = input_range_.lo + (n + i) - 1
        BY <2>1, <2>2, <3>1
      <4>3. QED
        BY <3>1, <4>1, <4>2
    <3>3. CASE input_range_' = input /\ memory' = memory
      BY <3>2, <3>3
    <3>4. CASE /\ input_range_' = start
               /\ memory' = [j \in DOMAIN memory |->
                               IF j < start.hi THEN memory[input.lo + j] ELSE memory[j]]
      <4>0. /\ input.hi - input.lo = Len(unread) - n /\ start.hi = Len(unread) - n
            /\ input_range_'.lo = 0
        BY <1>2, <1>6, <2>2, <3>4 DEF Size
      <4>1. /\ input_range_'.lo + i - 1 = i - 1 /\ i - 1 \in 0 .. reserved_range_ - 1
            /\ i - 1 < start.hi
        <5> HIDE DEF start
        <5>1. /\ i \in Nat /\ 1 <= i /\ i <= Len(unread) - n
              /\ input.lo \in Nat /\ input.hi \in Nat /\ input.hi <= reserved_range_
              /\ reserved_range_ \in Nat /\ Len(unread) \in Nat /\ n \in Nat
          BY <1>2, <1>4, <3>1
        <5> QED
          BY <4>0, <5>1
      <4>2. memory'[i - 1] = memory[input.lo + (i - 1)]
        BY <3>4, <4>1 DEF BytesInv
      <4>3. input.lo + (i - 1) = input.lo + i - 1
        BY <1>2, <3>1
      <4>4. QED
        BY <3>2, <4>1, <4>2, <4>3
    <3>5. QED
      BY <1>3, <3>3, <3>4
  <2>5. QED
    BY <1>1, <1>3, <1>7, <1>8, <2>3, <2>4 DEF BytesInv, InputIsUnread
<1>10. CASE reported
  BY <1>1, <1>3, <1>7, <1>8, <1>10 DEF BytesInv, InputIsUnread
<1>11. QED
  BY <1>9, <1>10

LEMMA BytesStep == BytesInv /\ [RingNext]_ringVars => BytesInv'
<1> SUFFICES ASSUME BytesInv, [RingNext]_ringVars PROVE BytesInv'
  OBVIOUS
<1>1. RingInv'
  BY RingStep DEF BytesInv
<1>2. ASSUME NEW n \in 1 .. MaxPiece, RingAppend(n) PROVE BytesInv'
  BY <1>2, AppendKeepsBytes
<1>3. ASSUME NEW n \in 1 .. MaxPiece, Consume(n) PROVE BytesInv'
  BY <1>3, ConsumeKeepsBytes
<1>4. ASSUME NEW n \in 1 .. MaxPiece, GetAppendSpan(n) PROVE BytesInv'
  BY <1>1, <1>4 DEF GetAppendSpan, BytesInv, InputIsUnread
<1>5. ASSUME NEW n \in 1 .. MaxPiece, ReportAppend(n) PROVE BytesInv'
  <2>1. reserved_range_ \in Nat /\ occupied_range_.hi \in Nat /\ next_byte \in Nat
    BY DEF BytesInv, RingInv, RingType
  <2>2. \A k \in Nat: k % Bytes \in Nat
    OBVIOUS
  <2>3. \A i \in 0 .. reserved_range_ - 1: occupied_range_.hi <= i =>
           next_byte + i - occupied_range_.hi \in Nat
    BY <2>1
  <2>4. memory' \in [0 .. reserved_range_' - 1 -> Nat]
    BY <1>5, <2>2, <2>3 DEF ReportAppend, BytesInv, Written
  <2>5. next_byte' \in Nat
    BY <1>5, <2>1, <2>2 DEF ReportAppend
  <2>6. unread' \in Seq(Nat) /\ reported' = TRUE
    BY <1>5, EmptySeq DEF ReportAppend
  <2>7. QED
    BY <1>1, <2>4, <2>5, <2>6 DEF BytesInv, InputIsUnread
<1>6. CASE UnpinRange \/ UNCHANGED ringVars
  BY <1>1, <1>6 DEF UnpinRange, ringVars, BytesInv, InputIsUnread
<1>7. QED
  BY <1>2, <1>3, <1>4, <1>5, <1>6 DEF RingNext

(* What is read is what was appended, in order, through every move to the start of   *)
(* the buffer, as long as nobody uses report_append.                                *)
THEOREM ReadsWhatWasAppended == RingSpec => []InputIsUnread
<1>1. BytesInv => InputIsUnread
  BY DEF BytesInv
<1>2. QED
  BY BytesInitial, BytesStep, <1>1, PTL DEF RingSpec

HIDE RingAssumption DEF RingAssumption

-----------------------------------------------------------------------------
(* The hash table. First, natural numbers.                                         *)

\* A set of natural numbers that is not empty has a least member: FirstOf is it.
LEMMA FirstFacts ==
  ASSUME NEW S \in SUBSET Nat, S # {}
  PROVE  FirstOf(S) \in S /\ \A i \in S: FirstOf(S) <= i
<1>1. \E m \in S : \A n \in S : <<n, m>> \notin OpToRel(<, Nat)
  BY WFMin, NatLessThanWellFounded
<1>2. PICK m \in S : \A n \in S : <<n, m>> \notin OpToRel(<, Nat)
  BY <1>1
<1>3. \A n \in S : ~(n < m)
  BY <1>2, Zenon DEF OpToRel
<1>4. \E j \in S: \A i \in S: j <= i
  BY <1>3
<1> QED
  BY <1>4 DEF FirstOf

LEMMA FirstOfOne ==
  ASSUME NEW j \in Nat
  PROVE  FirstOf({j}) = j
<1>1. {j} \in SUBSET Nat /\ {j} # {}
  OBVIOUS
<1>2. FirstOf({j}) \in {j}
  BY <1>1, FirstFacts
<1> QED
  BY <1>2

\* Division has one quotient and one rest. (The provers reason about \div and % of
\* constants, so that these have names.)
Quotient(x, N) == x \div N
Rest(x, N) == x % N

LEMMA Division ==
  ASSUME NEW N \in Nat \ {0}, NEW x \in Nat
  PROVE  /\ Quotient(x, N) \in Nat /\ Rest(x, N) \in 0 .. N - 1
         /\ x = N * Quotient(x, N) + Rest(x, N)
<1>1. PICK q: q = x \div N
  OBVIOUS
<1>2. PICK r: r = x % N
  OBVIOUS
<1>3. r \in 0 .. N - 1
  BY <1>2
<1>4. x = N * q + r
  BY <1>1, <1>2
<1>5. q \in Int
  BY <1>1
<1>6. q >= 0
  <2>1. SUFFICES ASSUME q < 0 PROVE FALSE
    BY <1>5
  <2>2. PICK d \in Nat: q = -1 - d
    <3>1. -1 - q \in Nat /\ q = -1 - (-1 - q)
      BY <1>5, <2>1
    <3> QED
      BY <3>1
  <2>3. N * q = -N - N * d
    BY <2>2
  <2>4. N * d >= 0
    OBVIOUS
  <2> QED
    BY <1>3, <1>4, <2>2, <2>3, <2>4
<1>7. Quotient(x, N) = q /\ Rest(x, N) = r
  BY <1>1, <1>2, Zenon DEF Quotient, Rest
<1> QED
  BY <1>3, <1>4, <1>5, <1>6, <1>7

LEMMA DivisionIsUnique ==
  ASSUME NEW N \in Nat \ {0}, NEW q \in Nat, NEW r \in 0 .. N - 1, NEW x, x = N * q + r
  PROVE  Rest(x, N) = r /\ Quotient(x, N) = q
<1>1. x \in Nat
  OBVIOUS
<1>2. PICK p \in Nat, s \in 0 .. N - 1: x = N * p + s /\ p = Quotient(x, N) /\ s = Rest(x, N)
  BY <1>1, Division
<1>3. N * p + s = N * q + r
  BY <1>2
<1>4. ~(p < q)
  <2>1. SUFFICES ASSUME p < q PROVE FALSE
    OBVIOUS
  <2>2. N * (q - p) = s - r
    BY <1>3
  <2>3. PICK d \in Nat \ {0}: d = q - p
    BY <2>1
  <2>4. N * d >= N
    BY <2>3
  <2> QED
    BY <2>2, <2>3, <2>4
<1>5. ~(q < p)
  <2>1. SUFFICES ASSUME q < p PROVE FALSE
    OBVIOUS
  <2>2. N * (p - q) = r - s
    BY <1>3
  <2>3. PICK d \in Nat \ {0}: d = p - q
    BY <2>1
  <2>4. N * d >= N
    BY <2>3
  <2> QED
    BY <2>2, <2>3, <2>4
<1>6. p = q /\ s = r
  BY <1>3, <1>4, <1>5
<1> QED
  BY <1>2, <1>6

LEMMA RestOfSum ==
  ASSUME NEW N \in Nat \ {0}, NEW x \in Nat, NEW y \in Nat
  PROVE  Rest(Rest(x, N) + y, N) = Rest(x + y, N)
<1> DEFINE q == Quotient(x, N)
           a == Rest(x, N)
           p == Quotient(a + y, N)
           r == Rest(a + y, N)
<1>1. q \in Nat /\ a \in 0 .. N - 1 /\ x = N * q + a
  BY Division
<1>2. p \in Nat /\ r \in 0 .. N - 1 /\ a + y = N * p + r
  BY <1>1, Division
<1> HIDE DEF q, a, p, r
<1>3. x + y = N * (q + p) + r /\ q + p \in Nat
  BY <1>1, <1>2
<1>4. Rest(x + y, N) = r
  BY <1>2, <1>3, DivisionIsUnique
<1> QED
  BY <1>4 DEF r, a

-----------------------------------------------------------------------------
(* Places of a probe. *)

USE MapAssumption DEF MapAssumption

Markers == {Empty, Tombstone}
Controls(st) == 0 .. (IF st.n_group_ = 0 THEN 0 ELSE (st.n_group_ + 1) * GroupSize) - 1

\* A store, with the copy of its first group, and a hash function.
Store(st) ==
  /\ hash_ \in Hashes
  /\ st \in [n_group_: Nat, size_: Nat, control_: [Controls(st) -> Markers \cup Nat],
            slots_: [Places(st) -> {NoPair} \cup (Key \X Int)]]
  /\ st.n_group_ > 0 =>
       \A i \in 0 .. GroupSize - 1: st.control_[Capacity(st) + i] = st.control_[i]

LEMMA SizeFacts ==
  ASSUME NEW st, st.n_group_ \in Nat
  PROVE  /\ Capacity(st) \in Nat /\ GroupSize \in Nat \ {0}
         /\ st.n_group_ = 0 => Capacity(st) = 0 /\ Places(st) = {} /\ Controls(st) = {}
         /\ st.n_group_ # 0 => /\ Capacity(st) >= GroupSize
                              /\ Controls(st) = 0 .. Capacity(st) + GroupSize - 1
<1>1. PICK n \in Nat: n = st.n_group_
  OBVIOUS
<1>2. n * GroupSize \in Nat /\ (n + 1) * GroupSize = n * GroupSize + GroupSize
  OBVIOUS
<1>3. n # 0 => n * GroupSize >= GroupSize
  <2>1. SUFFICES ASSUME n # 0 PROVE n * GroupSize >= GroupSize
    OBVIOUS
  <2>2. PICK m \in Nat: n = m + 1
    <3>1. n - 1 \in Nat /\ n = (n - 1) + 1
      BY <2>1
    <3> QED
      BY <3>1
  <2>3. n * GroupSize = m * GroupSize + GroupSize /\ m * GroupSize >= 0
    BY <2>2
  <2> QED
    BY <2>3
<1>4. Capacity(st) = n * GroupSize
  BY <1>1 DEF Capacity
<1>5. n = 0 => n * GroupSize = 0 /\ Places(st) = {} /\ Controls(st) = {}
  BY <1>1, <1>4 DEF Places, Controls
<1>6. n # 0 => Controls(st) = 0 .. n * GroupSize + GroupSize - 1
  BY <1>1, <1>2 DEF Controls
<1> QED
  BY <1>1, <1>2, <1>3, <1>4, <1>5, <1>6

LEMMA HashFacts ==
  ASSUME hash_ \in Hashes, NEW k \in Key
  PROVE  hash_[k].h1 \in Nat /\ hash_[k].h2 \in Nat
<1>1. hash_[k] \in [h1: Nat, h2: Nat]
  OBVIOUS
<1> QED
  BY <1>1

\* The slot at place j of the probe for k.
ProbeSlot(st, k, j) == Rest(hash_[k].h1 + j, Capacity(st))

\* Group by group or one by one, a probe goes through the same slots; what it reads in
\* the copy of the first group is what the slot holds.
LEMMA PlaceFacts ==
  ASSUME NEW st, Store(st), NEW k \in Key, NEW j \in Places(st)
  PROVE  /\ SlotAt(st, k, j) = ProbeSlot(st, k, j)
         /\ ProbeSlot(st, k, j) \in Places(st)
         /\ Byte(st, k, j) = st.control_[ProbeSlot(st, k, j)]
<1> DEFINE N == Capacity(st)
           G == GroupSize
           h == hash_[k].h1
           q == Quotient(j, G)
           r == Rest(j, G)
           a == Rest(h + G * q, N)
<1>1. N \in Nat \ {0} /\ G \in Nat \ {0} /\ N >= G /\ Controls(st) = 0 .. N + G - 1
      /\ j \in 0 .. N - 1 /\ st.n_group_ > 0
  BY SizeFacts DEF Store, Places
<1>2. q \in Nat /\ r \in 0 .. G - 1 /\ j = G * q + r
  BY <1>1, Division
<1>3. h \in Nat
  BY HashFacts DEF Store
<1>4. SlotAt(st, k, j) = Rest(a + r, N) /\ Byte(st, k, j) = st.control_[a + r]
  BY Zenon DEF SlotAt, Byte, GroupAt, Rest, Quotient
<1> HIDE DEF q, r, N, h
<1>5. h + G * q \in Nat
  BY <1>1, <1>2, <1>3
<1>6. a \in 0 .. N - 1
  BY <1>1, <1>5, Division
<1>7. Rest(a + r, N) = Rest(h + G * q + r, N)
  BY <1>1, <1>2, <1>5, RestOfSum
<1>8. h + G * q + r = h + j
  BY <1>1, <1>2, <1>3
<1>9. Rest(a + r, N) = ProbeSlot(st, k, j)
  BY <1>7, <1>8 DEF ProbeSlot, N, h
<1> HIDE DEF a
<1>10. CASE a + r < N
  <2>1. a + r = N * 0 + (a + r) /\ a + r \in 0 .. N - 1
    BY <1>1, <1>2, <1>6, <1>10
  <2>2. Rest(a + r, N) = a + r
    BY <1>1, <2>1, DivisionIsUnique
  <2> QED
    BY <1>4, <1>9, <2>1, <2>2 DEF Places, N
<1>11. CASE a + r >= N
  <2>1. PICK i \in 0 .. G - 1: a + r = N + i
    <3>1. (a + r) - N \in 0 .. G - 1 /\ a + r = N + ((a + r) - N)
      BY <1>1, <1>2, <1>6, <1>11
    <3> QED
      BY <3>1
  <2>2. i \in 0 .. N - 1
    BY <1>1, <2>1
  <2>3. Rest(a + r, N) = i
    <3>0. PICK one \in Nat: one = 1
      OBVIOUS
    <3>1. PICK x: x = a + r
      OBVIOUS
    <3>2. x \in Nat /\ x = N * one + i
      BY <1>1, <2>1, <2>2, <3>0, <3>1
    <3>3. Rest(x, N) = i
      BY <1>1, <2>2, <3>2, DivisionIsUnique
    <3> QED
      BY <3>1, <3>3
  <2>4. st.control_[a + r] = st.control_[i]
    <3>1. \A s \in 0 .. G - 1: st.control_[N + s] = st.control_[s]
      BY <1>1 DEF Store, N
    <3> QED
      BY <2>1, <3>1
  <2> QED
    BY <1>4, <1>9, <2>2, <2>3, <2>4 DEF Places, N
<1> QED
  BY <1>1, <1>2, <1>6, <1>10, <1>11

\* A probe comes to every slot once.
LEMMA ProbeReaches ==
  ASSUME NEW st, Store(st), NEW k \in Key, NEW i \in Places(st)
  PROVE  \E j \in Places(st): ProbeSlot(st, k, j) = i
<1> DEFINE N == Capacity(st)
           h == hash_[k].h1
           q == Quotient(h, N)
           r == Rest(h, N)
<1>1. N \in Nat \ {0} /\ i \in 0 .. N - 1 /\ h \in Nat
  BY SizeFacts, HashFacts DEF Store, Places
<1>2. q \in Nat /\ r \in 0 .. N - 1 /\ h = N * q + r
  BY <1>1, Division
<1> HIDE DEF N, h, q, r
<1>3. CASE i >= r
  <2> DEFINE j == i - r
  <2>1. j \in 0 .. N - 1 /\ h + j = N * q + i
    BY <1>1, <1>2, <1>3
  <2> HIDE DEF j
  <2>2. Rest(h + j, N) = i
    <3>1. PICK x: x = h + j
      OBVIOUS
    <3>2. x = N * q + i
      BY <2>1, <3>1
    <3>3. Rest(x, N) = i
      BY <1>1, <1>2, <3>2, DivisionIsUnique
    <3> QED
      BY <3>1, <3>3
  <2> QED
    BY <2>1, <2>2 DEF Places, ProbeSlot, N, h
<1>4. CASE i < r
  <2> DEFINE j == N + i - r
  <2>1. j \in 0 .. N - 1 /\ h + j = N * (q + 1) + i /\ q + 1 \in Nat
    BY <1>1, <1>2, <1>4
  <2> HIDE DEF j
  <2>2. Rest(h + j, N) = i
    <3>1. PICK x, p: x = h + j /\ p = q + 1
      OBVIOUS
    <3>2. x = N * p + i /\ p \in Nat
      BY <2>1, <3>1
    <3>3. Rest(x, N) = i
      BY <1>1, <3>2, DivisionIsUnique
    <3> QED
      BY <3>1, <3>3
  <2> QED
    BY <2>1, <2>2 DEF Places, ProbeSlot, N, h
<1> QED
  BY <1>1, <1>2, <1>3, <1>4

LEMMA ProbeReachesOnce ==
  ASSUME NEW st, Store(st), NEW k \in Key, NEW i \in Places(st), NEW j \in Places(st),
         ProbeSlot(st, k, i) = ProbeSlot(st, k, j)
  PROVE  i = j
<1> DEFINE N == Capacity(st)
           h == hash_[k].h1
           p == Quotient(h + i, N)
           q == Quotient(h + j, N)
           r == Rest(h + i, N)
<1>1. N \in Nat \ {0} /\ i \in 0 .. N - 1 /\ j \in 0 .. N - 1 /\ h \in Nat
  BY SizeFacts, HashFacts DEF Store, Places
<1>2. h + i \in Nat /\ h + j \in Nat
  BY <1>1
<1>3. p \in Nat /\ r \in 0 .. N - 1 /\ h + i = N * p + r
  BY <1>1, <1>2, Division
<1>4. q \in Nat /\ h + j = N * q + r
  <2>1. r = Rest(h + j, N)
    BY DEF ProbeSlot
  <2> HIDE DEF r, N, h
  <2> QED
    BY <1>1, <1>2, <2>1, Division
<1> HIDE DEF N, h, p, q, r
<1>5. ~(p < q)
  <2>1. SUFFICES ASSUME p < q PROVE FALSE
    OBVIOUS
  <2>2. N * (q - p) = j - i
    BY <1>1, <1>3, <1>4
  <2>3. PICK d \in Nat \ {0}: d = q - p
    BY <1>3, <1>4, <2>1
  <2>4. N * d >= N
    BY <1>1, <2>3
  <2> QED
    BY <1>1, <2>2, <2>3, <2>4
<1>6. ~(q < p)
  <2>1. SUFFICES ASSUME q < p PROVE FALSE
    OBVIOUS
  <2>2. N * (p - q) = i - j
    BY <1>1, <1>3, <1>4
  <2>3. PICK d \in Nat \ {0}: d = p - q
    BY <1>3, <1>4, <2>1
  <2>4. N * d >= N
    BY <1>1, <2>3
  <2> QED
    BY <1>1, <2>2, <2>3, <2>4
<1>7. p = q
  BY <1>3, <1>4, <1>5, <1>6
<1> QED
  BY <1>1, <1>3, <1>4, <1>7

-----------------------------------------------------------------------------
(* What holds of every table that calls lead to.                                   *)

Data(st) == {i \in Places(st): st.control_[i] \notin Markers}
Holds(st, i, k) == i \in Data(st) /\ st.slots_[i][1] = k

\* Slots agree with their control bytes, and no key is in two of them.
PairsInPlace(st) ==
  /\ \A i \in Places(st):
       IF i \in Data(st)
       THEN st.slots_[i] \in Key \X Int /\ st.control_[i] = hash_[st.slots_[i][1]].h2
       ELSE st.slots_[i] = NoPair
  /\ \A i, j \in Data(st): st.slots_[i][1] = st.slots_[j][1] => i = j

\* No group that a search for a key goes through before its slot has an empty slot.
WayIsClear(st) ==
  \A k \in Key, j \in Places(st):
    Holds(st, ProbeSlot(st, k, j), k) =>
      \A p \in Places(st): Quotient(p, GroupSize) < Quotient(j, GroupSize) =>
                             st.control_[ProbeSlot(st, k, p)] # Empty

NoneEmpty(st) == \A i \in Places(st): st.control_[i] # Empty

Good(st) ==
  /\ Store(st)
  /\ st.size_ = Cardinality(Data(st))
  /\ PairsInPlace(st)
  /\ WayIsClear(st)
  /\ st.n_group_ > 0 /\ (st.size_ - 1) * LoadDen >= LoadNum * Capacity(st) => NoneEmpty(st)

LEMMA DataFacts ==
  ASSUME NEW st, Store(st)
  PROVE  /\ IsFiniteSet(Data(st)) /\ Cardinality(Data(st)) \in Nat
         /\ Cardinality(Data(st)) <= Capacity(st)
         /\ Data(st) # Places(st) => Cardinality(Data(st)) < Capacity(st)
<1>1. Capacity(st) \in Nat
  BY SizeFacts DEF Store
<1>2. IsFiniteSet(Places(st)) /\ Cardinality(Places(st)) = Capacity(st)
  BY <1>1, FS_Interval DEF Places
<1>3. Data(st) \subseteq Places(st)
  BY DEF Data
<1>4. /\ IsFiniteSet(Data(st)) /\ Cardinality(Data(st)) <= Capacity(st)
      /\ Cardinality(Data(st)) = Capacity(st) => Data(st) = Places(st)
  BY <1>2, <1>3, FS_Subset, Zenon
<1>5. Cardinality(Data(st)) \in Nat
  BY <1>4, FS_CardinalityType
<1> QED
  BY <1>1, <1>4, <1>5

\* What the slots of a table hold in place of what the control bytes say.
LEMMA MatchingFacts ==
  ASSUME NEW st, Store(st), PairsInPlace(st), NEW k \in Key, NEW j \in Places(st)
  PROVE  /\ j \in Matching(st, k) <=> Holds(st, ProbeSlot(st, k, j), k)
         /\ \A b: j \in Having(st, k, b) <=> st.control_[ProbeSlot(st, k, j)] = b
<1> DEFINE i == ProbeSlot(st, k, j)
<1>1. SlotAt(st, k, j) = i /\ i \in Places(st) /\ Byte(st, k, j) = st.control_[i]
  BY PlaceFacts
<1>2. hash_[k].h2 \notin Markers
  BY HashFacts DEF Store, Markers, Empty, Tombstone
<1> HIDE DEF i
<1>3. \A b: j \in Having(st, k, b) <=> st.control_[i] = b
  BY <1>1 DEF Having
<1>4. j \in Matching(st, k) <=> st.control_[i] = hash_[k].h2 /\ st.slots_[i][1] = k
  BY <1>1, <1>3 DEF Matching
<1>5. i \in Data(st) => st.control_[i] = hash_[st.slots_[i][1]].h2
  BY <1>1 DEF PairsInPlace
<1>6. j \in Matching(st, k) <=> Holds(st, i, k)
  BY <1>1, <1>2, <1>4, <1>5 DEF Holds, Data
<1> QED
  BY <1>3, <1>6 DEF i

\* A search finds the slot of a key that is there, and none of a key that is not.
LEMMA FindFacts ==
  ASSUME NEW st, Good(st), NEW k \in Key
  PROVE  \/ \E i \in Data(st): st.slots_[i][1] = k /\ FindSlot(st, k) = i
         \/ FindSlot(st, k) = Nil /\ \A i \in Data(st): st.slots_[i][1] # k
<1>1. Store(st) /\ PairsInPlace(st) /\ WayIsClear(st)
  BY DEF Good
<1>2. Places(st) \in SUBSET Nat
  BY DEF Places
<1>3. CASE \A i \in Data(st): st.slots_[i][1] # k
  <2>1. Matching(st, k) = {}
    <3>1. \A j \in Places(st): j \notin Matching(st, k)
      BY <1>1, <1>3, MatchingFacts DEF Holds
    <3>2. Matching(st, k) \subseteq Places(st)
      BY DEF Matching, Having
    <3> QED
      BY <3>1, <3>2
  <2>2. Match(st, k) = {}
    BY <2>1 DEF Match
  <2> QED
    BY <1>3, <2>2 DEF FindSlot
<1>4. ASSUME NEW i \in Data(st), st.slots_[i][1] = k
      PROVE  FindSlot(st, k) = i
  <2>1. i \in Places(st)
    BY DEF Data
  <2>2. PICK j \in Places(st): ProbeSlot(st, k, j) = i
    BY <1>1, <2>1, ProbeReaches
  <2>3. j \in Matching(st, k)
    BY <1>1, <1>4, <2>2, MatchingFacts DEF Holds
  <2>4. ASSUME NEW p \in Matching(st, k) PROVE p = j
    <3>1. p \in Places(st)
      BY DEF Matching, Having
    <3>2. Holds(st, ProbeSlot(st, k, p), k)
      BY <1>1, <3>1, MatchingFacts
    <3>3. ProbeSlot(st, k, p) = i
      BY <1>1, <1>4, <3>2 DEF Holds, PairsInPlace
    <3> QED
      BY <1>1, <2>2, <3>1, <3>3, ProbeReachesOnce
  <2>5. ASSUME NEW p \in Stops(st, k) PROVE j \div GroupSize <= p \div GroupSize
    <3>1. CASE p \in Matching(st, k)
      <4>1. p = j
        BY <2>4, <3>1
      <4>2. Quotient(j, GroupSize) \in Nat
        BY <1>2, Division
      <4>3. Quotient(j, GroupSize) <= Quotient(p, GroupSize)
        BY <4>1, <4>2
      <4> QED
        BY <4>3 DEF Quotient
    <3>2. CASE p \in Having(st, k, Empty)
      <4>1. p \in Places(st)
        BY <3>2 DEF Having
      <4>2. st.control_[ProbeSlot(st, k, p)] = Empty
        BY <1>1, <3>2, <4>1, MatchingFacts
      <4>3. ~(Quotient(p, GroupSize) < Quotient(j, GroupSize))
        BY <1>1, <1>4, <2>2, <4>1, <4>2 DEF WayIsClear, Holds
      <4>4. Quotient(p, GroupSize) \in Nat /\ Quotient(j, GroupSize) \in Nat
        BY <1>2, <4>1, Division
      <4>5. Quotient(j, GroupSize) <= Quotient(p, GroupSize)
        BY <4>3, <4>4
      <4> QED
        BY <4>5 DEF Quotient
    <3> QED
      BY <3>1, <3>2 DEF Stops
  <2>6. Match(st, k) = {j}
    BY <2>3, <2>4, <2>5 DEF Match
  <2>7. FirstOf(Match(st, k)) = j
    BY <1>2, <2>6, FirstFacts
  <2> QED
    BY <1>1, <2>2, <2>6, <2>7, PlaceFacts DEF FindSlot
<1> QED
  BY <1>3, <1>4

\* A new key goes to a slot without a pair that a search comes to before an empty one;
\* there is none when all slots hold pairs.
LEMMA RoomFacts ==
  ASSUME NEW st, Good(st), NEW k \in Key, NEW room, room = RoomFor(st, k)
  PROVE  /\ room # {} =>
              \E j \in Places(st):
                /\ SlotAt(st, k, FirstOf(room)) = ProbeSlot(st, k, j)
                /\ ProbeSlot(st, k, j) \in Places(st) \ Data(st)
                /\ \A p \in Places(st): p < j => st.control_[ProbeSlot(st, k, p)] # Empty
         /\ room = {} => Data(st) = Places(st)
         /\ Having(st, k, Empty) = {} => NoneEmpty(st)
<1> DEFINE empty == Having(st, k, Empty)
           first == IF empty = {} THEN Capacity(st) ELSE FirstOf(empty)
           tombs == {j \in Having(st, k, Tombstone): j < first}
<1>1. Store(st) /\ PairsInPlace(st)
  BY DEF Good
<1>2. Places(st) \in SUBSET Nat /\ Capacity(st) \in Nat /\ Places(st) = 0 .. Capacity(st) - 1
  BY <1>1, SizeFacts DEF Places, Store
<1>3. room = IF tombs # {} THEN {FirstOf(tombs)} ELSE IF empty # {} THEN {first} ELSE {}
  BY DEF RoomFor
<1>4. empty \in SUBSET Places(st) /\ tombs \in SUBSET Places(st)
  BY DEF Having
<1>5. \A p \in Places(st): st.control_[ProbeSlot(st, k, p)] = Empty => p \in empty
  BY <1>1, MatchingFacts
<1>6. \A p \in Places(st): p < first => p \notin empty
  <2>1. CASE empty = {}
    BY <2>1
  <2>2. CASE empty # {}
    <3>1. \A p \in empty: FirstOf(empty) <= p
      BY <1>2, <1>4, <2>2, FirstFacts
    <3>2. FirstOf(empty) \in empty
      BY <1>2, <1>4, <2>2, FirstFacts
    <3> QED
      BY <1>2, <1>4, <2>2, <3>1, <3>2
  <2> QED
    BY <2>1, <2>2
<1>7. empty = {} => NoneEmpty(st)
  <2>1. ASSUME empty = {}, NEW i \in Places(st) PROVE st.control_[i] # Empty
    <3>1. PICK j \in Places(st): ProbeSlot(st, k, j) = i
      BY <1>1, ProbeReaches
    <3> QED
      BY <1>5, <2>1, <3>1
  <2> QED
    BY <2>1 DEF NoneEmpty
<1>8. room # {} => \E j \in empty \cup tombs: FirstOf(room) = j /\ \A p \in Places(st): p < j => p \notin empty
  <2>1. CASE tombs # {}
    <3>1. tombs \in SUBSET Nat
      BY <1>2, <1>4
    <3>2. FirstOf(tombs) \in tombs
      <4> HIDE DEF tombs
      <4> QED
        BY <2>1, <3>1, FirstFacts
    <3>3. FirstOf(tombs) \in Nat /\ FirstOf(tombs) < first
      BY <1>2, <1>4, <3>2
    <3>4. FirstOf({FirstOf(tombs)}) = FirstOf(tombs)
      BY <3>3, FirstOfOne
    <3>5. first \in Nat
      <4>1. CASE empty = {}
        BY <1>2, <4>1
      <4>2. CASE empty # {}
        BY <1>2, <1>4, <4>2, FirstFacts
      <4> QED
        BY <4>1, <4>2
    <3> HIDE DEF tombs, first, empty
    <3>6. \A p \in Places(st): p < FirstOf(tombs) => p < first
      BY <1>2, <3>3, <3>5
    <3> QED
      BY <1>3, <1>6, <2>1, <3>2, <3>4, <3>6
  <2>2. CASE tombs = {} /\ empty # {}
    <3>1. first \in empty
      BY <1>2, <1>4, <2>2, FirstFacts
    <3>2. FirstOf({first}) = first
      BY <1>2, <1>4, <3>1, FirstOfOne
    <3> HIDE DEF tombs, first, empty
    <3> QED
      BY <1>3, <1>6, <2>2, <3>1, <3>2
  <2> QED
    BY <1>3, <2>1, <2>2
<1>9. ASSUME room = {} PROVE Data(st) = Places(st)
  <2>1. empty = {} /\ tombs = {}
    BY <1>3, <1>9
  <2>2. Having(st, k, Tombstone) = {}
    <3>1. first = Capacity(st)
      BY <2>1
    <3>2. \A p \in Places(st): p < Capacity(st)
      BY <1>2
    <3>3. Having(st, k, Tombstone) \subseteq Places(st)
      BY DEF Having
    <3> QED
      BY <2>1, <3>1, <3>2, <3>3
  <2>3. ASSUME NEW i \in Places(st) PROVE i \in Data(st)
    <3>1. PICK j \in Places(st): ProbeSlot(st, k, j) = i
      BY <1>1, ProbeReaches
    <3>2. st.control_[i] # Empty /\ st.control_[i] # Tombstone
      BY <1>1, <2>1, <2>2, <3>1, MatchingFacts
    <3> QED
      BY <3>2 DEF Data, Markers
  <2> QED
    BY <2>3 DEF Data
<1>10. ASSUME room # {}
       PROVE  \E j \in Places(st):
                /\ SlotAt(st, k, FirstOf(room)) = ProbeSlot(st, k, j)
                /\ ProbeSlot(st, k, j) \in Places(st) \ Data(st)
                /\ \A p \in Places(st): p < j => st.control_[ProbeSlot(st, k, p)] # Empty
  <2>1. PICK j \in empty \cup tombs:
          FirstOf(room) = j /\ \A p \in Places(st): p < j => p \notin empty
    BY <1>8, <1>10
  <2>2. j \in Places(st)
    BY <1>4
  <2>3. /\ SlotAt(st, k, j) = ProbeSlot(st, k, j) /\ ProbeSlot(st, k, j) \in Places(st)
    BY <1>1, <2>2, PlaceFacts
  <2>4. st.control_[ProbeSlot(st, k, j)] \in Markers
    <3>1. j \in Having(st, k, Empty) \/ j \in Having(st, k, Tombstone)
      BY <2>1
    <3> QED
      BY <1>1, <2>2, <3>1, MatchingFacts DEF Markers
  <2>5. \A p \in Places(st): p < j => st.control_[ProbeSlot(st, k, p)] # Empty
    BY <1>5, <2>1
  <2> HIDE DEF empty, tombs
  <2> QED
    BY <2>1, <2>2, <2>3, <2>4, <2>5 DEF Data
<1> QED
  BY <1>7, <1>9, <1>10

-----------------------------------------------------------------------------
(* A change of one slot. *)

LEMMA UpdateControlFacts ==
  ASSUME NEW st, Store(st), NEW ix \in Places(st), NEW b \in Markers \cup Nat,
         NEW c, c = UpdateControl(st, ix, b)
  PROVE  /\ c \in [Controls(st) -> Markers \cup Nat]
         /\ \A i \in Places(st): c[i] = IF i = ix THEN b ELSE st.control_[i]
         /\ \A i \in 0 .. GroupSize - 1: c[Capacity(st) + i] = c[i]
<1> DEFINE N == Capacity(st)
           G == GroupSize
           B == Markers \cup Nat
           d == [st.control_ EXCEPT ![ix] = b]
<1>1. /\ N \in Nat \ {0} /\ G \in Nat \ {0} /\ N >= G /\ Controls(st) = 0 .. N + G - 1
      /\ ix \in 0 .. N - 1 /\ Places(st) = 0 .. N - 1
  BY SizeFacts DEF Store, Places
<1>2. /\ st.control_ \in [Controls(st) -> B]
      /\ \A i \in 0 .. G - 1: st.control_[N + i] = st.control_[i]
  <2>1. st.n_group_ \in Nat /\ st.n_group_ # 0
    BY <1>1, SizeFacts DEF Store
  <2>2. st.n_group_ > 0
    BY <2>1
  <2> QED
    BY <2>2 DEF Store
<1>3. d \in [Controls(st) -> B] /\ \A i \in Controls(st): d[i] = IF i = ix THEN b ELSE st.control_[i]
  BY <1>1, <1>2
<1>4. c = IF ix < G THEN [i \in DOMAIN d |-> IF i >= N THEN d[i - N] ELSE d[i]] ELSE d
  BY DEF UpdateControl
<1>5. /\ \A i \in 0 .. N - 1: i \in Controls(st)
      /\ \A i \in 0 .. G - 1: N + i \in Controls(st) /\ i \in Controls(st) /\ (N + i) - N = i
      /\ \A i \in Controls(st): i >= N => i - N \in 0 .. G - 1
  BY <1>1
<1> HIDE DEF d, N, G
<1>6. CASE ix < G
  <2>1. c = [i \in Controls(st) |-> IF i >= N THEN d[i - N] ELSE d[i]]
    BY <1>3, <1>4, <1>6
  <2>2. \A i \in Controls(st): (IF i >= N THEN d[i - N] ELSE d[i]) \in B
    BY <1>3, <1>5
  <2>3. c \in [Controls(st) -> B]
    BY <2>1, <2>2
  <2>4. \A i \in 0 .. N - 1: c[i] = d[i]
    BY <1>1, <1>5, <2>1
  <2>5. \A i \in 0 .. G - 1: c[N + i] = d[i] /\ c[i] = d[i]
    BY <1>1, <1>5, <2>1
  <2> QED
    BY <1>1, <1>3, <1>5, <2>3, <2>4, <2>5 DEF N, G
<1>7. CASE ~(ix < G)
  <2>1. c = d
    BY <1>4, <1>7
  <2>2. \A i \in 0 .. G - 1: i # ix /\ N + i # ix
    BY <1>1, <1>7
  <2>3. \A i \in 0 .. G - 1: d[N + i] = d[i]
    BY <1>2, <1>3, <1>5, <2>2
  <2> QED
    BY <1>1, <1>3, <1>5, <2>1, <2>3 DEF N, G
<1> QED
  BY <1>6, <1>7

\* All but the pair and the control byte of one slot, and the count, stay.
SlotSet(st, ix, b, x, n, new) ==
  /\ Store(new) /\ new.n_group_ = st.n_group_ /\ new.size_ = n
  /\ Capacity(new) = Capacity(st) /\ Places(new) = Places(st)
  /\ \A i \in Places(st): /\ new.control_[i] = IF i = ix THEN b ELSE st.control_[i]
                          /\ new.slots_[i] = IF i = ix THEN x ELSE st.slots_[i]
  /\ \A k, j: ProbeSlot(new, k, j) = ProbeSlot(st, k, j)

LEMMA SlotSetFacts ==
  ASSUME NEW st, Store(st), NEW ix \in Places(st), NEW b \in Markers \cup Nat,
         NEW x \in {NoPair} \cup (Key \X Int), NEW n \in Nat, NEW new,
         new = [st EXCEPT !.control_ = UpdateControl(st, ix, b), !.slots_[ix] = x, !.size_ = n]
  PROVE  SlotSet(st, ix, b, x, n, new)
<1>1. PICK c: c = UpdateControl(st, ix, b)
  OBVIOUS
<1>2. /\ c \in [Controls(st) -> Markers \cup Nat]
      /\ \A i \in Places(st): c[i] = IF i = ix THEN b ELSE st.control_[i]
      /\ \A i \in 0 .. GroupSize - 1: c[Capacity(st) + i] = c[i]
  BY <1>1, UpdateControlFacts
<1>3. new = [st EXCEPT !.control_ = c, !.slots_[ix] = x, !.size_ = n]
  BY <1>1
<1>4. /\ new \in [n_group_: Nat, size_: Nat, control_: [Controls(st) -> Markers \cup Nat],
                  slots_: [Places(st) -> {NoPair} \cup (Key \X Int)]]
      /\ new.n_group_ = st.n_group_ /\ new.size_ = n /\ new.control_ = c
      /\ new.slots_ = [st.slots_ EXCEPT ![ix] = x]
  <2> DEFINE V == {NoPair} \cup (Key \X Int)
             C == [Controls(st) -> Markers \cup Nat]
             S == [Places(st) -> V]
  <2>1. st \in [n_group_: Nat, size_: Nat, control_: C, slots_: S]
    BY DEF Store
  <2>2. PICK s: s = [st.slots_ EXCEPT ![ix] = x]
    OBVIOUS
  <2>3. s \in S
    <3>1. st.slots_ \in S /\ x \in V
      BY <2>1
    <3> HIDE DEF V
    <3> QED
      BY <2>2, <3>1
  <2>4. new = [st EXCEPT !.control_ = c, !.slots_ = s, !.size_ = n]
    BY <1>3, <2>2
  <2>5. c \in C
    BY <1>2
  <2> HIDE DEF C, S
  <2> QED
    BY <2>1, <2>2, <2>3, <2>4, <2>5 DEF C, S
<1>5. Capacity(new) = Capacity(st) /\ Places(new) = Places(st) /\ Controls(new) = Controls(st)
  BY <1>4 DEF Capacity, Places, Controls
<1>6. Store(new)
  BY <1>2, <1>4, <1>5 DEF Store
<1>7. \A i \in Places(st): new.slots_[i] = IF i = ix THEN x ELSE st.slots_[i]
  BY <1>4 DEF Store
<1>8. \A k, j: ProbeSlot(new, k, j) = ProbeSlot(st, k, j)
  BY <1>5 DEF ProbeSlot
<1>9. \A i \in Places(st): new.control_[i] = IF i = ix THEN b ELSE st.control_[i]
  BY <1>2, <1>4
<1> QED
  BY <1>4, <1>5, <1>6, <1>7, <1>8, <1>9 DEF SlotSet

\* What lies earlier in a probe lies in no later group.
LEMMA GroupsInOrder ==
  ASSUME NEW i \in Nat, NEW j \in Nat, Quotient(i, GroupSize) < Quotient(j, GroupSize)
  PROVE  /\ i < j
         /\ GroupSize * Quotient(i, GroupSize) \in Nat
         /\ GroupSize * Quotient(i, GroupSize) + GroupSize <= j
<1> DEFINE G == GroupSize
           p == Quotient(i, G)
           q == Quotient(j, G)
           r == Rest(i, G)
           s == Rest(j, G)
<1>1. /\ G \in Nat \ {0} /\ p \in Nat /\ q \in Nat /\ r \in 0 .. G - 1 /\ s \in 0 .. G - 1
      /\ i = G * p + r /\ j = G * q + s /\ p < q
  BY Division
<1> HIDE DEF G, p, q, r, s
<1>2. PICK d \in Nat: q = p + 1 + d
  <2>1. q - p - 1 \in Nat /\ q = p + 1 + (q - p - 1)
    BY <1>1
  <2> QED
    BY <2>1
<1>3. G * q = G * p + G + G * d /\ G * d >= 0
  BY <1>1, <1>2
<1>4. G * p \in Nat /\ G * q \in Nat /\ G * d \in Nat
  BY <1>1, <1>2
<1>5. G * p + G <= j
  BY <1>1, <1>3, <1>4
<1>6. i < j
  BY <1>1, <1>4, <1>5
<1> QED
  BY <1>4, <1>5, <1>6 DEF G, p, q

\* A pair for a new key in the room found for it.
LEMMA AddFacts ==
  ASSUME NEW st, Good(st), NEW k \in Key, NEW v \in Int,
         \A i \in Data(st): st.slots_[i][1] # k,
         NEW j0 \in Places(st), NEW ix, ix = ProbeSlot(st, k, j0), ix \in Places(st) \ Data(st),
         \A p \in Places(st): p < j0 => st.control_[ProbeSlot(st, k, p)] # Empty,
         NoneEmpty(st) \/ ~AtMaxLoad(st),
         NEW new, SlotSet(st, ix, hash_[k].h2, <<k, v>>, st.size_ + 1, new)
  PROVE  Good(new) /\ Data(new) = Data(st) \cup {ix}
<1> USE DEF SlotSet
<1>1. Store(st) /\ PairsInPlace(st) /\ WayIsClear(st) /\ st.size_ = Cardinality(Data(st))
  BY DEF Good
<1>2. hash_[k].h2 \notin Markers /\ hash_[k].h2 # Empty
  BY <1>1, HashFacts DEF Store, Markers, Empty, Tombstone
<1>3. Data(new) = Data(st) \cup {ix}
  BY <1>2 DEF Data
<1>4. new.size_ = Cardinality(Data(new))
  <2>1. IsFiniteSet(Data(st)) /\ ix \notin Data(st)
    BY <1>1, DataFacts
  <2>2. Cardinality(Data(st) \cup {ix}) = Cardinality(Data(st)) + 1
    BY <2>1, FS_AddElement
  <2> QED
    BY <1>1, <1>3, <2>2
<1>5. PairsInPlace(new)
  <2>1. <<k, v>> \in Key \X Int /\ <<k, v>>[1] = k
    OBVIOUS
  <2>2. \A i \in Places(st): IF i \in Data(new)
          THEN new.slots_[i] \in Key \X Int /\ new.control_[i] = hash_[new.slots_[i][1]].h2
          ELSE new.slots_[i] = NoPair
    BY <1>1, <1>3, <2>1 DEF PairsInPlace
  <2>3. \A i, j \in Data(new): new.slots_[i][1] = new.slots_[j][1] => i = j
    <3>1. Data(st) \subseteq Places(st)
      BY DEF Data
    <3> QED
      BY <1>1, <1>3, <2>1, <3>1 DEF PairsInPlace
  <2> QED
    BY <2>2, <2>3 DEF PairsInPlace
<1>6. WayIsClear(new)
  <2>1. SUFFICES ASSUME NEW x \in Key, NEW j \in Places(st), Holds(new, ProbeSlot(st, x, j), x),
                        NEW p \in Places(st), Quotient(p, GroupSize) < Quotient(j, GroupSize)
                 PROVE  new.control_[ProbeSlot(st, x, p)] # Empty
    BY DEF WayIsClear
  <2>2. ProbeSlot(st, x, p) \in Places(st) /\ ProbeSlot(st, x, j) \in Places(st)
    BY <1>1, PlaceFacts
  <2>3. SUFFICES ASSUME ProbeSlot(st, x, p) # ix PROVE st.control_[ProbeSlot(st, x, p)] # Empty
    BY <1>2, <2>2
  <2>4. CASE ProbeSlot(st, x, j) # ix
    <3>1. Holds(st, ProbeSlot(st, x, j), x)
      BY <1>3, <2>1, <2>2, <2>4 DEF Holds
    <3> QED
      BY <1>1, <2>1, <3>1 DEF WayIsClear
  <2>5. CASE ProbeSlot(st, x, j) = ix
    <3>1. x = k
      BY <2>1, <2>5 DEF Holds
    <3>2. j = j0
      BY <1>1, <2>5, <3>1, ProbeReachesOnce
    <3>3. p \in Nat /\ j \in Nat
      BY DEF Places
    <3>4. p < j0
      BY <2>1, <3>2, <3>3, GroupsInOrder
    <3> QED
      BY <3>1, <3>4
  <2> QED
    BY <2>4, <2>5
<1>7. new.n_group_ > 0 /\ (new.size_ - 1) * LoadDen >= LoadNum * Capacity(new) => NoneEmpty(new)
  <2>1. st.size_ \in Nat /\ (st.size_ + 1) - 1 = st.size_
    BY <1>1 DEF Store
  <2>2. CASE NoneEmpty(st)
    BY <1>2, <2>2 DEF NoneEmpty
  <2>3. CASE ~AtMaxLoad(st)
    BY <2>1, <2>3 DEF AtMaxLoad
  <2> QED
    BY <2>2, <2>3
<1>8. Store(new)
  OBVIOUS
<1> QED
  BY <1>3, <1>4, <1>5, <1>6, <1>7, <1>8 DEF Good

-----------------------------------------------------------------------------
(* try_insert. *)

Maps(st, k, v) == \E i \in Data(st): st.slots_[i] = <<k, v>>

LEMMA LoadFacts == LoadNum < LoadDen
<1>1. PICK g \in Nat: GroupSize = g + 1
  <2>1. GroupSize - 1 \in Nat /\ GroupSize = (GroupSize - 1) + 1
    OBVIOUS
  <2> QED
    BY <2>1
<1>2. g * LoadDen >= LoadNum * g + LoadNum
  BY <1>1
<1>3. SUFFICES ASSUME LoadDen <= LoadNum PROVE FALSE
  OBVIOUS
<1>4. PICK d \in Nat: LoadNum = LoadDen + d
  <2>1. LoadNum - LoadDen \in Nat /\ LoadNum = LoadDen + (LoadNum - LoadDen)
    BY <1>3
  <2> QED
    BY <2>1
<1>5. LoadNum * g = g * LoadDen + d * g /\ d * g >= 0
  BY <1>4
<1> QED
  BY <1>2, <1>5

\* A table below its maximal load has room.
LEMMA RoomBelowLoad ==
  ASSUME NEW st, Good(st), ~AtMaxLoad(st)
  PROVE  Data(st) # Places(st)
<1>1. SUFFICES ASSUME Data(st) = Places(st) PROVE FALSE
  OBVIOUS
<1>2. PICK n \in Nat: n = Capacity(st)
  BY SizeFacts DEF Good, Store
<1>3. st.size_ = n
  BY <1>1, <1>2, FS_Interval DEF Good, Places
<1>4. n * LoadDen < LoadNum * n
  BY <1>2, <1>3 DEF AtMaxLoad
<1>5. PICK d \in Nat: LoadDen = LoadNum + d
  <2>1. LoadDen - LoadNum \in Nat /\ LoadDen = LoadNum + (LoadDen - LoadNum)
    BY LoadFacts
  <2> QED
    BY <2>1
<1>6. n * LoadDen = LoadNum * n + n * d /\ n * d >= 0
  BY <1>5
<1> QED
  BY <1>4, <1>6

Replaced(st, ix, x) == [st EXCEPT !.slots_[ix] = x]

\* The value of a key that is there is replaced.
LEMMA ReplaceFacts ==
  ASSUME NEW st, Good(st), NEW k \in Key, NEW v \in Int,
         NEW ix \in Data(st), st.slots_[ix][1] = k,
         NEW new, new = Replaced(st, ix, <<k, v>>)
  PROVE  /\ Good(new) /\ Data(new) = Data(st)
         /\ new.n_group_ = st.n_group_ /\ new.size_ = st.size_
         /\ \A i \in Data(st): new.slots_[i] = IF i = ix THEN <<k, v>> ELSE st.slots_[i]
<1> DEFINE V == {NoPair} \cup (Key \X Int)
<1>1. Store(st) /\ PairsInPlace(st) /\ WayIsClear(st) /\ st.size_ = Cardinality(Data(st))
  BY DEF Good
<1>2. st \in [n_group_: Nat, size_: Nat, control_: [Controls(st) -> Markers \cup Nat],
              slots_: [Places(st) -> V]]
  BY <1>1 DEF Store
<1>3. PICK s: s = [st.slots_ EXCEPT ![ix] = <<k, v>>]
  OBVIOUS
<1>4. <<k, v>> \in V /\ <<k, v>> \in Key \X Int /\ <<k, v>>[1] = k
  OBVIOUS
<1> HIDE DEF V
<1>5. ix \in Places(st) /\ Data(st) \subseteq Places(st)
  BY DEF Data
<1>6. s \in [Places(st) -> V] /\ \A i \in Places(st): s[i] = IF i = ix THEN <<k, v>> ELSE st.slots_[i]
  BY <1>2, <1>3, <1>4
<1>7. new = [st EXCEPT !.slots_ = s]
  BY <1>3 DEF Replaced
<1>8. /\ new \in [n_group_: Nat, size_: Nat, control_: [Controls(st) -> Markers \cup Nat],
                  slots_: [Places(st) -> V]]
      /\ new.n_group_ = st.n_group_ /\ new.size_ = st.size_ /\ new.control_ = st.control_
      /\ new.slots_ = s
  BY <1>2, <1>6, <1>7
<1>9. /\ Capacity(new) = Capacity(st) /\ Places(new) = Places(st) /\ Controls(new) = Controls(st)
      /\ Data(new) = Data(st)
  BY <1>8 DEF Capacity, Places, Controls, Data
<1>10. Store(new)
  BY <1>1, <1>8, <1>9 DEF Store, V
<1>11. \A i \in Data(st): new.slots_[i][1] = st.slots_[i][1]
  BY <1>4, <1>5, <1>6, <1>8
<1>12. PairsInPlace(new)
  <2>1. \A i \in Places(st): i \notin Data(st) => new.slots_[i] = NoPair
    BY <1>1, <1>6, <1>8 DEF PairsInPlace
  <2>2. \A i \in Data(st): /\ new.slots_[i] \in Key \X Int
                           /\ new.control_[i] = hash_[new.slots_[i][1]].h2
    BY <1>1, <1>4, <1>5, <1>6, <1>8, <1>11 DEF PairsInPlace
  <2>3. \A i, j \in Data(st): new.slots_[i][1] = new.slots_[j][1] => i = j
    BY <1>1, <1>11 DEF PairsInPlace
  <2> QED
    BY <1>9, <2>1, <2>2, <2>3 DEF PairsInPlace
<1>13. \A x, j: /\ ProbeSlot(new, x, j) = ProbeSlot(st, x, j)
                /\ Holds(new, j, x) <=> Holds(st, j, x)
  BY <1>9, <1>11 DEF ProbeSlot, Holds
<1>14. WayIsClear(new)
  <2>1. SUFFICES ASSUME NEW x \in Key, NEW j \in Places(st), Holds(st, ProbeSlot(st, x, j), x),
                        NEW p \in Places(st), Quotient(p, GroupSize) < Quotient(j, GroupSize)
                 PROVE  st.control_[ProbeSlot(st, x, p)] # Empty
    BY <1>8, <1>9, <1>13 DEF WayIsClear
  <2> QED
    BY <1>1, <2>1 DEF WayIsClear
<1>15. new.n_group_ > 0 /\ (new.size_ - 1) * LoadDen >= LoadNum * Capacity(new) => NoneEmpty(new)
  BY <1>8, <1>9 DEF Good, NoneEmpty
<1>16. Good(new)
  BY <1>1, <1>8, <1>9, <1>10, <1>12, <1>14, <1>15 DEF Good
<1> QED
  BY <1>5, <1>6, <1>8, <1>9, <1>16

\* try_insert keeps the table good; unless it refuses, k has the value v afterwards, and
\* every other key what it had. It refuses nothing below the maximal load.
LEMMA InsertFacts ==
  ASSUME NEW st, Good(st), NEW k \in Key, NEW v \in Int,
         NEW try, try = TryInsert(st, k, v), NEW new, new = try.store
  PROVE  /\ Good(new) /\ new.n_group_ = st.n_group_
         /\ new.size_ = st.size_ \/ new.size_ = st.size_ + 1
         /\ try.at = Nil => new = st
         /\ try.at # Nil => \A x \in Key, w \in Int:
                              Maps(new, x, w) <=> IF x = k THEN w = v ELSE Maps(st, x, w)
         /\ Capacity(st) > 0 /\ ~AtMaxLoad(st) => try.at # Nil
<1> DEFINE found == FindSlot(st, k)
           room == RoomFor(st, k)
           ix == SlotAt(st, k, FirstOf(room))
           refused == AtMaxLoad(st) /\ (room = {} \/ Having(st, k, Empty) # {})
<1>1. try = IF Capacity(st) = 0 THEN [at |-> Nil, store |-> st]
            ELSE IF found # Nil
            THEN [at |-> found, store |-> [st EXCEPT !.slots_[found] = <<k, v>>]]
            ELSE IF refused THEN [at |-> Nil, store |-> st]
            ELSE [at |-> ix,
                  store |-> [st EXCEPT !.control_ = UpdateControl(st, ix, hash_[k].h2),
                                       !.slots_[ix] = <<k, v>>,
                                       !.size_ = @ + 1]]
  BY DEF TryInsert
<1>2. Store(st) /\ PairsInPlace(st) /\ Capacity(st) \in Nat /\ Nil \notin Places(st)
  BY SizeFacts DEF Good, Store, Places, Nil
<1>3. \A i \in Data(st): i \in Places(st) /\ st.slots_[i] = <<st.slots_[i][1], st.slots_[i][2]>>
  BY <1>2 DEF PairsInPlace, Data
<1> HIDE DEF found, room, ix, refused
<1>4. CASE Capacity(st) = 0
  BY <1>1, <1>4
<1>5. CASE Capacity(st) # 0 /\ found # Nil
  <2>1. PICK i \in Data(st): st.slots_[i][1] = k /\ found = i
    BY <1>5, FindFacts DEF found
  <2>2. try.at = i /\ new = Replaced(st, i, <<k, v>>)
    BY <1>1, <1>5, <2>1 DEF Replaced
  <2>3. /\ Good(new) /\ Data(new) = Data(st)
        /\ new.n_group_ = st.n_group_ /\ new.size_ = st.size_
        /\ \A j \in Data(st): new.slots_[j] = IF j = i THEN <<k, v>> ELSE st.slots_[j]
    BY <2>1, <2>2, ReplaceFacts
  <2>4. ASSUME NEW x \in Key, NEW w \in Int
        PROVE  Maps(new, x, w) <=> IF x = k THEN w = v ELSE Maps(st, x, w)
    <3>1. \A j \in Data(st): st.slots_[j][1] = k => j = i
      BY <1>2, <2>1 DEF PairsInPlace
    <3>2. CASE x = k
      BY <1>3, <2>1, <2>3, <3>1, <3>2 DEF Maps
    <3>3. CASE x # k
      BY <1>3, <2>1, <2>3, <3>1, <3>3 DEF Maps
    <3> QED
      BY <3>2, <3>3
  <2>5. try.at # Nil
    BY <1>2, <1>3, <2>2
  <2> QED
    BY <2>3, <2>4, <2>5
<1>6. CASE Capacity(st) # 0 /\ found = Nil /\ refused
  BY <1>1, <1>6 DEF refused
<1>7. CASE Capacity(st) # 0 /\ found = Nil /\ ~refused
  <2>1. \A i \in Data(st): st.slots_[i][1] # k
    <3>1. \A i \in Data(st): found # i
      BY <1>2, <1>3, <1>7
    <3> QED
      BY <3>1, FindFacts DEF found
  <2>2. room # {} /\ (NoneEmpty(st) \/ ~AtMaxLoad(st))
    <3>1. CASE AtMaxLoad(st)
      <4>1. room # {} /\ Having(st, k, Empty) = {}
        BY <1>7, <3>1 DEF refused
      <4> QED
        BY <4>1, RoomFacts
    <3>2. CASE ~AtMaxLoad(st)
      BY <3>2, RoomBelowLoad, RoomFacts DEF room
    <3> QED
      BY <3>1, <3>2
  <2>3. PICK j0 \in Places(st):
          /\ ix = ProbeSlot(st, k, j0) /\ ix \in Places(st) \ Data(st)
          /\ \A p \in Places(st): p < j0 => st.control_[ProbeSlot(st, k, p)] # Empty
    BY <2>2, RoomFacts DEF room, ix
  <2>4. try.at = ix /\ new = [st EXCEPT !.control_ = UpdateControl(st, ix, hash_[k].h2),
                                        !.slots_[ix] = <<k, v>>,
                                        !.size_ = st.size_ + 1]
    BY <1>1, <1>7
  <2>5. SlotSet(st, ix, hash_[k].h2, <<k, v>>, st.size_ + 1, new)
    <3>1. hash_[k].h2 \in Markers \cup Nat
      BY <1>2, HashFacts DEF Store
    <3>2. st.size_ + 1 \in Nat
      BY <1>2 DEF Store
    <3>3. <<k, v>> \in {NoPair} \cup (Key \X Int)
      OBVIOUS
    <3> QED
      BY <1>2, <2>3, <2>4, <3>1, <3>2, <3>3, SlotSetFacts
  <2>6. Good(new) /\ Data(new) = Data(st) \cup {ix}
    BY <2>1, <2>2, <2>3, <2>5, AddFacts
  <2>7. ASSUME NEW x \in Key, NEW w \in Int
        PROVE  Maps(new, x, w) <=> IF x = k THEN w = v ELSE Maps(st, x, w)
    <3>1. new.slots_[ix] = <<k, v>> /\ \A i \in Data(st): i # ix /\ new.slots_[i] = st.slots_[i]
      BY <1>3, <2>3, <2>5 DEF SlotSet
    <3>2. CASE x = k
      BY <1>3, <2>1, <2>6, <3>1, <3>2 DEF Maps
    <3>3. CASE x # k
      BY <1>3, <2>6, <3>1, <3>3 DEF Maps
    <3> QED
      BY <3>2, <3>3
  <2>8. new.n_group_ = st.n_group_ /\ new.size_ = st.size_ + 1
    BY <2>5 DEF SlotSet
  <2>9. try.at # Nil
    BY <1>2, <2>3, <2>4
  <2> QED
    BY <2>6, <2>7, <2>8, <2>9
<1> QED
  BY <1>4, <1>5, <1>6, <1>7

-----------------------------------------------------------------------------
(* erase. *)

\* What is read beyond the last slot is the copy of the first group.
LEMMA ControlFacts ==
  ASSUME NEW st, Store(st), NEW i \in Controls(st)
  PROVE  /\ i \in Places(st) => Rest(i, Capacity(st)) = i
         /\ Rest(i, Capacity(st)) \in Places(st)
         /\ st.control_[i] = st.control_[Rest(i, Capacity(st))]
<1> DEFINE N == Capacity(st)
           G == GroupSize
<1>1. /\ N \in Nat \ {0} /\ G \in Nat \ {0} /\ N >= G /\ i \in 0 .. N + G - 1
      /\ Places(st) = 0 .. N - 1 /\ st.n_group_ > 0
  BY SizeFacts DEF Store, Places
<1> HIDE DEF N
<1>2. CASE i < N
  <2>1. i = N * 0 + i /\ i \in 0 .. N - 1
    BY <1>1, <1>2
  <2>2. Rest(i, N) = i
    BY <1>1, <2>1, DivisionIsUnique
  <2> QED
    BY <1>1, <2>1, <2>2 DEF N
<1>3. CASE i >= N
  <2>1. PICK j \in 0 .. G - 1: i = N + j
    <3>1. i - N \in 0 .. G - 1 /\ i = N + (i - N)
      BY <1>1, <1>3
    <3> QED
      BY <3>1
  <2>2. i = N * 1 + j /\ j \in 0 .. N - 1
    BY <1>1, <2>1
  <2>3. Rest(i, N) = j
    BY <1>1, <2>2, DivisionIsUnique
  <2>4. st.control_[N + j] = st.control_[j]
    BY <1>1 DEF Store, N
  <2> QED
    BY <1>1, <1>3, <2>1, <2>2, <2>3, <2>4 DEF N
<1> QED
  BY <1>1, <1>2, <1>3

\* The control bytes that needs_tombstone reads, before slot ix and after it.
Before(st, ix) ==
  LET g0 == ix - GroupSize + 1 + (IF ix >= GroupSize THEN 0 ELSE Capacity(st)) IN
  {s \in 0 .. GroupSize - 1: st.control_[g0 + GroupSize - 1 - s] = Empty}
After(st, ix) == {s \in 0 .. GroupSize - 1: st.control_[ix + s] = Empty}
RunOf(S) == IF S = {} THEN GroupSize ELSE FirstOf(S)

LEMMA TombstoneTest ==
  ASSUME NEW st, NEW ix
  PROVE  NeedsTombstone(st, ix) <=>
           RunOf(Before(st, ix)) + RunOf(After(st, ix)) >= GroupSize + 1
BY DEF NeedsTombstone, Before, After, RunOf

LEMMA AfterFacts ==
  ASSUME NEW st, Store(st), NEW ix \in Places(st), NEW s \in 0 .. GroupSize - 1
  PROVE  ix + s \in Controls(st) /\ (s \in After(st, ix) <=> st.control_[ix + s] = Empty)
BY SizeFacts DEF Store, Places, After

\* The byte at a distance of s before ix.
Behind(st, ix, s) == ix - s + (IF ix >= GroupSize THEN 0 ELSE Capacity(st))

LEMMA BeforeFacts ==
  ASSUME NEW st, Store(st), NEW ix \in Places(st), NEW s \in 0 .. GroupSize - 1
  PROVE  /\ Behind(st, ix, s) \in Controls(st)
         /\ s \in Before(st, ix) <=> st.control_[Behind(st, ix, s)] = Empty
<1> DEFINE N == Capacity(st)
           G == GroupSize
<1>1. /\ N \in Nat \ {0} /\ G \in Nat \ {0} /\ N >= G /\ Controls(st) = 0 .. N + G - 1
      /\ ix \in 0 .. N - 1
  BY SizeFacts DEF Store, Places
<1>2. PICK g0: g0 = ix - G + 1 + (IF ix >= G THEN 0 ELSE N)
  OBVIOUS
<1>3. s \in Before(st, ix) <=> st.control_[g0 + G - 1 - s] = Empty
  BY <1>2 DEF Before
<1>4. PICK i: i = g0 + G - 1 - s
  OBVIOUS
<1> HIDE DEF N
<1>5. i = Behind(st, ix, s)
  BY <1>1, <1>2, <1>4 DEF N, Behind
<1>6. i \in Controls(st)
  BY <1>1, <1>2, <1>4
<1> QED
  BY <1>3, <1>4, <1>5, <1>6

LEMMA RunFacts ==
  ASSUME NEW S \in SUBSET (0 .. GroupSize - 1)
  PROVE  /\ RunOf(S) \in 0 .. GroupSize
         /\ S = {} => RunOf(S) = GroupSize
         /\ RunOf(S) < GroupSize => RunOf(S) \in S
<1>1. CASE S = {}
  BY <1>1 DEF RunOf
<1>2. CASE S # {}
  <2>1. FirstOf(S) \in S
    BY <1>2, FirstFacts
  <2>2. PICK f \in 0 .. GroupSize - 1: f = FirstOf(S) /\ f \in S
    BY <2>1
  <2>3. RunOf(S) = f
    BY <1>2, <2>2 DEF RunOf
  <2> QED
    BY <1>2, <2>2, <2>3
<1> QED
  BY <1>1, <1>2

\* Where needs_tombstone says no, every group that has slot ix has an empty slot.
LEMMA WindowFacts ==
  ASSUME NEW st, Store(st), NEW ix \in Places(st), ~NeedsTombstone(st, ix),
         NEW a \in Nat, NEW r \in 0 .. GroupSize - 1, Rest(a + r, Capacity(st)) = ix
  PROVE  \E e \in 0 .. GroupSize - 1: st.control_[Rest(a + e, Capacity(st))] = Empty
<1> DEFINE N == Capacity(st)
           G == GroupSize
           b == RunOf(Before(st, ix))
           c == RunOf(After(st, ix))
           q == Quotient(a + r, N)
<1>1. /\ N \in Nat \ {0} /\ G \in Nat \ {0} /\ N >= G /\ Controls(st) = 0 .. N + G - 1
      /\ ix \in 0 .. N - 1 /\ Places(st) = 0 .. N - 1
  BY SizeFacts DEF Store, Places
<1>2. q \in Nat /\ a + r = N * q + ix
  <2>1. a + r \in Nat /\ Rest(a + r, N) = ix
    BY <1>1
  <2> HIDE DEF N
  <2> QED
    BY <1>1, <2>1, Division
<1>3. Before(st, ix) \in SUBSET (0 .. G - 1) /\ After(st, ix) \in SUBSET (0 .. G - 1)
  BY DEF Before, After
<1>4. b \in 0 .. G /\ c \in 0 .. G /\ b + c <= G
  <2>1. b \in 0 .. G /\ c \in 0 .. G
    BY <1>3, RunFacts
  <2>2. ~(b + c >= G + 1)
    BY TombstoneTest
  <2> HIDE DEF b, c
  <2> QED
    BY <1>1, <2>1, <2>2
<1>5. b < G => b \in Before(st, ix)
  BY <1>3, RunFacts
<1>6. c < G => c \in After(st, ix)
  BY <1>3, RunFacts
<1> HIDE DEF N, b, c, q
\* a byte at the distance d from ix
<1>7. ASSUME NEW e \in 0 .. G - 1, NEW i \in Controls(st), NEW t \in {-1, 0, 1},
             i = ix + (e - r) + N * t, st.control_[i] = Empty
      PROVE  st.control_[Rest(a + e, N)] = Empty
  <2>1. Rest(i, N) \in Places(st) /\ st.control_[Rest(i, N)] = Empty
    BY <1>7, ControlFacts DEF N
  <2>2. PICK p \in Nat, m \in 0 .. N - 1: i = N * p + m /\ m = Rest(i, N)
    <3>1. i \in Nat
      BY <1>1
    <3> QED
      BY <1>1, <3>1, Division
  <2>3. PICK u \in Int: u = q + p - t
    BY <1>2
  <2>4. a + e = N * u + m
    <3>1. N * u = N * q + N * p - N * t
      BY <1>1, <1>2, <2>3
    <3>2. N * q \in Int /\ N * p \in Int /\ N * t \in Int
      BY <1>1, <1>2
    <3>3. PICK x \in Int, y \in Int, z \in Int: x = N * q /\ y = N * p /\ z = N * t
      BY <3>2
    <3>4. a + r = x + ix /\ i = ix + (e - r) + z /\ i = y + m
      BY <1>2, <1>7, <2>2, <3>3
    <3>5. N * u = x + y - z
      BY <3>1, <3>3
    <3>6. a \in Int /\ r \in Int /\ e \in Int /\ ix \in Int /\ m \in Int
      BY <1>1
    <3>7. ix + (e - r) + z = y + m
      BY <3>4
    <3>8. a + e = x + y - z + m
      BY <3>4, <3>6, <3>7
    <3> QED
      BY <3>5, <3>8
  <2>5. u >= 0
    <3>1. SUFFICES ASSUME u < 0 PROVE FALSE
      OBVIOUS
    <3>2. PICK d \in Nat: u = -1 - d
      <4>1. -1 - u \in Nat /\ u = -1 - (-1 - u)
        BY <3>1
      <4> QED
        BY <4>1
    <3>3. N * u = -N - N * d /\ N * d >= 0
      BY <1>1, <3>2
    <3> QED
      BY <1>1, <2>2, <2>4, <3>3
  <2>6. Rest(a + e, N) = m
    <3>1. PICK x: x = a + e
      OBVIOUS
    <3>2. x = N * u + m /\ u \in Nat
      BY <2>4, <2>5, <3>1
    <3>3. N \in Nat \ {0} /\ m \in 0 .. N - 1
      BY <1>1
    <3>4. Rest(x, N) = m
      BY <3>2, <3>3, DivisionIsUnique
    <3> QED
      BY <3>1, <3>4
  <2> QED
    BY <2>1, <2>2, <2>6
<1>8. CASE b <= r
  <2>1. b \in Before(st, ix) /\ b \in 0 .. G - 1 /\ r - b \in 0 .. G - 1
    BY <1>1, <1>4, <1>5, <1>8
  <2>2. PICK i \in Controls(st): i = Behind(st, ix, b) /\ st.control_[i] = Empty
    BY <2>1, BeforeFacts
  <2>3. PICK e \in 0 .. G - 1: e = r - b
    BY <2>1
  <2>4. \E t \in {-1, 0, 1}: i = ix + (e - r) + N * t
    <3>1. CASE i = ix - b
      <4>1. i = ix + (e - r) + N * 0
        BY <1>1, <2>1, <2>3, <3>1
      <4> QED
        BY <4>1
    <3>2. CASE i = ix - b + N
      <4>1. i = ix + (e - r) + N * 1
        BY <1>1, <2>1, <2>3, <3>2
      <4> QED
        BY <4>1
    <3>3. i = ix - b \/ i = ix - b + N
      BY <1>1, <2>1, <2>2 DEF Behind, N
    <3> QED
      BY <3>1, <3>2, <3>3
  <2> QED
    BY <1>7, <2>2, <2>4 DEF N
<1>9. CASE ~(b <= r)
  <2>1. c \in After(st, ix) /\ c \in 0 .. G - 1 /\ r + c \in 0 .. G - 1
    BY <1>1, <1>4, <1>6, <1>9
  <2>2. ix + c \in Controls(st) /\ st.control_[ix + c] = Empty
    BY <2>1, AfterFacts
  <2>3. PICK e \in 0 .. G - 1: e = r + c
    BY <2>1
  <2>4. PICK i \in Controls(st): i = ix + c /\ st.control_[i] = Empty
    BY <2>2
  <2>5. i = ix + (e - r) + N * 0
    BY <1>1, <2>1, <2>3, <2>4
  <2> QED
    BY <1>7, <2>4, <2>5 DEF N
<1> QED
  BY <1>1, <1>4, <1>8, <1>9

\* In a table without an empty slot, every slot that is freed becomes a tombstone.
LEMMA FullFacts ==
  ASSUME NEW st, Store(st), NoneEmpty(st)
  PROVE  /\ \A i \in Controls(st): st.control_[i] # Empty
         /\ \A ix \in Places(st): NeedsTombstone(st, ix)
<1>1. \A i \in Controls(st): st.control_[i] # Empty
  BY ControlFacts DEF NoneEmpty
<1>2. ASSUME NEW ix \in Places(st) PROVE NeedsTombstone(st, ix)
  <2>1. ASSUME NEW s \in 0 .. GroupSize - 1 PROVE s \notin Before(st, ix) /\ s \notin After(st, ix)
    BY <1>1, BeforeFacts, AfterFacts
  <2>2. Before(st, ix) \in SUBSET (0 .. GroupSize - 1) /\ After(st, ix) \in SUBSET (0 .. GroupSize - 1)
    BY DEF Before, After
  <2>3. Before(st, ix) = {} /\ After(st, ix) = {}
    BY <2>1, <2>2
  <2>4. RunOf(Before(st, ix)) = GroupSize /\ RunOf(After(st, ix)) = GroupSize
    BY <2>3 DEF RunOf
  <2>5. GroupSize + GroupSize >= GroupSize + 1
    OBVIOUS
  <2> QED
    BY <2>4, <2>5, TombstoneTest
<1> QED
  BY <1>1, <1>2

\* Taking a pair out keeps every other pair in the reach of a search.
LEMMA EraseFacts ==
  ASSUME NEW st, Good(st), NEW ix \in Data(st), NEW new, new = Erased(st, ix)
  PROVE  /\ Good(new)
         /\ \A x \in Key, w \in Int:
              Maps(new, x, w) <=> x # st.slots_[ix][1] /\ Maps(st, x, w)
<1> DEFINE marker == IF NeedsTombstone(st, ix) THEN Tombstone ELSE Empty
<1>1. Store(st) /\ PairsInPlace(st) /\ WayIsClear(st) /\ st.size_ = Cardinality(Data(st))
  BY DEF Good
<1>2. ix \in Places(st) /\ marker \in Markers /\ NoPair \in {NoPair} \cup (Key \X Int)
  BY DEF Data, Markers
<1>3. st.size_ - 1 \in Nat /\ st.size_ - 1 = Cardinality(Data(st) \ {ix})
  <2>1. IsFiniteSet(Data(st))
    BY <1>1, DataFacts
  <2>2. /\ IsFiniteSet(Data(st) \ {ix})
        /\ Cardinality(Data(st) \ {ix}) = Cardinality(Data(st)) - 1
    BY <2>1, FS_RemoveElement
  <2>3. Cardinality(Data(st) \ {ix}) \in Nat
    BY <2>2, FS_CardinalityType
  <2> QED
    BY <1>1, <2>2, <2>3
<1>4. SlotSet(st, ix, marker, NoPair, st.size_ - 1, new)
  <2>1. PICK b \in Markers, n \in Nat: b = marker /\ n = st.size_ - 1
    BY <1>2, <1>3
  <2>2. new = [st EXCEPT !.control_ = UpdateControl(st, ix, b), !.slots_[ix] = NoPair,
                         !.size_ = n]
    BY <2>1 DEF Erased
  <2>3. SlotSet(st, ix, b, NoPair, n, new)
    <3> HIDE DEF marker
    <3> QED
      BY <1>1, <1>2, <2>2, SlotSetFacts
  <2> QED
    BY <2>1, <2>3
<1> HIDE DEF marker
<1> USE DEF SlotSet
<1>5. Data(new) = Data(st) \ {ix}
  BY <1>2, <1>4 DEF Data
<1>6. PairsInPlace(new)
  <2>1. Data(st) \subseteq Places(st)
    BY DEF Data
  <2>2. \A i \in Places(st): IF i \in Data(new)
          THEN new.slots_[i] \in Key \X Int /\ new.control_[i] = hash_[new.slots_[i][1]].h2
          ELSE new.slots_[i] = NoPair
    BY <1>1, <1>4, <1>5 DEF PairsInPlace
  <2>3. \A i, j \in Data(new): new.slots_[i][1] = new.slots_[j][1] => i = j
    BY <1>1, <1>4, <1>5, <2>1 DEF PairsInPlace
  <2> QED
    BY <1>4, <2>2, <2>3 DEF PairsInPlace
<1>7. WayIsClear(new)
  <2>1. SUFFICES ASSUME NEW x \in Key, NEW j \in Places(st), Holds(new, ProbeSlot(st, x, j), x),
                        NEW p \in Places(st), Quotient(p, GroupSize) < Quotient(j, GroupSize)
                 PROVE  new.control_[ProbeSlot(st, x, p)] # Empty
    BY <1>4 DEF WayIsClear
  <2>2. ProbeSlot(st, x, p) \in Places(st) /\ ProbeSlot(st, x, j) \in Places(st)
    BY <1>1, PlaceFacts
  <2>3. Holds(st, ProbeSlot(st, x, j), x)
    BY <1>4, <1>5, <2>1, <2>2 DEF Holds, Data
  <2>4. st.control_[ProbeSlot(st, x, p)] # Empty
    BY <1>1, <2>1, <2>3 DEF WayIsClear
  <2>5. SUFFICES ASSUME ProbeSlot(st, x, p) = ix, marker = Empty PROVE FALSE
    BY <1>4, <2>2, <2>4
  <2>6. ~NeedsTombstone(st, ix)
    BY <2>5 DEF marker, Empty, Tombstone
  <2> DEFINE G == GroupSize
             N == Capacity(st)
             h == hash_[x].h1
             m == Quotient(p, G)
             r == Rest(p, G)
  <2>7. /\ G \in Nat \ {0} /\ p \in 0 .. N - 1 /\ j \in 0 .. N - 1 /\ h \in Nat /\ N \in Nat
        /\ Places(st) = 0 .. N - 1 /\ p \in Nat /\ j \in Nat
    BY <1>1, HashFacts, SizeFacts DEF Store, Places
  <2>8. m \in Nat /\ r \in 0 .. G - 1 /\ p = G * m + r
    <3>1. G \in Nat \ {0} /\ p \in Nat
      BY <2>7
    <3> QED
      BY <3>1, Division
  <2>9. G * m + G <= j /\ G * m \in Nat
    BY <2>1, <2>7, GroupsInOrder
  <2>10. Rest(h + G * m + r, N) = ix
    BY <2>5, <2>7, <2>8 DEF ProbeSlot
  <2>11. PICK a \in Nat: a = h + G * m
    <3>1. h + G * m \in Nat
      <4> HIDE DEF h, m
      <4> QED
        BY <2>7, <2>9
    <3> QED
      BY <3>1
  <2>12. PICK e \in 0 .. G - 1: st.control_[Rest(a + e, N)] = Empty
    BY <1>1, <1>2, <2>6, <2>8, <2>10, <2>11, WindowFacts
  <2>13. PICK p2: p2 = G * m + e
    OBVIOUS
  <2>14. p2 \in Places(st) /\ h + p2 = a + e
    <3> HIDE DEF m, N, h, G
    <3> QED
      BY <2>7, <2>9, <2>11, <2>13
  <2>15. Quotient(p2, G) = m
    BY <2>7, <2>8, <2>13, DivisionIsUnique
  <2>16. st.control_[ProbeSlot(st, x, p2)] # Empty
    BY <1>1, <2>1, <2>3, <2>14, <2>15 DEF WayIsClear
  <2> QED
    BY <2>12, <2>14, <2>16 DEF ProbeSlot
<1>8. new.n_group_ > 0 /\ (new.size_ - 1) * LoadDen >= LoadNum * Capacity(new) => NoneEmpty(new)
  <2>1. SUFFICES ASSUME st.n_group_ > 0, (st.size_ - 1 - 1) * LoadDen >= LoadNum * Capacity(st)
                 PROVE  NoneEmpty(new)
    BY <1>4
  <2>2. (st.size_ - 1 - 1) * LoadDen = (st.size_ - 1) * LoadDen - LoadDen
    BY <1>3
  <2>3. Capacity(st) \in Nat
    BY <1>1, SizeFacts DEF Store
  <2>4. (st.size_ - 1) * LoadDen \in Int /\ LoadNum * Capacity(st) \in Int
    BY <1>3, <2>3
  <2>5. (st.size_ - 1) * LoadDen >= LoadNum * Capacity(st)
    BY <2>1, <2>2, <2>4
  <2>6. NoneEmpty(st)
    BY <2>1, <2>5 DEF Good
  <2>7. marker = Tombstone
    BY <1>1, <1>2, <2>6, FullFacts DEF marker
  <2> QED
    BY <1>4, <2>6, <2>7 DEF NoneEmpty, Empty, Tombstone
<1>9. Good(new)
  BY <1>3, <1>4, <1>5, <1>6, <1>7, <1>8 DEF Good
<1>10. ASSUME NEW x \in Key, NEW w \in Int
       PROVE  Maps(new, x, w) <=> x # st.slots_[ix][1] /\ Maps(st, x, w)
  <2>1. \A i \in Data(st): /\ i \in Places(st)
                           /\ st.slots_[i] = <<x, w>> => st.slots_[i][1] = x
                           /\ st.slots_[i][1] = st.slots_[ix][1] => i = ix
    BY <1>1 DEF PairsInPlace, Data
  <2>2. \A i \in Data(st): i # ix => new.slots_[i] = st.slots_[i]
    BY <1>4, <2>1
  <2> QED
    BY <1>5, <2>1, <2>2 DEF Maps
<1> QED
  BY <1>9, <1>10

-----------------------------------------------------------------------------
(* What a table holds. *)

LEMMA ContentsAre ==
  ASSUME NEW st, Good(st), NEW D \in SUBSET Key, NEW F \in [D -> Int],
         \A k \in Key, v \in Int: Maps(st, k, v) <=> k \in D /\ F[k] = v
  PROVE  Contents(st) = F
<1>1. Contents(st) = [k \in {x \in Key: FindSlot(st, x) # Nil} |-> st.slots_[FindSlot(st, k)][2]]
  BY DEF Contents
<1>2. ASSUME NEW k \in Key
      PROVE  /\ FindSlot(st, k) # Nil <=> k \in D
             /\ k \in D => st.slots_[FindSlot(st, k)][2] = F[k]
  <2>1. CASE \E i \in Data(st): st.slots_[i][1] = k /\ FindSlot(st, k) = i
    <3>1. PICK i \in Data(st): st.slots_[i][1] = k /\ FindSlot(st, k) = i
      BY <2>1
    <3>2. i \in Nat /\ i # Nil /\ st.slots_[i] \in Key \X Int
      BY DEF Data, Places, Nil, Good, PairsInPlace
    <3>3. PICK v \in Int: st.slots_[i] = <<k, v>> /\ st.slots_[i][2] = v
      BY <3>1, <3>2
    <3>4. Maps(st, k, v)
      BY <3>3 DEF Maps
    <3> QED
      BY <3>1, <3>2, <3>3, <3>4
  <2>2. CASE FindSlot(st, k) = Nil /\ \A i \in Data(st): st.slots_[i][1] # k
    <3>1. \A v: ~Maps(st, k, v)
      BY <2>2 DEF Maps
    <3>2. k \notin D
      BY <3>1
    <3> QED
      BY <2>2, <3>2
  <2> QED
    BY <2>1, <2>2, FindFacts
<1>3. {x \in Key: FindSlot(st, x) # Nil} = D
  BY <1>2
<1>4. F = [k \in D |-> F[k]]
  OBVIOUS
<1> QED
  BY <1>1, <1>2, <1>3, <1>4

LEMMA ContentsFacts ==
  ASSUME NEW st, Good(st)
  PROVE  /\ DOMAIN Contents(st) \subseteq Key /\ Contents(st) \in [DOMAIN Contents(st) -> Int]
         /\ \A k \in Key, v \in Int:
              Maps(st, k, v) <=> k \in DOMAIN Contents(st) /\ Contents(st)[k] = v
         /\ \A k \in DOMAIN Contents(st):
              FindSlot(st, k) \in Data(st) /\ st.slots_[FindSlot(st, k)][1] = k
         /\ st.size_ = Cardinality(DOMAIN Contents(st))
<1> DEFINE key(i) == st.slots_[i][1]
           D == {key(i): i \in Data(st)}
           at(k) == CHOOSE i \in Data(st): key(i) = k
           F == [k \in D |-> st.slots_[at(k)][2]]
<1>1. PairsInPlace(st) /\ Store(st)
  BY DEF Good
<1>2. \A i \in Data(st): /\ st.slots_[i] \in Key \X Int /\ key(i) \in Key /\ st.slots_[i][2] \in Int
                         /\ st.slots_[i] = <<key(i), st.slots_[i][2]>>
  BY <1>1 DEF PairsInPlace, Data
<1>3. \A i, j \in Data(st): key(i) = key(j) => i = j
  BY <1>1 DEF PairsInPlace
<1>4. \A i \in Data(st): at(key(i)) = i
  BY <1>3
<1>5. D \in SUBSET Key /\ F \in [D -> Int]
  <2>1. ASSUME NEW k \in D PROVE k \in Key /\ st.slots_[at(k)][2] \in Int
    <3>1. PICK i \in Data(st): k = key(i)
      OBVIOUS
    <3> QED
      BY <1>2, <1>4, <3>1
  <2> QED
    BY <2>1
<1>6. ASSUME NEW k \in Key, NEW v \in Int
      PROVE  Maps(st, k, v) <=> k \in D /\ F[k] = v
  <2>1. ASSUME Maps(st, k, v) PROVE k \in D /\ F[k] = v
    <3>1. PICK i \in Data(st): st.slots_[i] = <<k, v>>
      BY <2>1 DEF Maps
    <3>2. key(i) = k /\ st.slots_[i][2] = v
      BY <3>1
    <3>3. k \in D /\ at(k) = i
      BY <1>4, <3>2
    <3> QED
      BY <3>2, <3>3
  <2>2. ASSUME k \in D, F[k] = v PROVE Maps(st, k, v)
    <3>1. PICK i \in Data(st): k = key(i)
      BY <2>2
    <3>2. at(k) = i
      BY <1>4, <3>1
    <3>3. F[k] = st.slots_[at(k)][2]
      BY <2>2
    <3>4. st.slots_[i][2] = v
      BY <2>2, <3>2, <3>3
    <3> QED
      BY <1>2, <3>1, <3>4 DEF Maps
  <2> QED
    BY <2>1, <2>2
<1>7. Contents(st) = F
  <2> HIDE DEF D, F
  <2> QED
    BY <1>5, <1>6, ContentsAre
<1>8. DOMAIN Contents(st) = D
  BY <1>7
<1>9. ASSUME NEW k \in D PROVE FindSlot(st, k) \in Data(st) /\ st.slots_[FindSlot(st, k)][1] = k
  <2>1. PICK i \in Data(st): k = key(i)
    OBVIOUS
  <2>2. k \in Key
    BY <1>5
  <2> QED
    BY <2>1, <2>2, FindFacts
<1>10. Cardinality(D) = Cardinality(Data(st))
  <2> DEFINE f == [i \in Data(st) |-> key(i)]
  <2>1. f \in Bijection(Data(st), D)
    <3>1. f \in [Data(st) -> D]
      OBVIOUS
    <3>2. \A i, j \in Data(st): f[i] = f[j] => i = j
      BY <1>3
    <3>3. \A k \in D: \E i \in Data(st): f[i] = k
      OBVIOUS
    <3> QED
      BY <3>1, <3>2, <3>3 DEF Bijection, Injection, Surjection, IsInjective
  <2>2. IsFiniteSet(Data(st))
    BY <1>1, DataFacts
  <2> QED
    BY <2>1, <2>2, FS_Bijection DEF ExistsBijection
<1> HIDE DEF F, D
<1> QED
  BY <1>5, <1>6, <1>7, <1>8, <1>9, <1>10 DEF Good

-----------------------------------------------------------------------------
(* A new store, and growth. *)

LEMMA FreshFacts ==
  ASSUME hash_ \in Hashes, NEW n \in Nat
  PROVE  /\ Good(Fresh(n)) /\ Data(Fresh(n)) = {}
         /\ Fresh(n).n_group_ = n /\ Fresh(n).size_ = 0
<1> DEFINE st == Fresh(n)
<1>1. /\ st.n_group_ = n /\ st.size_ = 0
      /\ st.control_ = [i \in Controls(st) |-> Empty]
      /\ st.slots_ = [i \in Places(st) |-> NoPair]
      /\ st = [n_group_ |-> n, size_ |-> 0, control_ |-> st.control_, slots_ |-> st.slots_]
  BY DEF Fresh, Controls, Places, Capacity
<1> HIDE DEF st
<1>2. Data(st) = {}
  <2>1. \A i \in Places(st): i \in Controls(st)
    BY <1>1, SizeFacts DEF Places
  <2> QED
    BY <1>1, <2>1 DEF Data, Markers
<1>3. Store(st)
  <2>1. st.control_ \in [Controls(st) -> Markers \cup Nat]
    BY <1>1 DEF Markers
  <2>2. st.slots_ \in [Places(st) -> {NoPair} \cup (Key \X Int)]
    BY <1>1
  <2>3. st \in [n_group_: Nat, size_: Nat, control_: [Controls(st) -> Markers \cup Nat],
                slots_: [Places(st) -> {NoPair} \cup (Key \X Int)]]
    BY <1>1, <2>1, <2>2
  <2>4. ASSUME st.n_group_ > 0, NEW i \in 0 .. GroupSize - 1
        PROVE  Capacity(st) + i \in Controls(st) /\ i \in Controls(st)
    <3>1. st.n_group_ \in Nat /\ st.n_group_ # 0
      BY <1>1, <2>4
    <3>2. PICK N \in Nat: N = Capacity(st) /\ Controls(st) = 0 .. N + GroupSize - 1
      BY <3>1, SizeFacts
    <3> QED
      BY <3>2
  <2>5. \A i \in 0 .. GroupSize - 1: st.n_group_ > 0 =>
          st.control_[Capacity(st) + i] = st.control_[i]
    BY <1>1, <2>4
  <2> QED
    BY <2>3, <2>5 DEF Store
<1>4. Cardinality({}) = 0
  BY FS_EmptySet
<1>5. PairsInPlace(st)
  BY <1>1, <1>2 DEF PairsInPlace
<1>6. WayIsClear(st)
  BY <1>2 DEF WayIsClear, Holds
<1>7. ~((st.size_ - 1) * LoadDen >= LoadNum * Capacity(st))
  <2>1. Capacity(st) \in Nat
    BY <1>1, SizeFacts
  <2>2. LoadNum * Capacity(st) >= 0 /\ (0 - 1) * LoadDen = -LoadDen
    BY <2>1
  <2> QED
    BY <1>1, <2>1, <2>2
<1>8. Good(st)
  BY <1>1, <1>2, <1>3, <1>4, <1>5, <1>6, <1>7 DEF Good
<1> QED
  BY <1>1, <1>2, <1>8 DEF st

\* The new store, and what becomes of it at slot i of the old one.
Doubled(st) == Fresh(IF st.n_group_ = 0 THEN 1 ELSE 2 * st.n_group_)
CopyOf(st, i, s) ==
  IF st.control_[i] \in {Empty, Tombstone} THEN s
  ELSE TryInsert(s, st.slots_[i][1], st.slots_[i][2]).store

\* Growth copies slot by slot. (The recursive function that does so exists.)
LEMMA GrowRuns ==
  ASSUME NEW st, NEW n \in Nat, n = Capacity(st)
  PROVE  \E c: /\ c[0] = Doubled(st) /\ Grow(st) = c[n]
               /\ \A i \in 1 .. n: c[i] = CopyOf(st, i - 1, c[i - 1])
<1> DEFINE Def(c, m) == c = [i \in 0 .. m |-> IF i = 0 THEN Doubled(st)
                                              ELSE CopyOf(st, i - 1, c[i - 1])]
           S == {m \in Nat: ~\E c: Def(c, m)}
<1>1. S = {}
  <2>1. SUFFICES ASSUME S # {} PROVE FALSE
    OBVIOUS
  <2>2. S \in SUBSET Nat
    OBVIOUS
  <2>3. PICK m \in S: \A i \in S: m <= i
    <3> HIDE DEF S
    <3> QED
      BY <2>1, <2>2, FirstFacts
  <2>4. CASE m = 0
    <3> DEFINE c == [i \in {0} |-> Doubled(st)]
    <3>1. 0 .. 0 = {0}
      OBVIOUS
    <3>2. c = [i \in 0 .. 0 |-> IF i = 0 THEN Doubled(st) ELSE CopyOf(st, i - 1, c[i - 1])]
      BY <3>1
    <3> HIDE DEF c
    <3>3. Def(c, 0)
      BY <3>2
    <3> QED
      BY <2>3, <2>4, <3>3
  <2>5. CASE m # 0
    <3>1. m \in Nat /\ m - 1 \in Nat /\ ~(m <= m - 1)
      BY <2>5
    <3>2. PICK c: Def(c, m - 1)
      <4>1. m - 1 \notin S
        BY <2>3, <3>1
      <4> HIDE DEF Def
      <4> QED
        BY <3>1, <4>1
    <3> DEFINE d == [i \in 0 .. m |-> IF i = 0 THEN Doubled(st) ELSE CopyOf(st, i - 1, c[i - 1])]
    <3>3. \A i \in 0 .. m - 1: i \in 0 .. m
      BY <3>1
    <3>4. \A i \in 0 .. m - 1: d[i] = c[i]
      BY <3>2, <3>3
    <3>5. \A i \in 0 .. m: i # 0 => i - 1 \in 0 .. m - 1
      BY <3>1
    <3>6. \A i \in 0 .. m: i # 0 => c[i - 1] = d[i - 1]
      BY <3>4, <3>5
    <3>7. d = [i \in 0 .. m |-> IF i = 0 THEN Doubled(st) ELSE CopyOf(st, i - 1, d[i - 1])]
      <4> HIDE DEF d
      <4>1. [i \in 0 .. m |-> IF i = 0 THEN Doubled(st) ELSE CopyOf(st, i - 1, c[i - 1])]
            = [i \in 0 .. m |-> IF i = 0 THEN Doubled(st) ELSE CopyOf(st, i - 1, d[i - 1])]
        BY <3>6
      <4> QED
        BY <4>1 DEF d
    <3> HIDE DEF d
    <3>8. Def(d, m)
      BY <3>7
    <3> HIDE DEF Def
    <3> QED
      BY <2>3, <3>8
  <2> QED
    BY <2>4, <2>5
<1>2. Def(CHOOSE c: Def(c, n), n)
  <2>1. n \notin S
    <3> HIDE DEF S
    <3> QED
      BY <1>1
  <2> HIDE DEF Def
  <2> QED
    BY <2>1
<1>3. Grow(st) = (CHOOSE c: Def(c, n))[n]
  BY Zenon DEF Grow, Doubled, CopyOf
<1> HIDE DEF Def
<1>4. PICK c: Def(c, n) /\ Grow(st) = c[n]
  BY <1>2, <1>3
<1>5. c = [i \in 0 .. n |-> IF i = 0 THEN Doubled(st) ELSE CopyOf(st, i - 1, c[i - 1])]
  BY <1>4 DEF Def
<1>6. 0 \in 0 .. n /\ \A i \in 1 .. n: i \in 0 .. n /\ i # 0
  OBVIOUS
<1>7. c[0] = Doubled(st) /\ \A i \in 1 .. n: c[i] = CopyOf(st, i - 1, c[i - 1])
  BY <1>5, <1>6
<1> QED
  BY <1>4, <1>7

\* Twice the size is below the maximal load.
LEMMA DoubleIsEnough ==
  ASSUME NEW n \in Nat \ {0}, NEW s \in 0 .. n
  PROVE  s * LoadDen < LoadNum * (2 * n)
<1>1. PICK d \in Nat: n = s + d
  <2>1. n - s \in Nat /\ n = s + (n - s)
    OBVIOUS
  <2> QED
    BY <2>1
<1>2. PICK e \in Nat \ {0}: 2 * LoadNum = LoadDen + e
  <2>1. 2 * LoadNum - LoadDen \in Nat \ {0} /\ 2 * LoadNum = LoadDen + (2 * LoadNum - LoadDen)
    OBVIOUS
  <2> QED
    BY <2>1
<1>3. LoadNum * (2 * n) = (2 * LoadNum) * n
  OBVIOUS
<1>4. (2 * LoadNum) * n = s * LoadDen + d * LoadDen + e * n
  BY <1>1, <1>2
<1>5. d * LoadDen >= 0 /\ e * n > 0
  BY <1>1, <1>2
<1>6. s * LoadDen \in Int /\ d * LoadDen \in Int /\ e * n \in Int
  BY <1>1, <1>2
<1> QED
  BY <1>3, <1>4, <1>5, <1>6

\* Growing keeps every pair and makes room.
LEMMA GrowFacts ==
  ASSUME NEW st, Good(st), NEW new, new = Grow(st)
  PROVE  /\ Good(new) /\ ~AtMaxLoad(new)
         /\ \A x \in Key, w \in Int: Maps(new, x, w) <=> Maps(st, x, w)
<1> DEFINE N == Capacity(st)
           m == IF st.n_group_ = 0 THEN 1 ELSE 2 * st.n_group_
<1>1. /\ Store(st) /\ PairsInPlace(st) /\ hash_ \in Hashes /\ st.n_group_ \in Nat
      /\ N \in Nat /\ m \in Nat
  BY SizeFacts DEF Good, Store
<1>2. PICK c: /\ c[0] = Doubled(st) /\ new = c[N]
              /\ \A i \in 1 .. N: c[i] = CopyOf(st, i - 1, c[i - 1])
  BY <1>1, GrowRuns
<1>3. \A i \in Data(st): /\ i \in 0 .. N - 1 /\ st.slots_[i] \in Key \X Int
                         /\ st.control_[i] \notin {Empty, Tombstone}
  BY <1>1 DEF PairsInPlace, Data, Places, Markers
<1>4. \A s: s.n_group_ = m =>
        Capacity(s) = IF st.n_group_ = 0 THEN GroupSize ELSE 2 * N
  <2>1. ASSUME NEW s, s.n_group_ = m PROVE Capacity(s) = IF st.n_group_ = 0 THEN GroupSize ELSE 2 * N
    <3>1. CASE st.n_group_ = 0
      BY <2>1, <3>1 DEF Capacity
    <3>2. CASE st.n_group_ # 0
      <4>1. (2 * st.n_group_) * GroupSize = 2 * (st.n_group_ * GroupSize)
        BY <1>1
      <4> QED
        BY <2>1, <3>2, <4>1 DEF Capacity
    <3> QED
      BY <3>1, <3>2
  <2> QED
    BY <2>1
<1>5. N # 0 => st.n_group_ # 0
  BY SizeFacts DEF Good, Store
<1> DEFINE Below(i, x, w) == \E j \in Data(st): j < i /\ st.slots_[j] = <<x, w>>
           Copied(i) == /\ Good(c[i]) /\ c[i].n_group_ = m /\ c[i].size_ <= i
                        /\ \A x \in Key, w \in Int: Maps(c[i], x, w) <=> Below(i, x, w)
           S == {i \in 0 .. N: ~Copied(i)}
<1> HIDE DEF N, m
<1>6. Copied(0)
  <2>1. c[0] = Fresh(m)
    BY <1>2 DEF Doubled, m
  <2>2. \A x, w: ~Maps(c[0], x, w)
    BY <1>1, <2>1, FreshFacts DEF Maps
  <2>3. \A x, w: ~Below(0, x, w)
    BY <1>1, <1>3
  <2> HIDE DEF Below
  <2> QED
    BY <1>1, <2>1, <2>2, <2>3, FreshFacts
<1>7. ASSUME NEW i \in 0 .. N - 1, Copied(i) PROVE Copied(i + 1)
  <2>1. /\ i + 1 \in 1 .. N /\ (i + 1) - 1 = i /\ N \in Nat \ {0} /\ st.n_group_ # 0
        /\ i \in Places(st) /\ i \in Nat
    BY <1>1, <1>5 DEF Places, N
  <2>2. c[i + 1] = CopyOf(st, i, c[i])
    BY <1>2, <2>1
  <2>3. CASE i \notin Data(st)
    <3>1. c[i + 1] = c[i]
      BY <2>1, <2>2, <2>3 DEF CopyOf, Data, Markers
    <3>2. \A x, w: Below(i + 1, x, w) <=> Below(i, x, w)
      <4>1. \A j \in Data(st): j < i + 1 <=> j < i
        BY <1>3, <2>1, <2>3
      <4> QED
        BY <4>1
    <3>3. c[i].size_ <= i + 1
      <4>1. c[i].size_ \in Nat
        BY <1>7 DEF Good, Store
      <4> QED
        BY <1>7, <2>1, <4>1
    <3> HIDE DEF Below
    <3> QED
      BY <1>7, <3>1, <3>2, <3>3
  <2>4. CASE i \in Data(st)
    <3>1. PICK k \in Key, v \in Int: st.slots_[i] = <<k, v>>
      BY <1>3, <2>4
    <3>2. PICK try: try = TryInsert(c[i], k, v)
      OBVIOUS
    <3>3. c[i + 1] = try.store
      BY <1>3, <2>2, <2>4, <3>1, <3>2 DEF CopyOf
    <3>4. c[i].size_ \in 0 .. N /\ c[i].size_ <= i /\ c[i].size_ \in Nat
      <4>1. c[i].size_ \in Nat
        BY <1>7 DEF Good, Store
      <4> QED
        BY <1>7, <2>1, <4>1
    <3>5. Capacity(c[i]) = 2 * N
      BY <1>4, <1>7, <2>1
    <3>6. ~AtMaxLoad(c[i]) /\ Capacity(c[i]) > 0
      <4>1. c[i].size_ * LoadDen < LoadNum * (2 * N)
        BY <2>1, <3>4, DoubleIsEnough
      <4>2. c[i].size_ * LoadDen \in Int /\ LoadNum * (2 * N) \in Int
        BY <2>1, <3>4
      <4> QED
        BY <2>1, <3>5, <4>1, <4>2 DEF AtMaxLoad
    <3>7. Good(c[i])
      BY <1>7
    <3>8. /\ Good(c[i + 1]) /\ c[i + 1].n_group_ = c[i].n_group_
          /\ c[i + 1].size_ = c[i].size_ \/ c[i + 1].size_ = c[i].size_ + 1
          /\ \A x \in Key, w \in Int:
               Maps(c[i + 1], x, w) <=> IF x = k THEN w = v ELSE Maps(c[i], x, w)
      BY <3>2, <3>3, <3>6, <3>7, InsertFacts
    <3>9. ASSUME NEW x \in Key, NEW w \in Int
          PROVE  Below(i + 1, x, w) <=> IF x = k THEN w = v ELSE Below(i, x, w)
      <4>1. \A j \in Data(st): /\ j < i + 1 <=> j < i \/ j = i
                               /\ st.slots_[j][1] = k => j = i
                               /\ st.slots_[j] = <<x, w>> => st.slots_[j][1] = x
        <5>1. \A j \in Data(st): j \in Int
          BY <1>3
        <5>2. \A j \in Data(st): j < i + 1 <=> j < i \/ j = i
          BY <2>1, <5>1
        <5>3. st.slots_[i][1] = k
          BY <3>1
        <5>4. \A j \in Data(st): st.slots_[j][1] = k => j = i
          BY <1>1, <2>4, <5>3 DEF PairsInPlace
        <5>5. \A j \in Data(st): st.slots_[j] = <<x, w>> => st.slots_[j][1] = x
          OBVIOUS
        <5> QED
          BY <5>2, <5>4, <5>5
      <4>2. st.slots_[i] = <<x, w>> <=> x = k /\ w = v
        BY <3>1
      <4>3. CASE x = k
        BY <2>4, <4>1, <4>2, <4>3
      <4>4. CASE x # k
        BY <4>1, <4>2, <4>4
      <4> QED
        BY <4>3, <4>4
    <3>10. c[i + 1].size_ <= i + 1
      BY <2>1, <3>4, <3>8
    <3> HIDE DEF Below
    <3> QED
      BY <1>7, <3>8, <3>9, <3>10
  <2> QED
    BY <2>3, <2>4
<1> HIDE DEF Copied
<1>8. Copied(N)
  <2>1. SUFFICES ASSUME S # {} PROVE FALSE
    BY <1>1
  <2>2. PICK i \in S: \A j \in S: i <= j
    <3>1. S \in SUBSET Nat
      BY <1>1
    <3> HIDE DEF S
    <3> QED
      BY <2>1, <3>1, FirstFacts
  <2>3. i # 0 /\ i \in 0 .. N
    BY <1>6, <2>2
  <2>4. i - 1 \in 0 .. N - 1 /\ ~(i <= i - 1) /\ i - 1 \in 0 .. N /\ (i - 1) + 1 = i
    BY <1>1, <2>3
  <2>5. Copied(i - 1)
    BY <2>2, <2>4
  <2>6. Copied((i - 1) + 1)
    BY <1>7, <2>4, <2>5
  <2> QED
    BY <2>2, <2>4, <2>6
<1>9. Good(new) /\ new.n_group_ = m /\ new.size_ <= N /\ new.size_ \in Nat
  BY <1>2, <1>8 DEF Copied, Good, Store
<1>10. ~AtMaxLoad(new)
  <2>1. CASE st.n_group_ = 0
    <3>1. N = 0
      BY <2>1, SizeFacts DEF N
    <3>2. new.size_ = 0 /\ Capacity(new) = GroupSize
      BY <1>4, <1>9, <2>1, <3>1
    <3>3. LoadNum * GroupSize > 0 /\ 0 * LoadDen = 0
      OBVIOUS
    <3> QED
      BY <3>2, <3>3 DEF AtMaxLoad
  <2>2. CASE st.n_group_ # 0
    <3>1. N \in Nat \ {0} /\ new.size_ \in 0 .. N
      BY <1>1, <1>9, <2>2, SizeFacts DEF N
    <3>2. new.size_ * LoadDen < LoadNum * (2 * N)
      BY <3>1, DoubleIsEnough
    <3>3. Capacity(new) = 2 * N
      BY <1>4, <1>9, <2>2
    <3>4. new.size_ * LoadDen \in Int /\ LoadNum * (2 * N) \in Int
      BY <3>1
    <3> QED
      BY <3>2, <3>3, <3>4 DEF AtMaxLoad
  <2> QED
    BY <2>1, <2>2
<1>11. ASSUME NEW x \in Key, NEW w \in Int PROVE Maps(new, x, w) <=> Maps(st, x, w)
  <2>1. Maps(new, x, w) <=> Below(N, x, w)
    BY <1>2, <1>8 DEF Copied
  <2>2. \A j \in Data(st): j < N
    BY <1>1, <1>3
  <2> QED
    BY <2>1, <2>2 DEF Maps
<1> QED
  BY <1>9, <1>10, <1>11

-----------------------------------------------------------------------------
(* The theorems. *)

\* The invariant: the table is good. The hash function stays, so that a step may look
\* at the table it leads to with the hash function it started from.
LEMMA GoodNext ==
  ASSUME UNCHANGED hash_, Good(store_')
  PROVE  Good(store_)'
<1>1. /\ Capacity(store_)' = Capacity(store_') /\ Places(store_)' = Places(store_')
      /\ Controls(store_)' = Controls(store_') /\ Data(store_)' = Data(store_')
      /\ NoneEmpty(store_)' <=> NoneEmpty(store_')
  BY DEF Capacity, Places, Controls, Data, NoneEmpty
<1>2. Store(store_)'
  BY <1>1 DEF Store, Good
<1>3. PairsInPlace(store_)'
  BY <1>1 DEF PairsInPlace, Good
<1>4. WayIsClear(store_)'
  BY <1>1 DEF WayIsClear, Holds, ProbeSlot, Good
<1> QED
  BY <1>1, <1>2, <1>3, <1>4 DEF Good

LEMMA StepsKeepGood ==
  ASSUME Good(store_), [MapNext]_mapVars
  PROVE  Good(store_)'
<1>1. hash_ \in Hashes /\ Val \subseteq Int
  BY DEF Good, Store
<1>2. UNCHANGED hash_
  BY DEF MapNext, TryInsertOnly, Insert, Erase, MapClear, mapVars
<1>3. SUFFICES Good(store_')
  BY <1>2, GoodNext
<1>4. ASSUME NEW st, Good(st), NEW k \in Key, NEW v \in Val
      PROVE  Good(TryInsert(st, k, v).store)
  <2>1. v \in Int
    BY <1>1
  <2>2. PICK try, new: try = TryInsert(st, k, v) /\ new = try.store
    OBVIOUS
  <2>3. Good(new)
    BY <1>4, <2>1, <2>2, InsertFacts
  <2> QED
    BY <2>2, <2>3
<1>5. CASE \E k \in Key, v \in Val: TryInsertOnly(k, v)
  BY <1>4, <1>5 DEF TryInsertOnly
<1>6. CASE \E k \in Key, v \in Val: Insert(k, v)
  <2>1. PICK k \in Key, v \in Val: Insert(k, v)
    BY <1>6
  <2>2. Good(Grow(store_))
    BY GrowFacts
  <2>3. Good(TryInsert(store_, k, v).store) /\ Good(TryInsert(Grow(store_), k, v).store)
    BY <1>4, <2>2
  <2> QED
    BY <2>1, <2>3 DEF Insert
<1>7. CASE \E k \in Key: Erase(k)
  <2>1. PICK k \in Key: Erase(k)
    BY <1>7
  <2>2. CASE FindSlot(store_, k) # Nil
    <3>1. FindSlot(store_, k) \in Data(store_)
      BY <2>2, FindFacts
    <3>2. Good(Erased(store_, FindSlot(store_, k)))
      BY <3>1, EraseFacts
    <3> QED
      BY <2>1, <2>2, <3>2 DEF Erase
  <2>3. CASE FindSlot(store_, k) = Nil
    BY <2>1, <2>3 DEF Erase
  <2> QED
    BY <2>2, <2>3
<1>8. CASE MapClear
  BY <1>1, <1>8, FreshFacts DEF MapClear
<1>9. CASE UNCHANGED mapVars
  BY <1>9 DEF mapVars
<1> QED
  BY <1>5, <1>6, <1>7, <1>8, <1>9 DEF MapNext

LEMMA AlwaysGood == MapSpec => []Good(store_)
<1>1. MapInit => Good(store_)
  <2>1. SUFFICES ASSUME MapInit PROVE Good(store_)
    OBVIOUS
  <2>2. PICK n \in Nat: store_ = Fresh(n)
    BY <2>1 DEF MapInit
  <2> QED
    BY <2>1, <2>2, FreshFacts DEF MapInit
<1>2. Good(store_) /\ [MapNext]_mapVars => Good(store_)'
  BY StepsKeepGood
<1> QED
  BY <1>1, <1>2, PTL DEF MapSpec

\* For every hash function, group size and load factor that MapAssumption allows, and
\* whatever is inserted and erased: the copy of the first group, the count of pairs and
\* the slots that hold none agree with the control bytes, and only a table that
\* tombstones have left without an empty slot is loaded beyond the maximum.
THEOREM TableStaysVerified == MapSpec => []TableVerifies
<1>1. ASSUME Good(store_) PROVE TableVerifies
  <2>1. Store(store_) /\ PairsInPlace(store_) /\ store_.size_ = Cardinality(Data(store_))
    BY <1>1 DEF Good
  <2>2. DOMAIN store_.slots_ = Places(store_) /\ DOMAIN store_.control_ = Controls(store_)
    BY <2>1 DEF Store
  <2>3. DataSlots = Data(store_)
    BY <2>2 DEF DataSlots, Data, Markers
  <2>4. ASSUME store_.n_group_ > 0
        PROVE  /\ \A i \in 0 .. GroupSize - 1:
                    store_.control_[Capacity(store_) + i] = store_.control_[i]
               /\ (store_.size_ - 1) * LoadDen >= LoadNum * Capacity(store_) =>
                    \A i \in DOMAIN store_.control_: store_.control_[i] # Empty
    <3>1. \A i \in 0 .. GroupSize - 1:
            store_.control_[Capacity(store_) + i] = store_.control_[i]
      BY <2>1, <2>4 DEF Store
    <3>2. ASSUME (store_.size_ - 1) * LoadDen >= LoadNum * Capacity(store_)
          PROVE  \A i \in DOMAIN store_.control_: store_.control_[i] # Empty
      <4>1. NoneEmpty(store_)
        BY <1>1, <2>4, <3>2 DEF Good
      <4> QED
        BY <2>1, <2>2, <4>1, FullFacts
    <3> QED
      BY <3>1, <3>2
  <2>5. \A i \in Places(store_) \ Data(store_): store_.slots_[i] = NoPair
    BY <2>1 DEF PairsInPlace
  <2> QED
    BY <2>1, <2>2, <2>3, <2>4, <2>5 DEF TableVerifies
<1> QED
  BY <1>1, AlwaysGood, PTL

\* In every table that calls can lead to, for every set of keys, a search finds each pair
\* once; an insertion that finds room, growing and erase have the effect they should have
\* on what searches find, and no other.
THEOREM CallsKeepContents == MapSpec => []CallsDoTheirPart
<1>1. ASSUME Good(store_) PROVE CallsDoTheirPart
  <2> DEFINE old == Contents(store_)
             D == DOMAIN old
  <2>1. /\ D \subseteq Key /\ old \in [D -> Int] /\ store_.size_ = Cardinality(D)
        /\ \A x \in Key, w \in Int: Maps(store_, x, w) <=> x \in D /\ old[x] = w
        /\ \A k \in D: /\ FindSlot(store_, k) \in Data(store_)
                       /\ store_.slots_[FindSlot(store_, k)][1] = k
    BY <1>1, ContentsFacts
  <2> HIDE DEF old
  <2>2. ASSUME NEW k \in Key, TryInsert(store_, k, Nil).at # Nil
        PROVE  Contents(TryInsert(store_, k, Nil).store)
                 = [x \in D \cup {k} |-> IF x = k THEN Nil ELSE old[x]]
    <3> DEFINE E == D \cup {k}
               F == [x \in E |-> IF x = k THEN Nil ELSE old[x]]
    <3>1. PICK try, new: try = TryInsert(store_, k, Nil) /\ new = try.store
      OBVIOUS
    <3>2. Nil \in Int
      BY DEF Nil
    <3>3. Good(new) /\ \A x \in Key, w \in Int:
            Maps(new, x, w) <=> IF x = k THEN w = Nil ELSE Maps(store_, x, w)
      BY <1>1, <2>2, <3>1, <3>2, InsertFacts
    <3>4. E \in SUBSET Key /\ F \in [E -> Int]
      BY <2>1, <3>2
    <3>5. ASSUME NEW x \in Key, NEW w \in Int PROVE Maps(new, x, w) <=> x \in E /\ F[x] = w
      BY <2>1, <3>3
    <3> HIDE DEF E, F, D
    <3>6. \A x \in Key, w \in Int: Maps(new, x, w) <=> x \in E /\ F[x] = w
      BY <3>5
    <3>7. Good(new)
      BY <3>3
    <3>8. Contents(new) = F
      BY ONLY <3>4, <3>6, <3>7, ContentsAre
    <3> QED
      BY <3>1, <3>8 DEF F, E, D
  <2>3. ASSUME AtMaxLoad(store_)
        PROVE  Contents(Grow(store_)) = old /\ ~AtMaxLoad(Grow(store_))
    <3>1. PICK new: new = Grow(store_)
      OBVIOUS
    <3>2. /\ Good(new) /\ ~AtMaxLoad(new)
          /\ \A x \in Key, w \in Int: Maps(new, x, w) <=> Maps(store_, x, w)
      BY <1>1, <3>1, GrowFacts
    <3> HIDE DEF D
    <3>3. Contents(new) = old
      BY <2>1, <3>2, ContentsAre
    <3> QED
      BY <3>1, <3>2, <3>3
  <2>4. ASSUME NEW k \in D
        PROVE  Contents(Erased(store_, FindSlot(store_, k))) = [x \in D \ {k} |-> old[x]]
    <3> DEFINE E == D \ {k}
               F == [x \in E |-> old[x]]
    <3>1. PICK ix, new: ix = FindSlot(store_, k) /\ new = Erased(store_, ix)
      OBVIOUS
    <3>2. ix \in Data(store_) /\ store_.slots_[ix][1] = k
      BY <2>1, <3>1
    <3>3. Good(new) /\ \A x \in Key, w \in Int: Maps(new, x, w) <=> x # k /\ Maps(store_, x, w)
      BY <1>1, <3>1, <3>2, EraseFacts
    <3>4. E \in SUBSET Key /\ F \in [E -> Int]
      BY <2>1
    <3>5. ASSUME NEW x \in Key, NEW w \in Int PROVE Maps(new, x, w) <=> x \in E /\ F[x] = w
      BY <2>1, <3>3
    <3> HIDE DEF E, F
    <3>6. Contents(new) = F
      BY <3>3, <3>4, <3>5, ContentsAre
    <3> QED
      BY <3>1, <3>6 DEF F, E
  <2> QED
    BY <2>1, <2>2, <2>3, <2>4 DEF CallsDoTheirPart, old
<1> QED
  BY <1>1, AlwaysGood, PTL
================================================================================
