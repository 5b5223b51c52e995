----------------------------- MODULE DeferralProofs -----------------------------
(* Theorems about the two components that put off, while callbacks run, what the    *)
(* callbacks ask for: the callback set and the simulator. Both keep a vector of      *)
(* commands and perform it, one after the other, when the callbacks have ended. What *)
(* a fold over such a vector computes is proved once for each of the two.            *)
EXTENDS CallbackSet, Simulator, NaturalsInduction, WellFoundedInduction, FiniteSetTheorems, TLAPS

-----------------------------------------------------------------------------
(* Natural numbers and positions. *)

\* A set of natural numbers that is not empty has a least member.
LEMMA LeastNatural ==
  ASSUME NEW S \in SUBSET Nat, S # {}
  PROVE  \E m \in S : \A n \in S : m <= n
<1>1. \E m \in S : \A n \in S : <<n, m>> \notin OpToRel(<, Nat)
  BY WFMin, NatLessThanWellFounded
<1>2. PICK m \in S : \A n \in S : <<n, m>> \notin OpToRel(<, Nat)
  BY <1>1
<1>3. \A n \in S : ~(n < m)
  BY <1>2, Zenon DEF OpToRel
<1>4. QED
  BY <1>3

\* Induction, for a set of natural numbers.
LEMMA NatSetInduction ==
  ASSUME NEW S \in SUBSET Nat, 0 \in S, \A n \in S : n + 1 \in S
  PROVE  S = Nat
<1>1. SUFFICES ASSUME Nat \ S # {} PROVE FALSE
  OBVIOUS
<1>2. PICK x \in Nat \ S : \A y \in Nat \ S : x <= y
  <2> DEFINE Q == Nat \ S
  <2>1. Q \in SUBSET Nat /\ Q # {}
    BY <1>1
  <2> HIDE DEF Q
  <2>2. \E n \in Q : \A m \in Q : n <= m
    BY <2>1, LeastNatural
  <2>3. QED
    BY <2>2 DEF Q
<1>3. x # 0 /\ x - 1 \in Nat
  BY <1>2
<1>4. x - 1 \in S
  <2>1. ~(x <= x - 1)
    BY <1>3
  <2>2. QED
    BY <1>2, <1>3, <2>1
<1>5. x \in S
  <2>1. (x - 1) + 1 = x
    BY <1>2
  <2>2. QED
    BY <1>4, <2>1
<1>6. QED
  BY <1>2, <1>5

\* The last position of a set of positions is its greatest.
LEMMA MaxIsLast ==
  ASSUME NEW m \in Nat, NEW s \in SUBSET (1 .. m + 1), m + 1 \in s
  PROVE  Max(s) = m + 1
<1>1. Max(s) = CHOOSE x \in s: \A y \in s: x >= y
  BY DEF Max
<1>2. \A y \in s: m + 1 >= y /\ y \in Nat
  OBVIOUS
<1>3. ASSUME NEW x \in s, \A y \in s: x >= y PROVE x = m + 1
  BY <1>2, <1>3
<1> QED
  BY <1>1, <1>2, <1>3

\* The positions up to i, without the last.
LEMMA MaxOfInterval ==
  ASSUME NEW i \in Nat \ {0}
  PROVE  Max(1 .. i) = i /\ (1 .. i) \ {i} = 1 .. i - 1
<1>1. i - 1 \in Nat /\ 1 .. i \in SUBSET (1 .. (i - 1) + 1) /\ (i - 1) + 1 \in 1 .. i
  OBVIOUS
<1>2. Max(1 .. i) = (i - 1) + 1
  BY <1>1, MaxIsLast
<1> QED
  BY <1>2

-----------------------------------------------------------------------------
(* CallbackSet. No loop over the callbacks is disturbed by a change unless a         *)
(* callback invoked its own set. The reason is kept by OneLoop: without nesting at   *)
(* most one loop is open, and the set is running as long as it is, so that changes   *)
(* are put off until it has ended.                                                   *)

OneLoop ==
  ~nested => /\ loops \in {<<>>} \cup {<<n>>: n \in Nat}
             /\ loops # <<>> => cb_running_
             /\ cb_fault # "iterating"

\* Front of a sequence of one, where the library takes a subsequence.
LEMMA FrontOfOne == ASSUME NEW n PROVE Front(<<n>>) = <<>>
BY DEF Front

\* A loop that is the only one leaves none behind, and a change disturbs none.
LEMMA NoneDisturbed == Disturbed(<<>>) = "none"
BY DEF Disturbed

LEMMA InitOneLoop == CallbackInit => OneLoop
BY DEF CallbackInit, OneLoop

\* Adding and removing: with a loop open the change is put off, without one nothing is
\* disturbed.
LEMMA ChangeKeepsOneLoop ==
  ASSUME OneLoop, AddCallback \/ \E id \in 1 .. last_id: RemoveCallback(id)
  PROVE  OneLoop'
<1> SUFFICES ASSUME ~nested' PROVE OneLoop'
  BY DEF OneLoop
<1>1. UNCHANGED <<loops, cb_running_, nested>>
  BY DEF AddCallback, RemoveCallback
<1>2. loops = <<>> \/ cb_running_
  BY <1>1 DEF OneLoop
<1>3. CASE cb_running_
  <2>1. UNCHANGED cb_fault
    BY <1>3 DEF AddCallback, RemoveCallback, Defers
  <2> QED
    BY <1>1, <2>1 DEF OneLoop
<1>4. CASE ~cb_running_
  <2>1. cb_fault' = "none"
    BY <1>2, <1>4, NoneDisturbed DEF AddCallback, RemoveCallback, Defers
  <2> QED
    BY <1>1, <2>1 DEF OneLoop
<1> QED
  BY <1>3, <1>4

\* The end of the only loop, by a return or by an exception, lets the changes through
\* when no loop is open.
LEMMA EndKeepsOneLoop ==
  ASSUME OneLoop, loops # <<>>, EndLoop
  PROVE  OneLoop'
<1> SUFFICES ASSUME ~nested' PROVE OneLoop'
  BY DEF OneLoop
<1>1. ~nested /\ UNCHANGED nested
  BY DEF EndLoop
<1>2. PICK n \in Nat: loops = <<n>>
  BY <1>1 DEF OneLoop
<1>3. Front(loops) = <<>> /\ loops' = <<>>
  BY <1>2, FrontOfOne DEF EndLoop
<1>4. cb_fault' \in HookOutcomes(cb_cmd_v_)
  BY <1>3, NoneDisturbed DEF EndLoop, MakeDeferredChanges
<1>5. cb_fault' # "iterating"
  BY <1>4 DEF HookOutcomes
<1> QED
  BY <1>3, <1>5 DEF OneLoop

LEMMA InvokeKeepsOneLoop ==
  ASSUME OneLoop, Invoke
  PROVE  OneLoop'
<1> SUFFICES ASSUME ~nested' PROVE OneLoop'
  BY DEF OneLoop
<1>1. loops = <<>> /\ ~nested /\ cb_running_' /\ UNCHANGED cb_fault
  BY DEF Invoke
<1>2. loops' = <<0>>
  BY <1>1 DEF Invoke
<1> QED
  BY <1>1, <1>2 DEF OneLoop

LEMMA CallKeepsOneLoop ==
  ASSUME OneLoop, CallNext
  PROVE  OneLoop'
<1> SUFFICES ASSUME ~nested' PROVE OneLoop'
  BY DEF OneLoop
<1>1. ~nested /\ loops # <<>> /\ UNCHANGED <<cb_running_, cb_fault, nested>>
  BY DEF CallNext
<1>2. PICK n \in Nat: loops = <<n>>
  BY <1>1 DEF OneLoop
<1>3. loops' = <<n + 1>>
  BY <1>2 DEF CallNext
<1> QED
  BY <1>1, <1>2, <1>3 DEF OneLoop

\* For any number of callbacks and of changes in one invocation: as long as no callback
\* invokes its own set, no loop iterates over a vector that has changed.
THEOREM LoopsStayUndisturbed == CallbackSpec => []LoopsUndisturbed
<1>1. CallbackInit => OneLoop
  BY InitOneLoop
<1>2. OneLoop /\ [CallbackNext]_cbVars => OneLoop'
  <2> SUFFICES ASSUME OneLoop, [CallbackNext]_cbVars PROVE OneLoop'
    OBVIOUS
  <2>1. CASE AddCallback \/ \E id \in 1 .. last_id: RemoveCallback(id)
    BY <2>1, ChangeKeepsOneLoop
  <2>2. CASE Invoke
    BY <2>2, InvokeKeepsOneLoop
  <2>3. CASE CallNext
    BY <2>3, CallKeepsOneLoop
  <2>4. CASE EndInvoke \/ ThrowFromCallback
    BY <2>4, EndKeepsOneLoop DEF EndInvoke, ThrowFromCallback
  <2>5. CASE UNCHANGED cbVars
    BY <2>5 DEF cbVars, OneLoop
  <2> QED
    BY <2>1, <2>2, <2>3, <2>4, <2>5 DEF CallbackNext
<1>3. OneLoop => LoopsUndisturbed
  BY DEF OneLoop, LoopsUndisturbed
<1> QED
  BY <1>1, <1>2, <1>3, PTL DEF CallbackSpec

\* What the library's fold of Applied over n changes computes, on sets of positions.
ChangesFolded(f, V, n, b, cmds) ==
  /\ f \in [SUBSET (1 .. n) -> V]
  /\ \A s \in SUBSET (1 .. n):
       f[s] = IF s = {} THEN b ELSE Applied(f[s \ {Max(s)}], cmds[Max(s)])

\* The function by which the library folds Applied over a sequence of changes exists.
LEMMA ChangesExists ==
  ASSUME NEW n \in Nat, NEW b, NEW cmds
  PROVE  \E V, f: ChangesFolded(f, V, n, b, cmds)
<1> DEFINE Computes(f, m) ==
             \A s \in SUBSET (1 .. m):
               f[s] = IF s = {} THEN b ELSE Applied(f[s \ {Max(s)}], cmds[Max(s)])
           S == {m \in Nat: \E f: Computes(f, m)}
<1>1. 0 \in S
  <2> DEFINE f == [s \in SUBSET (1 .. 0) |-> b]
  <2>1. \A s \in SUBSET (1 .. 0): s = {} /\ f[s] = b
    OBVIOUS
  <2> HIDE DEF f
  <2>2. Computes(f, 0)
    BY <2>1
  <2> QED
    BY <2>2
<1>2. ASSUME NEW m \in S PROVE m + 1 \in S
  <2>1. m \in Nat /\ m + 1 \in Nat
    OBVIOUS
  <2>2. PICK f: Computes(f, m)
    <3> HIDE DEF Computes
    <3> QED
      OBVIOUS
  <2> DEFINE h == [s \in SUBSET (1 .. m + 1) |->
                     IF m + 1 \in s THEN Applied(f[s \ {m + 1}], cmds[m + 1]) ELSE f[s]]
  <2>3. \A s \in SUBSET (1 .. m + 1): m + 1 \notin s => h[s] = f[s]
    OBVIOUS
  <2>4. \A s \in SUBSET (1 .. m + 1):
          m + 1 \in s => h[s] = Applied(f[s \ {m + 1}], cmds[m + 1])
    OBVIOUS
  <2> HIDE DEF h
  <2>5. ASSUME NEW s \in SUBSET (1 .. m + 1)
        PROVE  h[s] = IF s = {} THEN b ELSE Applied(h[s \ {Max(s)}], cmds[Max(s)])
    <3>1. CASE m + 1 \in s
      <4>1. s \ {m + 1} \in SUBSET (1 .. m + 1) /\ m + 1 \notin s \ {m + 1} /\ s # {}
        BY <3>1
      <4>2. h[s \ {m + 1}] = f[s \ {m + 1}]
        BY <2>3, <4>1
      <4>3. Max(s) = m + 1
        BY <2>1, <3>1, MaxIsLast
      <4> QED
        BY <2>4, <3>1, <4>1, <4>2, <4>3
    <3>2. CASE m + 1 \notin s
      <4>1. s \in SUBSET (1 .. m) /\ h[s] = f[s]
        BY <2>1, <2>3, <3>2
      <4>2. s \ {Max(s)} \in SUBSET (1 .. m + 1) /\ m + 1 \notin s \ {Max(s)}
        BY <3>2
      <4>3. h[s \ {Max(s)}] = f[s \ {Max(s)}]
        BY <2>3, <4>2
      <4>4. f[s] = IF s = {} THEN b ELSE Applied(f[s \ {Max(s)}], cmds[Max(s)])
        BY <2>2, <4>1
      <4> QED
        BY <4>1, <4>3, <4>4
    <3> QED
      BY <3>1, <3>2
  <2>6. Computes(h, m + 1)
    BY <2>5
  <2> HIDE DEF Computes
  <2> QED
    BY <2>1, <2>6
<1>3. S = Nat
  <2>1. S \in SUBSET Nat
    OBVIOUS
  <2> HIDE DEF S
  <2> QED
    BY <1>1, <1>2, <2>1, NatSetInduction
<1>4. PICK f: Computes(f, n)
  <2>1. n \in S
    <3> HIDE DEF S
    <3> QED
      BY <1>3
  <2> HIDE DEF Computes
  <2> QED
    BY <2>1
<1> DEFINE V == {f[s]: s \in SUBSET (1 .. n)}
           g == [s \in SUBSET (1 .. n) |-> f[s]]
<1>5. g \in [SUBSET (1 .. n) -> V]
  OBVIOUS
<1>6. \A s \in SUBSET (1 .. n): g[s] = f[s] /\ g[s \ {Max(s)}] = f[s \ {Max(s)}]
  OBVIOUS
<1> HIDE DEF g, V
<1>7. \A s \in SUBSET (1 .. n):
        g[s] = IF s = {} THEN b ELSE Applied(g[s \ {Max(s)}], cmds[Max(s)])
  BY <1>4, <1>6
<1> QED
  BY <1>5, <1>7 DEF ChangesFolded

\* What make_deferred_changes makes of the vector b.
Made(b, cmds) == FoldLeft(Applied, b, cmds)

\* g[i] is what the first i changes make of b.
ChangesRun(g, n, b, cmds) ==
  g[0] = b /\ \A i \in 1 .. n: g[i] = Applied(g[i - 1], cmds[i])

\* The fold makes one change after the other.
LEMMA ChangesByRun ==
  ASSUME NEW n \in Nat, NEW b, NEW cmds, DOMAIN cmds = 1 .. n
  PROVE  \E g: ChangesRun(g, n, b, cmds) /\ Made(b, cmds) = g[n]
<1> DEFINE Eq(h) == h = [s \in SUBSET (1 .. n) |->
                           IF s = {} THEN b ELSE Applied(h[s \ {Max(s)}], cmds[Max(s)])]
<1>1. Eq(CHOOSE h: Eq(h))
  <2>1. PICK V, h: ChangesFolded(h, V, n, b, cmds)
    BY ChangesExists
  <2>2. Eq(h)
    BY <2>1 DEF ChangesFolded
  <2> HIDE DEF Eq
  <2> QED
    BY <2>2
<1>2. Made(b, cmds) = (CHOOSE h: Eq(h))[1 .. n]
  BY Zenon DEF Made, FoldLeft, MapThenFoldSet
<1> HIDE DEF Eq
<1>3. PICK h: Eq(h) /\ Made(b, cmds) = h[1 .. n]
  BY <1>1, <1>2
<1>4. \A s \in SUBSET (1 .. n):
        h[s] = IF s = {} THEN b ELSE Applied(h[s \ {Max(s)}], cmds[Max(s)])
  <2>1. h = [s \in SUBSET (1 .. n) |->
               IF s = {} THEN b ELSE Applied(h[s \ {Max(s)}], cmds[Max(s)])]
    BY <1>3 DEF Eq
  <2> QED
    BY <2>1
<1> DEFINE g == [i \in 0 .. n |-> h[1 .. i]]
<1>5. g[0] = b
  <2>1. 1 .. 0 = {} /\ 0 \in 0 .. n
    OBVIOUS
  <2> QED
    BY <1>4, <2>1
<1>6. ASSUME NEW i \in 1 .. n PROVE g[i] = Applied(g[i - 1], cmds[i])
  <2>1. 1 .. i \in SUBSET (1 .. n) /\ i \in 1 .. i /\ i \in Nat \ {0}
    OBVIOUS
  <2>2. Max(1 .. i) = i /\ (1 .. i) \ {i} = 1 .. i - 1
    BY <2>1, MaxOfInterval
  <2>3. h[1 .. i] = Applied(h[1 .. i - 1], cmds[i])
    BY <1>4, <2>1, <2>2
  <2>4. i \in 0 .. n /\ i - 1 \in 0 .. n
    OBVIOUS
  <2> QED
    BY <2>3, <2>4
<1>7. g[n] = h[1 .. n]
  OBVIOUS
<1> HIDE DEF g
<1>8. ChangesRun(g, n, b, cmds)
  BY <1>5, <1>6 DEF ChangesRun
<1> QED
  BY <1>3, <1>7, <1>8

\* Without changes the fold leaves the vector alone; a change that comes last is made last.
LEMMA NoChanges == ASSUME NEW b PROVE Made(b, <<>>) = b
<1>1. DOMAIN <<>> = 1 .. 0 /\ 0 \in Nat
  OBVIOUS
<1>2. PICK g: ChangesRun(g, 0, b, <<>>) /\ Made(b, <<>>) = g[0]
  BY <1>1, ChangesByRun
<1> QED
  BY <1>2 DEF ChangesRun

LEMMA OneMoreChange ==
  ASSUME NEW C, NEW b, NEW cmds \in Seq(C), NEW c \in C
  PROVE  Made(b, Append(cmds, c)) = Applied(Made(b, cmds), c)
<1> DEFINE n == Len(cmds)
           more == Append(cmds, c)
<1>1. n \in Nat /\ DOMAIN cmds = 1 .. n /\ n + 1 \in Nat /\ DOMAIN more = 1 .. n + 1
  OBVIOUS
<1>2. more[n + 1] = c /\ \A i \in 1 .. n: more[i] = cmds[i]
  OBVIOUS
<1> HIDE DEF n, more
<1>3. PICK g: ChangesRun(g, n, b, cmds) /\ Made(b, cmds) = g[n]
  BY <1>1, ChangesByRun
<1>4. PICK h: ChangesRun(h, n + 1, b, more) /\ Made(b, more) = h[n + 1]
  BY <1>1, ChangesByRun
<1> DEFINE S == {i \in Nat: i <= n => g[i] = h[i]}
<1>5. S = Nat
  <2>1. S \in SUBSET Nat /\ 0 \in S
    BY <1>3, <1>4 DEF ChangesRun
  <2>2. ASSUME NEW i \in S PROVE i + 1 \in S
    <3>1. i \in Nat /\ (i + 1) - 1 = i
      OBVIOUS
    <3>2. SUFFICES ASSUME i + 1 <= n PROVE g[i + 1] = h[i + 1]
      BY <3>1
    <3>3. i + 1 \in 1 .. n /\ i + 1 \in 1 .. n + 1 /\ g[i] = h[i]
      BY <1>1, <3>1, <3>2
    <3>4. g[i + 1] = Applied(g[i], cmds[i + 1]) /\ h[i + 1] = Applied(h[i], more[i + 1])
      BY <1>3, <1>4, <3>1, <3>3 DEF ChangesRun
    <3> QED
      BY <1>2, <3>3, <3>4
  <2> HIDE DEF S
  <2> QED
    BY <2>1, <2>2, NatSetInduction
<1>6. g[n] = h[n]
  <2>1. n \in S /\ n <= n
    <3> HIDE DEF S
    <3> QED
      BY <1>1, <1>5
  <2> QED
    BY <2>1
<1>7. n + 1 \in 1 .. n + 1 /\ (n + 1) - 1 = n
  BY <1>1
<1>8. h[n + 1] = Applied(h[n], c)
  BY <1>2, <1>4, <1>7 DEF ChangesRun
<1>9. Made(b, more) = Applied(Made(b, cmds), c)
  BY <1>3, <1>4, <1>6, <1>8
<1> QED
  BY <1>9 DEF more

-----------------------------------------------------------------------------
(* The changes asked for are the vector with the changes made that were put off. *)

Changes == [add: BOOLEAN, id: Nat]

ChangesInv ==
  /\ last_id \in Nat /\ cb_cmd_v_ \in Seq(Changes) /\ loops \in Seq(Nat)
  /\ Made(cb_v_, cb_cmd_v_) = asked
  /\ ~cb_running_ => cb_cmd_v_ = <<>>
  /\ cb_running_ => loops # <<>>

LEMMA InitChanges == CallbackInit => ChangesInv
<1> SUFFICES ASSUME CallbackInit PROVE ChangesInv
  OBVIOUS
<1>1. /\ cb_v_ = <<>> /\ cb_cmd_v_ = <<>> /\ asked = <<>> /\ loops = <<>>
      /\ last_id = 0 /\ ~cb_running_
  BY DEF CallbackInit
<1>2. Made(<<>>, <<>>) = <<>>
  BY NoChanges
<1>3. Made(cb_v_, cb_cmd_v_) = asked
  BY <1>1, <1>2
<1> QED
  BY <1>1, <1>3 DEF ChangesInv

\* A change is asked for and made, or put off behind the others.
LEMMA ChangeMadeOrPutOff ==
  ASSUME ChangesInv, NEW cmd \in Changes, asked' = Applied(asked, cmd),
         IF cb_running_
         THEN cb_cmd_v_' = Append(cb_cmd_v_, cmd) /\ UNCHANGED cb_v_
         ELSE cb_v_' = Applied(cb_v_, cmd) /\ UNCHANGED cb_cmd_v_,
         UNCHANGED <<cb_running_, loops>>, last_id' \in Nat
  PROVE  ChangesInv'
<1>1. cb_cmd_v_' \in Seq(Changes) /\ loops' \in Seq(Nat)
  <2>1. cb_cmd_v_ \in Seq(Changes) /\ Append(cb_cmd_v_, cmd) \in Seq(Changes)
    BY DEF ChangesInv
  <2>2. cb_cmd_v_' = cb_cmd_v_ \/ cb_cmd_v_' = Append(cb_cmd_v_, cmd)
    OBVIOUS
  <2>3. loops' = loops
    OBVIOUS
  <2> QED
    BY <2>1, <2>2, <2>3 DEF ChangesInv
<1>2. Made(cb_v_', cb_cmd_v_') = asked'
  <2>1. CASE cb_running_
    <3>1. Made(cb_v_, Append(cb_cmd_v_, cmd))
            = Applied(Made(cb_v_, cb_cmd_v_), cmd)
      BY OneMoreChange DEF ChangesInv
    <3> QED
      BY <2>1, <3>1 DEF ChangesInv
  <2>2. CASE ~cb_running_
    <3>1. cb_cmd_v_ = <<>> /\ Made(cb_v_, <<>>) = cb_v_
      BY <2>2, NoChanges DEF ChangesInv
    <3>2. Made(cb_v_', <<>>) = cb_v_'
      BY NoChanges
    <3>3. asked = cb_v_
      BY <3>1 DEF ChangesInv
    <3> QED
      BY <2>2, <3>1, <3>2, <3>3
  <2> QED
    BY <2>1, <2>2
<1>3. /\ ~cb_running_' => cb_cmd_v_' = <<>>
      /\ cb_running_' => loops' # <<>>
  BY DEF ChangesInv
<1>4. Made(cb_v_, cb_cmd_v_)' = asked'
  BY <1>2
<1> QED
  BY <1>1, <1>3, <1>4 DEF ChangesInv

LEMMA AddKeepsChanges ==
  ASSUME ChangesInv, AddCallback
  PROVE  ChangesInv'
<1> DEFINE cmd == [add |-> TRUE, id |-> last_id + 1]
<1>1. cmd \in Changes /\ last_id' \in Nat
  BY DEF AddCallback, Changes, ChangesInv
<1>2. \A v: Applied(v, cmd) = Append(v, last_id + 1)
  BY DEF Applied
<1>3. asked' = Applied(asked, cmd)
  BY <1>2 DEF AddCallback
<1>4. IF cb_running_
      THEN cb_cmd_v_' = Append(cb_cmd_v_, cmd) /\ UNCHANGED cb_v_
      ELSE cb_v_' = Applied(cb_v_, cmd) /\ UNCHANGED cb_cmd_v_
  BY <1>2 DEF AddCallback, Defers
<1>5. UNCHANGED <<cb_running_, loops>>
  BY DEF AddCallback
<1> HIDE DEF cmd
<1> QED
  BY <1>1, <1>3, <1>4, <1>5, ChangeMadeOrPutOff

LEMMA RemoveKeepsChanges ==
  ASSUME ChangesInv, NEW id \in 1 .. last_id, RemoveCallback(id)
  PROVE  ChangesInv'
<1> DEFINE cmd == [add |-> FALSE, id |-> id]
<1>1. cmd \in Changes /\ last_id' \in Nat
  BY DEF RemoveCallback, Changes, ChangesInv
<1>2. \A v: Applied(v, cmd) = Without(v, id)
  BY DEF Applied
<1>3. asked' = Applied(asked, cmd)
  BY <1>2 DEF RemoveCallback
<1>4. IF cb_running_
      THEN cb_cmd_v_' = Append(cb_cmd_v_, cmd) /\ UNCHANGED cb_v_
      ELSE cb_v_' = Applied(cb_v_, cmd) /\ UNCHANGED cb_cmd_v_
  BY <1>2 DEF RemoveCallback, Defers
<1>5. UNCHANGED <<cb_running_, loops>>
  BY DEF RemoveCallback
<1> HIDE DEF cmd
<1> QED
  BY <1>1, <1>3, <1>4, <1>5, ChangeMadeOrPutOff

\* The end of a loop makes what was put off.
LEMMA EndKeepsChanges ==
  ASSUME ChangesInv, loops # <<>>, EndLoop
  PROVE  ChangesInv'
<1>1. /\ cb_v_' = Made(cb_v_, cb_cmd_v_) /\ cb_cmd_v_' = <<>>
      /\ ~cb_running_' /\ asked' = asked /\ last_id' = last_id
      /\ loops' = Front(loops)
  BY DEF EndLoop, MakeDeferredChanges, Made
<1>2. loops' \in Seq(Nat)
  BY <1>1 DEF ChangesInv, Front
<1>3. Made(cb_v_', <<>>) = cb_v_'
  BY NoChanges
<1>4. Made(cb_v_', cb_cmd_v_') = asked'
  BY <1>1, <1>3 DEF ChangesInv
<1>5. Made(cb_v_, cb_cmd_v_)' = asked'
  BY <1>4
<1>6. cb_cmd_v_' \in Seq(Changes) /\ last_id' \in Nat
  BY <1>1 DEF ChangesInv
<1> QED
  BY <1>1, <1>2, <1>5, <1>6 DEF ChangesInv

\* A loop is begun, or goes on.
LEMMA LoopKeepsChanges ==
  ASSUME ChangesInv, Invoke \/ CallNext
  PROVE  ChangesInv'
<1>1. UNCHANGED <<cb_v_, cb_cmd_v_, asked, last_id>>
  BY DEF Invoke, CallNext
<1>2. loops' \in Seq(Nat) /\ loops' # <<>>
  <2>1. loops \in Seq(Nat)
    BY DEF ChangesInv
  <2>2. CASE Invoke
    <3>1. Append(loops, 0) \in Seq(Nat) /\ Append(loops, 0) # <<>>
      BY <2>1
    <3> QED
      BY <2>2, <3>1 DEF Invoke
  <2>3. CASE CallNext
    <3>1. loops # <<>> /\ loops' = [loops EXCEPT ![Len(loops)] = loops[Len(loops)] + 1]
      BY <2>3 DEF CallNext
    <3>2. Len(loops) \in 1 .. Len(loops) /\ loops[Len(loops)] + 1 \in Nat
      BY <2>1, <3>1
    <3> QED
      BY <2>1, <3>1, <3>2
  <2> QED
    BY <2>2, <2>3
<1>3. ~cb_running_' => ~cb_running_
  BY DEF Invoke, CallNext
<1>4. Made(cb_v_, cb_cmd_v_)' = Made(cb_v_, cb_cmd_v_)
  BY <1>1
<1> QED
  BY <1>1, <1>2, <1>3, <1>4 DEF ChangesInv

LEMMA StepKeepsChanges == ChangesInv /\ [CallbackNext]_cbVars => ChangesInv'
<1> SUFFICES ASSUME ChangesInv, [CallbackNext]_cbVars PROVE ChangesInv'
  OBVIOUS
<1>1. CASE AddCallback
  BY <1>1, AddKeepsChanges
<1>2. CASE \E id \in 1 .. last_id: RemoveCallback(id)
  BY <1>2, RemoveKeepsChanges
<1>3. CASE Invoke \/ CallNext
  BY <1>3, LoopKeepsChanges
<1>4. CASE EndInvoke \/ ThrowFromCallback
  BY <1>4, EndKeepsChanges DEF EndInvoke, ThrowFromCallback
<1>5. CASE UNCHANGED cbVars
  <2>1. UNCHANGED <<cb_v_, cb_running_, cb_cmd_v_, last_id, loops, asked>>
    BY <1>5 DEF cbVars
  <2>2. Made(cb_v_, cb_cmd_v_)' = Made(cb_v_, cb_cmd_v_)
    BY <2>1
  <2> QED
    BY <2>1, <2>2 DEF ChangesInv
<1> QED
  BY <1>1, <1>2, <1>3, <1>4, <1>5 DEF CallbackNext

\* When no callback is running, also after a throw, what was asked for has been made, in
\* the order of the calls (CallbackSetImpl::invoke, make_deferred_changes).
THEOREM EveryChangeIsMade == CallbackSpec => []ChangesAreMade
<1>1. ChangesInv => ChangesAreMade
  <2> SUFFICES ASSUME ChangesInv, loops = <<>>
               PROVE  cb_v_ = asked /\ ~cb_running_ /\ cb_cmd_v_ = <<>>
    BY DEF ChangesAreMade
  <2>1. ~cb_running_ /\ cb_cmd_v_ = <<>>
    BY DEF ChangesInv
  <2>2. Made(cb_v_, <<>>) = cb_v_
    BY NoChanges
  <2> QED
    BY <2>1, <2>2 DEF ChangesInv
<1> QED
  BY InitChanges, StepKeepsChanges, <1>1, PTL DEF CallbackSpec

-----------------------------------------------------------------------------
(* The simulator. *)

\* What the library's fold of Perform over n commands computes, on sets of positions.
CommandsFolded(f, V, n, b, cmds, ev) ==
  /\ f \in [SUBSET (1 .. n) -> V]
  /\ \A s \in SUBSET (1 .. n):
       f[s] = IF s = {} THEN b ELSE Perform(f[s \ {Max(s)}], cmds[Max(s)], ev)

\* The function by which the library folds Perform over a sequence of commands exists.
LEMMA CommandsExists ==
  ASSUME NEW n \in Nat, NEW b, NEW cmds, NEW ev
  PROVE  \E V, f: CommandsFolded(f, V, n, b, cmds, ev)
<1> DEFINE Computes(f, m) ==
             \A s \in SUBSET (1 .. m):
               f[s] = IF s = {} THEN b ELSE Perform(f[s \ {Max(s)}], cmds[Max(s)], ev)
           S == {m \in Nat: \E f: Computes(f, m)}
<1>1. 0 \in S
  <2> DEFINE f == [s \in SUBSET (1 .. 0) |-> b]
  <2>1. \A s \in SUBSET (1 .. 0): s = {} /\ f[s] = b
    OBVIOUS
  <2> HIDE DEF f
  <2>2. Computes(f, 0)
    BY <2>1
  <2> QED
    BY <2>2
<1>2. ASSUME NEW m \in S PROVE m + 1 \in S
  <2>1. m \in Nat /\ m + 1 \in Nat
    OBVIOUS
  <2>2. PICK f: Computes(f, m)
    <3> HIDE DEF Computes
    <3> QED
      OBVIOUS
  <2> DEFINE h == [s \in SUBSET (1 .. m + 1) |->
                     IF m + 1 \in s THEN Perform(f[s \ {m + 1}], cmds[m + 1], ev) ELSE f[s]]
  <2>3. \A s \in SUBSET (1 .. m + 1): m + 1 \notin s => h[s] = f[s]
    OBVIOUS
  <2>4. \A s \in SUBSET (1 .. m + 1):
          m + 1 \in s => h[s] = Perform(f[s \ {m + 1}], cmds[m + 1], ev)
    OBVIOUS
  <2> HIDE DEF h
  <2>5. ASSUME NEW s \in SUBSET (1 .. m + 1)
        PROVE  h[s] = IF s = {} THEN b ELSE Perform(h[s \ {Max(s)}], cmds[Max(s)], ev)
    <3>1. CASE m + 1 \in s
      <4>1. s \ {m + 1} \in SUBSET (1 .. m + 1) /\ m + 1 \notin s \ {m + 1} /\ s # {}
        BY <3>1
      <4>2. h[s \ {m + 1}] = f[s \ {m + 1}]
        BY <2>3, <4>1
      <4>3. Max(s) = m + 1
        BY <2>1, <3>1, MaxIsLast
      <4> QED
        BY <2>4, <3>1, <4>1, <4>2, <4>3
    <3>2. CASE m + 1 \notin s
      <4>1. s \in SUBSET (1 .. m) /\ h[s] = f[s]
        BY <2>1, <2>3, <3>2
      <4>2. s \ {Max(s)} \in SUBSET (1 .. m + 1) /\ m + 1 \notin s \ {Max(s)}
        BY <3>2
      <4>3. h[s \ {Max(s)}] = f[s \ {Max(s)}]
        BY <2>3, <4>2
      <4>4. f[s] = IF s = {} THEN b ELSE Perform(f[s \ {Max(s)}], cmds[Max(s)], ev)
        BY <2>2, <4>1
      <4> QED
        BY <4>1, <4>3, <4>4
    <3> QED
      BY <3>1, <3>2
  <2>6. Computes(h, m + 1)
    BY <2>5
  <2> HIDE DEF Computes
  <2> QED
    BY <2>1, <2>6
<1>3. S = Nat
  <2>1. S \in SUBSET Nat
    OBVIOUS
  <2> HIDE DEF S
  <2> QED
    BY <1>1, <1>2, <2>1, NatSetInduction
<1>4. PICK f: Computes(f, n)
  <2>1. n \in S
    <3> HIDE DEF S
    <3> QED
      BY <1>3
  <2> HIDE DEF Computes
  <2> QED
    BY <2>1
<1> DEFINE V == {f[s]: s \in SUBSET (1 .. n)}
           g == [s \in SUBSET (1 .. n) |-> f[s]]
<1>5. g \in [SUBSET (1 .. n) -> V]
  OBVIOUS
<1>6. \A s \in SUBSET (1 .. n): g[s] = f[s] /\ g[s \ {Max(s)}] = f[s \ {Max(s)}]
  OBVIOUS
<1> HIDE DEF g, V
<1>7. \A s \in SUBSET (1 .. n):
        g[s] = IF s = {} THEN b ELSE Perform(g[s \ {Max(s)}], cmds[Max(s)], ev)
  BY <1>4, <1>6
<1> QED
  BY <1>5, <1>7 DEF CommandsFolded

\* What complete_delivery_work makes of the heap b when the sources hold ev.
Performed(b, cmds, ev) == FoldLeft(LAMBDA st, cmd: Perform(st, cmd, ev), b, cmds)

\* g[i] is what the first i commands make of b.
CommandsRun(g, n, b, cmds, ev) ==
  g[0] = b /\ \A i \in 1 .. n: g[i] = Perform(g[i - 1], cmds[i], ev)

\* The fold performs one command after the other.
LEMMA CommandsByRun ==
  ASSUME NEW n \in Nat, NEW b, NEW cmds, DOMAIN cmds = 1 .. n, NEW ev
  PROVE  \E g: CommandsRun(g, n, b, cmds, ev) /\ Performed(b, cmds, ev) = g[n]
<1> DEFINE Eq(h) == h = [s \in SUBSET (1 .. n) |->
                           IF s = {} THEN b ELSE Perform(h[s \ {Max(s)}], cmds[Max(s)], ev)]
<1>1. Eq(CHOOSE h: Eq(h))
  <2>1. PICK V, h: CommandsFolded(h, V, n, b, cmds, ev)
    BY CommandsExists
  <2>2. Eq(h)
    BY <2>1 DEF CommandsFolded
  <2> HIDE DEF Eq
  <2> QED
    BY <2>2
<1>2. Performed(b, cmds, ev) = (CHOOSE h: Eq(h))[1 .. n]
  BY Zenon DEF Performed, FoldLeft, MapThenFoldSet
<1> HIDE DEF Eq
<1>3. PICK h: Eq(h) /\ Performed(b, cmds, ev) = h[1 .. n]
  BY <1>1, <1>2
<1>4. \A s \in SUBSET (1 .. n):
        h[s] = IF s = {} THEN b ELSE Perform(h[s \ {Max(s)}], cmds[Max(s)], ev)
  <2>1. h = [s \in SUBSET (1 .. n) |->
               IF s = {} THEN b ELSE Perform(h[s \ {Max(s)}], cmds[Max(s)], ev)]
    BY <1>3 DEF Eq
  <2> QED
    BY <2>1
<1> DEFINE g == [i \in 0 .. n |-> h[1 .. i]]
<1>5. g[0] = b
  <2>1. 1 .. 0 = {} /\ 0 \in 0 .. n
    OBVIOUS
  <2> QED
    BY <1>4, <2>1
<1>6. ASSUME NEW i \in 1 .. n PROVE g[i] = Perform(g[i - 1], cmds[i], ev)
  <2>1. 1 .. i \in SUBSET (1 .. n) /\ i \in 1 .. i /\ i \in Nat \ {0}
    OBVIOUS
  <2>2. Max(1 .. i) = i /\ (1 .. i) \ {i} = 1 .. i - 1
    BY <2>1, MaxOfInterval
  <2>3. h[1 .. i] = Perform(h[1 .. i - 1], cmds[i], ev)
    BY <1>4, <2>1, <2>2
  <2>4. i \in 0 .. n /\ i - 1 \in 0 .. n
    OBVIOUS
  <2> QED
    BY <2>3, <2>4
<1>7. g[n] = h[1 .. n]
  OBVIOUS
<1> HIDE DEF g
<1>8. CommandsRun(g, n, b, cmds, ev)
  BY <1>5, <1>6 DEF CommandsRun
<1> QED
  BY <1>3, <1>7, <1>8

-----------------------------------------------------------------------------
(* The heap of the simulator. *)

Entries == [t0: Nat, src: Sources]
Commands == [op: {"primed", "add", "remove"}, src: Sources]
HeapStates ==
  [heap: SUBSET Entries, fault: {"none", "assert", "undefined"}, removed: SUBSET Sources]

\* An entry has the time of the event that its source holds next, or a later one.
Timely(x, ev) ==
  /\ ev[x.src] # <<>>
  /\ IF x.src \in Sorted THEN x.t0 >= Head(ev[x.src]) ELSE x.t0 = Head(ev[x.src])

\* What is right with a heap when the sources hold ev, those in gone are not looked at,
\* those in due are yet to be entered, and those in adds without a look at the heap.
Kept(heap, gone, ev, srcs, hurt, due, adds) ==
  /\ \A x \in heap: x.src \in srcs
  /\ \A x, y \in heap: x.src = y.src => x = y
  /\ ~hurt => \A x \in heap: Timely(x, ev)
  /\ \A s \in srcs \ gone: ev[s] # <<>> => s \in Scheduled(heap) \cup due
  /\ adds \cap Scheduled(heap) = {}

\* The same of a state of the heap, unless there was a fault.
Sound(st, ev, srcs, hurt, due, adds) ==
  st \in HeapStates /\ (st.fault = "none" => Kept(st.heap, st.removed, ev, srcs, hurt, due, adds))

\* A heap that is not empty has an earliest entry.
LEMMA EarliestIsThere ==
  ASSUME NEW heap \in SUBSET Entries, heap # {}
  PROVE  Earliest(heap) \in heap /\ \A y \in heap: Before(Earliest(heap), y)
<1> DEFINE Ts == {x.t0: x \in heap}
<1>1. PICK t \in Ts: \A u \in Ts: t <= u
  <2>1. Ts \in SUBSET Nat /\ Ts # {}
    BY DEF Entries
  <2> HIDE DEF Ts
  <2> QED
    BY <2>1, LeastNatural
<1> DEFINE Ss == {x.src: x \in {y \in heap: y.t0 = t}}
<1>2. PICK s \in Ss: \A u \in Ss: s <= u
  <2>1. \A x \in heap: x.src \in Nat
    BY SimulatorAssumption DEF Entries
  <2>2. \E x \in heap: x.t0 = t
    BY <1>1
  <2>3. Ss \in SUBSET Nat /\ Ss # {}
    BY <2>1, <2>2
  <2> HIDE DEF Ss
  <2> QED
    BY <2>3, LeastNatural
<1>3. PICK x \in heap: x.t0 = t /\ x.src = s
  BY <1>2
<1>4. ASSUME NEW y \in heap PROVE Before(x, y)
  <2>1. y.t0 \in Nat /\ x.t0 \in Nat /\ x.t0 <= y.t0
    BY <1>1, <1>3 DEF Entries
  <2>2. y.t0 = x.t0 => x.src <= y.src
    BY <1>2, <1>3
  <2> QED
    BY <2>1, <2>2 DEF Before
<1> QED
  BY <1>4 DEF Earliest

\* The place of a new event: an event that was next still is, or the new one, which is
\* not later.
LEMMA IncludedEvent ==
  ASSUME NEW q \in Seq(Nat), NEW t \in Nat, NEW s
  PROVE  /\ Include(q, t, s) \in Seq(Nat) /\ Include(q, t, s) # <<>>
         /\ q # <<>> => /\ Head(Include(q, t, s)) <= Head(q)
                        /\ s \in Fifo => Head(Include(q, t, s)) = Head(q)
<1>1. CASE s \in Fifo
  <2>1. Include(q, t, s) = Append(q, t)
    BY <1>1 DEF Include
  <2>2. Append(q, t) \in Seq(Nat) /\ Append(q, t) # <<>>
    <3>1. Append(q, t) \in Seq(Nat)
      OBVIOUS
    <3>2. Len(Append(q, t)) = Len(q) + 1 /\ Len(q) \in Nat
      OBVIOUS
    <3>3. Len(Append(q, t)) # 0
      BY <3>2
    <3> QED
      BY <3>1, <3>3
  <2>3. ASSUME q # <<>> PROVE Head(Append(q, t)) = Head(q) /\ Head(q) \in Nat
    <3>1. Len(q) \in Nat \ {0} /\ 1 \in DOMAIN q /\ q[1] \in Nat
      BY <2>3
    <3>2. Append(q, t)[1] = q[1]
      BY <3>1
    <3> QED
      BY <2>3, <2>2, <3>1, <3>2
  <2> QED
    BY <2>1, <2>2, <2>3
<1>2. CASE s \notin Fifo
  <2> DEFINE S == {i \in DOMAIN q: q[i] <= t}
             n == Cardinality(S)
  <2>1. Include(q, t, s) = SubSeq(q, 1, (n + 1) - 1) \o <<t>> \o SubSeq(q, n + 1, Len(q))
    BY <1>2 DEF Include, InsertAt
  <2>2. IsFiniteSet(S) /\ n \in Nat /\ n <= Len(q)
    <3>1. IsFiniteSet(1 .. Len(q)) /\ Cardinality(1 .. Len(q)) = Len(q)
      <4>1. Len(q) \in Nat
        OBVIOUS
      <4>2. /\ Cardinality(1 .. Len(q)) = (IF 1 > Len(q) THEN 0 ELSE Len(q) - 1 + 1)
            /\ IsFiniteSet(1 .. Len(q))
        BY <4>1, FS_Interval
      <4> QED
        BY <4>1, <4>2
    <3>2. S \in SUBSET (1 .. Len(q))
      OBVIOUS
    <3> HIDE DEF S
    <3> QED
      BY <3>1, <3>2, FS_Subset, FS_CardinalityType
  <2>3. n = 0 => S = {}
    <3> HIDE DEF S
    <3> QED
      BY <2>2, FS_EmptySet
  <2>4. ASSUME n = 0, q # <<>> PROVE t <= q[1]
    <3>1. 1 \in DOMAIN q /\ q[1] \in Nat
      BY <2>4
    <3> QED
      BY <2>3, <2>4, <3>1
  <2> HIDE DEF S, n
  <2>5. /\ SubSeq(q, 1, (n + 1) - 1) \in Seq(Nat) /\ Len(SubSeq(q, 1, (n + 1) - 1)) = n
        /\ SubSeq(q, n + 1, Len(q)) \in Seq(Nat)
        /\ n > 0 => SubSeq(q, 1, (n + 1) - 1)[1] = q[1]
    BY <2>2
  <2> DEFINE a == SubSeq(q, 1, (n + 1) - 1)
             c == SubSeq(q, n + 1, Len(q))
  <2>6. a \in Seq(Nat) /\ c \in Seq(Nat) /\ Len(a) = n /\ (n > 0 => a[1] = q[1])
    BY <2>5
  <2> HIDE DEF a, c
  <2>7. a \o <<t>> \o c \in Seq(Nat) /\ a \o <<t>> \o c # <<>>
    BY <2>6
  <2>8. Head(a \o <<t>> \o c) = IF n = 0 THEN t ELSE q[1]
    BY <2>2, <2>6
  <2>9. q # <<>> => Head(q) = q[1] /\ q[1] \in Nat
    OBVIOUS
  <2>10. Include(q, t, s) = a \o <<t>> \o c
    BY <2>1 DEF a, c
  <2> QED
    BY <1>2, <2>10, <2>2, <2>4, <2>7, <2>8, <2>9
<1> QED
  BY <1>1, <1>2

\* One command: the heap it leaves is right if the source of the command was the one
\* yet to be entered.
LEMMA OneCommand ==
  ASSUME NEW st, NEW ev, NEW srcs \in SUBSET Sources, NEW hurt, NEW cmd \in Commands,
         NEW due, NEW adds, NEW dueNow, NEW addsNow,
         Sound(st, ev, srcs, hurt, due, adds),
         ev \in [Sources -> Seq(Nat)],
         cmd.src \in srcs,
         due \subseteq dueNow \cup (IF cmd.op = "remove" THEN {} ELSE {cmd.src}),
         addsNow \subseteq adds,
         cmd.op # "remove" => ev[cmd.src] # <<>> /\ cmd.src \notin addsNow,
         cmd.op = "add" => cmd.src \in adds
  PROVE  Sound(Perform(st, cmd, ev), ev, srcs, hurt, dueNow, addsNow)
<1> DEFINE e == Entry(cmd.src, ev)
<1>1. st \in HeapStates
  BY DEF Sound
<1>2. CASE st.fault # "none"
  <2>1. Perform(st, cmd, ev) = st
    BY <1>2 DEF Perform
  <2> QED
    BY <1>1, <1>2, <2>1 DEF Sound
<1>3. CASE st.fault = "none" /\ cmd.op # "remove" /\ cmd.src \notin Scheduled(st.heap)
  <2>1. PICK new: new = [st EXCEPT !.heap = @ \cup {e}]
    OBVIOUS
  <2>2. Perform(st, cmd, ev) = new
    BY <1>3, <2>1 DEF Perform, InsertPrimed, CompleteAdd, Commands
  <2>3. e \in Entries /\ e.src = cmd.src /\ e.t0 = Head(ev[cmd.src])
    <3>1. cmd.src \in Sources /\ ev[cmd.src] \in Seq(Nat) /\ ev[cmd.src] # <<>>
      BY <1>3 DEF Commands
    <3>2. Head(ev[cmd.src]) \in Nat
      BY <3>1
    <3> QED
      BY <3>1, <3>2 DEF Entry, Entries
  <2> HIDE DEF e
  <2>4. /\ new \in HeapStates /\ new.heap = st.heap \cup {e}
        /\ new.fault = "none" /\ new.removed = st.removed
    BY <1>1, <1>3, <2>1, <2>3 DEF HeapStates
  <2>5. Kept(st.heap, st.removed, ev, srcs, hurt, due, adds)
    BY <1>3 DEF Sound
  <2>6. Scheduled(new.heap) = Scheduled(st.heap) \cup {cmd.src}
    BY <2>3, <2>4 DEF Scheduled
  <2>7. Timely(e, ev)
    <3>1. ev[cmd.src] # <<>> /\ e.t0 \in Nat
      BY <1>3, <2>3 DEF Entries
    <3> QED
      BY <2>3, <3>1 DEF Timely
  <2>8. \A x \in new.heap: x.src \in srcs
    BY <2>3, <2>4, <2>5 DEF Kept
  <2>9. \A x, y \in new.heap: x.src = y.src => x = y
    BY <1>3, <2>3, <2>4, <2>5 DEF Kept, Scheduled
  <2>10. ~hurt => \A x \in new.heap: Timely(x, ev)
    BY <2>4, <2>5, <2>7 DEF Kept
  <2>11. \A s \in srcs \ new.removed: ev[s] # <<>> => s \in Scheduled(new.heap) \cup dueNow
    BY <2>4, <2>5, <2>6 DEF Kept
  <2>12. addsNow \cap Scheduled(new.heap) = {}
    BY <1>3, <2>5, <2>6 DEF Kept
  <2>13. Kept(new.heap, new.removed, ev, srcs, hurt, dueNow, addsNow)
    BY <2>8, <2>9, <2>10, <2>11, <2>12 DEF Kept
  <2> QED
    BY <2>2, <2>4, <2>13 DEF Sound
<1>4. CASE st.fault = "none" /\ cmd.op # "remove" /\ cmd.src \in Scheduled(st.heap)
  <2>1. cmd.op # "add"
    BY <1>4 DEF Sound, Kept
  <2>2. PICK new: new = [st EXCEPT !.fault = "assert"]
    OBVIOUS
  <2>3. Perform(st, cmd, ev) = new
    BY <1>4, <2>1, <2>2 DEF Perform, InsertPrimed, Commands
  <2>4. new \in HeapStates /\ new.fault = "assert"
    BY <1>1, <2>2 DEF HeapStates
  <2> QED
    BY <2>3, <2>4 DEF Sound
<1>5. CASE st.fault = "none" /\ cmd.op = "remove"
  <2>1. CASE Cardinality(st.heap) > 1
    <3>1. PICK new: new = [st EXCEPT !.fault = "undefined"]
      OBVIOUS
    <3>2. Perform(st, cmd, ev) = new
      BY <1>5, <2>1, <3>1 DEF Perform, CompleteRemove
    <3>3. new \in HeapStates /\ new.fault = "undefined"
      BY <1>1, <3>1 DEF HeapStates
    <3> QED
      BY <3>2, <3>3 DEF Sound
  <2>2. CASE ~(Cardinality(st.heap) > 1)
    <3>1. PICK new: new = [st EXCEPT !.heap = {x \in @: x.src # cmd.src},
                                     !.removed = @ \cup {cmd.src}]
      OBVIOUS
    <3>2. Perform(st, cmd, ev) = new
      BY <1>5, <2>2, <3>1 DEF Perform, CompleteRemove
    <3>3. /\ new \in HeapStates /\ new.heap = {x \in st.heap: x.src # cmd.src}
          /\ new.fault = "none" /\ new.removed = st.removed \cup {cmd.src}
      BY <1>1, <1>5, <3>1 DEF HeapStates, Commands
    <3>4. Kept(st.heap, st.removed, ev, srcs, hurt, due, adds)
      BY <1>5 DEF Sound
    <3>5. Scheduled(new.heap) = Scheduled(st.heap) \ {cmd.src}
      BY <3>3 DEF Scheduled
    <3>6. /\ \A x \in new.heap: x.src \in srcs
          /\ \A x, y \in new.heap: x.src = y.src => x = y
          /\ ~hurt => \A x \in new.heap: Timely(x, ev)
      BY <3>3, <3>4 DEF Kept
    <3>7. \A s \in srcs \ new.removed: ev[s] # <<>> => s \in Scheduled(new.heap) \cup dueNow
      BY <1>5, <3>3, <3>4, <3>5 DEF Kept
    <3>8. addsNow \cap Scheduled(new.heap) = {}
      BY <3>4, <3>5 DEF Kept
    <3>9. Kept(new.heap, new.removed, ev, srcs, hurt, dueNow, addsNow)
      BY <3>6, <3>7, <3>8 DEF Kept
    <3> QED
      BY <3>2, <3>3, <3>9 DEF Sound
  <2> QED
    BY <2>1, <2>2
<1> QED
  BY <1>2, <1>3, <1>4, <1>5

\* The sources that the commands after the i-th are to enter, and those among them that
\* are entered without a look at the heap.
ToEnter(cmds, i) == {cmds[j].src: j \in {k \in DOMAIN cmds: k > i /\ cmds[k].op # "remove"}}
ToAdd(cmds, i) == {cmds[j].src: j \in {k \in DOMAIN cmds: k > i /\ cmds[k].op = "add"}}

\* The commands of a delivery: a source to enter has events, and one to add is added once.
CommandsInOrder(cmds, ev, srcs) ==
  /\ cmds \in Seq(Commands)
  /\ \A i \in DOMAIN cmds:
       /\ cmds[i].src \in srcs
       /\ cmds[i].op # "remove" => ev[cmds[i].src] # <<>>
       /\ cmds[i].op = "add" <=> cmds[i].op # "remove" /\ cmds[i].src \in Primary
  /\ \A i, j \in DOMAIN cmds:
       cmds[i].op = "add" /\ cmds[j].op = "add" /\ cmds[i].src = cmds[j].src => i = j

\* The commands that were put off, performed one after the other, enter what is to be
\* entered.
LEMMA CommandsEnter ==
  ASSUME NEW st, NEW ev \in [Sources -> Seq(Nat)], NEW srcs \in SUBSET Sources, NEW hurt, NEW cmds,
         CommandsInOrder(cmds, ev, srcs),
         Sound(st, ev, srcs, hurt, ToEnter(cmds, 0), ToAdd(cmds, 0))
  PROVE  Sound(Performed(st, cmds, ev), ev, srcs, hurt, {}, {})
<1> DEFINE n == Len(cmds)
<1>1. n \in Nat /\ DOMAIN cmds = 1 .. n /\ \A i \in 1 .. n: cmds[i] \in Commands
  BY DEF CommandsInOrder
<1> HIDE DEF n
<1>2. PICK g: CommandsRun(g, n, st, cmds, ev) /\ Performed(st, cmds, ev) = g[n]
  BY <1>1, CommandsByRun
<1> DEFINE S == {i \in Nat: i <= n => Sound(g[i], ev, srcs, hurt, ToEnter(cmds, i), ToAdd(cmds, i))}
<1>3. S = Nat
  <2>1. S \in SUBSET Nat /\ 0 \in S
    BY <1>2 DEF CommandsRun
  <2>2. ASSUME NEW k \in S PROVE k + 1 \in S
    <3>1. k \in Nat /\ (k + 1) - 1 = k
      OBVIOUS
    <3>2. SUFFICES ASSUME k + 1 <= n
                   PROVE  Sound(g[k + 1], ev, srcs, hurt, ToEnter(cmds, k + 1), ToAdd(cmds, k + 1))
      BY <3>1
    <3> DEFINE i == k + 1
    <3>3. i \in 1 .. n /\ Sound(g[k], ev, srcs, hurt, ToEnter(cmds, k), ToAdd(cmds, k))
      BY <1>1, <3>1, <3>2
    <3>4. \A j \in 1 .. n: (j > k <=> j = i \/ j > i) /\ ~(i > i) /\ i > k
      BY <1>1, <3>1
    <3>5. g[i] = Perform(g[k], cmds[i], ev)
      BY <1>2, <3>1, <3>3 DEF CommandsRun
    <3> HIDE DEF i
    <3>6. cmds[i] \in Commands
      BY <1>1, <3>3
    <3>7. /\ cmds[i].src \in srcs
          /\ cmds[i].op # "remove" => ev[cmds[i].src] # <<>>
          /\ cmds[i].op = "add" <=> cmds[i].op # "remove" /\ cmds[i].src \in Primary
      BY <1>1, <3>3 DEF CommandsInOrder
    <3>8. /\ ToEnter(cmds, k) \subseteq
               ToEnter(cmds, i) \cup (IF cmds[i].op = "remove" THEN {} ELSE {cmds[i].src})
          /\ ToAdd(cmds, i) \subseteq ToAdd(cmds, k)
          /\ cmds[i].op = "add" => cmds[i].src \in ToAdd(cmds, k)
      BY <1>1, <3>3, <3>4 DEF ToEnter, ToAdd
    <3>9. ASSUME cmds[i].op # "remove" PROVE cmds[i].src \notin ToAdd(cmds, i)
      <4>1. SUFFICES ASSUME NEW j \in 1 .. n, j > i, cmds[j].op = "add", cmds[j].src = cmds[i].src
                     PROVE  FALSE
        BY <1>1 DEF ToAdd
      <4>2. cmds[i].src \in Primary
        BY <1>1, <4>1 DEF CommandsInOrder
      <4>3. i = j
        BY <1>1, <3>3, <3>7, <3>9, <4>1, <4>2 DEF CommandsInOrder
      <4> QED
        BY <3>4, <4>1, <4>3
    <3>10. Sound(Perform(g[k], cmds[i], ev), ev, srcs, hurt, ToEnter(cmds, i), ToAdd(cmds, i))
      BY <3>3, <3>6, <3>7, <3>8, <3>9, OneCommand
    <3> QED
      BY <3>5, <3>10 DEF i
  <2> HIDE DEF S
  <2> QED
    BY <2>1, <2>2, NatSetInduction
<1>4. Sound(g[n], ev, srcs, hurt, ToEnter(cmds, n), ToAdd(cmds, n))
  <2>1. n \in S /\ n <= n
    <3> HIDE DEF S
    <3> QED
      BY <1>1, <1>3
  <2> QED
    BY <2>1
<1>5. ToEnter(cmds, n) = {} /\ ToAdd(cmds, n) = {}
  BY <1>1 DEF ToEnter, ToAdd
<1> QED
  BY <1>2, <1>4, <1>5

-----------------------------------------------------------------------------
(* The invariant: InOrder of the heap, the commands and the source s whose delivery *)
(* is in progress, whose entry is still the one of the event that was delivered.     *)

Others(heap, s) == {x \in heap: x.src # s}

InOrder(heap, gone, ev, srcs, hurt, cmds, s) ==
  /\ Kept(Others(heap, s), gone \cup {s}, ev, srcs, hurt, ToEnter(cmds, 0), ToAdd(cmds, 0))
  /\ \A x \in heap: x.src \in srcs
  /\ \A x, y \in heap: x.src = y.src => x = y
  /\ CommandsInOrder(cmds, ev, srcs)
  /\ s \notin ToAdd(cmds, 0)
  /\ IF s = Nowhere THEN cmds = <<>> ELSE heap # {} /\ Earliest(heap).src = s

\* What the sources hold may change so: next events are next, or earlier ones of a source
\* that sorts; a source that held nothing, or is new, holds something if it is in fresh.
Grown(ev, srcs, ev2, srcs2, fresh) ==
  /\ ev \in [Sources -> Seq(Nat)] /\ ev2 \in [Sources -> Seq(Nat)]
  /\ srcs \subseteq srcs2 /\ srcs2 \subseteq Sources
  /\ \A u \in srcs: ev[u] # <<>> => /\ ev2[u] # <<>>
                                    /\ Head(ev2[u]) <= Head(ev[u])
                                    /\ u \notin Sorted => Head(ev2[u]) = Head(ev[u])
  /\ \A u \in srcs2: ev2[u] # <<>> => (u \in srcs /\ ev[u] # <<>>) \/ u \in fresh

LEMMA NowhereIsNoSource == Nowhere \notin Sources
BY SimulatorAssumption DEF Nowhere

LEMMA NothingToEnter == ToEnter(<<>>, 0) = {} /\ ToAdd(<<>>, 0) = {}
BY DEF ToEnter, ToAdd

\* An entry stays in time while its source gains events.
LEMMA TimelyStill ==
  ASSUME NEW ev, NEW srcs, NEW ev2, NEW srcs2, NEW fresh, Grown(ev, srcs, ev2, srcs2, fresh),
         NEW x \in Entries, x.src \in srcs, Timely(x, ev)
  PROVE  Timely(x, ev2)
<1> DEFINE u == x.src
<1>1. u \in Sources /\ x.t0 \in Nat /\ ev[u] \in Seq(Nat) /\ ev2[u] \in Seq(Nat)
  BY DEF Grown, Entries
<1>2. ev[u] # <<>> /\ ev2[u] # <<>>
  BY DEF Timely, Grown
<1>3. Head(ev[u]) \in Nat /\ Head(ev2[u]) \in Nat
  BY <1>1, <1>2
<1>4. Head(ev2[u]) <= Head(ev[u]) /\ (u \notin Sorted => Head(ev2[u]) = Head(ev[u]))
  BY <1>2 DEF Grown
<1>5. IF u \in Sorted THEN x.t0 >= Head(ev[u]) ELSE x.t0 = Head(ev[u])
  BY DEF Timely
<1>6. IF u \in Sorted THEN x.t0 >= Head(ev2[u]) ELSE x.t0 = Head(ev2[u])
  BY <1>1, <1>3, <1>4, <1>5
<1> QED
  BY <1>2, <1>6 DEF Timely

\* A heap stays right while the sources gain events, if those that have one now are
\* yet to be entered.
LEMMA KeptGrown ==
  ASSUME NEW heap \in SUBSET Entries, NEW gone, NEW hurt, NEW due, NEW adds,
         NEW ev, NEW srcs, NEW ev2, NEW srcs2, NEW fresh, Grown(ev, srcs, ev2, srcs2, fresh),
         NEW due2, NEW adds2,
         Kept(heap, gone, ev, srcs, hurt, due, adds),
         due \cup fresh \subseteq due2, adds2 \subseteq adds \cup (fresh \ srcs)
  PROVE  Kept(heap, gone, ev2, srcs2, hurt, due2, adds2)
<1>1. \A x \in heap: x.src \in srcs /\ x.src \in srcs2
  BY DEF Kept, Grown
<1>2. ~hurt => \A x \in heap: Timely(x, ev2)
  BY <1>1, TimelyStill DEF Kept
<1>3. \A s \in srcs2 \ gone: ev2[s] # <<>> => s \in Scheduled(heap) \cup due2
  BY DEF Kept, Grown
<1>4. adds2 \cap Scheduled(heap) = {}
  BY <1>1 DEF Kept, Scheduled
<1> QED
  BY <1>1, <1>2, <1>3, <1>4 DEF Kept

\* Between deliveries.
LEMMA AtRest ==
  ASSUME NEW heap, NEW gone, NEW ev, NEW srcs \in SUBSET Sources, NEW hurt
  PROVE  /\ Kept(heap, gone, ev, srcs, hurt, {}, {}) =>
              InOrder(heap, gone, ev, srcs, hurt, <<>>, Nowhere)
         /\ \A cmds: InOrder(heap, gone, ev, srcs, hurt, cmds, Nowhere) =>
              cmds = <<>> /\ Kept(heap, gone, ev, srcs, hurt, {}, {})
<1>1. ASSUME \A x \in heap: x.src \in srcs
      PROVE  Others(heap, Nowhere) = heap
  BY <1>1, NowhereIsNoSource DEF Others
<1>2. \A A, B: srcs \ A = srcs \ (A \cup {Nowhere})
  BY NowhereIsNoSource
<1>3. CommandsInOrder(<<>>, ev, srcs)
  <2>1. <<>> \in Seq(Commands) /\ DOMAIN <<>> = {}
    OBVIOUS
  <2> QED
    BY <2>1 DEF CommandsInOrder
<1>4. ASSUME Kept(heap, gone, ev, srcs, hurt, {}, {})
      PROVE  InOrder(heap, gone, ev, srcs, hurt, <<>>, Nowhere)
  <2>1. \A x \in heap: x.src \in srcs
    BY <1>4 DEF Kept
  <2>2. \A x, y \in heap: x.src = y.src => x = y
    BY <1>4 DEF Kept
  <2>3. Kept(heap, gone \cup {Nowhere}, ev, srcs, hurt, {}, {})
    BY <1>4 DEF Kept
  <2> QED
    BY <1>1, <1>3, <2>1, <2>2, <2>3, NothingToEnter DEF InOrder
<1>5. ASSUME NEW cmds, InOrder(heap, gone, ev, srcs, hurt, cmds, Nowhere)
      PROVE  cmds = <<>> /\ Kept(heap, gone, ev, srcs, hurt, {}, {})
  <2>1. cmds = <<>>
    BY <1>5 DEF InOrder
  <2>2. Kept(heap, gone \cup {Nowhere}, ev, srcs, hurt, {}, {})
    BY <1>1, <1>5, <2>1, NothingToEnter DEF InOrder
  <2>3. Kept(heap, gone, ev, srcs, hurt, {}, {})
    BY <1>2, <2>2 DEF Kept
  <2> QED
    BY <2>1, <2>3
<1> QED
  BY <1>4, <1>5

\* Commands stay in order while the sources gain events.
LEMMA CommandsGrown ==
  ASSUME NEW cmds, NEW ev, NEW srcs, NEW ev2, NEW srcs2, NEW fresh,
         Grown(ev, srcs, ev2, srcs2, fresh), CommandsInOrder(cmds, ev, srcs)
  PROVE  CommandsInOrder(cmds, ev2, srcs2)
<1>1. \A i \in DOMAIN cmds:
       /\ cmds[i].src \in srcs2
       /\ cmds[i].op # "remove" => ev2[cmds[i].src] # <<>>
  BY DEF CommandsInOrder, Grown
<1> QED
  BY <1>1 DEF CommandsInOrder

\* A call that asks nothing of the heap.
LEMMA NothingAsked ==
  ASSUME NEW heap \in SUBSET Entries, NEW gone, NEW ev, NEW srcs, NEW hurt, NEW cmds, NEW s,
         NEW ev2, NEW srcs2, Grown(ev, srcs, ev2, srcs2, {}),
         InOrder(heap, gone, ev, srcs, hurt, cmds, s)
  PROVE  InOrder(heap, gone, ev2, srcs2, hurt, cmds, s)
<1>1. Others(heap, s) \in SUBSET Entries
  BY DEF Others
<1>2. Kept(Others(heap, s), gone \cup {s}, ev, srcs, hurt, ToEnter(cmds, 0), ToAdd(cmds, 0))
  BY DEF InOrder
<1>3. Kept(Others(heap, s), gone \cup {s}, ev2, srcs2, hurt, ToEnter(cmds, 0), ToAdd(cmds, 0))
  BY <1>1, <1>2, KeptGrown
<1>4. CommandsInOrder(cmds, ev2, srcs2)
  BY CommandsGrown DEF InOrder
<1>5. \A x \in heap: x.src \in srcs2
  BY DEF InOrder, Grown
<1> QED
  BY <1>3, <1>4, <1>5 DEF InOrder

\* A command that a call may give: the source it enters gains its first event, and one
\* that is added was not known.
Wanted(cmd, ev2, srcs, srcs2, fresh) ==
  /\ cmd \in Commands /\ cmd.src \in srcs2
  /\ fresh = IF cmd.op = "remove" THEN {} ELSE {cmd.src}
  /\ cmd.op # "remove" => ev2[cmd.src] # <<>>
  /\ cmd.op = "add" <=> cmd.op # "remove" /\ cmd.src \in Primary
  /\ cmd.op = "add" => cmd.src \notin srcs

\* A command that comes last adds its source to those to enter.
LEMMA EntersMore ==
  ASSUME NEW cmds \in Seq(Commands), NEW cmd \in Commands
  PROVE  /\ ToEnter(cmds, 0) \cup (IF cmd.op = "remove" THEN {} ELSE {cmd.src})
               \subseteq ToEnter(Append(cmds, cmd), 0)
         /\ ToAdd(Append(cmds, cmd), 0)
               \subseteq ToAdd(cmds, 0) \cup (IF cmd.op = "add" THEN {cmd.src} ELSE {})
<1> DEFINE more == Append(cmds, cmd)
           n == Len(cmds)
<1>1. n \in Nat /\ DOMAIN cmds = 1 .. n /\ DOMAIN more = 1 .. n + 1
  OBVIOUS
<1>2. more[n + 1] = cmd /\ \A j \in 1 .. n: more[j] = cmds[j]
  OBVIOUS
<1>3. /\ \A j \in 1 .. n: j \in 1 .. n + 1 /\ j > 0
      /\ n + 1 \in 1 .. n + 1 /\ n + 1 > 0
      /\ \A j \in 1 .. n + 1: j \in 1 .. n \/ j = n + 1
  BY <1>1
<1> HIDE DEF more, n
<1>4. ToEnter(cmds, 0) \subseteq ToEnter(more, 0)
  BY <1>1, <1>2, <1>3 DEF ToEnter
<1>5. cmd.op # "remove" => cmd.src \in ToEnter(more, 0)
  BY <1>1, <1>2, <1>3 DEF ToEnter
<1>6. ToAdd(more, 0) \subseteq ToAdd(cmds, 0) \cup (IF cmd.op = "add" THEN {cmd.src} ELSE {})
  BY <1>1, <1>2, <1>3 DEF ToAdd
<1> QED
  BY <1>4, <1>5, <1>6 DEF more

\* During a delivery the command waits.
LEMMA PutOff ==
  ASSUME NEW heap \in SUBSET Entries, NEW gone, NEW ev, NEW srcs, NEW hurt, NEW cmds, NEW s,
         NEW ev2, NEW srcs2, NEW fresh, Grown(ev, srcs, ev2, srcs2, fresh),
         InOrder(heap, gone, ev, srcs, hurt, cmds, s), s # Nowhere,
         NEW cmd, Wanted(cmd, ev2, srcs, srcs2, fresh)
  PROVE  InOrder(heap, gone, ev2, srcs2, hurt, Append(cmds, cmd), s)
<1> DEFINE more == Append(cmds, cmd)
           n == Len(cmds)
<1>1. cmds \in Seq(Commands) /\ cmd \in Commands /\ more \in Seq(Commands)
  BY DEF InOrder, CommandsInOrder, Wanted
<1>2. /\ ToEnter(cmds, 0) \cup fresh \subseteq ToEnter(more, 0)
      /\ ToAdd(more, 0) \subseteq ToAdd(cmds, 0) \cup (fresh \ srcs)
  BY <1>1, EntersMore DEF Wanted
<1>3. s \in srcs
  BY EarliestIsThere DEF InOrder
<1>4. n \in Nat /\ DOMAIN cmds = 1 .. n /\ DOMAIN more = 1 .. n + 1
  BY <1>1
<1>5. more[n + 1] = cmd /\ \A j \in 1 .. n: more[j] = cmds[j]
  BY <1>1
<1>6. \A j \in 1 .. n + 1: j \in 1 .. n \/ j = n + 1
  BY <1>4
<1> HIDE DEF more, n
<1>7. Others(heap, s) \in SUBSET Entries
  BY DEF Others
<1>8. Kept(Others(heap, s), gone \cup {s}, ev2, srcs2, hurt, ToEnter(more, 0), ToAdd(more, 0))
  <2>1. Kept(Others(heap, s), gone \cup {s}, ev, srcs, hurt, ToEnter(cmds, 0), ToAdd(cmds, 0))
    BY DEF InOrder
  <2> QED
    BY <1>2, <1>7, <2>1, KeptGrown
<1>9. s \notin ToAdd(more, 0)
  BY <1>2, <1>3 DEF InOrder
<1>10. CommandsInOrder(more, ev2, srcs2)
  <2>1. CommandsInOrder(cmds, ev, srcs)
    BY DEF InOrder
  <2>2. CommandsInOrder(cmds, ev2, srcs2)
    BY <2>1, CommandsGrown
  <2>3. \A i \in DOMAIN more:
          /\ more[i].src \in srcs2
          /\ more[i].op # "remove" => ev2[more[i].src] # <<>>
          /\ more[i].op = "add" <=> more[i].op # "remove" /\ more[i].src \in Primary
    BY <1>4, <1>5, <1>6, <2>2 DEF CommandsInOrder, Wanted
  <2>4. ASSUME NEW i \in 1 .. n + 1, NEW j \in 1 .. n + 1,
               more[i].op = "add", more[j].op = "add", more[i].src = more[j].src
        PROVE  i = j
    <3>1. \A k \in 1 .. n: cmds[k].src \in srcs
      BY <1>4, <2>1 DEF CommandsInOrder
    <3>2. cmd.op = "add" => cmd.src \notin srcs
      BY DEF Wanted
    <3>3. CASE i \in 1 .. n /\ j \in 1 .. n
      BY <1>4, <1>5, <2>1, <2>4, <3>3 DEF CommandsInOrder
    <3>4. CASE i \in 1 .. n /\ j = n + 1
      BY <1>5, <2>4, <3>1, <3>2, <3>4
    <3>5. CASE i = n + 1 /\ j \in 1 .. n
      BY <1>5, <2>4, <3>1, <3>2, <3>5
    <3> QED
      BY <1>6, <3>3, <3>4, <3>5
  <2> QED
    BY <1>1, <1>4, <2>3, <2>4 DEF CommandsInOrder
<1>11. \A x \in heap: x.src \in srcs2
  BY DEF InOrder, Grown
<1>12. \A x, y \in heap: x.src = y.src => x = y
  BY DEF InOrder
<1>13. heap # {} /\ Earliest(heap).src = s
  BY DEF InOrder
<1>14. InOrder(heap, gone, ev2, srcs2, hurt, more, s)
  BY <1>8, <1>9, <1>10, <1>11, <1>12, <1>13 DEF InOrder
<1> QED
  BY <1>14 DEF more

\* Between deliveries it is performed at once.
LEMMA DoneAtOnce ==
  ASSUME NEW st \in HeapStates, st.fault = "none", NEW ev, NEW srcs \in SUBSET Sources,
         NEW hurt, NEW cmds,
         NEW ev2, NEW srcs2, NEW fresh, Grown(ev, srcs, ev2, srcs2, fresh),
         InOrder(st.heap, st.removed, ev, srcs, hurt, cmds, Nowhere),
         NEW cmd, Wanted(cmd, ev2, srcs, srcs2, fresh)
  PROVE  Sound(Perform(st, cmd, ev2), ev2, srcs2, hurt, {}, {})
<1> DEFINE adds == IF cmd.op = "add" THEN {cmd.src} ELSE {}
<1>1. Kept(st.heap, st.removed, ev, srcs, hurt, {}, {})
  BY AtRest
<1>2. st.heap \in SUBSET Entries
  BY DEF HeapStates
<1>3. adds \subseteq {} \cup (fresh \ srcs)
  BY DEF Wanted
<1> HIDE DEF adds
<1>4. Kept(st.heap, st.removed, ev2, srcs2, hurt, fresh, adds)
  BY <1>1, <1>2, <1>3, KeptGrown
<1>5. Sound(st, ev2, srcs2, hurt, fresh, adds)
  BY <1>4 DEF Sound
<1>6. ev2 \in [Sources -> Seq(Nat)] /\ srcs2 \in SUBSET Sources
  BY DEF Grown
<1>7. /\ cmd \in Commands /\ cmd.src \in srcs2
      /\ fresh \subseteq {} \cup (IF cmd.op = "remove" THEN {} ELSE {cmd.src})
      /\ {} \subseteq adds
      /\ cmd.op # "remove" => ev2[cmd.src] # <<>> /\ cmd.src \notin {}
      /\ cmd.op = "add" => cmd.src \in adds
  BY DEF Wanted, adds
<1> QED
  BY <1>5, <1>6, <1>7, OneCommand

-----------------------------------------------------------------------------

HeapTyped ==
  /\ sim_heap_ \in SUBSET Entries /\ removed \in SUBSET Sources
  /\ sim_fault \in {"none", "assert", "undefined"}
  /\ reentrant_cmd_v_ \in Seq(Commands)

SourcesTyped ==
  /\ src_v_ \in SUBSET Sources /\ parent \subseteq src_v_ /\ upstream_exhausted_ \subseteq Sorted
  /\ events \in [Sources -> Seq(Nat)]
  /\ \A s \in Primary: events[s] # <<>>
  /\ \A s \in Sources \ Primary: events[s] # <<>> => s \in src_v_
  /\ delivering \in Sources \cup {Nowhere} /\ now \in Nat

HeapInOrder ==
  sim_fault = "none" =>
    InOrder(sim_heap_, removed, events, src_v_, thrown, reentrant_cmd_v_, delivering)

SimInv == HeapTyped /\ SourcesTyped /\ HeapInOrder

\* What a call asks of the heap, when the sources hold events'.
LEMMA RequestInOrder ==
  ASSUME SimInv, sim_fault = "none", NEW op, NEW s, Request(op, s, events'),
         UNCHANGED <<delivering, thrown>>,
         NEW fresh, Grown(events, src_v_, events', src_v_', fresh),
         Wanted([op |-> op, src |-> s], events', src_v_, src_v_', fresh)
  PROVE  HeapTyped' /\ HeapInOrder'
<1> DEFINE cmd == [op |-> op, src |-> s]
<1>1. InOrder(sim_heap_, removed, events, src_v_, thrown, reentrant_cmd_v_, delivering)
  BY DEF SimInv, HeapInOrder
<1>2. cmd \in Commands /\ reentrant_cmd_v_ \in Seq(Commands) /\ sim_heap_ \in SUBSET Entries
  BY DEF Wanted, SimInv, HeapTyped
<1>3. CASE delivering # Nowhere
  <2>1. /\ reentrant_cmd_v_' = Append(reentrant_cmd_v_, cmd)
        /\ UNCHANGED <<sim_heap_, sim_fault, removed>>
    BY <1>3 DEF Request
  <2>2. Append(reentrant_cmd_v_, cmd) \in Seq(Commands)
    BY <1>2
  <2>3. InOrder(sim_heap_, removed, events', src_v_', thrown,
              Append(reentrant_cmd_v_, cmd), delivering)
    BY <1>1, <1>2, <1>3, PutOff
  <2>4. InOrder(sim_heap_', removed', events', src_v_', thrown',
                 reentrant_cmd_v_', delivering')
    BY <2>1, <2>3
  <2>5. HeapTyped'
    BY <2>1, <2>2 DEF SimInv, HeapTyped
  <2> QED
    BY <2>4, <2>5 DEF HeapInOrder
<1>4. CASE delivering = Nowhere
  <2>1. Become(Perform(HeapState, cmd, events')) /\ UNCHANGED reentrant_cmd_v_
    BY <1>4 DEF Request
  <2>2. PICK st: st = HeapState
    OBVIOUS
  <2>3. /\ st \in HeapStates /\ st.heap = sim_heap_ /\ st.removed = removed
        /\ st.fault = "none"
    BY <2>2 DEF HeapState, HeapStates, SimInv, HeapTyped
  <2>4. PICK new: new = Perform(st, cmd, events')
    OBVIOUS
  <2>5. sim_heap_' = new.heap /\ sim_fault' = new.fault /\ removed' = new.removed
    BY <2>1, <2>2, <2>4 DEF Become
  <2>6. src_v_ \in SUBSET Sources /\ src_v_' \in SUBSET Sources
    BY DEF SimInv, SourcesTyped, Grown
  <2>7. InOrder(st.heap, st.removed, events, src_v_, thrown, reentrant_cmd_v_, Nowhere)
    BY <1>1, <1>4, <2>3
  <2>8. Sound(new, events', src_v_', thrown, {}, {})
    BY <2>3, <2>4, <2>6, <2>7, DoneAtOnce
  <2>9. reentrant_cmd_v_ = <<>>
    BY <1>1, <1>4 DEF InOrder
  <2>10. ASSUME sim_fault' = "none"
         PROVE  InOrder(sim_heap_', removed', events', src_v_', thrown',
                 reentrant_cmd_v_', delivering')
    <3>1. Kept(sim_heap_', removed', events', src_v_', thrown, {}, {})
      BY <2>5, <2>8, <2>10 DEF Sound
    <3>2. InOrder(sim_heap_', removed', events', src_v_', thrown, <<>>, Nowhere)
      BY <2>6, <3>1, AtRest
    <3> QED
      BY <1>4, <2>1, <2>9, <3>2
  <2>11. HeapTyped'
    BY <1>2, <2>1, <2>5, <2>8 DEF Sound, HeapStates, HeapTyped
  <2> QED
    BY <2>10, <2>11 DEF HeapInOrder
<1> QED
  BY <1>3, <1>4

\* A call that asks nothing.
LEMMA NoRequestInOrder ==
  ASSUME SimInv, sim_fault = "none", NoRequest, UNCHANGED <<delivering, thrown>>,
         Grown(events, src_v_, events', src_v_', {})
  PROVE  HeapTyped' /\ HeapInOrder'
<1>1. InOrder(sim_heap_, removed, events, src_v_, thrown, reentrant_cmd_v_, delivering)
  BY DEF SimInv, HeapInOrder
<1>2. sim_heap_ \in SUBSET Entries
  BY DEF SimInv, HeapTyped
<1>3. InOrder(sim_heap_, removed, events', src_v_', thrown, reentrant_cmd_v_, delivering)
  BY <1>1, <1>2, NothingAsked
<1>4. UNCHANGED <<sim_heap_, sim_fault, removed, reentrant_cmd_v_>>
  BY DEF NoRequest
<1>5. InOrder(sim_heap_', removed', events', src_v_', thrown',
                 reentrant_cmd_v_', delivering')
  BY <1>3, <1>4
<1>6. HeapTyped'
  BY <1>4 DEF SimInv, HeapTyped
<1> QED
  BY <1>5, <1>6 DEF HeapInOrder

LEMMA InitSimInv == SimInit => SimInv
<1> SUFFICES ASSUME SimInit PROVE SimInv
  OBVIOUS
<1>1. /\ src_v_ = {} /\ sim_heap_ = {} /\ reentrant_cmd_v_ = <<>> /\ delivering = Nowhere
      /\ now = T0 /\ parent = {} /\ upstream_exhausted_ = {} /\ removed = {} /\ sim_fault = "none"
      /\ events = [s \in Sources |-> IF s \in Primary THEN <<0>> ELSE <<>>]
  BY DEF SimInit
<1>2. HeapTyped
  BY <1>1 DEF HeapTyped
<1>3. SourcesTyped
  <2>1. events \in [Sources -> Seq(Nat)]
    BY <1>1
  <2>2. \A s \in Primary: s \in Sources /\ events[s] = <<0>>
    BY <1>1 DEF Sources
  <2>3. \A s \in Sources \ Primary: events[s] = <<>>
    BY <1>1
  <2> QED
    BY <1>1, <2>1, <2>2, <2>3, SimulatorAssumption DEF SourcesTyped
<1>4. Kept({}, {}, events, {}, thrown, {}, {})
  BY DEF Kept, Scheduled
<1>5. InOrder({}, {}, events, {}, thrown, <<>>, Nowhere)
  BY <1>4, AtRest
<1>6. HeapInOrder
  BY <1>1, <1>5 DEF HeapInOrder
<1> QED
  BY <1>2, <1>3, <1>6 DEF SimInv

\* The actions keep the invariant. Only a source that always has an event asks to be
\* entered when it is added.
LEMMA AddSourceInOrder ==
  ASSUME SimInv, sim_fault = "none", NEW s \in Sources, AddSource(s)
  PROVE  SimInv'
<1>1. /\ s \notin src_v_ /\ src_v_' = src_v_ \cup {s}
      /\ events' = [events EXCEPT ![s] = IF s \in Primary /\ Head(@) < T0 THEN <<T0>> ELSE @]
      /\ UNCHANGED <<delivering, now, upstream_exhausted_, thrown>>
  BY DEF AddSource
<1>2. /\ src_v_ \in SUBSET Sources /\ parent \subseteq src_v_
      /\ upstream_exhausted_ \subseteq Sorted
      /\ events \in [Sources -> Seq(Nat)]
      /\ \A u \in Primary: events[u] # <<>>
      /\ \A u \in Sources \ Primary: events[u] # <<>> => u \in src_v_
      /\ delivering \in Sources \cup {Nowhere} /\ now \in Nat
  BY DEF SimInv, SourcesTyped
<1>3. events[s] \in Seq(Nat) /\ <<T0>> \in Seq(Nat) /\ <<T0>> # <<>>
  BY <1>2, SimulatorAssumption
<1>4. events'[s] \in {<<T0>>, events[s]} /\ \A u \in Sources \ {s}: events'[u] = events[u]
  BY <1>1, <1>2
<1>5. events' \in [Sources -> Seq(Nat)]
  <2>1. PICK v: v = (IF s \in Primary /\ Head(events[s]) < T0 THEN <<T0>> ELSE events[s])
    OBVIOUS
  <2>2. v \in Seq(Nat) /\ events' = [events EXCEPT ![s] = v]
    BY <1>1, <1>3, <2>1
  <2> QED
    BY <1>2, <2>2
<1>6. s \notin Primary => events'[s] = events[s] /\ events[s] = <<>>
  BY <1>1, <1>2
<1>7. s \in Primary => events'[s] # <<>> /\ events[s] # <<>> /\ s \notin upstream_exhausted_
  BY <1>2, <1>3, <1>4, SimulatorAssumption
<1>8. parent' \subseteq src_v_'
  BY <1>1, <1>2 DEF AddSource
<1>9. SourcesTyped'
  BY <1>1, <1>2, <1>4, <1>5, <1>6, <1>7, <1>8 DEF SourcesTyped
<1>10. \A u \in src_v_: events'[u] = events[u] /\ events[u] \in Seq(Nat)
  BY <1>1, <1>2, <1>4
<1>11. HeapTyped' /\ HeapInOrder'
  <2>1. CASE s \notin Primary
    <3>1. NoRequest
      BY <1>6, <2>1 DEF AddSource
    <3>2. Grown(events, src_v_, events', src_v_', {})
      <4>1. \A u \in src_v_: events[u] # <<>> =>
               events'[u] # <<>> /\ Head(events'[u]) = Head(events[u]) /\ Head(events[u]) \in Nat
        BY <1>10
      <4>2. \A u \in src_v_': events'[u] # <<>> => u \in src_v_ /\ events[u] # <<>>
        BY <1>1, <1>6, <1>10, <2>1
      <4> QED
        BY <1>1, <1>2, <1>5, <4>1, <4>2 DEF Grown
    <3> QED
      BY <1>1, <3>1, <3>2, NoRequestInOrder
  <2>2. CASE s \in Primary
    <3>1. Request("add", s, events')
      BY <1>7, <2>2 DEF AddSource
    <3>2. Grown(events, src_v_, events', src_v_', {s})
      <4>1. \A u \in src_v_: events[u] # <<>> =>
               events'[u] # <<>> /\ Head(events'[u]) = Head(events[u]) /\ Head(events[u]) \in Nat
        BY <1>10
      <4>2. \A u \in src_v_': events'[u] # <<>> => (u \in src_v_ /\ events[u] # <<>>) \/ u \in {s}
        BY <1>1, <1>10
      <4> QED
        BY <1>1, <1>2, <1>5, <4>1, <4>2 DEF Grown
    <3>3. Wanted([op |-> "add", src |-> s], events', src_v_, src_v_', {s})
      BY <1>1, <1>7, <2>2 DEF Wanted, Commands
    <3> QED
      BY <1>1, <3>1, <3>2, <3>3, RequestInOrder
  <2> QED
    BY <2>1, <2>2
<1> QED
  BY <1>9, <1>11 DEF SimInv

\* Nothing gained is a way to grow.
LEMMA GrownNot ==
  ASSUME NEW ev \in [Sources -> Seq(Nat)], NEW srcs \in SUBSET Sources
  PROVE  Grown(ev, srcs, ev, srcs, {})
<1>1. \A u \in srcs: ev[u] # <<>> => Head(ev[u]) \in Nat
  <2> SUFFICES ASSUME NEW u \in srcs, ev[u] # <<>> PROVE Head(ev[u]) \in Nat
    OBVIOUS
  <2>1. ev[u] \in Seq(Nat)
    OBVIOUS
  <2> QED
    BY <2>1
<1> QED
  BY <1>1 DEF Grown

LEMMA RemoveSourceInOrder ==
  ASSUME SimInv, sim_fault = "none", NEW s \in Sources, RemoveSource(s)
  PROVE  SimInv'
<1>1. /\ s \in src_v_ /\ Request("remove", s, events)
      /\ UNCHANGED <<src_v_, delivering, now, parent, upstream_exhausted_, events, thrown>>
  BY DEF RemoveSource
<1>2. Grown(events, src_v_, events', src_v_', {})
  <2>1. Grown(events, src_v_, events, src_v_, {})
    BY GrownNot DEF SimInv, SourcesTyped
  <2> QED
    BY <1>1, <2>1
<1>3. Wanted([op |-> "remove", src |-> s], events', src_v_, src_v_', {})
  BY <1>1 DEF Wanted, Commands
<1>4. Request("remove", s, events')
  BY <1>1
<1>5. HeapTyped' /\ HeapInOrder'
  BY <1>1, <1>2, <1>3, <1>4, RequestInOrder
<1>6. SourcesTyped'
  BY <1>1 DEF SimInv, SourcesTyped
<1> QED
  BY <1>5, <1>6 DEF SimInv

LEMMA ExhaustInOrder ==
  ASSUME SimInv, sim_fault = "none", NEW s \in Sources, Exhaust(s)
  PROVE  SimInv'
<1>1. /\ s \in Sorted /\ upstream_exhausted_' = upstream_exhausted_ \cup {s} /\ NoRequest
      /\ UNCHANGED <<src_v_, delivering, now, parent, events, thrown>>
  BY DEF Exhaust
<1>2. Grown(events, src_v_, events', src_v_', {})
  <2>1. Grown(events, src_v_, events, src_v_, {})
    BY GrownNot DEF SimInv, SourcesTyped
  <2> QED
    BY <1>1, <2>1
<1>3. HeapTyped' /\ HeapInOrder'
  BY <1>1, <1>2, NoRequestInOrder
<1>4. SourcesTyped'
  BY <1>1 DEF SimInv, SourcesTyped
<1> QED
  BY <1>3, <1>4 DEF SimInv

\* A source that was empty asks to be entered; another keeps its next event, or gets an
\* earlier one if it sorts.
LEMMA PushInOrder ==
  ASSUME SimInv, sim_fault = "none", NEW s \in Sources, NEW t \in Nat, Push(s, t)
  PROVE  SimInv'
<1>1. /\ s \in parent /\ s \notin Primary
      /\ events' = [events EXCEPT ![s] = Include(@, t, s)]
      /\ IF events[s] = <<>> THEN Request("primed", s, events') ELSE NoRequest
      /\ UNCHANGED <<src_v_, delivering, now, parent, upstream_exhausted_, thrown>>
  BY DEF Push
<1>2. /\ src_v_ \in SUBSET Sources /\ parent \subseteq src_v_
      /\ events \in [Sources -> Seq(Nat)]
  BY DEF SimInv, SourcesTyped
<1>3. PICK q: q = Include(events[s], t, s)
  OBVIOUS
<1>4. events[s] \in Seq(Nat)
  BY <1>2
<1>5. /\ q \in Seq(Nat) /\ q # <<>>
      /\ events[s] # <<>> => /\ Head(q) <= Head(events[s])
                             /\ s \in Fifo => Head(q) = Head(events[s])
  BY <1>3, <1>4, IncludedEvent
<1>6. events' = [events EXCEPT ![s] = q]
  BY <1>1, <1>3
<1>7. /\ events' \in [Sources -> Seq(Nat)] /\ events'[s] = q
      /\ \A u \in Sources \ {s}: events'[u] = events[u]
  BY <1>2, <1>5, <1>6
<1>8. s \in src_v_
  BY <1>1, <1>2
<1>9. SourcesTyped'
  BY <1>1, <1>5, <1>7, <1>8 DEF SimInv, SourcesTyped
<1>10. \A u \in src_v_ \ {s}: events'[u] = events[u] /\ events[u] \in Seq(Nat)
  BY <1>2, <1>7
<1>11. \A u \in src_v_: events[u] # <<>> =>
         /\ events'[u] # <<>>
         /\ Head(events'[u]) <= Head(events[u])
         /\ u \notin Sorted => Head(events'[u]) = Head(events[u])
  <2>1. ASSUME NEW u \in src_v_ \ {s}, events[u] # <<>>
        PROVE  /\ events'[u] # <<>>
               /\ Head(events'[u]) <= Head(events[u])
               /\ Head(events'[u]) = Head(events[u])
    <3>1. events'[u] = events[u] /\ events[u] \in Seq(Nat)
      BY <1>10
    <3>2. Head(events[u]) \in Nat
      BY <2>1, <3>1
    <3> QED
      BY <2>1, <3>1, <3>2
  <2>2. s \in Fifo \/ s \in Sorted
    BY <1>1 DEF Sources
  <2> QED
    BY <1>5, <1>7, <2>1, <2>2
<1>12. HeapTyped' /\ HeapInOrder'
  <2>1. CASE events[s] # <<>>
    <3>1. \A u \in src_v_: events'[u] # <<>> => events[u] # <<>>
      BY <1>10, <2>1
    <3>2. Grown(events, src_v_, events', src_v_', {})
      BY <1>1, <1>2, <1>7, <1>11, <3>1 DEF Grown
    <3> QED
      BY <1>1, <2>1, <3>2, NoRequestInOrder
  <2>2. CASE events[s] = <<>>
    <3>1. \A u \in src_v_: events'[u] # <<>> => events[u] # <<>> \/ u \in {s}
      BY <1>10
    <3>2. Grown(events, src_v_, events', src_v_', {s})
      BY <1>1, <1>2, <1>7, <1>11, <3>1 DEF Grown
    <3>3. Wanted([op |-> "primed", src |-> s], events', src_v_, src_v_', {s})
      BY <1>1, <1>5, <1>7, <1>8 DEF Wanted, Commands
    <3> QED
      BY <1>1, <2>2, <3>2, <3>3, RequestInOrder
  <2> QED
    BY <2>1, <2>2
<1> QED
  BY <1>9, <1>12 DEF SimInv

\* The source of the earliest entry is left out of what must be right, for the delivery.
LEMMA BeginDeliveryInOrder ==
  ASSUME SimInv, sim_fault = "none", BeginDelivery
  PROVE  SimInv'
<1>1. PICK s: s = Earliest(sim_heap_).src
  OBVIOUS
<1>2. /\ delivering = Nowhere /\ sim_heap_ # {} /\ events[s] # <<>>
      /\ delivering' = s /\ now' = Head(events[s])
      /\ events' = [events EXCEPT ![s] = IF s \in Primary THEN @ ELSE Tail(@)]
      /\ UNCHANGED <<src_v_, sim_heap_, reentrant_cmd_v_, parent, upstream_exhausted_,
                     sim_fault, thrown, removed>>
  BY <1>1 DEF BeginDelivery
<1>3. /\ sim_heap_ \in SUBSET Entries /\ src_v_ \in SUBSET Sources
      /\ events \in [Sources -> Seq(Nat)]
      /\ \A u \in Primary: events[u] # <<>>
      /\ \A u \in Sources \ Primary: events[u] # <<>> => u \in src_v_
  BY DEF SimInv, HeapTyped, SourcesTyped
<1>4. reentrant_cmd_v_ = <<>> /\ Kept(sim_heap_, removed, events, src_v_, thrown, {}, {})
  BY <1>2, <1>3, AtRest DEF SimInv, HeapInOrder
<1>5. s \in src_v_ /\ s \in Sources
  BY <1>1, <1>2, <1>3, <1>4, EarliestIsThere DEF Kept
<1>6. events[s] \in Seq(Nat) /\ Head(events[s]) \in Nat /\ Tail(events[s]) \in Seq(Nat)
  <2>1. events[s] \in Seq(Nat)
    BY <1>3, <1>5
  <2> QED
    BY <1>2, <2>1
<1>7. PICK q: q = IF s \in Primary THEN events[s] ELSE Tail(events[s])
  OBVIOUS
<1>8. q \in Seq(Nat) /\ events' = [events EXCEPT ![s] = q]
  BY <1>2, <1>6, <1>7
<1>9. /\ events' \in [Sources -> Seq(Nat)] /\ events'[s] = q
      /\ \A u \in Sources \ {s}: events'[u] = events[u]
  BY <1>3, <1>5, <1>8
<1>10. SourcesTyped'
  <2>1. \A u \in Primary: u \in Sources /\ events'[u] # <<>>
    BY <1>2, <1>3, <1>7, <1>9 DEF Sources
  <2>2. \A u \in Sources \ Primary: events'[u] # <<>> => u \in src_v_'
    BY <1>2, <1>3, <1>5, <1>9
  <2> QED
    BY <1>2, <1>5, <1>6, <1>9, <2>1, <2>2 DEF SimInv, SourcesTyped
<1>11. HeapTyped'
  BY <1>2 DEF SimInv, HeapTyped
<1> DEFINE rest == Others(sim_heap_, s)
<1>12. Kept(rest, removed \cup {s}, events', src_v_, thrown, {}, {})
  <2>1. \A x \in rest: x \in sim_heap_ /\ x.src \in src_v_ \ {s}
    BY <1>4 DEF Kept, Others
  <2>2. \A x, y \in rest: x.src = y.src => x = y
    BY <1>4 DEF Kept, Others
  <2>3. \A u \in src_v_ \ {s}: events'[u] = events[u]
    BY <1>3, <1>9
  <2>4. ~thrown => \A x \in rest: Timely(x, events')
    BY <1>4, <2>1, <2>3 DEF Kept, Timely
  <2>5. Scheduled(sim_heap_) \ {s} \subseteq Scheduled(rest)
    BY DEF Scheduled, Others
  <2>6. \A u \in src_v_ \ (removed \cup {s}): events'[u] # <<>> => u \in Scheduled(rest) \cup {}
    BY <1>4, <2>3, <2>5 DEF Kept
  <2> HIDE DEF rest
  <2> QED
    BY <2>1, <2>2, <2>4, <2>6 DEF Kept
<1>13. InOrder(sim_heap_, removed, events', src_v_, thrown, <<>>, s)
  <2>1. CommandsInOrder(<<>>, events', src_v_)
    <3>1. <<>> \in Seq(Commands) /\ DOMAIN <<>> = {}
      OBVIOUS
    <3> QED
      BY <3>1 DEF CommandsInOrder
  <2>2. s # Nowhere
    BY <1>5, NowhereIsNoSource
  <2>3. /\ \A x \in sim_heap_: x.src \in src_v_
        /\ \A x, y \in sim_heap_: x.src = y.src => x = y
    BY <1>4 DEF Kept
  <2> QED
    BY <1>1, <1>2, <1>12, <2>1, <2>2, <2>3, NothingToEnter DEF InOrder
<1>14. InOrder(sim_heap_', removed', events', src_v_', thrown',
                 reentrant_cmd_v_', delivering')
  BY <1>2, <1>4, <1>13
<1> QED
  BY <1>10, <1>11, <1>14 DEF SimInv, HeapInOrder

\* The front of the heap is put back, or goes.
LEMMA FrontPutBack ==
  ASSUME NEW heap \in SUBSET Entries, NEW gone, NEW ev, NEW srcs \in SUBSET Sources, NEW hurt,
         NEW due, NEW adds, NEW s \in srcs, NEW ev2 \in [Sources -> Seq(Nat)],
         Kept(Others(heap, s), gone \cup {s}, ev, srcs, hurt, due, adds), s \notin adds,
         \A x, y \in heap: x.src = y.src => x = y,
         heap # {}, Earliest(heap).src = s,
         \A u \in srcs \ {s}: ev2[u] = ev[u]
  PROVE  /\ Kept(Reschedule(heap, s, ev2), gone, ev2, srcs, hurt, due, adds)
         /\ Reschedule(heap, s, ev2) \in SUBSET Entries
<1> DEFINE rest == Others(heap, s)
           new == Reschedule(heap, s, ev2)
           e == Entry(s, ev2)
<1>1. heap \ {Earliest(heap)} = rest
  <2>1. Earliest(heap) \in heap
    BY EarliestIsThere
  <2> QED
    BY <2>1 DEF Others
<1>2. new = rest \cup (IF ev2[s] = <<>> THEN {} ELSE {e})
  BY <1>1 DEF Reschedule
<1>3. rest \in SUBSET Entries /\ \A x \in rest: x.src # s
  BY DEF Others
<1>4. Kept(rest, gone \cup {s}, ev, srcs, hurt, due, adds)
  OBVIOUS
<1>5. e.src = s /\ (ev2[s] # <<>> => e \in Entries /\ Timely(e, ev2))
  <2>1. e.src = s /\ e.t0 = Head(ev2[s]) /\ e = [t0 |-> Head(ev2[s]), src |-> s]
    BY DEF Entry
  <2>2. s \in Sources /\ ev2[s] \in Seq(Nat)
    OBVIOUS
  <2>3. ev2[s] # <<>> => Head(ev2[s]) \in Nat
    BY <2>2
  <2> HIDE DEF e
  <2>4. ev2[s] # <<>> => e \in Entries
    BY <2>1, <2>2, <2>3 DEF Entries
  <2>5. ev2[s] # <<>> => Timely(e, ev2)
    BY <2>1, <2>3 DEF Timely
  <2> QED
    BY <2>1, <2>4, <2>5
<1> HIDE DEF rest, new, e
<1>6. new \in SUBSET Entries
  BY <1>2, <1>3, <1>5
<1>7. \A x \in new: x.src \in srcs
  BY <1>2, <1>4, <1>5 DEF Kept
<1>8. \A x, y \in new: x.src = y.src => x = y
  BY <1>2, <1>3, <1>4, <1>5 DEF Kept
<1>9. ~hurt => \A x \in new: Timely(x, ev2)
  <2>1. ~hurt => \A x \in rest: x.src \in srcs \ {s} /\ Timely(x, ev)
    BY <1>3, <1>4 DEF Kept
  <2>2. ~hurt => \A x \in rest: Timely(x, ev2)
    BY <2>1 DEF Timely
  <2> QED
    BY <1>2, <1>5, <2>2
<1>10. Scheduled(rest) \subseteq Scheduled(new) /\ (ev2[s] # <<>> => s \in Scheduled(new))
  BY <1>2, <1>5 DEF Scheduled
<1>11. \A u \in srcs \ gone: ev2[u] # <<>> => u \in Scheduled(new) \cup due
  BY <1>4, <1>10 DEF Kept
<1>12. adds \cap Scheduled(new) = {}
  <2>1. Scheduled(new) \subseteq Scheduled(rest) \cup {s}
    BY <1>2, <1>5 DEF Scheduled
  <2> QED
    BY <1>4, <2>1 DEF Kept
<1>13. Kept(new, gone, ev2, srcs, hurt, due, adds)
  BY <1>7, <1>8, <1>9, <1>11, <1>12 DEF Kept
<1> QED
  BY <1>6, <1>13 DEF new

\* The end of a delivery, with heap what it made of the front.
LEMMA CompleteInOrder ==
  ASSUME SimInv, sim_fault = "none", NEW heap \in SUBSET Entries, UNCHANGED src_v_,
         CompleteDeliveryWork(heap, events'), events' \in [Sources -> Seq(Nat)],
         Kept(heap, removed, events', src_v_, thrown',
              ToEnter(reentrant_cmd_v_, 0), ToAdd(reentrant_cmd_v_, 0)),
         CommandsInOrder(reentrant_cmd_v_, events', src_v_)
  PROVE  HeapTyped' /\ HeapInOrder'
<1>1. PICK st: st = [HeapState EXCEPT !.heap = heap]
  OBVIOUS
<1>2. st \in HeapStates /\ st.heap = heap /\ st.removed = removed /\ st.fault = "none"
  BY <1>1 DEF HeapState, HeapStates, SimInv, HeapTyped
<1>3. Become(Performed(st, reentrant_cmd_v_, events'))
  BY <1>1 DEF CompleteDeliveryWork, Performed
<1>4. reentrant_cmd_v_' = <<>> /\ delivering' = Nowhere
  BY DEF CompleteDeliveryWork
<1>5. PICK new: new = Performed(st, reentrant_cmd_v_, events')
  OBVIOUS
<1>6. sim_heap_' = new.heap /\ sim_fault' = new.fault /\ removed' = new.removed
  BY <1>3, <1>5 DEF Become
<1>7. src_v_ \in SUBSET Sources
  BY DEF SimInv, SourcesTyped
<1>8. Sound(st, events', src_v_, thrown', ToEnter(reentrant_cmd_v_, 0), ToAdd(reentrant_cmd_v_, 0))
  BY <1>2 DEF Sound
<1>9. Sound(new, events', src_v_, thrown', {}, {})
  BY <1>5, <1>7, <1>8, CommandsEnter
<1>10. HeapTyped'
  BY <1>4, <1>6, <1>9 DEF Sound, HeapStates, HeapTyped
<1>11. ASSUME sim_fault' = "none"
       PROVE  InOrder(sim_heap_', removed', events', src_v_', thrown',
                 reentrant_cmd_v_', delivering')
  <2>1. Kept(sim_heap_', removed', events', src_v_, thrown', {}, {})
    BY <1>6, <1>9, <1>11 DEF Sound
  <2>2. InOrder(sim_heap_', removed', events', src_v_, thrown', <<>>, Nowhere)
    BY <1>7, <2>1, AtRest
  <2> QED
    BY <1>4, <2>2
<1> QED
  BY <1>10, <1>11 DEF HeapInOrder

\* What is known during a delivery.
LEMMA DuringDelivery ==
  ASSUME SimInv, sim_fault = "none", delivering # Nowhere
  PROVE  /\ delivering \in src_v_
         /\ sim_heap_ # {} /\ Earliest(sim_heap_) \in sim_heap_
         /\ Earliest(sim_heap_).src = delivering
         /\ InOrder(sim_heap_, removed, events, src_v_, thrown, reentrant_cmd_v_, delivering)
<1>1. InOrder(sim_heap_, removed, events, src_v_, thrown, reentrant_cmd_v_, delivering)
  BY DEF SimInv, HeapInOrder
<1>2. sim_heap_ # {} /\ Earliest(sim_heap_).src = delivering
  BY <1>1 DEF InOrder
<1>3. Earliest(sim_heap_) \in sim_heap_
  BY <1>2, EarliestIsThere DEF SimInv, HeapTyped
<1> QED
  BY <1>1, <1>2, <1>3 DEF InOrder

\* The front is put back at its new time, then the commands are performed.
LEMMA EndDeliveryInOrder ==
  ASSUME SimInv, sim_fault = "none", EndDelivery
  PROVE  SimInv'
<1>1. /\ delivering # Nowhere
      /\ CompleteDeliveryWork(Reschedule(sim_heap_, delivering, events'), events')
      /\ UNCHANGED <<src_v_, now, parent, upstream_exhausted_, thrown>>
  BY DEF EndDelivery
<1>2. PICK s: s = delivering
  OBVIOUS
<1>3. /\ s \in src_v_ /\ s \in Sources /\ sim_heap_ # {} /\ Earliest(sim_heap_).src = s
      /\ InOrder(sim_heap_, removed, events, src_v_, thrown, reentrant_cmd_v_, s)
  BY <1>1, <1>2, DuringDelivery DEF SimInv, SourcesTyped
<1>4. /\ sim_heap_ \in SUBSET Entries /\ src_v_ \in SUBSET Sources
      /\ events \in [Sources -> Seq(Nat)] /\ now \in Nat
      /\ \A u \in Primary: events[u] # <<>>
      /\ \A u \in Sources \ Primary: events[u] # <<>> => u \in src_v_
  BY DEF SimInv, HeapTyped, SourcesTyped
<1>5. /\ events' \in [Sources -> Seq(Nat)]
      /\ \A u \in Sources \ {s}: events'[u] = events[u]
      /\ s \in Primary => events'[s] # <<>>
      /\ s \notin Primary => events'[s] = events[s]
  <2>1. CASE s \in Primary
    <3>1. PICK t \in now + 1 .. MaxTime: events' = [events EXCEPT ![s] = <<t>>]
      BY <1>2, <2>1 DEF EndDelivery
    <3>2. t \in Nat
      BY <1>4, <3>1, SimulatorAssumption
    <3>3. <<t>> \in Seq(Nat) /\ <<t>> # <<>>
      BY <3>2
    <3> QED
      BY <1>3, <1>4, <2>1, <3>1, <3>3
  <2>2. CASE s \notin Primary
    <3>1. events' = events
      BY <1>2, <2>2 DEF EndDelivery
    <3> QED
      BY <1>4, <2>2, <3>1
  <2> QED
    BY <2>1, <2>2
<1>6. SourcesTyped'
  <2>1. delivering' = Nowhere
    BY <1>1 DEF CompleteDeliveryWork
  <2>2. \A u \in Primary: u \in Sources /\ events'[u] # <<>>
    BY <1>4, <1>5 DEF Sources
  <2>3. \A u \in Sources \ Primary: events'[u] # <<>> => u \in src_v_
    BY <1>3, <1>4, <1>5
  <2> QED
    BY <1>1, <1>5, <2>1, <2>2, <2>3 DEF SimInv, SourcesTyped
<1>7. /\ Kept(Others(sim_heap_, s), removed \cup {s}, events, src_v_, thrown,
              ToEnter(reentrant_cmd_v_, 0), ToAdd(reentrant_cmd_v_, 0))
      /\ \A x, y \in sim_heap_: x.src = y.src => x = y
      /\ s \notin ToAdd(reentrant_cmd_v_, 0)
      /\ CommandsInOrder(reentrant_cmd_v_, events, src_v_)
  BY <1>3 DEF InOrder
<1>8. PICK heap: heap = Reschedule(sim_heap_, s, events')
  OBVIOUS
<1>9. \A u \in src_v_ \ {s}: events'[u] = events[u]
  BY <1>4, <1>5
<1>10. /\ Kept(heap, removed, events', src_v_, thrown,
               ToEnter(reentrant_cmd_v_, 0), ToAdd(reentrant_cmd_v_, 0))
       /\ heap \in SUBSET Entries
  BY <1>3, <1>4, <1>5, <1>7, <1>8, <1>9, FrontPutBack
<1>11. CommandsInOrder(reentrant_cmd_v_, events', src_v_)
  <2>1. \A u \in src_v_: events[u] # <<>> => events'[u] # <<>>
    BY <1>4, <1>5
  <2> QED
    BY <1>7, <2>1 DEF CommandsInOrder
<1>12. CompleteDeliveryWork(heap, events')
  BY <1>1, <1>2, <1>8
<1>13. HeapTyped' /\ HeapInOrder'
  BY <1>1, <1>5, <1>10, <1>11, <1>12, CompleteInOrder
<1> QED
  BY <1>6, <1>13 DEF SimInv

\* The front stays as it was, at a time that may be wrong from now on.
LEMMA ThrowInOrder ==
  ASSUME SimInv, sim_fault = "none", Throw
  PROVE  SimInv'
<1>1. /\ delivering # Nowhere /\ thrown' = TRUE
      /\ CompleteDeliveryWork(sim_heap_, events)
      /\ UNCHANGED <<src_v_, now, parent, upstream_exhausted_, events>>
  BY DEF Throw
<1>2. PICK s: s = delivering
  OBVIOUS
<1>3. /\ s \in src_v_ /\ Earliest(sim_heap_) \in sim_heap_ /\ Earliest(sim_heap_).src = s
      /\ InOrder(sim_heap_, removed, events, src_v_, thrown, reentrant_cmd_v_, s)
  BY <1>1, <1>2, DuringDelivery
<1>4. /\ Kept(Others(sim_heap_, s), removed \cup {s}, events, src_v_, thrown,
              ToEnter(reentrant_cmd_v_, 0), ToAdd(reentrant_cmd_v_, 0))
      /\ \A x \in sim_heap_: x.src \in src_v_
      /\ \A x, y \in sim_heap_: x.src = y.src => x = y
      /\ s \notin ToAdd(reentrant_cmd_v_, 0)
      /\ CommandsInOrder(reentrant_cmd_v_, events, src_v_)
  BY <1>3 DEF InOrder
<1>5. Scheduled(sim_heap_) = Scheduled(Others(sim_heap_, s)) \cup {s}
  BY <1>3 DEF Scheduled, Others
<1>6. Kept(sim_heap_, removed, events, src_v_, TRUE,
           ToEnter(reentrant_cmd_v_, 0), ToAdd(reentrant_cmd_v_, 0))
  BY <1>4, <1>5 DEF Kept
<1>7. sim_heap_ \in SUBSET Entries /\ events \in [Sources -> Seq(Nat)]
  BY DEF SimInv, HeapTyped, SourcesTyped
<1>8. HeapTyped' /\ HeapInOrder'
  BY <1>1, <1>4, <1>6, <1>7, CompleteInOrder
<1>9. SourcesTyped'
  BY <1>1 DEF SimInv, SourcesTyped, CompleteDeliveryWork
<1> QED
  BY <1>8, <1>9 DEF SimInv

LEMMA DeliverNothingInOrder ==
  ASSUME SimInv, sim_fault = "none", DeliverNothing
  PROVE  SimInv'
<1>1. PICK s: s = Earliest(sim_heap_).src
  OBVIOUS
<1>2. /\ delivering = Nowhere /\ sim_heap_ # {} /\ events[s] = <<>>
      /\ sim_heap_' = Reschedule(sim_heap_, s, events)
      /\ UNCHANGED <<src_v_, reentrant_cmd_v_, delivering, now, parent, upstream_exhausted_,
                     events, sim_fault, thrown, removed>>
  BY <1>1 DEF DeliverNothing
<1>3. sim_heap_ \in SUBSET Entries /\ src_v_ \in SUBSET Sources
  BY DEF SimInv, HeapTyped, SourcesTyped
<1>4. reentrant_cmd_v_ = <<>> /\ Kept(sim_heap_, removed, events, src_v_, thrown, {}, {})
  BY <1>2, <1>3, AtRest DEF SimInv, HeapInOrder
<1>5. PICK heap: heap = sim_heap_ \ {Earliest(sim_heap_)}
  OBVIOUS
<1>6. sim_heap_' = heap
  BY <1>2, <1>5 DEF Reschedule
<1>7. Scheduled(sim_heap_) \ {s} \subseteq Scheduled(heap)
  BY <1>1, <1>5 DEF Scheduled
<1>8. heap \subseteq sim_heap_ /\ Scheduled(heap) \subseteq Scheduled(sim_heap_)
  BY <1>5 DEF Scheduled
<1>9. Kept(heap, removed, events, src_v_, thrown, {}, {})
  BY <1>2, <1>4, <1>7, <1>8 DEF Kept
<1>10. InOrder(heap, removed, events, src_v_, thrown, <<>>, Nowhere)
  BY <1>3, <1>9, AtRest
<1>11. HeapInOrder'
  <2>1. InOrder(sim_heap_', removed', events', src_v_', thrown',
                 reentrant_cmd_v_', delivering')
    BY <1>2, <1>4, <1>6, <1>10
  <2> QED
    BY <2>1 DEF HeapInOrder
<1>12. HeapTyped'
  BY <1>2, <1>3, <1>6, <1>8 DEF SimInv, HeapTyped
<1>13. SourcesTyped'
  BY <1>2 DEF SimInv, SourcesTyped
<1> QED
  BY <1>11, <1>12, <1>13 DEF SimInv

LEMMA StepKeepsSimInv == SimInv /\ [SimNext]_simVars => SimInv'
<1> SUFFICES ASSUME SimInv, [SimNext]_simVars PROVE SimInv'
  OBVIOUS
<1>1. CASE UNCHANGED simVars
  BY <1>1 DEF simVars, SimInv, HeapTyped, SourcesTyped, HeapInOrder
<1>2. CASE SimNext
  <2>1. sim_fault = "none"
    BY <1>2 DEF SimNext
  <2>2. ASSUME NEW s \in Sources, AddSource(s) \/ RemoveSource(s) \/ Exhaust(s)
        PROVE  SimInv'
    BY <2>1, <2>2, AddSourceInOrder, RemoveSourceInOrder, ExhaustInOrder
  <2>3. CASE AppPushes
    <3>1. PICK s \in Fifo \cup Sorted, t \in Times: Push(s, t)
      BY <2>3 DEF AppPushes
    <3>2. s \in Sources /\ t \in Nat
      BY SimulatorAssumption DEF Sources, Times
    <3> QED
      BY <2>1, <3>1, <3>2, PushInOrder
  <2>4. CASE SinkPushes
    <3>1. PICK s \in Feeds[delivering], t \in now .. MaxTime: Push(s, t)
      BY <2>4 DEF SinkPushes
    <3>2. delivering \in Sources /\ now \in Nat
      BY <2>4 DEF SinkPushes, SimInv, SourcesTyped
    <3>3. s \in Sources /\ t \in Nat
      BY <3>2, SimulatorAssumption DEF Sources
    <3> QED
      BY <2>1, <3>1, <3>3, PushInOrder
  <2>5. CASE BeginDelivery \/ EndDelivery \/ Throw \/ DeliverNothing
    BY <2>1, <2>5, BeginDeliveryInOrder, EndDeliveryInOrder, ThrowInOrder, DeliverNothingInOrder
  <2> QED
    BY <1>2, <2>2, <2>3, <2>4, <2>5 DEF SimNext
<1> QED
  BY <1>1, <1>2

\* The heap, the commands put off and what the sources hold fit together in every state
\* (SimInv), for any sources, any times and any number of calls.
THEOREM SimulatorInvariant == SimSpec => []SimInv
BY InitSimInv, StepKeepsSimInv, PTL DEF SimSpec

\* Whatever the sinks call meanwhile, between deliveries a source of the simulation that
\* has events is in the heap once, and one that has none is not, unless a sink threw
\* (Simulator::heap_insert_source, complete_delivery_work).
THEOREM SourcesAreInOnce == SimSpec => []EachSourceOnce
<1>1. SimInv => EachSourceOnce
  <2> SUFFICES ASSUME SimInv, delivering = Nowhere, sim_fault = "none", NEW s \in src_v_ \ removed
               PROVE  LET n == Cardinality({x \in sim_heap_: x.src = s}) IN
                      IF events[s] # <<>> THEN n = 1 ELSE n = 0 \/ thrown
    BY DEF EachSourceOnce
  <2> DEFINE mine == {x \in sim_heap_: x.src = s}
  <2>1. Kept(sim_heap_, removed, events, src_v_, thrown, {}, {})
    BY AtRest DEF SimInv, HeapInOrder, SourcesTyped
  <2>2. CASE events[s] # <<>>
    <3>1. PICK x \in sim_heap_: x.src = s
      BY <2>1, <2>2 DEF Kept, Scheduled
    <3>2. mine = {x}
      BY <2>1, <3>1 DEF Kept
    <3>3. Cardinality({x}) = 1
      BY FS_Singleton
    <3> QED
      BY <2>2, <3>2, <3>3
  <2>3. CASE events[s] = <<>>
    <3>1. ~thrown => mine = {}
      BY <2>1, <2>3 DEF Kept, Timely
    <3>2. Cardinality({}) = 0
      BY FS_EmptySet
    <3> HIDE DEF mine
    <3>3. ~thrown => Cardinality(mine) = 0
      BY <3>1, <3>2
    <3> QED
      BY <2>3, <3>3 DEF mine
  <2> QED
    BY <2>2, <2>3
<1> QED
  BY <1>1, SimulatorInvariant, PTL

\* The time of an entry of the heap is that of the next event of its source, or too late
\* for one that sorts its events, as long as no sink threw.
THEOREM TimesInHeap == SimSpec => []HeapTimes
<1>1. SimInv => HeapTimes
  <2> SUFFICES ASSUME SimInv, ~thrown, sim_fault = "none",
                      NEW x \in sim_heap_, x.src # delivering
               PROVE  IF x.src \in Sorted THEN x.t0 >= Head(events[x.src])
                                          ELSE x.t0 = Head(events[x.src])
    BY DEF HeapTimes
  <2>1. InOrder(sim_heap_, removed, events, src_v_, thrown, reentrant_cmd_v_, delivering)
    BY DEF SimInv, HeapInOrder
  <2>2. x \in Others(sim_heap_, delivering)
    BY DEF Others
  <2>3. Timely(x, events)
    BY <2>1, <2>2 DEF InOrder, Kept
  <2> QED
    BY <2>3 DEF Timely
<1> QED
  BY <1>1, SimulatorInvariant, PTL

\* No event is delivered ahead of an earlier one that a queue or a stochastic process has
\* next (Simulator::advance_one_event).
THEOREM EarliestIsFirst == SimSpec => EarliestFirst
<1>1. SimInv /\ [SimNext]_simVars =>
        [BeginDelivery /\ ~thrown =>
           \A s \in (src_v_ \cap (Primary \cup Fifo)) \ removed:
             events[s] # <<>> => now' <= Head(events[s])]_simVars
  <2> SUFFICES ASSUME SimInv, SimNext, BeginDelivery, ~thrown,
                      NEW s \in (src_v_ \cap (Primary \cup Fifo)) \ removed, events[s] # <<>>
               PROVE  now' <= Head(events[s])
    OBVIOUS
  <2>1. PICK f: f = Earliest(sim_heap_)
    OBVIOUS
  <2>2. /\ sim_fault = "none" /\ delivering = Nowhere /\ sim_heap_ # {}
        /\ now' = Head(events[f.src])
    BY <2>1 DEF SimNext, BeginDelivery
  <2>3. /\ sim_heap_ \in SUBSET Entries /\ src_v_ \in SUBSET Sources
        /\ events \in [Sources -> Seq(Nat)]
    BY DEF SimInv, HeapTyped, SourcesTyped
  <2>4. Kept(sim_heap_, removed, events, src_v_, thrown, {}, {})
    BY <2>2, <2>3, AtRest DEF SimInv, HeapInOrder
  <2>5. f \in sim_heap_ /\ \A y \in sim_heap_: Before(f, y)
    BY <2>1, <2>2, <2>3, EarliestIsThere
  <2>6. PICK y \in sim_heap_: y.src = s
    BY <2>4 DEF Kept, Scheduled
  <2>7. Timely(f, events) /\ Timely(y, events)
    BY <2>4, <2>5, <2>6 DEF Kept
  <2>8. s \notin Sorted
    BY SimulatorAssumption
  <2>9. y.t0 = Head(events[s])
    BY <2>6, <2>7, <2>8 DEF Timely
  <2>10. f.t0 \in Nat /\ y.t0 \in Nat /\ f.t0 <= y.t0
    BY <2>3, <2>5, <2>6 DEF Before, Entries
  <2>11. Head(events[f.src]) \in Nat /\ f.t0 >= Head(events[f.src])
    <3>1. f.src \in Sources /\ events[f.src] \in Seq(Nat) /\ events[f.src] # <<>>
      BY <2>3, <2>5, <2>7 DEF Entries, Timely
    <3>2. Head(events[f.src]) \in Nat
      BY <3>1
    <3> QED
      BY <2>7, <2>10, <3>2 DEF Timely
  <2> QED
    BY <2>2, <2>9, <2>10, <2>11
<1> QED
  BY <1>1, SimulatorInvariant, PTL DEF SimSpec, EarliestFirst
=============================================================================
