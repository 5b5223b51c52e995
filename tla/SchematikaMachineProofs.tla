------------------------ MODULE SchematikaMachineProofs ------------------------
(* Proofs about the virtual Schematika machine, for every set of forms, every table  *)
(* of primitives and sessions of any length: its continuations always find the       *)
(* frames and the environment they were pushed with, and the value a form ends with   *)
(* is the one its text means.                                                         *)
EXTENDS SchematikaMeaning, SequenceTheorems, NaturalsInduction, WellFoundedInduction, TLAPS

-----------------------------------------------------------------------------
\* what an expression is evaluated for, and a value delivered to
Conts == {"halt", "def_cont", "evalargs", "apply_cont", "ifelse_cont", "seq_cont"}

(* Stacks. The stack s, on which a form began at depth d with environment e0, is an   *)
(* argument here, so that the lemmas also speak of the stack after a step.            *)

FindsOn(s, d, e0, c, n, env) ==
  IF c = "halt" THEN n = d /\ env = e0
  ELSE n > d /\ s[n].op = c /\ (c # "apply_cont" => s[n].env = env)

LinkedOn(s, d, e0, i) ==
  IF s[i].op = "evalargs"
  THEN i > d + 1 /\ s[i - 1].op = "apply" /\ s[i - 1].env = s[i].env
  ELSE s[i].cont \in Conts /\ FindsOn(s, d, e0, s[i].cont, i - 1, s[i].env)

Fields == {"op", "cont", "env", "of", "i", "fn", "args"}

IsSeq(s) == s \in Seq({s[i]: i \in DOMAIN s})

Chain(s, d, e0) ==
  /\ IsSeq(s)
  /\ \A i \in DOMAIN s: Fields \subseteq DOMAIN s[i]
  /\ d \in Nat
  /\ \A i \in d + 1 .. Len(s): LinkedOn(s, d, e0, i)

LEMMA SeqOfItsElements ==
  ASSUME NEW S, NEW s \in Seq(S)
  PROVE  IsSeq(s)
<1>1. Len(s) \in Nat /\ DOMAIN s = 1 .. Len(s) /\ s = [i \in 1 .. Len(s) |-> s[i]]
  OBVIOUS
<1> DEFINE R == {s[i]: i \in DOMAIN s}
<1>2. s \in [1 .. Len(s) -> R]
  BY <1>1
<1>3. s \in Seq(R)
  BY <1>1, <1>2, SeqDef
<1>4. QED
  BY <1>3 DEF IsSeq

LEMMA LenIsNat ==
  ASSUME NEW s, IsSeq(s)
  PROVE  Len(s) \in Nat /\ DOMAIN s = 1 .. Len(s)
BY DEF IsSeq

LEMMA AppendElements ==
  ASSUME NEW s, IsSeq(s), NEW x
  PROVE  /\ IsSeq(Append(s, x))
         /\ Len(Append(s, x)) = Len(s) + 1
         /\ \A i \in 1 .. Len(s): Append(s, x)[i] = s[i]
         /\ Append(s, x)[Len(s) + 1] = x
<1> DEFINE R == {s[i]: i \in DOMAIN s} \cup {x}
<1>1. s \in Seq(R)
  <2>1. s = [i \in 1 .. Len(s) |-> s[i]] /\ Len(s) \in Nat /\ DOMAIN s = 1 .. Len(s)
    BY DEF IsSeq
  <2>2. s \in [1 .. Len(s) -> R]
    BY <2>1
  <2>3. QED
    BY <2>1, <2>2, SeqDef
<1>2. Append(s, x) \in Seq(R)
  BY <1>1
<1>3. IsSeq(Append(s, x))
  BY <1>2, SeqOfItsElements
<1>4. QED
  BY <1>1, <1>3

LEMMA PrefixElements ==
  ASSUME NEW s, IsSeq(s), NEW m \in 0 .. Len(s)
  PROVE  /\ IsSeq(SubSeq(s, 1, m))
         /\ Len(SubSeq(s, 1, m)) = m
         /\ \A i \in 1 .. m: SubSeq(s, 1, m)[i] = s[i]
<1> DEFINE R == {s[i]: i \in DOMAIN s}
<1>1. s \in Seq(R) /\ Len(s) \in Nat
  BY DEF IsSeq
<1>2. SubSeq(s, 1, m) \in Seq(R)
  BY <1>1
<1>3. IsSeq(SubSeq(s, 1, m))
  BY <1>2, SeqOfItsElements
<1>4. QED
  BY <1>1, <1>3

LEMMA SameLink ==
  ASSUME NEW s, NEW t, NEW d \in Nat, NEW e0, NEW i \in Nat, LinkedOn(s, d, e0, i),
         t[i] = s[i], i - 1 > d => t[i - 1] = s[i - 1]
  PROVE  LinkedOn(t, d, e0, i)
BY DEF LinkedOn, FindsOn

(* Pushing a frame that is linked to what lies below it.                             *)
LEMMA AppendLinks ==
  ASSUME NEW s, NEW d, NEW e0, Chain(s, d, e0), NEW f, Fields \subseteq DOMAIN f,
         LinkedOn(Append(s, f), d, e0, Len(s) + 1)
  PROVE  Chain(Append(s, f), d, e0)
<1> DEFINE t == Append(s, f)
<1>1. IsSeq(s) /\ d \in Nat /\ Len(s) \in Nat /\ DOMAIN s = 1 .. Len(s)
  BY LenIsNat DEF Chain
<1>2. /\ IsSeq(t) /\ Len(t) = Len(s) + 1
      /\ \A i \in 1 .. Len(s): t[i] = s[i]
      /\ t[Len(s) + 1] = f
  BY <1>1, AppendElements
<1>3. DOMAIN t = 1 .. Len(s) + 1
  BY <1>2, LenIsNat
<1>4. LinkedOn(t, d, e0, Len(s) + 1)
  OBVIOUS
<1> HIDE DEF t
<1>5. \A i \in DOMAIN t: Fields \subseteq DOMAIN t[i]
  BY <1>1, <1>2, <1>3 DEF Chain
<1>6. ASSUME NEW i \in d + 1 .. Len(t) PROVE LinkedOn(t, d, e0, i)
  <2>1. CASE i \in 1 .. Len(s)
    <3>1. LinkedOn(s, d, e0, i) /\ i \in d + 1 .. Len(s)
      BY <2>1, <1>1, <1>6 DEF Chain
    <3>2. t[i] = s[i] /\ (i - 1 > d => t[i - 1] = s[i - 1])
      BY <1>1, <1>2, <3>1
    <3>3. QED
      BY <3>1, <3>2, <1>1, SameLink
  <2>2. CASE i = Len(s) + 1
    BY <2>2, <1>4
  <2>3. QED
    BY <2>1, <2>2, <1>1, <1>2, <1>6
<1>7. QED
  BY <1>1, <1>2, <1>5, <1>6 DEF t, Chain

(* A frame for an instruction other than evalargs: below it its continuation finds    *)
(* what it needs.                                                                   *)
LEMMA PushLinks ==
  ASSUME NEW s, NEW d, NEW e0, Chain(s, d, e0), NEW f,
         Fields \subseteq DOMAIN f, f.op # "evalargs",
         f.cont \in Conts, FindsOn(s, d, e0, f.cont, Len(s), f.env)
  PROVE  Chain(Append(s, f), d, e0)
<1> DEFINE t == Append(s, f)
<1>1. IsSeq(s) /\ d \in Nat /\ Len(s) \in Nat
  BY LenIsNat DEF Chain
<1>2. t[Len(s) + 1] = f /\ (Len(s) > d => t[Len(s)] = s[Len(s)])
  BY <1>1, AppendElements
<1> HIDE DEF t
<1>3. FindsOn(t, d, e0, f.cont, Len(s), f.env)
  BY <1>1, <1>2 DEF FindsOn
<1>4. Len(s) + 1 - 1 = Len(s)
  BY <1>1
<1>5. LinkedOn(t, d, e0, Len(s) + 1)
  BY <1>2, <1>3, <1>4 DEF LinkedOn
<1>6. QED
  BY <1>5, AppendLinks DEF t

(* Taking frames off leaves the chain below them.                                   *)
LEMMA PrefixLinks ==
  ASSUME NEW s, NEW d, NEW e0, Chain(s, d, e0), NEW m \in 0 .. Len(s)
  PROVE  /\ Chain(SubSeq(s, 1, m), d, e0)
         /\ Len(SubSeq(s, 1, m)) = m
         /\ \A c, env: FindsOn(s, d, e0, c, m, env) => FindsOn(SubSeq(s, 1, m), d, e0, c, m, env)
<1> DEFINE t == SubSeq(s, 1, m)
<1>1. IsSeq(s) /\ d \in Nat /\ Len(s) \in Nat /\ DOMAIN s = 1 .. Len(s)
  BY LenIsNat DEF Chain
<1>2. IsSeq(t) /\ Len(t) = m /\ \A i \in 1 .. m: t[i] = s[i]
  BY <1>1, PrefixElements
<1>3. DOMAIN t = 1 .. m
  BY <1>2, LenIsNat
<1> HIDE DEF t
<1>4. \A i \in DOMAIN t: Fields \subseteq DOMAIN t[i]
  BY <1>1, <1>2, <1>3 DEF Chain
<1>5. ASSUME NEW i \in d + 1 .. Len(t) PROVE LinkedOn(t, d, e0, i)
  <2>1. LinkedOn(s, d, e0, i) /\ i \in d + 1 .. m
    BY <1>1, <1>2, <1>5 DEF Chain
  <2>2. t[i] = s[i] /\ (i - 1 > d => t[i - 1] = s[i - 1])
    BY <1>1, <1>2, <2>1
  <2>3. QED
    BY <2>1, <2>2, <1>1, SameLink
<1>6. \A c, env: FindsOn(s, d, e0, c, m, env) => FindsOn(t, d, e0, c, m, env)
  <2>1. m > d => t[m] = s[m]
    BY <1>1, <1>2
  <2>2. QED
    BY <2>1 DEF FindsOn
<1>7. QED
  BY <1>1, <1>2, <1>4, <1>5, <1>6 DEF t, Chain

(* What the frames are for does not change when they count or collect values.       *)
SameFrames(s, t) ==
  /\ IsSeq(t) /\ Len(t) = Len(s)
  /\ \A i \in 1 .. Len(s): /\ DOMAIN t[i] = DOMAIN s[i]
                           /\ t[i].op = s[i].op /\ t[i].cont = s[i].cont
                           /\ t[i].env = s[i].env

LEMMA ReplaceKeepsFrames ==
  ASSUME NEW s, IsSeq(s), NEW n, NEW f,
         n \in DOMAIN s => /\ DOMAIN f = DOMAIN s[n] /\ f.op = s[n].op
                          /\ f.cont = s[n].cont /\ f.env = s[n].env
  PROVE  SameFrames(s, [s EXCEPT ![n] = f])
<1> DEFINE t == [s EXCEPT ![n] = f]
<1>1. Len(s) \in Nat /\ DOMAIN s = 1 .. Len(s)
  BY LenIsNat
<1>2. DOMAIN t = 1 .. Len(s) /\ \A i \in 1 .. Len(s): t[i] = IF i = n THEN f ELSE s[i]
  BY <1>1
<1>3. IsSeq(t) /\ Len(t) = Len(s)
  <2> DEFINE R == {t[i]: i \in 1 .. Len(s)}
  <2>1. t \in [1 .. Len(s) -> R]
    BY <1>1, <1>2
  <2> HIDE DEF t, R
  <2>2. t \in Seq(R)
    BY <1>1, <2>1, SeqDef
  <2>3. Len(t) = Len(s)
    <3>1. Len(t) \in Nat /\ 1 .. Len(t) = 1 .. Len(s)
      BY <1>2, <2>2, LenProperties
    <3>2. Len(t) \in 1 .. Len(s) \/ Len(t) = 0
      BY <3>1
    <3>3. Len(s) \in 1 .. Len(t) \/ Len(s) = 0
      BY <3>1, <1>1
    <3>4. QED
      BY <3>1, <3>2, <3>3, <1>1
  <2>4. QED
    BY <2>2, <2>3, SeqOfItsElements DEF t
<1> HIDE DEF t
<1>4. ASSUME NEW i \in 1 .. Len(s)
      PROVE  /\ DOMAIN t[i] = DOMAIN s[i] /\ t[i].op = s[i].op
             /\ t[i].cont = s[i].cont /\ t[i].env = s[i].env
  <2>1. CASE i = n
    BY <2>1, <1>1, <1>2
  <2>2. CASE i # n
    BY <2>2, <1>2
  <2>3. QED
    BY <2>1, <2>2
<1>5. QED
  BY <1>3, <1>4 DEF SameFrames, t

LEMMA CountKeepsFrames ==
  ASSUME NEW s, IsSeq(s), \A i \in DOMAIN s: Fields \subseteq DOMAIN s[i],
         NEW n, NEW x
  PROVE  SameFrames(s, [s EXCEPT ![n].i = x])
<1> DEFINE f == [s[n] EXCEPT !.i = x]
<1>1. n \in DOMAIN s => /\ DOMAIN f = DOMAIN s[n] /\ f.op = s[n].op
                       /\ f.cont = s[n].cont /\ f.env = s[n].env
  BY DEF Fields
<1>2. [s EXCEPT ![n].i = x] = [s EXCEPT ![n] = f]
  OBVIOUS
<1>3. QED
  BY <1>1, <1>2, ReplaceKeepsFrames

LEMMA SameFramesLink ==
  ASSUME NEW s, NEW d, NEW e0, Chain(s, d, e0), NEW t, SameFrames(s, t)
  PROVE  /\ Chain(t, d, e0)
         /\ \A c, env: FindsOn(s, d, e0, c, Len(s), env) => FindsOn(t, d, e0, c, Len(t), env)
<1> USE DEF SameFrames
<1>1. IsSeq(s) /\ d \in Nat /\ Len(s) \in Nat /\ DOMAIN s = 1 .. Len(s) /\ DOMAIN t = 1 .. Len(s)
  BY LenIsNat DEF Chain
<1>2. \A i \in DOMAIN t: Fields \subseteq DOMAIN t[i]
  BY <1>1 DEF Chain
<1>3. ASSUME NEW i \in d + 1 .. Len(t) PROVE LinkedOn(t, d, e0, i)
  <2>1. LinkedOn(s, d, e0, i) /\ i \in 1 .. Len(s)
    BY <1>1, <1>3 DEF Chain
  <2>2. i - 1 > d => i - 1 \in 1 .. Len(s)
    BY <2>1, <1>1
  <2>3. QED
    BY <2>1, <2>2, <1>1 DEF LinkedOn, FindsOn
<1>4. \A c, env: FindsOn(s, d, e0, c, Len(s), env) => FindsOn(t, d, e0, c, Len(t), env)
  <2>1. Len(s) > d => Len(s) \in 1 .. Len(s)
    BY <1>1
  <2>2. QED
    BY <2>1 DEF FindsOn
<1>5. QED
  BY <1>1, <1>2, <1>3, <1>4 DEF Chain

-----------------------------------------------------------------------------
(* The inductive invariant.                                                         *)

\* what comes next finds its frame and its environment
Ready ==
  IF pc_ \in {"eval", "apply"}
  THEN cont_ \in Conts /\ FindsOn(stack_, base.depth, base.env, cont_, Len(stack_), local_env_)
  ELSE /\ pc_ \in Conts
       /\ \/ pc_ = "halt" /\ ("error" \in DOMAIN value_ \/ value_ = NoValue)
          \/ FindsOn(stack_, base.depth, base.env, pc_, Len(stack_), local_env_)

VsmInv ==
  /\ Chain(stack_, base.depth, base.env)
  /\ vsm_fault = "none" => Ready

LEMMA InvPreservesRegisters == VsmInv => RegistersPreserved
BY DEF VsmInv, Ready, RegistersPreserved, Finds, FindsOn, Conts

LEMMA InitInv == VsmInit => VsmInv
<1> SUFFICES ASSUME VsmInit PROVE VsmInv
  OBVIOUS
<1>1. IsSeq(<<>>) /\ Len(<<>>) = 0 /\ DOMAIN <<>> = {}
  <2>1. <<>> \in Seq({}) /\ Len(<<>>) = 0
    OBVIOUS
  <2>2. IsSeq(<<>>)
    BY <2>1, SeqOfItsElements
  <2>3. QED
    BY <2>1, <2>2, LenIsNat
<1>2. Chain(stack_, base.depth, base.env)
  BY <1>1 DEF VsmInit, Chain, NoEnv
<1>3. QED
  BY <1>1, <1>2 DEF VsmInit, VsmInv, Ready, FindsOn, Conts

(* Steps that leave the stack alone.                                                *)
LEMMA DeliverKeeps ==
  ASSUME VsmInv, vsm_fault = "none", pc_ \in {"eval", "apply"}, NEW v, Deliver(v), base' = base
  PROVE  VsmInv'
BY DEF VsmInv, Ready, Deliver, Continue, Conts

LEMMA StopKeeps ==
  ASSUME VsmInv, NEW what, Stop(what), base' = base
  PROVE  VsmInv'
BY DEF VsmInv, Ready, Stop, Continue, Conts, Error

LEMMA AssertionKeeps ==
  ASSUME VsmInv, vsm_fault' = "assert", stack_' = stack_, base' = base
  PROVE  VsmInv'
BY DEF VsmInv

LEMMA StartKeeps ==
  ASSUME VsmInv, NEW f, StartEval(f)
  PROVE  VsmInv'
<1>1. Chain(stack_, base.depth, base.env) /\ Len(stack_) \in Nat
  BY LenIsNat DEF VsmInv, Chain
<1>2. stack_' = stack_ /\ base'.depth = Len(stack_) /\ base'.env = local_env_
      /\ local_env_' = local_env_ /\ pc_' = "eval" /\ cont_' = "halt"
  BY DEF StartEval, Evaluate
<1>3. Chain(stack_', base'.depth, base'.env)
  BY <1>1, <1>2 DEF Chain
<1>4. QED
  BY <1>2, <1>3 DEF VsmInv, Ready, FindsOn, Conts

(* Steps that evaluate a part of an expression, in a frame of their own.            *)
LEMMA PushKeeps ==
  ASSUME VsmInv, vsm_fault = "none", pc_ \in {"eval", "apply"},
         NEW op \in Conts \ {"halt", "evalargs"}, NEW e,
         stack_' = Append(stack_, Frame(op, e)), base' = base,
         pc_' = "eval", cont_' = op, op # "apply_cont" => local_env_' = local_env_
  PROVE  VsmInv'
<1> DEFINE f == Frame(op, e)
<1>1. /\ Fields \subseteq DOMAIN f /\ f.op = op /\ f.cont = cont_ /\ f.env = local_env_
  BY DEF Frame, Fields
<1>2. /\ Chain(stack_, base.depth, base.env) /\ cont_ \in Conts
      /\ FindsOn(stack_, base.depth, base.env, cont_, Len(stack_), local_env_)
  BY DEF VsmInv, Ready
<1>3. base.depth \in Nat /\ Len(stack_) \in Nat /\ IsSeq(stack_)
  BY <1>2, LenIsNat DEF Chain
<1>4. Len(stack_) >= base.depth
  BY <1>2, <1>3 DEF FindsOn
<1> HIDE DEF f
<1>5. stack_' = Append(stack_, f)
  BY DEF f
<1>6. Len(stack_') = Len(stack_) + 1 /\ stack_'[Len(stack_) + 1] = f
  BY <1>3, <1>5, AppendElements
<1>7. Chain(stack_', base.depth, base.env)
  BY <1>1, <1>2, <1>5, PushLinks
<1>8. FindsOn(stack_', base.depth, base.env, op, Len(stack_'), local_env_')
  BY <1>1, <1>3, <1>4, <1>6 DEF FindsOn
<1>9. QED
  BY <1>7, <1>8 DEF VsmInv, Ready

(* A call pushes two frames.                                                        *)
LEMMA ApplyKeeps ==
  ASSUME VsmInv, vsm_fault = "none", pc_ = "eval", EvalApply, base' = base
  PROVE  VsmInv'
<1> DEFINE f == Frame("apply", expr_)
           g == [Frame("evalargs", expr_) EXCEPT !.cont = "apply", !.i = -1]
           s == Append(stack_, f)
           n == Len(stack_)
<1>1. /\ Fields \subseteq DOMAIN f /\ f.op = "apply" /\ f.cont = cont_ /\ f.env = local_env_
      /\ Fields \subseteq DOMAIN g /\ g.op = "evalargs" /\ g.env = local_env_
  BY DEF Frame, Fields
<1>2. /\ Chain(stack_, base.depth, base.env) /\ cont_ \in Conts
      /\ FindsOn(stack_, base.depth, base.env, cont_, n, local_env_)
  BY DEF VsmInv, Ready
<1>3. base.depth \in Nat /\ n \in Nat /\ IsSeq(stack_)
  BY <1>2, LenIsNat DEF Chain
<1>4. n >= base.depth
  BY <1>2, <1>3 DEF FindsOn
<1>5. /\ stack_' = Append(s, g) /\ pc_' = "eval" /\ cont_' = "evalargs"
      /\ local_env_' = local_env_
  BY DEF EvalApply, Evaluate
<1> HIDE DEF f, g
<1>6. IsSeq(s) /\ Len(s) = n + 1 /\ s[n + 1] = f
  BY <1>3, AppendElements
<1>7. Chain(s, base.depth, base.env)
  BY <1>1, <1>2, PushLinks
<1> HIDE DEF s
<1>8. Len(stack_') = n + 2 /\ stack_'[n + 2] = g /\ stack_'[n + 1] = f
  BY <1>3, <1>5, <1>6, AppendElements
<1>9. Chain(stack_', base.depth, base.env)
  <2>1. LinkedOn(Append(s, g), base.depth, base.env, Len(s) + 1)
    BY <1>1, <1>3, <1>4, <1>5, <1>6, <1>8 DEF LinkedOn
  <2>2. QED
    BY <2>1, <1>1, <1>5, <1>7, AppendLinks
<1>10. FindsOn(stack_', base.depth, base.env, "evalargs", Len(stack_'), local_env_')
  BY <1>1, <1>3, <1>4, <1>5, <1>8 DEF FindsOn
<1>11. QED
  BY <1>5, <1>9, <1>10 DEF VsmInv, Ready, Conts

(* Steps that take frames off: what is left finds what the frame was pushed on.      *)
LEMMA PopKeeps ==
  ASSUME VsmInv, vsm_fault = "none", pc_ \in Conts \ {"halt", "evalargs"},
         FindsOn(stack_, base.depth, base.env, pc_, Len(stack_), local_env_), Pop, base' = base
  PROVE  /\ Chain(stack_', base.depth, base.env)
         /\ Top.cont \in Conts
         /\ FindsOn(stack_', base.depth, base.env, Top.cont, Len(stack_'), Top.env)
         /\ pc_ # "apply_cont" => Top.env = local_env_
<1> DEFINE n == Len(stack_)
<1>1. Chain(stack_, base.depth, base.env) /\ base.depth \in Nat /\ n \in Nat /\ IsSeq(stack_)
  BY LenIsNat DEF VsmInv, Chain
<1>2. n > base.depth /\ Top.op = pc_ /\ (pc_ # "apply_cont" => Top.env = local_env_)
  BY DEF FindsOn, Top, Conts
<1>3. LinkedOn(stack_, base.depth, base.env, n)
  BY <1>1, <1>2 DEF Chain
<1>4. Top.cont \in Conts /\ FindsOn(stack_, base.depth, base.env, Top.cont, n - 1, Top.env)
  BY <1>2, <1>3 DEF LinkedOn, Top
<1>5. n - 1 \in 0 .. n /\ stack_' = SubSeq(stack_, 1, n - 1)
  BY <1>1, <1>2 DEF Pop
<1>6. /\ Chain(stack_', base.depth, base.env) /\ Len(stack_') = n - 1
      /\ FindsOn(stack_', base.depth, base.env, Top.cont, n - 1, Top.env)
  BY <1>1, <1>4, <1>5, PrefixLinks
<1>7. QED
  BY <1>2, <1>4, <1>6

LEMMA EvalKeeps ==
  ASSUME VsmInv, vsm_fault = "none", EvalStep, base' = base
  PROVE  VsmInv'
<1> pc_ = "eval"
  BY DEF EvalStep
<1>1. CASE EvalConstant
  BY <1>1, DeliverKeeps DEF EvalConstant
<1>2. CASE EvalDefine
  <2>1. CASE local_env_ # NoEnv
    BY <1>2, <2>1, AssertionKeeps DEF EvalDefine, FailedAssertion
  <2>2. CASE local_env_ = NoEnv
    BY <1>2, <2>2, PushKeeps DEF EvalDefine, PushFrame, Evaluate, Conts
  <2>3. QED
    BY <2>1, <2>2
<1>3. CASE EvalLambda
  BY <1>3, DeliverKeeps DEF EvalLambda
<1>4. CASE EvalVarRef
  BY <1>4, DeliverKeeps, StopKeeps, AssertionKeeps DEF EvalVarRef, FailedAssertion
<1>5. CASE EvalApply
  BY <1>5, ApplyKeeps
<1>6. CASE EvalIfElse
  BY <1>6, PushKeeps DEF EvalIfElse, PushFrame, Evaluate, Conts
<1>7. CASE EvalSequence
  <2>1. CASE expr_.elts = <<>>
    BY <1>7, <2>1 DEF EvalSequence, VsmInv, Ready, Conts
  <2>2. CASE expr_.elts # <<>>
    BY <1>7, <2>2, PushKeeps DEF EvalSequence, PushFrame, Evaluate, Conts
  <2>3. QED
    BY <2>1, <2>2
<1>8. QED
  BY <1>1, <1>2, <1>3, <1>4, <1>5, <1>6, <1>7 DEF EvalStep

LEMMA CallKeeps ==
  ASSUME VsmInv, vsm_fault = "none", Apply, base' = base
  PROVE  VsmInv'
<1> pc_ = "apply"
  BY DEF Apply
<1>1. CASE CallClosure /\ TailCall
  <2>1. /\ stack_' = stack_ /\ cont_' = cont_ /\ pc_' = "eval" /\ cont_ = "apply_cont"
    BY <1>1 DEF CallClosure, TailCall
  <2>2. QED
    BY <2>1 DEF VsmInv, Ready, FindsOn
<1>2. CASE CallClosure /\ ~TailCall
  BY <1>2, PushKeeps DEF CallClosure, TailCall, PushFrame, Conts
<1>3. CASE CallPrimitive
  BY <1>3, DeliverKeeps DEF CallPrimitive
<1>4. QED
  BY <1>1, <1>2, <1>3 DEF Apply

LEMMA ApplyContKeeps ==
  ASSUME VsmInv, vsm_fault = "none", ApplyCont, base' = base
  PROVE  VsmInv'
<1>1. pc_ = "apply_cont" /\ Pop /\ local_env_' = Top.env /\ pc_' = Top.cont
  BY DEF ApplyCont, Restored, Continue
<1>2. FindsOn(stack_, base.depth, base.env, pc_, Len(stack_), local_env_)
  BY <1>1 DEF VsmInv, Ready
<1>3. QED
  BY <1>1, <1>2, PopKeeps DEF VsmInv, Ready, Conts

LEMMA DefContKeeps ==
  ASSUME VsmInv, vsm_fault = "none", DefCont, base' = base
  PROVE  VsmInv'
<1>1. CASE value_ = NoValue
  BY <1>1, AssertionKeeps DEF DefCont, FailedAssertion
<1>2. CASE value_ # NoValue
  <2>1. pc_ = "def_cont" /\ Pop /\ local_env_' = local_env_ /\ pc_' = Top.cont
    BY <1>2 DEF DefCont, Continue
  <2>2. FindsOn(stack_, base.depth, base.env, pc_, Len(stack_), local_env_)
    BY <2>1 DEF VsmInv, Ready
  <2>3. QED
    BY <2>1, <2>2, PopKeeps DEF VsmInv, Ready, Conts
<1>3. QED
  BY <1>1, <1>2

LEMMA IfElseContKeeps ==
  ASSUME VsmInv, vsm_fault = "none", IfElseCont, base' = base
  PROVE  VsmInv'
<1>1. CASE value_ = NoValue
  BY <1>1, AssertionKeeps DEF IfElseCont, FailedAssertion
<1>2. CASE value_ # NoValue /\ ~IsBoolean(value_)
  BY <1>2, StopKeeps DEF IfElseCont
<1>3. CASE value_ # NoValue /\ IsBoolean(value_)
  <2>1. /\ pc_ = "ifelse_cont" /\ Pop /\ local_env_' = local_env_
        /\ pc_' = "eval" /\ cont_' = Top.cont
    BY <1>3 DEF IfElseCont, Evaluate
  <2>2. FindsOn(stack_, base.depth, base.env, pc_, Len(stack_), local_env_)
    BY <2>1 DEF VsmInv, Ready
  <2>3. QED
    BY <2>1, <2>2, PopKeeps DEF VsmInv, Ready, Conts
<1>4. QED
  BY <1>1, <1>2, <1>3

LEMMA SeqContKeeps ==
  ASSUME VsmInv, vsm_fault = "none", SeqCont, base' = base
  PROVE  VsmInv'
<1> DEFINE n == Len(stack_)
<1>1. pc_ = "seq_cont" /\ local_env_' = local_env_
  BY DEF SeqCont
<1>2. /\ Chain(stack_, base.depth, base.env)
      /\ FindsOn(stack_, base.depth, base.env, "seq_cont", n, local_env_)
  BY <1>1 DEF VsmInv, Ready
<1>3. CASE Top.i + 1 = Len(Top.of.elts)
  <2>1. Pop /\ pc_' = Top.cont
    BY <1>3 DEF SeqCont, Continue
  <2>2. QED
    BY <1>1, <1>2, <2>1, PopKeeps DEF VsmInv, Ready, Conts
<1>4. CASE Top.i + 1 # Len(Top.of.elts)
  <2> DEFINE i == Top.i + 1
  <2>1. stack_' = [stack_ EXCEPT ![n].i = i] /\ pc_' = "eval" /\ cont_' = "seq_cont"
    BY <1>4 DEF SeqCont, Evaluate
  <2> HIDE DEF i
  <2>2. IsSeq(stack_) /\ n \in Nat /\ DOMAIN stack_ = 1 .. n
    BY <1>2, LenIsNat DEF Chain
  <2>3. SameFrames(stack_, stack_')
    BY <2>1, <2>2, <1>2, CountKeepsFrames DEF Chain
  <2>4. /\ Chain(stack_', base.depth, base.env)
        /\ FindsOn(stack_', base.depth, base.env, "seq_cont", Len(stack_'), local_env_)
    BY <1>2, <2>3, SameFramesLink
  <2>5. QED
    BY <1>1, <2>1, <2>4 DEF VsmInv, Ready, Conts
<1>5. QED
  BY <1>3, <1>4

(* The loop over the arguments of a call.                                           *)
LEMMA EvalArgsKeeps ==
  ASSUME VsmInv, vsm_fault = "none", EvalArgs, base' = base
  PROVE  VsmInv'
<1> DEFINE n == Len(stack_)
           i == Top.i
           apply == IF i = -1 THEN [stack_[n - 1] EXCEPT !.fn = value_]
                              ELSE [stack_[n - 1] EXCEPT !.args = Append(@, value_)]
<1>1. pc_ = "evalargs" /\ local_env_' = local_env_ /\ value_' = value_
  BY DEF EvalArgs
<1>2. CASE value_ = NoValue
  <2>1. pc_' = "halt" /\ stack_' = stack_ /\ vsm_fault' = vsm_fault
    BY <1>2 DEF EvalArgs, Continue
  <2>2. QED
    BY <1>1, <1>2, <2>1 DEF VsmInv, Ready, Conts, NoValue
<1>3. CASE value_ # NoValue /\ i = -1 /\ ~IsProcedure(value_)
  BY <1>3, AssertionKeeps DEF EvalArgs
<1>4. CASE value_ # NoValue /\ ~(i = -1 /\ ~IsProcedure(value_))
  <2>1. IF i + 1 = Len(Top.of.args)
        THEN CallWith(apply)
        ELSE /\ stack_' = [stack_ EXCEPT ![n - 1] = apply, ![n].i = i + 1]
             /\ pc_' = "eval" /\ cont_' = "evalargs"
    BY <1>4 DEF EvalArgs, Evaluate
  <2>2. /\ Chain(stack_, base.depth, base.env)
        /\ base.depth \in Nat /\ n \in Nat /\ IsSeq(stack_) /\ DOMAIN stack_ = 1 .. n
    BY LenIsNat DEF VsmInv, Chain
  <2>3. n > base.depth /\ stack_[n].op = "evalargs" /\ stack_[n].env = local_env_
    BY <1>1 DEF VsmInv, Ready, FindsOn
  <2>4. /\ n - 1 > base.depth /\ stack_[n - 1].op = "apply" /\ stack_[n - 1].env = local_env_
    BY <2>2, <2>3 DEF Chain, LinkedOn
  <2>5. /\ stack_[n - 1].cont \in Conts
        /\ FindsOn(stack_, base.depth, base.env, stack_[n - 1].cont, n - 2, local_env_)
    <3>1. LinkedOn(stack_, base.depth, base.env, n - 1)
      BY <2>2, <2>4 DEF Chain
    <3>2. n - 1 - 1 = n - 2
      BY <2>2
    <3>3. QED
      BY <3>1, <3>2, <2>4 DEF LinkedOn
  <2>6. /\ DOMAIN apply = DOMAIN stack_[n - 1] /\ apply.op = stack_[n - 1].op
        /\ apply.cont = stack_[n - 1].cont /\ apply.env = stack_[n - 1].env
    <3>1. n - 1 \in DOMAIN stack_
      BY <2>2, <2>4
    <3>2. Fields \subseteq DOMAIN stack_[n - 1]
      BY <2>2, <3>1 DEF Chain
    <3>3. QED
      BY <3>2 DEF Fields
  <2> HIDE DEF apply, i
  <2>7. CASE CallWith(apply)
    <3>1. /\ stack_' = SubSeq(stack_, 1, n - 2) /\ pc_' = "apply"
          /\ cont_' = stack_[n - 1].cont
      BY <2>6, <2>7 DEF CallWith
    <3>2. n - 2 \in 0 .. n
      BY <2>2, <2>4
    <3>3. /\ Chain(stack_', base.depth, base.env) /\ Len(stack_') = n - 2
          /\ FindsOn(stack_', base.depth, base.env, cont_', n - 2, local_env_)
      BY <2>2, <2>5, <3>1, <3>2, PrefixLinks
    <3>4. QED
      BY <1>1, <2>5, <3>1, <3>3 DEF VsmInv, Ready
  <2>8. CASE /\ stack_' = [stack_ EXCEPT ![n - 1] = apply, ![n].i = i + 1]
             /\ pc_' = "eval" /\ cont_' = "evalargs"
    <3> DEFINE s == [stack_ EXCEPT ![n - 1] = apply]
    <3>1. SameFrames(stack_, s)
      BY <2>2, <2>6, ReplaceKeepsFrames
    <3> HIDE DEF s
    <3>2. FindsOn(stack_, base.depth, base.env, "evalargs", Len(stack_), local_env_)
      BY <2>3 DEF FindsOn
    <3>3. /\ Chain(s, base.depth, base.env) /\ IsSeq(s)
          /\ FindsOn(s, base.depth, base.env, "evalargs", Len(s), local_env_)
      BY <2>2, <3>1, <3>2, SameFramesLink DEF SameFrames
    <3>4. SameFrames(s, stack_')
      <4>1. stack_' = [s EXCEPT ![n].i = i + 1]
        BY <2>8 DEF s
      <4>2. QED
        BY <3>3, <4>1, CountKeepsFrames DEF Chain
    <3>5. /\ Chain(stack_', base.depth, base.env)
          /\ FindsOn(stack_', base.depth, base.env, "evalargs", Len(stack_'), local_env_)
      BY <3>3, <3>4, SameFramesLink
    <3>6. QED
      BY <1>1, <2>8, <3>5 DEF VsmInv, Ready, Conts
  <2>9. QED
    BY <2>1, <2>7, <2>8
<1>5. QED
  BY <1>2, <1>3, <1>4

LEMMA StepKeepsInv == VsmInv /\ [VsmNext]_vsmVars => VsmInv'
<1> SUFFICES ASSUME VsmInv, [VsmNext]_vsmVars PROVE VsmInv'
  OBVIOUS
<1>1. CASE UNCHANGED vsmVars
  BY <1>1 DEF vsmVars, history, VsmInv, Chain, Ready
<1>2. CASE vsm_fault = "none" /\ Instruction
  <2>1. base' = base
    BY <1>2 DEF Instruction, history
  <2>2. QED
    BY <1>2, <2>1, EvalKeeps, EvalArgsKeeps, CallKeeps, ApplyContKeeps, DefContKeeps,
       IfElseContKeeps, SeqContKeeps DEF Instruction
<1>3. CASE \E f \in Forms: StartEval(f)
  BY <1>3, StartKeeps
<1>4. QED
  BY <1>1, <1>2, <1>3 DEF VsmNext

LEMMA MachineInvariant == VsmSpec => []VsmInv
BY InitInv, StepKeepsInv, PTL DEF VsmSpec

(* Through any nesting of calls, tail calls, branches and sequences, each            *)
(* continuation finds the frame that was pushed for it and the environment of that    *)
(* time, and a form that ends without an error leaves both as it found them           *)
(* (DVirtualSchematikaMachine.cpp, every instruction).                              *)
THEOREM RegistersArePreserved == VsmSpec => []RegistersPreserved
<1>1. VsmSpec => []VsmInv
  BY MachineInvariant
<1>2. QED
  BY <1>1, InvPreservesRegisters, PTL

-----------------------------------------------------------------------------
(* What evaluations mean.                                                            *)

Outcomes == Values \cup {NoValue, NoMeaning}

LEMMA ValueFacts ==
  /\ NoMeaning \notin Values /\ NoValue \notin Values /\ NoValue # NoMeaning
  /\ Plain(NoValue) = NoValue
  /\ \A v \in Values: /\ Plain(v) = v /\ "error" \notin DOMAIN v
                      /\ IsClosure(v) => v.lambda \in Terms /\ v.lambda.op = "lambda"
<1>1. \A v \in Data: {"none", "unknown", "error", "lambda"} \cap DOMAIN v = {}
  BY TermAssumption DEF TermAssumption
<1>2. \A v \in Closures: DOMAIN v = {"lambda"} /\ v.lambda \in Terms /\ v.lambda.op = "lambda"
  BY DEF Closures
<1>3. DOMAIN NoMeaning = {"unknown"} /\ DOMAIN NoValue = {"none"}
  BY DEF NoMeaning, NoValue
<1>4. \A v \in Closures: v = [lambda |-> v.lambda]
  BY DEF Closures
<1>5. NoMeaning \notin Values /\ NoValue \notin Values /\ NoValue # NoMeaning
  BY <1>1, <1>2, <1>3 DEF Values
<1>6. Plain(NoValue) = NoValue
  BY <1>3 DEF Plain, IsClosure
<1>7. ASSUME NEW v \in Values
      PROVE  /\ Plain(v) = v /\ "error" \notin DOMAIN v
             /\ IsClosure(v) => v.lambda \in Terms /\ v.lambda.op = "lambda"
  <2>1. CASE v \in Data
    BY <1>1, <2>1 DEF Plain, IsClosure
  <2>2. CASE v \in Closures
    BY <1>2, <1>4, <2>2 DEF Plain, IsClosure
  <2> QED
    BY <2>1, <2>2 DEF Values
<1> QED
  BY <1>5, <1>6, <1>7

LEMMA TermFacts ==
  ASSUME NEW e \in Terms
  PROVE  /\ e.op \in {"constant", "lambda", "local", "global", "if", "sequence", "apply"}
         /\ e.op = "constant" => e.value \in Data
         /\ e.op = "lambda" => e.body \in Terms
         /\ e.op = "if" => e.test \in Terms /\ e.yes \in Terms /\ e.no \in Terms
         /\ e.op = "sequence" => e.elts \in Seq(Terms)
         /\ e.op = "apply" => e.fn \in Terms /\ e.args \in Seq(Terms)
BY TermAssumption DEF TermAssumption

\* The elements of a sequence.
LEMMA Elements ==
  ASSUME NEW S, NEW s \in Seq(S)
  PROVE  /\ Len(s) \in Nat /\ DOMAIN s = 1 .. Len(s) /\ \A i \in 1 .. Len(s): s[i] \in S
         /\ s # <<>> => Len(s) # 0
  OBVIOUS

\* A sequence with a value for each element of another.
LEMMA SameLength ==
  ASSUME NEW S, NEW s \in Seq(S), NEW t, NEW T, t \in Seq(T), DOMAIN t = DOMAIN s
  PROVE  Len(t) = Len(s)
<1>1. Len(s) \in Nat /\ Len(t) \in Nat /\ 1 .. Len(s) = 1 .. Len(t)
  OBVIOUS
<1>2. (Len(t) = 0 \/ Len(t) \in 1 .. Len(s)) /\ (Len(s) = 0 \/ Len(s) \in 1 .. Len(t))
  BY <1>1
<1> QED
  BY <1>1, <1>2

ArgumentsOf(m, e, args) == [i \in DOMAIN e.args |-> m[<<e.args[i], args>>]]

\* What an evaluation means is a value, no value, or unknown.
LEMMA ResultType ==
  ASSUME NEW m \in [Evaluations -> Outcomes], NEW fn \in Outcomes, IsProcedure(fn),
         NEW args \in Seq(Values)
  PROVE  /\ Result(m, fn, args) \in Outcomes /\ fn \in Values
         /\ IsClosure(fn) => <<fn.lambda.body, args>> \in Evaluations
<1>1. fn \in Values
  BY DEF Outcomes, IsProcedure, IsClosure, NoValue, NoMeaning
<1>2. IsClosure(fn) => <<fn.lambda.body, args>> \in Evaluations
  BY <1>1, ValueFacts, TermFacts DEF Evaluations
<1>3. CASE IsClosure(fn)
  BY <1>1, <1>2, <1>3 DEF Result
<1>4. CASE ~IsClosure(fn)
  BY <1>1, <1>2, <1>4 DEF Result, Proper, Outcomes
<1> QED
  BY <1>3, <1>4

LEMMA MeaningType ==
  ASSUME NEW m \in [Evaluations -> Outcomes], NEW e \in Terms, NEW args \in Seq(Values), NEW g
  PROVE  MeaningBy(m, e, args, g) \in Outcomes
<1>1. \A x \in Terms: m[<<x, args>>] \in Outcomes
  BY DEF Evaluations
<1>2. CASE e.op = "constant"
  BY <1>2, TermFacts DEF MeaningBy, Outcomes, Values
<1>3. CASE e.op = "lambda"
  BY <1>3 DEF MeaningBy, Outcomes, Values, Closures
<1>4. CASE e.op = "local"
  BY <1>4, Elements DEF MeaningBy, Outcomes
<1>5. CASE e.op = "global"
  BY <1>5 DEF MeaningBy, Outcomes, Proper
<1>6. CASE e.op = "if"
  BY <1>1, <1>6, TermFacts DEF MeaningBy, Outcomes
<1>7. CASE e.op = "sequence"
  <2>1. CASE e.elts = <<>>
    BY <1>7, <2>1 DEF MeaningBy, Outcomes
  <2>2. CASE e.elts # <<>>
    <3>1. Len(e.elts) \in 1 .. Len(e.elts)
      BY <1>7, <2>2, TermFacts, Elements
    <3>2. m[<<e.elts[Len(e.elts)], args>>] \in Outcomes
      BY <1>1, <1>7, <3>1, TermFacts, Elements
    <3> QED
      BY <1>7, <2>2, <3>2 DEF MeaningBy, Outcomes
  <2> QED
    BY <2>1, <2>2
<1>8. CASE e.op = "apply"
  <2> DEFINE all == ArgumentsOf(m, e, args)
             fn == m[<<e.fn, args>>]
  <2>1. MeaningBy(m, e, args, g) = IF ~IsProcedure(fn) \/ ~(all \in Seq(Values)) THEN NoMeaning
                                   ELSE Result(m, fn, all)
    BY <1>8 DEF MeaningBy, ArgumentsOf
  <2>2. fn \in Outcomes
    BY <1>1, <1>8, TermFacts
  <2> HIDE DEF all, fn
  <2>3. IsProcedure(fn) /\ all \in Seq(Values) => Result(m, fn, all) \in Outcomes
    BY <2>2, ResultType
  <2> QED
    BY <2>1, <2>3 DEF Outcomes
<1> QED
  BY <1>2, <1>3, <1>4, <1>5, <1>6, <1>7, <1>8, TermFacts

\* m2 knows what m knows.
Knows(m2, m) == \A j \in Evaluations: m[j] # NoMeaning => m2[j] = m[j]

LEMMA MeaningGrows ==
  ASSUME NEW m \in [Evaluations -> Outcomes], NEW m2, Knows(m2, m),
         NEW e \in Terms, NEW args \in Seq(Values), NEW g, MeaningBy(m, e, args, g) # NoMeaning
  PROVE  MeaningBy(m2, e, args, g) = MeaningBy(m, e, args, g)
<1>1. \A x \in Terms: m[<<x, args>>] # NoMeaning => m2[<<x, args>>] = m[<<x, args>>]
  BY DEF Knows, Evaluations
<1>2. CASE e.op \in {"constant", "lambda", "local", "global"}
  BY <1>2 DEF MeaningBy
<1>3. CASE e.op = "if"
  <2>1. e.test \in Terms /\ e.yes \in Terms /\ e.no \in Terms
    BY <1>3, TermFacts
  <2>2. IsBoolean(m[<<e.test, args>>])
    BY <1>3 DEF MeaningBy
  <2>3. m2[<<e.test, args>>] = m[<<e.test, args>>]
    BY <1>1, <2>1, <2>2 DEF IsBoolean, NoMeaning
  <2> QED
    BY <1>1, <1>3, <2>1, <2>2, <2>3 DEF MeaningBy
<1>4. CASE e.op = "sequence"
  <2>1. CASE e.elts = <<>>
    BY <1>4, <2>1 DEF MeaningBy
  <2>2. CASE e.elts # <<>>
    <3>1. Len(e.elts) \in 1 .. Len(e.elts) /\ DOMAIN e.elts = 1 .. Len(e.elts)
          /\ \A i \in DOMAIN e.elts: e.elts[i] \in Terms
      BY <1>4, <2>2, TermFacts, Elements
    <3>2. \A i \in DOMAIN e.elts: m[<<e.elts[i], args>>] # NoMeaning
      BY <1>4, <2>2 DEF MeaningBy
    <3>3. \A i \in DOMAIN e.elts: m2[<<e.elts[i], args>>] = m[<<e.elts[i], args>>]
      BY <1>1, <3>1, <3>2
    <3> QED
      BY <1>4, <2>2, <3>1, <3>2, <3>3 DEF MeaningBy
  <2> QED
    BY <2>1, <2>2
<1>5. CASE e.op = "apply"
  <2> DEFINE all == ArgumentsOf(m, e, args)
             fn == m[<<e.fn, args>>]
             all2 == ArgumentsOf(m2, e, args)
             fn2 == m2[<<e.fn, args>>]
  <2>1. /\ MeaningBy(m, e, args, g) = IF ~IsProcedure(fn) \/ ~(all \in Seq(Values)) THEN NoMeaning
                                      ELSE Result(m, fn, all)
        /\ MeaningBy(m2, e, args, g) = IF ~IsProcedure(fn2) \/ ~(all2 \in Seq(Values)) THEN NoMeaning
                                       ELSE Result(m2, fn2, all2)
    BY <1>5 DEF MeaningBy, ArgumentsOf
  <2>2. IsProcedure(fn) /\ all \in Seq(Values) /\ fn \in Outcomes
    BY <1>5, <2>1, TermFacts DEF Evaluations
  <2>3. fn2 = fn
    <3>1. fn # NoMeaning /\ e.fn \in Terms
      BY <1>5, <2>2, TermFacts DEF IsProcedure, IsClosure, NoMeaning
    <3> QED
      BY <1>1, <3>1
  <2>4. all2 = all
    <3>1. \A i \in DOMAIN e.args: e.args[i] \in Terms
      BY <1>5, TermFacts, Elements
    <3>2. DOMAIN all = DOMAIN e.args /\ \A i \in DOMAIN e.args: all[i] = m[<<e.args[i], args>>]
      BY DEF ArgumentsOf
    <3>3. \A i \in DOMAIN e.args: all[i] \in Values
      <4> HIDE DEF all
      <4> QED
        BY <2>2, <3>2, Elements
    <3>4. \A i \in DOMAIN e.args: m2[<<e.args[i], args>>] = m[<<e.args[i], args>>]
      BY <1>1, <3>1, <3>2, <3>3, ValueFacts
    <3> QED
      BY <3>4 DEF ArgumentsOf
  <2> HIDE DEF all, fn, all2, fn2
  <2>5. Result(m, fn, all) # NoMeaning
    BY <2>1, <2>2
  <2>6. Result(m2, fn, all) = Result(m, fn, all)
    <3>1. CASE IsClosure(fn)
      BY <2>2, <2>5, <3>1, ResultType DEF Result, Knows
    <3>2. CASE ~IsClosure(fn)
      BY <3>2 DEF Result
    <3> QED
      BY <3>1, <3>2
  <2> QED
    BY <2>1, <2>2, <2>3, <2>4, <2>6
<1> QED
  BY <1>2, <1>3, <1>4, <1>5, TermFacts

\* Induction, for a set of natural numbers.
LEMMA NatSetInduction ==
  ASSUME NEW S \in SUBSET Nat, 0 \in S, \A n \in S: n + 1 \in S
  PROVE  S = Nat
<1> SUFFICES ASSUME Nat \ S # {} PROVE FALSE
  OBVIOUS
<1> DEFINE Q == Nat \ S
<1>1. \E x \in Q: \A y \in Q: ~(y < x)
  <2>1. Q \in SUBSET Nat /\ Q # {}
    OBVIOUS
  <2> HIDE DEF Q
  <2>2. \E x \in Q: \A y \in Q: <<y, x>> \notin OpToRel(<, Nat)
    BY <2>1, WFMin, NatLessThanWellFounded
  <2> QED
    BY <2>1, <2>2, Zenon DEF OpToRel
<1>2. PICK x \in Q: \A y \in Q: ~(y < x)
  BY <1>1
<1>3. x \in Nat /\ x \notin S /\ x # 0
  BY <1>2
<1>4. x - 1 \in Nat /\ x - 1 < x /\ (x - 1) + 1 = x
  BY <1>3
<1> QED
  BY <1>2, <1>3, <1>4

\* Deeper and deeper evaluations. (The recursive function that Meanings takes exists.)
Deeper(u, n, g) ==
  u = [k \in 0 .. n |-> IF k = 0 THEN [j \in Evaluations |-> NoMeaning]
                        ELSE [j \in Evaluations |-> MeaningBy(u[k - 1], j[1], j[2], g)]]

LEMMA DeeperExists ==
  ASSUME NEW g, NEW n \in Nat
  PROVE  \E u: Deeper(u, n, g)
<1> DEFINE Base == [j \in Evaluations |-> NoMeaning]
           By(w) == [j \in Evaluations |-> MeaningBy(w, j[1], j[2], g)]
           S == {k \in Nat: \E u: Deeper(u, k, g)}
<1>1. \A u, k: Deeper(u, k, g) <=> u = [i \in 0 .. k |-> IF i = 0 THEN Base ELSE By(u[i - 1])]
  BY Zenon DEF Deeper
<1> HIDE DEF Base, By
<1>2. 0 \in S
  <2> DEFINE u == [i \in 0 .. 0 |-> Base]
  <2>1. u = [i \in 0 .. 0 |-> IF i = 0 THEN Base ELSE By(u[i - 1])]
    OBVIOUS
  <2> QED
    BY <1>1, <2>1
<1>3. ASSUME NEW k \in S PROVE k + 1 \in S
  <2>1. k \in Nat /\ k + 1 \in Nat
    OBVIOUS
  <2>2. PICK u: u = [i \in 0 .. k |-> IF i = 0 THEN Base ELSE By(u[i - 1])]
    BY <1>1
  <2> DEFINE h == [i \in 0 .. k + 1 |-> IF i = 0 THEN Base ELSE By(u[i - 1])]
  <2>3. \A i \in 0 .. k + 1: i = 0 \/ i - 1 \in 0 .. k
    BY <2>1
  <2>4. \A i \in 0 .. k: h[i] = u[i]
    <3>1. \A i \in 0 .. k: i \in 0 .. k + 1
      BY <2>1
    <3> QED
      BY <2>2, <3>1
  <2>5. \A i \in 0 .. k + 1: i # 0 => h[i - 1] = u[i - 1]
    BY <2>3, <2>4
  <2>6. h = [i \in 0 .. k + 1 |-> IF i = 0 THEN Base ELSE By(h[i - 1])]
    <3> HIDE DEF h
    <3>1. [i \in 0 .. k + 1 |-> IF i = 0 THEN Base ELSE By(u[i - 1])]
          = [i \in 0 .. k + 1 |-> IF i = 0 THEN Base ELSE By(h[i - 1])]
      BY <2>5
    <3> QED
      BY <3>1 DEF h
  <2> HIDE DEF h
  <2>7. Deeper(h, k + 1, g)
    BY <1>1, <2>6
  <2> QED
    BY <2>1, <2>7
<1>4. S \in SUBSET Nat
  OBVIOUS
<1> HIDE DEF S
<1>5. n \in S
  BY <1>2, <1>3, <1>4, NatSetInduction
<1> QED
  BY <1>5 DEF S

\* A deeper evaluation knows what a shallower one knows, so that the deepest one knows
\* what it would know if it went deeper still.
LEMMA DeeperKnows ==
  ASSUME NEW g, NEW N \in Nat, NEW u, Deeper(u, N, g)
  PROVE  /\ u[N] \in [Evaluations -> Outcomes]
         /\ \A e \in Terms, a \in Seq(Values):
              u[N][<<e, a>>] # NoMeaning => u[N][<<e, a>>] = MeaningBy(u[N], e, a, g)
<1>1. \A j \in Evaluations: j[1] \in Terms /\ j[2] \in Seq(Values)
  BY DEF Evaluations
<1>2. u[0] \in [Evaluations -> Outcomes] /\ \A j \in Evaluations: u[0][j] = NoMeaning
  <2>1. u[0] = [j \in Evaluations |-> NoMeaning]
    BY DEF Deeper
  <2> QED
    BY <2>1 DEF Outcomes
<1>3. ASSUME NEW k \in Nat, k < N
      PROVE  /\ DOMAIN u[k + 1] = Evaluations
             /\ u[k + 1] = [j \in Evaluations |-> u[k + 1][j]]
             /\ \A j \in Evaluations: u[k + 1][j] = MeaningBy(u[k], j[1], j[2], g)
  <2>1. k + 1 \in 0 .. N /\ k + 1 # 0 /\ (k + 1) - 1 = k
    BY <1>3
  <2>2. u[k + 1] = [j \in Evaluations |-> MeaningBy(u[k], j[1], j[2], g)]
    BY <2>1, Zenon DEF Deeper
  <2> QED
    BY <2>2
<1> DEFINE S == {k \in Nat: k <= N => /\ u[k] \in [Evaluations -> Outcomes]
                                      /\ k < N => Knows(u[k + 1], u[k])}
<1>4. 0 \in S
  BY <1>2 DEF Knows
<1>5. ASSUME NEW k \in S PROVE k + 1 \in S
  <2>1. SUFFICES ASSUME k + 1 <= N
                 PROVE  /\ u[k + 1] \in [Evaluations -> Outcomes]
                        /\ k + 1 < N => Knows(u[k + 1 + 1], u[k + 1])
    OBVIOUS
  <2>2. k \in Nat /\ k <= N /\ k < N /\ k + 1 \in Nat
    BY <2>1
  <2>3. u[k] \in [Evaluations -> Outcomes] /\ Knows(u[k + 1], u[k])
    BY <2>2
  <2>4. \A j \in Evaluations: u[k + 1][j] = MeaningBy(u[k], j[1], j[2], g)
    BY <1>3, <2>2
  <2>5. \A j \in Evaluations: u[k + 1][j] \in Outcomes
    BY <1>1, <2>3, <2>4, MeaningType
  <2>6. u[k + 1] \in [Evaluations -> Outcomes]
    BY <1>3, <2>2, <2>5
  <2>7. ASSUME k + 1 < N PROVE Knows(u[k + 1 + 1], u[k + 1])
    <3>1. \A j \in Evaluations: u[k + 1 + 1][j] = MeaningBy(u[k + 1], j[1], j[2], g)
      BY <1>3, <2>2, <2>7
    <3>2. \A j \in Evaluations: MeaningBy(u[k], j[1], j[2], g) # NoMeaning
            => MeaningBy(u[k + 1], j[1], j[2], g) = MeaningBy(u[k], j[1], j[2], g)
      BY <1>1, <2>3, MeaningGrows
    <3> QED
      BY <2>4, <3>1, <3>2 DEF Knows
  <2> QED
    BY <2>6, <2>7
<1>6. \A k \in Nat: k \in S
  <2>1. S \in SUBSET Nat
    OBVIOUS
  <2> HIDE DEF S
  <2> QED
    BY <1>4, <1>5, <2>1, NatSetInduction
<1>7. u[N] \in [Evaluations -> Outcomes]
  BY <1>6
<1>8. ASSUME NEW e \in Terms, NEW a \in Seq(Values), u[N][<<e, a>>] # NoMeaning
      PROVE  u[N][<<e, a>>] = MeaningBy(u[N], e, a, g)
  <2>1. <<e, a>> \in Evaluations
    BY DEF Evaluations
  <2>2. N # 0
    BY <1>2, <1>8, <2>1
  <2>3. N - 1 \in Nat /\ N - 1 < N /\ (N - 1) + 1 = N
    BY <2>2
  <2>4. u[N][<<e, a>>] = MeaningBy(u[N - 1], e, a, g)
    BY <1>3, <2>1, <2>3
  <2>5. u[N - 1] \in [Evaluations -> Outcomes] /\ Knows(u[N], u[N - 1])
    BY <1>6, <2>3
  <2> HIDE DEF S
  <2> QED
    BY <1>8, <2>4, <2>5, MeaningGrows
<1> QED
  BY <1>7, <1>8

LEMMA MeaningsUnfold ==
  ASSUME NEW g
  PROVE  /\ Meanings(g) \in [Evaluations -> Outcomes]
         /\ \A e \in Terms, a \in Seq(Values):
              Meanings(g)[<<e, a>>] # NoMeaning
                => Meanings(g)[<<e, a>>] = MeaningBy(Meanings(g), e, a, g)
<1>1. MaxHeight \in Nat
  BY TermAssumption DEF TermAssumption
<1>2. Deeper(CHOOSE u: Deeper(u, MaxHeight, g), MaxHeight, g)
  BY <1>1, DeeperExists
<1>3. Meanings(g) = (CHOOSE u: Deeper(u, MaxHeight, g))[MaxHeight]
  BY Zenon DEF Meanings, Deeper
<1>4. \E u: Deeper(u, MaxHeight, g) /\ Meanings(g) = u[MaxHeight]
  <2> HIDE DEF Deeper
  <2> QED
    BY <1>2, <1>3
<1>5. PICK u: Deeper(u, MaxHeight, g) /\ Meanings(g) = u[MaxHeight]
  BY <1>4
<1>6. /\ u[MaxHeight] \in [Evaluations -> Outcomes]
      /\ \A e \in Terms, a \in Seq(Values):
           u[MaxHeight][<<e, a>>] # NoMeaning
             => u[MaxHeight][<<e, a>>] = MeaningBy(u[MaxHeight], e, a, g)
  BY ONLY <1>1, <1>5, DeeperKnows
<1> QED
  BY ONLY <1>5, <1>6

-----------------------------------------------------------------------------
(* What the frames on the stack make of the values they are waiting for. Below, m is  *)
(* what evaluations mean, and d the depth at which the form began.                    *)

PlainAll(s) == [i \in DOMAIN s |-> Plain(s[i])]

\* the environment holds the arguments a, if there are any
Fits(env, a) == a = <<>> \/ (env # NoEnv /\ PlainAll(Head(env)) = a)

\* The frame f takes x, and sees to it that y is delivered to the frame below g.
Branches(m, f, x, y) ==
  \E a \in Seq(Values):
    /\ Fits(f.env, a) /\ f.of \in Terms /\ f.of.op = "if" /\ IsBoolean(x)
    /\ y = m[<<IF x.bool THEN f.of.yes ELSE f.of.no, a>>]

Sequences(m, f, x, y) ==
  \E a \in Seq(Values):
    /\ Fits(f.env, a) /\ f.of \in Terms /\ f.of.op = "sequence" /\ f.i \in 0 .. Len(f.of.elts) - 1
    /\ \A j \in DOMAIN f.of.elts: m[<<f.of.elts[j], a>>] # NoMeaning
    /\ x = m[<<f.of.elts[f.i + 1], a>>]
    /\ y = m[<<f.of.elts[Len(f.of.elts)], a>>]

\* g is the frame of the call, with its arguments up to now
CallsWith(m, a, f, g, x, y) ==
  LET fn  == m[<<f.of.fn, a>>]
      all == ArgumentsOf(m, f.of, a) IN
  /\ Fits(f.env, a) /\ f.of \in Terms /\ f.of.op = "apply" /\ f.i \in -1 .. Len(f.of.args) - 1
  /\ IsProcedure(fn) /\ all \in Seq(Values) /\ y = Result(m, fn, all)
  /\ x = IF f.i = -1 THEN fn ELSE all[f.i + 1]
  /\ f.i # -1 => Plain(g.fn) = fn
  /\ IsSeq(g.args) /\ Len(g.args) = (IF f.i = -1 THEN 0 ELSE f.i)
  /\ \A j \in 1 .. Len(g.args): Plain(g.args[j]) = all[j]
Calls(m, f, g, x, y) == \E a \in Seq(Values): CallsWith(m, a, f, g, x, y)

Takes(m, f, g, x, y) ==
  CASE f.op \in {"apply", "apply_cont", "def_cont"} -> x = y
    [] f.op = "ifelse_cont" -> Branches(m, f, x, y)
    [] f.op = "seq_cont"    -> Sequences(m, f, x, y)
    [] f.op = "evalargs"    -> Calls(m, f, g, x, y)

Below(s, d, i) == IF i = d + 1 THEN NoValue ELSE s[i - 1]

\* If x is delivered to the frame at height n, then v comes out at the bottom.
OnWay(m, s, n, d, v, x) ==
  \E in: /\ in[d] = v /\ in[n] = x
         /\ \A i \in d .. n: in[i] # NoMeaning
         /\ \A i \in d + 1 .. n: Takes(m, s[i], Below(s, d, i), in[i], in[i - 1])

LEMMA WayStart ==
  ASSUME NEW m, NEW s, NEW d \in Nat, NEW v, v # NoMeaning
  PROVE  OnWay(m, s, d, d, v, v)
<1> DEFINE in == [i \in {d} |-> v]
<1>1. in[d] = v /\ d .. d = {d} /\ d + 1 .. d = {}
  OBVIOUS
<1> HIDE DEF in
<1> QED
  BY <1>1 DEF OnWay

LEMMA WayEnd ==
  ASSUME NEW m, NEW s, NEW d \in Nat, NEW v, NEW x, OnWay(m, s, d, d, v, x)
  PROVE  x = v
BY DEF OnWay

LEMMA WayKnown ==
  ASSUME NEW m, NEW s, NEW n \in Nat, NEW d \in Nat, d <= n, NEW v, NEW x, OnWay(m, s, n, d, v, x)
  PROVE  x # NoMeaning
BY DEF OnWay

LEMMA WaySame ==
  ASSUME NEW m, NEW s, NEW t, NEW n \in Nat, NEW d \in Nat, NEW v, NEW x, OnWay(m, s, n, d, v, x),
         \A i \in d + 1 .. n: t[i] = s[i]
  PROVE  OnWay(m, t, n, d, v, x)
<1>1. PICK in: /\ in[d] = v /\ in[n] = x
               /\ \A i \in d .. n: in[i] # NoMeaning
               /\ \A i \in d + 1 .. n: Takes(m, s[i], Below(s, d, i), in[i], in[i - 1])
  BY DEF OnWay
<1>2. \A i \in d + 1 .. n: t[i] = s[i] /\ Below(t, d, i) = Below(s, d, i)
  <2>1. \A i \in d + 1 .. n: i # d + 1 => i - 1 \in d + 1 .. n
    OBVIOUS
  <2> QED
    BY <2>1 DEF Below
<1>3. \A i \in d + 1 .. n: Takes(m, t[i], Below(t, d, i), in[i], in[i - 1])
  BY <1>1, <1>2
<1> QED
  BY <1>1, <1>3 DEF OnWay

LEMMA WayUp ==
  ASSUME NEW m, NEW s, NEW n \in Nat, NEW d \in Nat, d <= n, NEW v, NEW y, OnWay(m, s, n, d, v, y),
         NEW x, x # NoMeaning, Takes(m, s[n + 1], Below(s, d, n + 1), x, y)
  PROVE  OnWay(m, s, n + 1, d, v, x)
<1>1. PICK in: /\ in[d] = v /\ in[n] = y
               /\ \A i \in d .. n: in[i] # NoMeaning
               /\ \A i \in d + 1 .. n: Takes(m, s[i], Below(s, d, i), in[i], in[i - 1])
  BY DEF OnWay
<1> DEFINE up == [i \in d .. n + 1 |-> IF i = n + 1 THEN x ELSE in[i]]
<1>2. up[n + 1] = x /\ \A i \in d .. n: up[i] = in[i]
  OBVIOUS
<1> HIDE DEF up
<1>3. up[d] = v
  BY <1>1, <1>2
<1>4. \A i \in d .. n + 1: up[i] # NoMeaning
  BY <1>1, <1>2
<1>5. ASSUME NEW i \in d + 1 .. n + 1
      PROVE  Takes(m, s[i], Below(s, d, i), up[i], up[i - 1])
  <2>1. CASE i = n + 1
    <3>1. up[i] = x /\ up[i - 1] = y
      BY <1>1, <1>2, <2>1
    <3> QED
      BY <2>1, <3>1
  <2>2. CASE i # n + 1
    <3>1. i \in d + 1 .. n /\ up[i] = in[i] /\ up[i - 1] = in[i - 1]
      BY <1>2, <2>2
    <3> QED
      BY <1>1, <3>1
  <2> QED
    BY <2>1, <2>2
<1> QED
  BY <1>2, <1>3, <1>4, <1>5 DEF OnWay

LEMMA WayDown ==
  ASSUME NEW m, NEW s, NEW n \in Nat, NEW d \in Nat, n > d, NEW v, NEW x, OnWay(m, s, n, d, v, x)
  PROVE  \E y: /\ y # NoMeaning /\ Takes(m, s[n], Below(s, d, n), x, y)
               /\ OnWay(m, s, n - 1, d, v, y)
<1>1. PICK in: /\ in[d] = v /\ in[n] = x
               /\ \A i \in d .. n: in[i] # NoMeaning
               /\ \A i \in d + 1 .. n: Takes(m, s[i], Below(s, d, i), in[i], in[i - 1])
  BY DEF OnWay
<1>2. OnWay(m, s, n - 1, d, v, in[n - 1])
  BY <1>1 DEF OnWay
<1>3. in[n - 1] # NoMeaning /\ Takes(m, s[n], Below(s, d, n), x, in[n - 1])
  <2>1. n - 1 \in d .. n /\ n \in d + 1 .. n
    OBVIOUS
  <2> QED
    BY <1>1, <2>1
<1> QED
  BY <1>2, <1>3

-----------------------------------------------------------------------------
(* Values and their plain form.                                                      *)

LEMMA PlainFacts ==
  ASSUME NEW v
  PROVE  /\ IsClosure(Plain(v)) <=> IsClosure(v)
         /\ IsClosure(v) => Plain(v).lambda = v.lambda
         /\ ~IsClosure(v) => Plain(v) = v
         /\ IsBoolean(Plain(v)) => Plain(v) = v
         /\ IsProcedure(Plain(v)) <=> IsProcedure(v)
         /\ v = NoValue <=> Plain(v) = NoValue
<1>1. CASE IsClosure(v)
  <2>1. Plain(v) = [lambda |-> v.lambda] /\ DOMAIN Plain(v) = {"lambda"}
    BY <1>1 DEF Plain
  <2>2. v # NoValue /\ Plain(v) # NoValue
    BY <1>1, <2>1 DEF IsClosure, NoValue
  <2> QED
    BY <1>1, <2>1, <2>2 DEF IsClosure, IsBoolean, IsProcedure
<1>2. CASE ~IsClosure(v)
  BY <1>2 DEF Plain
<1> QED
  BY <1>1, <1>2

LEMMA PlainElements ==
  ASSUME NEW s, IsSeq(s), PlainAll(s) \in Seq(Values)
  PROVE  /\ Len(PlainAll(s)) = Len(s) /\ DOMAIN PlainAll(s) = DOMAIN s
         /\ \A i \in DOMAIN s: PlainAll(s)[i] = Plain(s[i]) /\ Plain(s[i]) \in Values
<1>1. DOMAIN PlainAll(s) = DOMAIN s /\ \A i \in DOMAIN s: PlainAll(s)[i] = Plain(s[i])
  BY DEF PlainAll
<1>2. Len(PlainAll(s)) = Len(s)
  BY <1>1, SameLength DEF IsSeq
<1>3. \A i \in DOMAIN s: PlainAll(s)[i] \in Values
  BY <1>1
<1> QED
  BY <1>1, <1>2, <1>3

\* As many plain values as there are arguments: these are the arguments.
LEMMA PlainIs ==
  ASSUME NEW s, IsSeq(s), NEW all \in Seq(Values), Len(s) = Len(all),
         \A j \in 1 .. Len(s): Plain(s[j]) = all[j]
  PROVE  PlainAll(s) = all
<1>1. DOMAIN s = 1 .. Len(s) /\ all = [j \in 1 .. Len(all) |-> all[j]]
  BY LenIsNat
<1> QED
  BY <1>1 DEF PlainAll

LEMMA NewEnvironment ==
  ASSUME NEW args, NEW env, IsSeq(env)
  PROVE  LET env2 == <<args>> \o env IN IsSeq(env2) /\ env2 # NoEnv /\ Head(env2) = args
<1> DEFINE R == {env[i]: i \in DOMAIN env} \cup {args}
           env2 == <<args>> \o env
<1>1. env \in Seq(R) /\ <<args>> \in Seq(R)
  <2>1. env = [i \in 1 .. Len(env) |-> env[i]] /\ Len(env) \in Nat /\ DOMAIN env = 1 .. Len(env)
    BY DEF IsSeq
  <2>2. env \in [1 .. Len(env) -> R]
    BY <2>1
  <2> QED
    BY <2>1, <2>2, SeqDef
<1> HIDE DEF R
<1>2. env2 \in Seq(R) /\ Len(env2) = Len(env) + 1 /\ env2[1] = args /\ Len(env) \in Nat
  BY <1>1
<1>3. IsSeq(env2)
  BY <1>2, SeqOfItsElements
<1>4. Head(env2) = env2[1]
  BY <1>2 
<1>5. env2 # NoEnv
  <2>1. Len(NoEnv) = 0
    BY DEF NoEnv
  <2> HIDE DEF env2
  <2> QED
    BY <1>2, <2>1
<1> QED
  BY <1>2, <1>3, <1>4, <1>5

-----------------------------------------------------------------------------
(* Outside of functions, only the form and its parts are evaluated, and only a form  *)
(* is a define. (In the body of a function, what a primitive made is possible.)      *)

FrameContained(f, fm) ==
  /\ f.env = NoEnv /\ f.op \in {"ifelse_cont", "seq_cont", "evalargs"} =>
       /\ f.of \in Terms
       /\ f.op = "ifelse_cont" => f.of.op = "if"
       /\ f.op = "seq_cont" => f.of.op = "sequence" /\ f.i \in 0 .. Len(f.of.elts) - 1
       /\ f.op = "evalargs" => f.of.op = "apply" /\ f.i \in -1 .. Len(f.of.args) - 1
  /\ f.op = "def_cont" => f.of = fm /\ fm.op = "define" /\ f.cont = "halt"

StackContained(s, d, fm) ==
  \A i \in 1 .. Len(s): IsSeq(s[i].env) /\ (i > d => FrameContained(s[i], fm))

Contained ==
  /\ form.op = "none" \/ IF form.op = "define" THEN form.rhs \in Terms ELSE form \in Terms
  /\ IsSeq(local_env_)
  /\ StackContained(stack_, base.depth, form)
  /\ vsm_fault = "none" /\ pc_ = "eval" /\ local_env_ = NoEnv =>
       expr_ \in Terms \/ (expr_ = form /\ form.op = "define" /\ cont_ = "halt")

LEMMA EmptyIsSeq == IsSeq(<<>>) /\ Len(<<>>) = 0
<1>1. <<>> \in Seq({}) /\ Len(<<>>) = 0
  OBVIOUS
<1> QED
  BY <1>1, SeqOfItsElements

LEMMA ContainedPush ==
  ASSUME NEW s, IsSeq(s), NEW d \in Nat, NEW fm, StackContained(s, d, fm),
         NEW f, IsSeq(f.env), FrameContained(f, fm)
  PROVE  StackContained(Append(s, f), d, fm) /\ IsSeq(Append(s, f))
<1> DEFINE t == Append(s, f)
<1>1. Len(s) \in Nat
  BY LenIsNat
<1>2. IsSeq(t) /\ Len(t) = Len(s) + 1 /\ (\A i \in 1 .. Len(s): t[i] = s[i]) /\ t[Len(s) + 1] = f
  BY AppendElements
<1> HIDE DEF t
<1>3. ASSUME NEW i \in 1 .. Len(t) PROVE IsSeq(t[i].env) /\ (i > d => FrameContained(t[i], fm))
  <2>1. i \in 1 .. Len(s) \/ i = Len(s) + 1
    BY <1>1, <1>2
  <2> QED
    BY <1>2, <2>1 DEF StackContained
<1> QED
  BY <1>2, <1>3 DEF StackContained, t

LEMMA ContainedPrefix ==
  ASSUME NEW s, IsSeq(s), NEW d, NEW fm, StackContained(s, d, fm), NEW k \in 0 .. Len(s)
  PROVE  StackContained(SubSeq(s, 1, k), d, fm)
<1> DEFINE t == SubSeq(s, 1, k)
<1>1. Len(s) \in Nat
  BY LenIsNat
<1>2. Len(t) = k /\ \A i \in 1 .. k: t[i] = s[i]
  BY PrefixElements
<1> HIDE DEF t
<1>3. \A i \in 1 .. k: i \in 1 .. Len(s)
  BY <1>1
<1> QED
  BY <1>2, <1>3 DEF StackContained, t

\* What is known before an instruction: where it finds its frame.
LEMMA StackFacts ==
  ASSUME VsmInv, vsm_fault = "none"
  PROVE  /\ IsSeq(stack_) /\ Len(stack_) \in Nat /\ base.depth \in Nat /\ DOMAIN stack_ = 1 .. Len(stack_)
         /\ pc_ \in {"eval", "apply"} =>
              /\ cont_ \in Conts /\ Len(stack_) >= base.depth
              /\ cont_ = "halt" => Len(stack_) = base.depth /\ local_env_ = base.env
              /\ cont_ # "halt" => Len(stack_) > base.depth
         /\ pc_ \notin {"eval", "apply", "halt"} =>
              /\ pc_ \in Conts /\ Len(stack_) > base.depth /\ Top.op = pc_
              /\ pc_ # "apply_cont" => Top.env = local_env_
              /\ pc_ = "evalargs" => /\ Len(stack_) - 1 > base.depth
                                     /\ stack_[Len(stack_) - 1].op = "apply"
                                     /\ stack_[Len(stack_) - 1].cont \in Conts
                                     /\ stack_[Len(stack_) - 1].cont = "halt" <=> Len(stack_) - 2 = base.depth
              /\ pc_ # "evalargs" => /\ Top.cont \in Conts
                                     /\ Top.cont = "halt" <=> Len(stack_) - 1 = base.depth
         /\ \A i \in 1 .. Len(stack_): Fields \subseteq DOMAIN stack_[i]
<1> DEFINE n == Len(stack_)
<1>1. Chain(stack_, base.depth, base.env) /\ Ready
  BY DEF VsmInv
<1>2. IsSeq(stack_) /\ n \in Nat /\ base.depth \in Nat /\ DOMAIN stack_ = 1 .. n
      /\ \A i \in 1 .. n: Fields \subseteq DOMAIN stack_[i]
  BY <1>1, LenIsNat DEF Chain
<1>3. ASSUME pc_ \in {"eval", "apply"}
      PROVE  /\ cont_ \in Conts /\ n >= base.depth
             /\ cont_ = "halt" => n = base.depth /\ local_env_ = base.env
             /\ cont_ # "halt" => n > base.depth
  BY <1>1, <1>2, <1>3 DEF Ready, FindsOn
<1>4. ASSUME pc_ \notin {"eval", "apply", "halt"}
      PROVE  /\ pc_ \in Conts /\ n > base.depth /\ Top.op = pc_
             /\ pc_ # "apply_cont" => Top.env = local_env_
  BY <1>1, <1>2, <1>4 DEF Ready, FindsOn, Top
<1>5. ASSUME pc_ \notin {"eval", "apply", "halt"}, pc_ # "evalargs"
      PROVE  Top.cont \in Conts /\ (Top.cont = "halt" <=> n - 1 = base.depth)
  <2>1. LinkedOn(stack_, base.depth, base.env, n)
    BY <1>1, <1>2, <1>4, <1>5 DEF Chain
  <2>2. Top.op = pc_ /\ Top = stack_[n]
    BY <1>4, <1>5 DEF Top
  <2> QED
    BY <1>2, <1>5, <2>1, <2>2 DEF LinkedOn, FindsOn
<1>6. ASSUME pc_ = "evalargs"
      PROVE  /\ n - 1 > base.depth /\ stack_[n - 1].op = "apply" /\ stack_[n - 1].cont \in Conts
             /\ stack_[n - 1].cont = "halt" <=> n - 2 = base.depth
  <2>1. n > base.depth /\ Top.op = "evalargs" /\ Top = stack_[n]
    BY <1>4, <1>6 DEF Top
  <2>2. LinkedOn(stack_, base.depth, base.env, n)
    BY <1>1, <1>2, <2>1 DEF Chain
  <2>3. n - 1 > base.depth /\ stack_[n - 1].op = "apply"
    BY <1>2, <2>1, <2>2 DEF LinkedOn
  <2>4. LinkedOn(stack_, base.depth, base.env, n - 1) /\ n - 1 - 1 = n - 2
    BY <1>1, <1>2, <2>3 DEF Chain
  <2> QED
    BY <1>2, <2>3, <2>4 DEF LinkedOn, FindsOn
<1> QED
  BY <1>2, <1>3, <1>4, <1>5, <1>6

LEMMA ContainedEval ==
  ASSUME VsmInv, Contained, vsm_fault = "none", EvalStep, base' = base, form' = form
  PROVE  Contained'
<1> DEFINE Part(e) == local_env_ = NoEnv => e \in Terms
<1>1. /\ pc_ = "eval" /\ IsSeq(stack_) /\ base.depth \in Nat /\ cont_ \in Conts
      /\ IsSeq(local_env_) /\ StackContained(stack_, base.depth, form)
      /\ local_env_ = NoEnv => expr_ \in Terms \/ (expr_ = form /\ form.op = "define" /\ cont_ = "halt")
  BY StackFacts DEF EvalStep, Contained
<1>2. ASSUME pc_' # "eval" \/ vsm_fault' # "none", stack_' = stack_, local_env_' = local_env_
      PROVE  Contained'
  BY <1>2 DEF Contained
<1>3. ASSUME NEW f, stack_' = Append(stack_, f), local_env_' = local_env_, f.env = local_env_,
             FrameContained(f, form), Part(expr_')
      PROVE  Contained'
  BY <1>1, <1>3, ContainedPush DEF Contained
<1>4. CASE EvalConstant \/ EvalLambda
  BY <1>1, <1>2, <1>4 DEF EvalConstant, EvalLambda, Deliver, Continue, Conts
<1>5. CASE EvalDefine
  <2>1. CASE local_env_ # NoEnv
    BY <1>2, <1>5, <2>1 DEF EvalDefine, FailedAssertion
  <2>2. CASE local_env_ = NoEnv
    <3>1. expr_ \notin Terms
      BY <1>5, TermFacts DEF EvalDefine
    <3>2. expr_ = form /\ form.op = "define" /\ cont_ = "halt" /\ form.rhs \in Terms
      BY <1>1, <2>2, <3>1 DEF Contained
    <3> DEFINE f == Frame("def_cont", expr_)
    <3>3. f.env = local_env_ /\ f.op = "def_cont" /\ f.of = form /\ f.cont = "halt"
      BY <3>2 DEF Frame
    <3>4. stack_' = Append(stack_, f) /\ local_env_' = local_env_ /\ expr_' = form.rhs
      BY <1>5, <2>2, <3>2 DEF EvalDefine, PushFrame, Evaluate
    <3> HIDE DEF f
    <3> QED
      BY <1>3, <3>2, <3>3, <3>4 DEF FrameContained
  <2> QED
    BY <2>1, <2>2
<1>6. CASE EvalVarRef
  BY <1>1, <1>2, <1>6 DEF EvalVarRef, Deliver, Stop, FailedAssertion, Continue, Conts
<1>7. CASE EvalApply
  <2>1. local_env_ = NoEnv => expr_ \in Terms /\ expr_.op = "apply" /\ expr_.fn \in Terms
                              /\ Len(expr_.args) \in Nat
    BY <1>1, <1>7, TermFacts, Elements DEF EvalApply
  <2> DEFINE f == Frame("apply", expr_)
             g == [Frame("evalargs", expr_) EXCEPT !.cont = "apply", !.i = -1]
             s == Append(stack_, f)
  <2>2. f.env = local_env_ /\ f.op = "apply"
        /\ g.env = local_env_ /\ g.op = "evalargs" /\ g.of = expr_ /\ g.i = -1
    BY DEF Frame
  <2>3. stack_' = Append(s, g) /\ local_env_' = local_env_ /\ expr_' = expr_.fn
    BY <1>7 DEF EvalApply, Evaluate
  <2> HIDE DEF f, g
  <2>4. IsSeq(s) /\ StackContained(s, base.depth, form)
    BY <1>1, <2>2, ContainedPush DEF FrameContained
  <2> HIDE DEF s
  <2>5. FrameContained(g, form)
    BY <2>1, <2>2 DEF FrameContained
  <2>6. StackContained(stack_', base.depth, form)
    BY <1>1, <2>2, <2>3, <2>4, <2>5, ContainedPush
  <2> QED
    BY <1>1, <2>1, <2>3, <2>6 DEF Contained
<1>8. CASE EvalIfElse
  <2>1. local_env_ = NoEnv => expr_ \in Terms /\ expr_.op = "if" /\ expr_.test \in Terms
    BY <1>1, <1>8, TermFacts DEF EvalIfElse
  <2> DEFINE f == Frame("ifelse_cont", expr_)
  <2>2. f.env = local_env_ /\ f.op = "ifelse_cont" /\ f.of = expr_
    BY DEF Frame
  <2>3. stack_' = Append(stack_, f) /\ local_env_' = local_env_ /\ expr_' = expr_.test
    BY <1>8 DEF EvalIfElse, PushFrame, Evaluate
  <2> HIDE DEF f
  <2> QED
    BY <1>3, <2>1, <2>2, <2>3 DEF FrameContained
<1>9. CASE EvalSequence
  <2>1. CASE expr_.elts = <<>>
    BY <1>1, <1>2, <1>9, <2>1 DEF EvalSequence, Conts
  <2>2. CASE expr_.elts # <<>>
    <3>1. local_env_ = NoEnv => /\ expr_ \in Terms /\ expr_.op = "sequence" /\ Len(expr_.elts) \in Nat
                                /\ Len(expr_.elts) # 0 /\ expr_.elts[1] \in Terms
      BY <1>1, <1>9, <2>2, TermFacts, Elements DEF EvalSequence
    <3> DEFINE f == Frame("seq_cont", expr_)
    <3>2. f.env = local_env_ /\ f.op = "seq_cont" /\ f.of = expr_ /\ f.i = 0
      BY DEF Frame
    <3>3. stack_' = Append(stack_, f) /\ local_env_' = local_env_ /\ expr_' = expr_.elts[1]
      BY <1>9, <2>2 DEF EvalSequence, PushFrame, Evaluate
    <3> HIDE DEF f
    <3> QED
      BY <1>3, <3>1, <3>2, <3>3 DEF FrameContained
  <2> QED
    BY <2>1, <2>2
<1> QED
  BY <1>4, <1>5, <1>6, <1>7, <1>8, <1>9 DEF EvalStep

LEMMA FunctionIsSeq ==
  ASSUME NEW n \in Nat, NEW t, t = [k \in 1 .. n |-> t[k]]
  PROVE  IsSeq(t) /\ Len(t) = n
<1> DEFINE R == {t[i]: i \in 1 .. n}
<1>1. t \in [1 .. n -> R] /\ DOMAIN t = 1 .. n
  OBVIOUS
<1> HIDE DEF R
<1>2. t \in Seq(R)
  BY <1>1, SeqDef
<1>3. Len(t) = n
  <2>1. Len(t) \in Nat /\ 1 .. Len(t) = 1 .. n
    BY <1>1, <1>2, LenProperties
  <2>2. (Len(t) \in 1 .. n \/ Len(t) = 0) /\ (n \in 1 .. Len(t) \/ n = 0)
    BY <2>1
  <2> QED
    BY <2>1, <2>2
<1> QED
  BY <1>2, <1>3, SeqOfItsElements

LEMMA ContainedArgs ==
  ASSUME VsmInv, Contained, vsm_fault = "none", EvalArgs, base' = base, form' = form
  PROVE  Contained'
<1> DEFINE n == Len(stack_)
           i == Top.i
           args == Top.of.args
           apply == IF i = -1 THEN [stack_[n - 1] EXCEPT !.fn = value_]
                              ELSE [stack_[n - 1] EXCEPT !.args = Append(@, value_)]
<1>1. /\ pc_ = "evalargs" /\ IsSeq(stack_) /\ base.depth \in Nat /\ n \in Nat
      /\ DOMAIN stack_ = 1 .. n /\ n - 1 > base.depth /\ Top.op = "evalargs"
      /\ Top.env = local_env_ /\ stack_[n - 1].op = "apply" /\ Top = stack_[n]
      /\ Fields \subseteq DOMAIN stack_[n - 1] /\ Fields \subseteq DOMAIN stack_[n]
      /\ local_env_' = local_env_
  <2>1. pc_ = "evalargs" /\ local_env_' = local_env_
    BY DEF EvalArgs
  <2>2. n \in Nat /\ base.depth \in Nat /\ n - 1 > base.depth
    BY <2>1, StackFacts
  <2>3. n \in 1 .. n /\ n - 1 \in 1 .. n
    BY <2>2
  <2> QED
    BY <2>1, <2>2, <2>3, StackFacts DEF Top
<1>2. CASE value_ = NoValue \/ (i = -1 /\ ~IsProcedure(value_))
  <2>1. stack_' = stack_ /\ (pc_' # "eval" \/ vsm_fault' # "none")
    BY <1>2 DEF EvalArgs, Continue
  <2> QED
    BY <1>1, <2>1 DEF Contained
<1>3. CASE ~(value_ = NoValue \/ (i = -1 /\ ~IsProcedure(value_)))
  <2>1. IF i + 1 = Len(args)
        THEN CallWith(apply)
        ELSE /\ stack_' = [stack_ EXCEPT ![n - 1] = apply, ![n].i = i + 1]
             /\ expr_' = args[i + 2]
    BY <1>3 DEF EvalArgs, Evaluate
  <2>2. apply.env = stack_[n - 1].env /\ apply.op = "apply"
    BY <1>1 DEF Fields
  <2> HIDE DEF apply
  <2>3. CASE i + 1 = Len(args)
    <3>1. stack_' = SubSeq(stack_, 1, n - 2) /\ pc_' = "apply" /\ n - 2 \in 0 .. n
      BY <1>1, <2>1, <2>3 DEF CallWith
    <3> QED
      BY <1>1, <3>1, ContainedPrefix DEF Contained
  <2>4. CASE i + 1 # Len(args)
    <3> DEFINE g == [stack_[n] EXCEPT !.i = i + 1]
    <3>1. /\ Len(stack_') = n
          /\ \A k \in 1 .. n: stack_'[k] = IF k = n THEN g ELSE IF k = n - 1 THEN apply ELSE stack_[k]
      <4>1. stack_' = [stack_ EXCEPT ![n - 1] = apply, ![n].i = i + 1]
        <5> HIDE DEF i, args, n
        <5> QED
          BY ONLY <2>1, <2>4, Zenon
      <4> HIDE DEF i
      <4>2. n \in 1 .. n /\ n - 1 \in 1 .. n /\ n # n - 1
        <5>1. n \in Nat /\ base.depth \in Nat /\ n - 1 > base.depth
          BY <1>1
        <5> HIDE DEF n
        <5> QED
          BY ONLY <5>1
      <4>3. stack_' = [k \in 1 .. n |-> stack_'[k]]
        BY <1>1, <4>1
      <4>4. \A k \in 1 .. n: stack_'[k] = IF k = n THEN g ELSE IF k = n - 1 THEN apply ELSE stack_[k]
        BY <1>1, <4>1, <4>2
      <4> HIDE DEF n, g
      <4> QED
        BY <1>1, <4>3, <4>4, FunctionIsSeq
    <3>2. g.op = "evalargs" /\ g.env = local_env_ /\ g.of = Top.of /\ g.i = i + 1
      BY <1>1 DEF Fields
    <3>3. IsSeq(stack_[n - 1].env) /\ IsSeq(stack_[n].env) /\ FrameContained(stack_[n], form)
      BY <1>1 DEF Contained, StackContained
    <3>4. local_env_ = NoEnv =>
            /\ Top.of \in Terms /\ Top.of.op = "apply" /\ i \in -1 .. Len(args) - 1
            /\ args \in Seq(Terms)
      BY <1>1, <3>3, TermFacts DEF FrameContained
    <3> HIDE DEF g
    <3>5. local_env_ = NoEnv => expr_' \in Terms /\ i + 1 \in -1 .. Len(args) - 1
      <4>1. SUFFICES ASSUME local_env_ = NoEnv
                     PROVE  expr_' \in Terms /\ i + 1 \in -1 .. Len(args) - 1
        OBVIOUS
      <4>2. expr_' = args[i + 2] /\ args \in Seq(Terms) /\ i \in -1 .. Len(args) - 1
        BY <2>1, <2>4, <3>4, <4>1
      <4> HIDE DEF args, i
      <4>3. Len(args) \in Nat /\ \A k \in 1 .. Len(args): args[k] \in Terms
        BY <4>2, Elements
      <4>4. i + 2 \in 1 .. Len(args) /\ i + 1 \in -1 .. Len(args) - 1
        BY <2>4, <4>2, <4>3
      <4> QED
        BY <4>2, <4>3, <4>4
    <3>6. FrameContained(g, form) /\ IsSeq(g.env) /\ FrameContained(apply, form) /\ IsSeq(apply.env)
      BY <1>1, <2>2, <3>2, <3>3, <3>4, <3>5 DEF FrameContained
    <3>7. StackContained(stack_', base.depth, form)
      <4>1. StackContained(stack_, base.depth, form)
        BY DEF Contained
      <4> QED
        BY <3>1, <3>6, <4>1 DEF StackContained
    <3> QED
      BY <1>1, <3>5, <3>7 DEF Contained
  <2> QED
    BY <2>3, <2>4
<1> QED
  BY <1>2, <1>3

LEMMA ContainedPop ==
  ASSUME VsmInv, Contained, vsm_fault = "none", pc_ \notin {"eval", "apply", "halt"}, Pop,
         base' = base, form' = form
  PROVE  StackContained(stack_', base.depth, form) /\ IsSeq(Top.env) /\ FrameContained(Top, form)
<1> DEFINE n == Len(stack_)
<1>1. IsSeq(stack_) /\ n \in Nat /\ base.depth \in Nat /\ n > base.depth
      /\ StackContained(stack_, base.depth, form)
  BY StackFacts DEF Contained
<1>2. n - 1 \in 0 .. n /\ n \in 1 .. n /\ stack_' = SubSeq(stack_, 1, n - 1) /\ Top = stack_[n]
  BY <1>1 DEF Pop, Top
<1> HIDE DEF n
<1>3. StackContained(stack_', base.depth, form)
  <2>1. n - 1 \in 0 .. Len(stack_)
    BY <1>2 DEF n
  <2> QED
    BY <1>1, <1>2, <2>1, ContainedPrefix
<1>4. IsSeq(Top.env) /\ FrameContained(Top, form)
  BY <1>1, <1>2 DEF StackContained, n
<1> QED
  BY <1>3, <1>4

LEMMA ContainedCall ==
  ASSUME VsmInv, Contained, vsm_fault = "none", Apply, base' = base, form' = form
  PROVE  Contained'
<1>1. /\ pc_ = "apply" /\ IsSeq(stack_) /\ base.depth \in Nat /\ cont_ \in Conts
      /\ IsSeq(local_env_) /\ StackContained(stack_, base.depth, form)
  BY StackFacts DEF Apply, Contained
<1>2. CASE CallClosure
  <2>1. IsSeq(local_env_') /\ local_env_' # NoEnv
    BY <1>1, <1>2, NewEnvironment DEF CallClosure, NewEnv
  <2>2. StackContained(stack_', base.depth, form)
    <3>1. CASE TailCall
      BY <1>1, <1>2, <3>1 DEF CallClosure
    <3>2. CASE ~TailCall
      <4> DEFINE f == Frame("apply_cont", fn_.lambda)
      <4>1. f.op = "apply_cont" /\ f.env = local_env_
        BY DEF Frame
      <4>2. stack_' = Append(stack_, f)
        BY <1>2, <3>2 DEF CallClosure, PushFrame
      <4> HIDE DEF f
      <4> QED
        BY <1>1, <4>1, <4>2, ContainedPush DEF FrameContained
    <3> QED
      BY <3>1, <3>2
  <2> QED
    BY <2>1, <2>2 DEF Contained
<1>3. CASE CallPrimitive
  BY <1>1, <1>3 DEF CallPrimitive, Deliver, Continue, Contained, Conts
<1> QED
  BY <1>2, <1>3 DEF Apply

LEMMA ContainedApplyCont ==
  ASSUME VsmInv, Contained, vsm_fault = "none", ApplyCont, base' = base, form' = form
  PROVE  Contained'
<1>1. pc_ = "apply_cont" /\ Pop /\ local_env_' = Top.env /\ pc_' = Top.cont
  BY DEF ApplyCont, Restored, Continue
<1>2. Top.cont \in Conts
  BY <1>1, StackFacts
<1> QED
  BY <1>1, <1>2, ContainedPop DEF Contained, Conts

LEMMA ContainedDefCont ==
  ASSUME VsmInv, Contained, vsm_fault = "none", DefCont, base' = base, form' = form
  PROVE  Contained'
<1>1. CASE value_ = NoValue
  BY <1>1 DEF DefCont, FailedAssertion, Contained
<1>2. CASE value_ # NoValue
  <2>1. pc_ = "def_cont" /\ Pop /\ local_env_' = local_env_ /\ pc_' = Top.cont
    BY <1>2 DEF DefCont, Continue
  <2>2. Top.cont \in Conts
    BY <2>1, StackFacts
  <2> QED
    BY <2>1, <2>2, ContainedPop DEF Contained, Conts
<1> QED
  BY <1>1, <1>2

LEMMA ContainedIfElseCont ==
  ASSUME VsmInv, Contained, vsm_fault = "none", IfElseCont, base' = base, form' = form
  PROVE  Contained'
<1>1. CASE value_ = NoValue
  BY <1>1 DEF IfElseCont, FailedAssertion, Contained
<1>2. CASE value_ # NoValue /\ ~IsBoolean(value_)
  BY <1>2 DEF IfElseCont, Stop, Continue, Contained
<1>3. CASE value_ # NoValue /\ IsBoolean(value_)
  <2>1. /\ pc_ = "ifelse_cont" /\ Pop /\ local_env_' = local_env_
        /\ expr_' \in {Top.of.yes, Top.of.no}
    BY <1>3 DEF IfElseCont, Evaluate
  <2>2. Top.op = "ifelse_cont" /\ Top.env = local_env_
    BY <2>1, StackFacts
  <2>3. FrameContained(Top, form) /\ StackContained(stack_', base.depth, form)
    BY <2>1, ContainedPop
  <2>4. local_env_ = NoEnv => expr_' \in Terms
    BY <2>1, <2>2, <2>3, TermFacts DEF FrameContained
  <2> QED
    BY <2>1, <2>3, <2>4 DEF Contained
<1> QED
  BY <1>1, <1>2, <1>3

LEMMA ContainedSeqCont ==
  ASSUME VsmInv, Contained, vsm_fault = "none", SeqCont, base' = base, form' = form
  PROVE  Contained'
<1> DEFINE n == Len(stack_)
           elts == Top.of.elts
           i == Top.i + 1
<1>1. pc_ = "seq_cont" /\ local_env_' = local_env_
  BY DEF SeqCont
<1>2. /\ n \in Nat /\ base.depth \in Nat /\ n > base.depth /\ DOMAIN stack_ = 1 .. n /\ IsSeq(stack_)
      /\ Top.op = "seq_cont" /\ Top.env = local_env_ /\ Top = stack_[n]
  BY <1>1, StackFacts DEF Top
<1>3. CASE i = Len(elts)
  <2>1. Pop /\ pc_' = Top.cont
    BY <1>3 DEF SeqCont, Continue
  <2>2. Top.cont \in Conts
    BY <1>1, StackFacts
  <2> QED
    BY <1>1, <2>1, <2>2, ContainedPop DEF Contained, Conts
<1>4. CASE i # Len(elts)
  <2> DEFINE g == [stack_[n] EXCEPT !.i = i]
  <2>1. stack_' = [stack_ EXCEPT ![n].i = i] /\ expr_' = elts[i + 1] /\ pc_' = "eval"
    BY <1>4 DEF SeqCont, Evaluate
  <2>2. n \in 1 .. n /\ Fields \subseteq DOMAIN stack_[n]
    BY <1>2, StackFacts
  <2>3. g.op = "seq_cont" /\ g.env = local_env_ /\ g.of = Top.of /\ g.i = i
    BY <1>2, <2>2 DEF Fields
  <2>4. Len(stack_') = n
    <3> HIDE DEF i
    <3>1. \A k \in DOMAIN stack_: Fields \subseteq DOMAIN stack_[k]
      BY <1>2, StackFacts
    <3> QED
      BY <1>2, <2>1, <3>1, CountKeepsFrames DEF SameFrames
  <2>5. \A k \in 1 .. n: stack_'[k] = IF k = n THEN g ELSE stack_[k]
    BY <1>2, <2>1
  <2>6. StackContained(stack_, base.depth, form) /\ FrameContained(stack_[n], form)
        /\ IsSeq(local_env_)
    BY <1>2, <2>2 DEF Contained, StackContained
  <2>7. local_env_ = NoEnv => /\ Top.of \in Terms /\ Top.of.op = "sequence" /\ elts \in Seq(Terms)
                              /\ i \in 0 .. Len(elts) - 1 /\ elts[i + 1] \in Terms
    <3>1. SUFFICES ASSUME local_env_ = NoEnv
                   PROVE  /\ Top.of \in Terms /\ Top.of.op = "sequence" /\ elts \in Seq(Terms)
                          /\ i \in 0 .. Len(elts) - 1 /\ elts[i + 1] \in Terms
      OBVIOUS
    <3>2. Top.of \in Terms /\ Top.of.op = "sequence" /\ Top.i \in 0 .. Len(elts) - 1
      BY <1>2, <2>6, <3>1 DEF FrameContained
    <3>3. elts \in Seq(Terms)
      BY <3>2, TermFacts
    <3>4. Len(elts) \in Nat /\ \A k \in 1 .. Len(elts): elts[k] \in Terms
      BY <3>3, Elements
    <3> HIDE DEF elts
    <3>5. i \in 0 .. Len(elts) - 1 /\ i + 1 \in 1 .. Len(elts)
      BY <1>4, <3>2, <3>4
    <3> QED
      BY <3>2, <3>3, <3>4, <3>5
  <2> HIDE DEF g, i, elts
  <2>8. FrameContained(g, form)
    <3>1. elts = Top.of.elts
      BY DEF elts
    <3> QED
      BY <2>3, <2>7, <3>1 DEF FrameContained
  <2>9. StackContained(stack_', base.depth, form)
    BY <2>3, <2>4, <2>5, <2>6, <2>8 DEF StackContained
  <2> QED
    BY <1>1, <2>1, <2>6, <2>7, <2>9 DEF Contained
<1> QED
  BY <1>3, <1>4

LEMMA ContainedStart ==
  ASSUME VsmInv, Contained, NEW f \in Forms, StartEval(f)
  PROVE  Contained'
<1>1. Len(stack_) \in Nat
  BY LenIsNat DEF VsmInv, Chain
<1>2. /\ stack_' = stack_ /\ base'.depth = Len(stack_) /\ local_env_' = local_env_
      /\ expr_' = f.expr /\ cont_' = "halt" /\ form' = f.expr
  BY DEF StartEval, Evaluate
<1>3. IF f.expr.op = "define" THEN f.expr.rhs \in Terms ELSE f.expr \in Terms
  BY TermAssumption DEF TermAssumption
<1>4. StackContained(stack_', base'.depth, form')
  BY <1>1, <1>2 DEF Contained, StackContained
<1> QED
  BY <1>2, <1>3, <1>4 DEF Contained

LEMMA ContainedInit == VsmInit => Contained
BY EmptyIsSeq DEF VsmInit, Contained, StackContained, NoEnv

-----------------------------------------------------------------------------
(* The frame of a define stays at the bottom until the form ends.                    *)

Defining ==
  form.op = "define" /\ vsm_fault = "none" /\ pc_ # "halt" =>
    IF Len(stack_) = base.depth THEN pc_ = "eval" /\ expr_ = form
    ELSE stack_[base.depth + 1].op = "def_cont"

LEMMA DefiningPush ==
  ASSUME VsmInv, Defining, vsm_fault = "none", pc_ \in {"eval", "apply"}, NEW f,
         stack_' = Append(stack_, f), base' = base, form' = form,
         Len(stack_) = base.depth => f.op = "def_cont" \/ form.op # "define"
  PROVE  Defining'
<1>1. /\ IsSeq(stack_) /\ Len(stack_) \in Nat /\ base.depth \in Nat /\ Len(stack_) >= base.depth
  BY StackFacts
<1>2. /\ Len(stack_') = Len(stack_) + 1 /\ stack_'[Len(stack_) + 1] = f
      /\ \A i \in 1 .. Len(stack_): stack_'[i] = stack_[i]
  BY <1>1, AppendElements
<1>3. SUFFICES ASSUME form.op = "define" PROVE stack_'[base.depth + 1].op = "def_cont"
  BY <1>1, <1>2 DEF Defining
<1>4. CASE Len(stack_) = base.depth
  BY <1>2, <1>3, <1>4
<1>5. CASE Len(stack_) # base.depth
  <2>1. base.depth + 1 \in 1 .. Len(stack_)
    BY <1>1, <1>5
  <2>2. stack_[base.depth + 1].op = "def_cont"
    BY <1>3, <1>5 DEF Defining
  <2> QED
    BY <1>2, <2>1, <2>2
<1> QED
  BY <1>4, <1>5

LEMMA DefiningPop ==
  ASSUME VsmInv, Defining, vsm_fault = "none", pc_ \notin {"eval", "apply", "halt", "def_cont"},
         base' = base, form' = form, NEW k \in 0 .. Len(stack_), k >= base.depth,
         stack_' = SubSeq(stack_, 1, k),
         \A i \in k + 1 .. Len(stack_): stack_[i].op # "def_cont"
  PROVE  Defining'
<1>1. /\ IsSeq(stack_) /\ Len(stack_) \in Nat /\ base.depth \in Nat /\ Len(stack_) > base.depth
  BY StackFacts
<1>2. Len(stack_') = k /\ \A i \in 1 .. k: stack_'[i] = stack_[i]
  BY <1>1, PrefixElements
<1>3. SUFFICES ASSUME form.op = "define"
               PROVE  Len(stack_') # base.depth /\ stack_'[base.depth + 1].op = "def_cont"
  BY DEF Defining
<1>4. stack_[base.depth + 1].op = "def_cont"
  BY <1>1, <1>3 DEF Defining
<1>5. k # base.depth
  BY <1>1, <1>4
<1>6. base.depth + 1 \in 1 .. k
  BY <1>1, <1>5
<1> QED
  BY <1>2, <1>4, <1>5, <1>6

\* Before an instruction that is not that of a define, with nothing of the form on the
\* stack, the form is not a define.
LEMMA NotDefining ==
  ASSUME VsmInv, Defining, vsm_fault = "none", pc_ \in {"eval", "apply"},
         pc_ = "eval" => expr_.op # "define", Len(stack_) = base.depth
  PROVE  form.op # "define"
BY DEF Defining

LEMMA DefiningStep ==
  ASSUME VsmInv, Contained, Defining, vsm_fault = "none", Instruction, base' = base, form' = form
  PROVE  Defining'
<1>1. ASSUME pc_ \in {"eval", "apply"}, pc_ = "eval" => expr_.op # "define", stack_' = stack_
      PROVE  Defining'
  BY <1>1, NotDefining DEF Defining
<1>2. ASSUME vsm_fault' # "none" \/ pc_' = "halt" PROVE Defining'
  BY <1>2 DEF Defining
<1>3. CASE EvalStep
  <2>1. pc_ = "eval"
    BY <1>3 DEF EvalStep
  <2>2. CASE EvalConstant \/ EvalLambda
    BY <1>1, <2>1, <2>2 DEF EvalConstant, EvalLambda, Deliver
  <2>3. CASE EvalDefine
    <3>1. CASE local_env_ # NoEnv
      BY <1>2, <2>3, <3>1 DEF EvalDefine, FailedAssertion
    <3>2. CASE local_env_ = NoEnv
      <4> DEFINE f == Frame("def_cont", expr_)
      <4>1. f.op = "def_cont" /\ stack_' = Append(stack_, f)
        BY <2>3, <3>2 DEF EvalDefine, PushFrame, Frame
      <4> HIDE DEF f
      <4> QED
        BY <2>1, <4>1, DefiningPush
    <3> QED
      BY <3>1, <3>2
  <2>4. CASE EvalVarRef
    BY <1>1, <1>2, <2>1, <2>4 DEF EvalVarRef, Deliver, Stop, FailedAssertion
  <2>5. CASE EvalApply
    <3> DEFINE f == Frame("apply", expr_)
               g == [Frame("evalargs", expr_) EXCEPT !.cont = "apply", !.i = -1]
               s == Append(stack_, f)
    <3>1. stack_' = Append(s, g) /\ expr_.op = "apply"
      BY <2>5 DEF EvalApply
    <3> HIDE DEF f, g
    <3>2. IsSeq(stack_) /\ Len(stack_) \in Nat /\ base.depth \in Nat /\ Len(stack_) >= base.depth
      BY <2>1, StackFacts
    <3>3. IsSeq(s) /\ Len(s) = Len(stack_) + 1 /\ \A i \in 1 .. Len(stack_): s[i] = stack_[i]
      BY <3>2, AppendElements
    <3> HIDE DEF s
    <3>4. Len(stack_') = Len(stack_) + 2 /\ \A i \in 1 .. Len(s): stack_'[i] = s[i]
      BY <3>1, <3>2, <3>3, AppendElements
    <3>5. SUFFICES ASSUME form.op = "define" PROVE stack_'[base.depth + 1].op = "def_cont"
      BY <3>2, <3>4 DEF Defining
    <3>6. Len(stack_) # base.depth
      BY <2>1, <3>1, <3>5, NotDefining
    <3>7. base.depth + 1 \in 1 .. Len(stack_) /\ base.depth + 1 \in 1 .. Len(s)
      BY <3>2, <3>3, <3>6
    <3>8. stack_[base.depth + 1].op = "def_cont"
      BY <2>1, <3>5, <3>6 DEF Defining
    <3> QED
      BY <3>3, <3>4, <3>7, <3>8
  <2>6. CASE EvalIfElse
    BY <2>1, <2>6, DefiningPush, NotDefining DEF EvalIfElse, PushFrame
  <2>7. CASE EvalSequence
    <3>1. CASE expr_.elts = <<>>
      BY <1>1, <2>1, <2>7, <3>1 DEF EvalSequence
    <3>2. CASE expr_.elts # <<>>
      BY <2>1, <2>7, <3>2, DefiningPush, NotDefining DEF EvalSequence, PushFrame
    <3> QED
      BY <3>1, <3>2
  <2> QED
    BY <1>3, <2>2, <2>3, <2>4, <2>5, <2>6, <2>7 DEF EvalStep
<1>4. CASE EvalArgs
  <2> DEFINE n == Len(stack_)
             i == Top.i
             args == Top.of.args
             apply == IF i = -1 THEN [stack_[n - 1] EXCEPT !.fn = value_]
                                ELSE [stack_[n - 1] EXCEPT !.args = Append(@, value_)]
  <2>1. /\ pc_ = "evalargs" /\ IsSeq(stack_) /\ base.depth \in Nat /\ n \in Nat
        /\ n - 1 > base.depth /\ stack_[n].op = "evalargs" /\ stack_[n - 1].op = "apply"
        /\ DOMAIN stack_ = 1 .. n
    <3>1. pc_ = "evalargs"
      BY <1>4 DEF EvalArgs
    <3> QED
      BY <3>1, StackFacts DEF Top
  <2>2. CASE value_ = NoValue \/ (i = -1 /\ ~IsProcedure(value_))
    BY <1>2, <1>4, <2>2 DEF EvalArgs, Continue
  <2>3. CASE ~(value_ = NoValue \/ (i = -1 /\ ~IsProcedure(value_)))
    <3>1. IF i + 1 = Len(args)
          THEN CallWith(apply)
          ELSE stack_' = [stack_ EXCEPT ![n - 1] = apply, ![n].i = i + 1]
      BY <1>4, <2>3 DEF EvalArgs
    <3> HIDE DEF apply, i, args
    <3>2. CASE CallWith(apply)
      <4>1. stack_' = SubSeq(stack_, 1, n - 2) 
        BY <3>2 DEF CallWith
      <4>2. n - 2 \in 0 .. n /\ n - 2 >= base.depth
        BY <2>1
      <4>3. ASSUME NEW k \in (n - 2) + 1 .. n PROVE k = n - 1 \/ k = n
        <5>1. n \in Nat
          BY <2>1
        <5> HIDE DEF n
        <5> QED
          BY ONLY <4>3, <5>1
      <4>4. \A k \in (n - 2) + 1 .. n: stack_[k].op # "def_cont"
        BY <2>1, <4>3
      <4>5. pc_ \notin {"eval", "apply", "halt", "def_cont"}
        BY <2>1
      <4> QED
        BY <4>1, <4>2, <4>4, <4>5, DefiningPop
    <3>3. CASE stack_' = [stack_ EXCEPT ![n - 1] = apply, ![n].i = i + 1]
      <4>1. SUFFICES ASSUME form.op = "define"
                     PROVE  Len(stack_') = n /\ stack_'[base.depth + 1].op = "def_cont"
        BY <2>1 DEF Defining
      <4>2. n > base.depth
        BY <2>1
      <4>3. stack_[base.depth + 1].op = "def_cont"
        BY <2>1, <4>1, <4>2 DEF Defining
      <4>4. base.depth + 1 \in 1 .. n /\ base.depth + 1 # n /\ base.depth + 1 # n - 1
        BY <2>1, <4>3
      <4>5. stack_'[base.depth + 1] = stack_[base.depth + 1]
        BY <2>1, <3>3, <4>4
      <4>6. stack_' = [k \in 1 .. n |-> stack_'[k]]
        BY <2>1, <3>3
      <4> HIDE DEF n
      <4>7. Len(stack_') = n
        BY <2>1, <4>6, FunctionIsSeq
      <4> QED
        BY <4>3, <4>5, <4>7
    <3> QED
      BY <3>1, <3>2, <3>3
  <2> QED
    BY <2>2, <2>3
<1>5. CASE Apply
  <2>1. pc_ = "apply"
    BY <1>5 DEF Apply
  <2>2. CASE CallClosure
    <3>1. CASE TailCall
      BY <1>1, <2>1, <2>2, <3>1 DEF CallClosure
    <3>2. CASE ~TailCall
      BY <2>1, <2>2, <3>2, DefiningPush, NotDefining DEF CallClosure, PushFrame
    <3> QED
      BY <3>1, <3>2
  <2>3. CASE CallPrimitive
    BY <1>1, <2>1, <2>3 DEF CallPrimitive, Deliver
  <2> QED
    BY <1>5, <2>2, <2>3 DEF Apply
<1>6. ASSUME pc_ \in {"apply_cont", "ifelse_cont", "seq_cont"}, Pop PROVE Defining'
  <2> DEFINE n == Len(stack_)
  <2>1. n \in Nat /\ base.depth \in Nat /\ n > base.depth /\ stack_[n].op = pc_
    BY <1>6, StackFacts DEF Top
  <2>2. n - 1 \in 0 .. n /\ n - 1 >= base.depth /\ stack_' = SubSeq(stack_, 1, n - 1)
    BY <1>6, <2>1 DEF Pop
  <2>3. \A k \in (n - 1) + 1 .. n: stack_[k].op # "def_cont"
    BY <1>6, <2>1
  <2> QED
    BY <1>6, <2>2, <2>3, DefiningPop
<1>7. CASE ApplyCont
  BY <1>6, <1>7 DEF ApplyCont
<1>8. CASE DefCont
  <2>1. CASE value_ = NoValue
    BY <1>2, <1>8, <2>1 DEF DefCont, FailedAssertion
  <2>2. CASE value_ # NoValue
    <3>1. pc_ = "def_cont" /\ pc_' = Top.cont /\ Pop
      BY <1>8, <2>2 DEF DefCont, Continue
    <3>2. Top.op = "def_cont"
      BY <3>1, StackFacts
    <3>3. FrameContained(Top, form)
      BY <3>1, ContainedPop
    <3> QED
      BY <1>2, <3>1, <3>2, <3>3 DEF FrameContained
  <2> QED
    BY <2>1, <2>2
<1>9. CASE IfElseCont
  BY <1>2, <1>6, <1>9 DEF IfElseCont, FailedAssertion, Stop, Continue
<1>10. CASE SeqCont
  <2> DEFINE n == Len(stack_)
             i == Top.i + 1
  <2>1. pc_ = "seq_cont"
    BY <1>10 DEF SeqCont
  <2>2. /\ n \in Nat /\ base.depth \in Nat /\ n > base.depth /\ stack_[n].op = "seq_cont"
        /\ DOMAIN stack_ = 1 .. n
    BY <2>1, StackFacts DEF Top
  <2>3. CASE i = Len(Top.of.elts)
    BY <1>6, <1>10, <2>1, <2>3 DEF SeqCont
  <2>4. CASE i # Len(Top.of.elts)
    <3>1. stack_' = [stack_ EXCEPT ![n].i = i]
      BY <1>10, <2>4 DEF SeqCont
    <3> HIDE DEF i
    <3>2. SUFFICES ASSUME form.op = "define"
                   PROVE  Len(stack_') = n /\ stack_'[base.depth + 1].op = "def_cont"
      BY <2>2 DEF Defining
    <3>3. stack_[base.depth + 1].op = "def_cont"
      BY <2>1, <2>2, <3>2 DEF Defining
    <3>4. base.depth + 1 \in 1 .. n /\ base.depth + 1 # n
      BY <2>2, <3>3
    <3>5. stack_'[base.depth + 1] = stack_[base.depth + 1]
      BY <2>2, <3>1, <3>4
    <3>6. stack_' = [k \in 1 .. n |-> stack_'[k]]
      BY <2>2, <3>1
    <3> HIDE DEF n
    <3>7. Len(stack_') = n
      BY <2>2, <3>6, FunctionIsSeq
    <3> QED
      BY <3>3, <3>5, <3>7
  <2> QED
    BY <2>3, <2>4
<1> QED
  BY <1>3, <1>4, <1>5, <1>7, <1>8, <1>9, <1>10 DEF Instruction

LEMMA DefiningStart ==
  ASSUME NEW f, StartEval(f)
  PROVE  Defining'
BY DEF StartEval, Evaluate, Defining

-----------------------------------------------------------------------------
(* The global variables are as they were when the form began, until it defines one.  *)

Globals ==
  /\ IsSeq(symtab) /\ IsInjective(symtab)
  /\ IsSeq(values_) /\ Len(values_) <= Len(symtab)
  /\ form.op = "define" => form.name \in ToSet(symtab)
  /\ \A x \in DOMAIN base.globals:
       /\ x \in ToSet(symtab) /\ Slot(x) \in DOMAIN values_
       /\ \/ values_[Slot(x)] = base.globals[x]
          \/ form.op = "define" /\ x = form.name /\ pc_ = "halt"

SlotIn(s, name) == CHOOSE i \in DOMAIN s: s[i] = name

LEMMA SlotFacts ==
  ASSUME NEW s, IsSeq(s), IsInjective(s)
  PROVE  /\ \A x \in ToSet(s): SlotIn(s, x) \in 1 .. Len(s) /\ s[SlotIn(s, x)] = x
         /\ \A i \in 1 .. Len(s): s[i] \in ToSet(s) /\ SlotIn(s, s[i]) = i
<1>1. DOMAIN s = 1 .. Len(s) /\ Len(s) \in Nat
  BY LenIsNat
<1>2. \A x \in ToSet(s): SlotIn(s, x) \in DOMAIN s /\ s[SlotIn(s, x)] = x
  <2> TAKE x \in ToSet(s)
  <2>1. \E i \in DOMAIN s: s[i] = x
    BY DEF ToSet
  <2> QED
    BY <2>1, Zenon DEF SlotIn
<1>3. \A i \in DOMAIN s: s[i] \in ToSet(s)
  BY DEF ToSet
<1>4. \A i \in DOMAIN s: SlotIn(s, s[i]) = i
  BY <1>2, <1>3 DEF IsInjective
<1> QED
  BY <1>1, <1>2, <1>3, <1>4

\* A name entered at the end of the symbol table.
LEMMA SlotsGrow ==
  ASSUME NEW s, IsSeq(s), IsInjective(s), NEW name, name \notin ToSet(s)
  PROVE  LET t == Append(s, name) IN
         /\ IsSeq(t) /\ IsInjective(t) /\ Len(t) = Len(s) + 1 /\ name \in ToSet(t)
         /\ \A x \in ToSet(s): x \in ToSet(t) /\ SlotIn(t, x) = SlotIn(s, x)
<1> DEFINE t == Append(s, name)
<1>1. Len(s) \in Nat /\ DOMAIN s = 1 .. Len(s)
  BY LenIsNat
<1>2. IsSeq(t) /\ Len(t) = Len(s) + 1 /\ (\A i \in 1 .. Len(s): t[i] = s[i]) /\ t[Len(s) + 1] = name
  BY AppendElements
<1> HIDE DEF t
<1>3. DOMAIN t = 1 .. Len(s) + 1
  BY <1>2, LenIsNat
<1>4. \A i \in 1 .. Len(s): s[i] # name
  BY SlotFacts
<1>5. IsInjective(t)
  <2>1. ASSUME NEW i \in DOMAIN t, NEW j \in DOMAIN t, t[i] = t[j] PROVE i = j
    <3>1. (i \in 1 .. Len(s) \/ i = Len(s) + 1) /\ (j \in 1 .. Len(s) \/ j = Len(s) + 1)
      BY <1>1, <1>3
    <3>2. CASE i \in 1 .. Len(s) /\ j \in 1 .. Len(s)
      BY <1>1, <1>2, <2>1, <3>2 DEF IsInjective
    <3>3. CASE ~(i \in 1 .. Len(s) /\ j \in 1 .. Len(s))
      BY <1>2, <1>4, <2>1, <3>1, <3>3
    <3> QED
      BY <3>2, <3>3
  <2> QED
    BY <2>1 DEF IsInjective
<1>6. name \in ToSet(t)
  BY <1>1, <1>2, <1>3, SlotFacts, <1>5
<1>7. ASSUME NEW x \in ToSet(s) PROVE x \in ToSet(t) /\ SlotIn(t, x) = SlotIn(s, x)
  <2>1. SlotIn(s, x) \in 1 .. Len(s) /\ s[SlotIn(s, x)] = x
    BY SlotFacts
  <2>2. SlotIn(s, x) \in 1 .. Len(t) /\ t[SlotIn(s, x)] = x
    BY <1>1, <1>2, <2>1
  <2> QED
    BY <1>2, <1>5, <2>2, SlotFacts
<1> QED
  BY <1>2, <1>5, <1>6, <1>7 DEF t

LEMMA InstructionRuns ==
  ASSUME Instruction
  PROVE  pc_ # "halt"
BY DEF Instruction, EvalStep, EvalArgs, Apply, ApplyCont, DefCont, IfElseCont, SeqCont

LEMMA OtherInstructions ==
  ASSUME Instruction, ~DefCont
  PROVE  UNCHANGED vsmGlobals
<1>1. CASE EvalStep
  BY <1>1 DEF EvalStep, EvalConstant, EvalDefine, EvalLambda, EvalVarRef, EvalApply, EvalIfElse,
     EvalSequence, Deliver, Stop, FailedAssertion
<1>2. CASE EvalArgs
  BY <1>2 DEF EvalArgs
<1>3. CASE Apply
  BY <1>3 DEF Apply, CallClosure, CallPrimitive, Deliver
<1>4. CASE ApplyCont \/ IfElseCont \/ SeqCont
  BY <1>4 DEF ApplyCont, IfElseCont, SeqCont, FailedAssertion, Stop
<1> QED
  BY <1>1, <1>2, <1>3, <1>4 DEF Instruction

\* The value that a define gives its name.
LEMMA Assigns ==
  ASSUME VsmInv, Contained, Globals, vsm_fault = "none", DefCont, value_ # NoValue
  PROVE  /\ Top.op = "def_cont" /\ form.op = "define" /\ Top.of = form /\ pc_' = "halt"
         /\ Len(stack_) = base.depth + 1 /\ stack_' = SubSeq(stack_, 1, Len(stack_) - 1)
         /\ symtab' = symtab /\ value_' = [name |-> form.name]
         /\ IsSeq(values_') /\ Len(values_') <= Len(symtab)
         /\ values_'[Slot(form.name)] = value_
         /\ \A i \in DOMAIN values_: /\ i \in DOMAIN values_'
                                     /\ i # Slot(form.name) => values_'[i] = values_[i]
<1>1. /\ pc_ = "def_cont" /\ Pop /\ pc_' = Top.cont /\ symtab' = symtab
      /\ value_' = [name |-> Top.of.name]
      /\ values_' = [i \in 1 .. (IF Slot(Top.of.name) \in DOMAIN values_ THEN Len(values_) ELSE Slot(Top.of.name))
                       |-> IF i = Slot(Top.of.name) THEN value_
                           ELSE IF i \in DOMAIN values_ THEN values_[i] ELSE NoValue]
  BY DEF DefCont, Continue
<1>2. /\ Top.op = "def_cont" /\ (Top.cont = "halt" <=> Len(stack_) - 1 = base.depth)
      /\ Len(stack_) \in Nat /\ base.depth \in Nat /\ IsSeq(stack_) /\ Len(stack_) > base.depth
  BY <1>1, StackFacts
<1>3. FrameContained(Top, form)
  <2>1. Len(stack_) \in 1 .. Len(stack_)
    BY <1>2
  <2> QED
    BY <1>2, <2>1 DEF Contained, StackContained, Top
<1>4. form.op = "define" /\ Top.of = form /\ Top.cont = "halt"
  BY <1>2, <1>3 DEF FrameContained
<1>5. /\ IsSeq(symtab) /\ IsInjective(symtab) /\ IsSeq(values_) /\ Len(values_) <= Len(symtab)
      /\ form.name \in ToSet(symtab)
  BY <1>4 DEF Globals
<1> DEFINE slot == Slot(form.name)
<1>6. slot \in 1 .. Len(symtab)
  BY <1>5, SlotFacts DEF Slot, SlotIn
<1>7. Len(symtab) \in Nat /\ Len(values_) \in Nat /\ DOMAIN values_ = 1 .. Len(values_)
  BY <1>5, LenIsNat
<1>8. PICK n: n = IF slot \in DOMAIN values_ THEN Len(values_) ELSE slot
  OBVIOUS
<1>9. values_' = [i \in 1 .. n |-> IF i = slot THEN value_
                                    ELSE IF i \in DOMAIN values_ THEN values_[i] ELSE NoValue]
  BY <1>1, <1>4, <1>8
<1> HIDE DEF slot
<1>10. n \in Nat /\ n <= Len(symtab) /\ slot \in 1 .. n /\ Len(values_) <= n
  BY <1>5, <1>6, <1>7, <1>8
<1>11. IsSeq(values_') /\ Len(values_') = n
  BY <1>9, <1>10, FunctionIsSeq
<1>12. values_'[slot] = value_
  BY <1>9, <1>10
<1>13. \A i \in DOMAIN values_: i \in 1 .. n /\ (i # slot => values_'[i] = values_[i])
  BY <1>7, <1>9, <1>10
<1>14. DOMAIN values_' = 1 .. n
  BY <1>9
<1>15. Len(stack_) = base.depth + 1
  BY <1>2, <1>4
<1> QED
  BY <1>1, <1>2, <1>4, <1>10, <1>11, <1>12, <1>13, <1>14, <1>15 DEF slot, Pop

LEMMA GlobalsStep ==
  ASSUME VsmInv, Contained, Globals, vsm_fault = "none", Instruction, base' = base, form' = form
  PROVE  Globals'
<1>1. pc_ # "halt"
  BY InstructionRuns
<1>2. CASE UNCHANGED vsmGlobals
  BY <1>1, <1>2 DEF vsmGlobals, Globals, Slot
<1>3. CASE DefCont
  <2>1. CASE value_ = NoValue
    BY <1>2, <1>3, <2>1 DEF DefCont, FailedAssertion
  <2>2. CASE value_ # NoValue
    <3>1. /\ form.op = "define" /\ pc_' = "halt" /\ symtab' = symtab
          /\ IsSeq(values_') /\ Len(values_') <= Len(symtab)
          /\ \A i \in DOMAIN values_: /\ i \in DOMAIN values_'
                                      /\ i # Slot(form.name) => values_'[i] = values_[i]
      BY <1>3, <2>2, Assigns
    <3>2. IsSeq(symtab) /\ IsInjective(symtab) /\ form.name \in ToSet(symtab)
      BY <3>1 DEF Globals
    <3>3. ASSUME NEW x \in DOMAIN base.globals
          PROVE  /\ x \in ToSet(symtab) /\ Slot(x) \in DOMAIN values_'
                 /\ values_'[Slot(x)] = base.globals[x] \/ x = form.name
      <4>1. x \in ToSet(symtab) /\ Slot(x) \in DOMAIN values_ /\ values_[Slot(x)] = base.globals[x]
        BY <1>1 DEF Globals
      <4>2. x # form.name => Slot(x) # Slot(form.name)
        BY <3>2, <4>1, SlotFacts DEF Slot, SlotIn
      <4> QED
        BY <3>1, <4>1, <4>2
    <3>4. \A x: Slot(x)' = Slot(x)
      BY <3>1 DEF Slot
    <3> QED
      BY <3>1, <3>2, <3>3, <3>4 DEF Globals
  <2> QED
    BY <2>1, <2>2
<1> QED
  BY <1>2, <1>3, OtherInstructions

LEMMA GlobalsStart ==
  ASSUME Globals, NEW f \in Forms, StartEval(f)
  PROVE  Globals'
<1>1. /\ form' = f.expr /\ values_' = values_
      /\ symtab' = IF f.expr.op = "define" /\ f.expr.name \notin ToSet(symtab)
                   THEN Append(symtab, f.expr.name) ELSE symtab
      /\ base'.globals = [x \in {y \in ToSet(symtab): Slot(y) \in DOMAIN values_} |-> values_[Slot(x)]]
  BY DEF StartEval
<1>2. IsSeq(symtab) /\ IsInjective(symtab) /\ Len(values_) <= Len(symtab) /\ IsSeq(values_)
  BY DEF Globals
<1>3. Len(values_) \in Nat /\ Len(symtab) \in Nat
  BY <1>2, LenIsNat
<1>4. /\ IsSeq(symtab') /\ IsInjective(symtab') /\ Len(values_) <= Len(symtab')
      /\ f.expr.op = "define" => f.expr.name \in ToSet(symtab')
      /\ \A x \in ToSet(symtab): x \in ToSet(symtab') /\ SlotIn(symtab', x) = SlotIn(symtab, x)
  <2>1. CASE f.expr.op = "define" /\ f.expr.name \notin ToSet(symtab)
    <3>1. symtab' = Append(symtab, f.expr.name)
      BY <1>1, <2>1
    <3> QED
      BY <1>2, <1>3, <2>1, <3>1, SlotsGrow
  <2>2. CASE ~(f.expr.op = "define" /\ f.expr.name \notin ToSet(symtab))
    BY <1>1, <1>2, <2>2
  <2> QED
    BY <2>1, <2>2
<1>5. \A x: Slot(x)' = SlotIn(symtab', x) /\ Slot(x) = SlotIn(symtab, x)
  BY DEF Slot, SlotIn
<1>6. ASSUME NEW x \in DOMAIN base'.globals
      PROVE  /\ x \in ToSet(symtab') /\ Slot(x)' \in DOMAIN values_'
             /\ values_'[Slot(x)'] = base'.globals[x]
  <2>1. x \in ToSet(symtab) /\ Slot(x) \in DOMAIN values_ /\ base'.globals[x] = values_[Slot(x)]
    BY <1>1
  <2> QED
    BY <1>1, <1>4, <1>5, <2>1
<1> QED
  BY <1>1, <1>2, <1>4, <1>6 DEF Globals

LEMMA GlobalsInit == VsmInit => Globals
<1> SUFFICES ASSUME VsmInit PROVE Globals
  OBVIOUS
<1>1. Builtins \in Seq(ToSet(Builtins)) /\ IsInjective(Builtins)
  BY TermAssumption DEF TermAssumption
<1>2. IsSeq(Builtins)
  BY <1>1, SeqOfItsElements
<1>3. Len(Builtins) \in Nat /\ DOMAIN Builtins = 1 .. Len(Builtins)
  BY <1>2, LenIsNat
<1>4. symtab = Builtins /\ values_ = [i \in 1 .. Len(Builtins) |-> [prim |-> Builtins[i]]]
  BY <1>3 DEF VsmInit
<1>5. values_ = [i \in 1 .. Len(Builtins) |-> values_[i]]
  BY <1>4
<1>6. IsSeq(values_) /\ Len(values_) = Len(Builtins)
  BY <1>3, <1>5, FunctionIsSeq
<1>7. form.op = "none" /\ base.globals = <<>>
  BY DEF VsmInit
<1>8. DOMAIN base.globals = {}
  BY <1>7
<1> QED
  BY <1>1, <1>2, <1>3, <1>4, <1>6, <1>7, <1>8 DEF Globals

-----------------------------------------------------------------------------
(* What the machine has before it is what the form means.                            *)

\* What is to come of the registers is x.
Pending(m, x) ==
  CASE pc_ = "eval" ->
         \/ expr_ \in Terms /\ \E a \in Seq(Values): Fits(local_env_, a) /\ m[<<expr_, a>>] = x
         \/ expr_ = form /\ form.op = "define" /\ cont_ = "halt" /\ m[<<form.rhs, <<>>>>] = x
    [] pc_ = "apply" ->
         /\ IsSeq(args_) /\ PlainAll(args_) \in Seq(Values)
         /\ IsProcedure(fn_) /\ Plain(fn_) \in Values
         /\ Result(m, Plain(fn_), PlainAll(args_)) = x
    [] pc_ \notin {"eval", "apply"} -> Plain(value_) = x

Finished(v) ==
  IF form.op = "define"
  THEN value_ = [name |-> form.name] /\ Plain(values_[Slot(form.name)]) = v
  ELSE Plain(value_) = v

Going(m, v) ==
  /\ form.op # "none" /\ v # NoMeaning
  /\ m = Meanings(base.globals) /\ v = FormMeaning(base.globals)

Agrees ==
  \A m, v: Going(m, v) =>
    IF vsm_fault # "none" THEN base.env # NoEnv
    ELSE IF pc_ = "halt" THEN Finished(v)
    ELSE \E x: OnWay(m, stack_, Len(stack_), base.depth, v, x) /\ Pending(m, x)

\* Primitives do not look into closures: where one makes a value of arguments without
\* environments, it makes the same of those with them.
PrimitivesSeeNoEnvironment ==
  \A p, args: IsSeq(args) /\ Proper(Primitive(p, PlainAll(args))) # NoMeaning =>
    Plain(Primitive(p, args)) = Plain(Primitive(p, PlainAll(args)))

LEMMA GoingFacts ==
  ASSUME NEW m, NEW v, Going(m, v)
  PROVE  /\ m \in [Evaluations -> Outcomes]
         /\ \A e \in Terms, a \in Seq(Values): m[<<e, a>>] \in Outcomes
         /\ \A e \in Terms, a \in Seq(Values):
              m[<<e, a>>] # NoMeaning => m[<<e, a>>] = MeaningBy(m, e, a, base.globals)
<1>1. m \in [Evaluations -> Outcomes]
  BY MeaningsUnfold DEF Going
<1>2. \A e \in Terms, a \in Seq(Values): m[<<e, a>>] \in Outcomes
  BY <1>1 DEF Evaluations
<1> QED
  BY <1>1, <1>2, MeaningsUnfold DEF Going

LEMMA SameGoing ==
  ASSUME form' = form, base' = base, NEW m, NEW v, Going(m, v)'
  PROVE  Going(m, v)
BY DEF Going, FormMeaning

\* What a step leaves, if it does not end the form.
LEMMA GoesOn ==
  ASSUME NEW m, NEW v, Going(m, v), form' = form, base' = base,
         vsm_fault' = "none", pc_' # "halt", NEW x,
         OnWay(m, stack_', Len(stack_'), base.depth, v, x), Pending(m, x)'
  PROVE  Agrees'
<1>1. ASSUME NEW m2, NEW v2, Going(m2, v2)' PROVE m2 = m /\ v2 = v
  BY <1>1, SameGoing DEF Going
<1> QED
  BY <1>1 DEF Agrees

LEMMA Evaluates ==
  ASSUME NEW m, NEW v, Going(m, v), form' = form, base' = base,
         vsm_fault' = "none", pc_' = "eval", NEW x,
         OnWay(m, stack_', Len(stack_'), base.depth, v, x),
         expr_' \in Terms, NEW a \in Seq(Values), Fits(local_env_', a), m[<<expr_', a>>] = x
  PROVE  Agrees'
<1>1. Pending(m, x)'
  BY DEF Pending
<1> QED
  BY <1>1, GoesOn

LEMMA Arrives ==
  ASSUME NEW m, NEW v, Going(m, v), form' = form, base' = base,
         vsm_fault' = "none", pc_' \in Conts, base.depth \in Nat, NEW x,
         pc_' = "halt" => form.op # "define" /\ Len(stack_') = base.depth,
         OnWay(m, stack_', Len(stack_'), base.depth, v, x), Plain(value_') = x
  PROVE  Agrees'
<1>1. CASE pc_' # "halt"
  <2>1. Pending(m, x)'
    BY DEF Pending, Conts
  <2> QED
    BY <1>1, <2>1, GoesOn
<1>2. CASE pc_' = "halt"
  <2>1. x = v
    BY <1>2, WayEnd
  <2>2. Finished(v)'
    BY <1>2, <2>1 DEF Finished
  <2>3. ASSUME NEW m2, NEW v2, Going(m2, v2)' PROVE v2 = v
    BY <2>3, SameGoing DEF Going
  <2> QED
    BY <1>2, <2>2, <2>3 DEF Agrees
<1> QED
  BY <1>1, <1>2

LEMMA Delivered ==
  ASSUME VsmInv, Defining, vsm_fault = "none", form' = form, base' = base,
         NEW m, NEW v, Going(m, v), NEW x,
         OnWay(m, stack_, Len(stack_), base.depth, v, x),
         pc_ \in {"eval", "apply"}, pc_ = "eval" => expr_.op # "define",
         pc_' = cont_, stack_' = stack_, vsm_fault' = "none", Plain(value_') = x
  PROVE  Agrees'
<1>1. /\ base.depth \in Nat /\ cont_ \in Conts
      /\ cont_ = "halt" => Len(stack_) = base.depth
  BY StackFacts
<1>2. cont_ = "halt" => form.op # "define"
  BY <1>1, NotDefining
<1> QED
  BY <1>1, <1>2, Arrives

\* A frame that takes x2, and delivers x to those below it.
LEMMA WayPush ==
  ASSUME NEW m, NEW s, NEW d \in Nat, IsSeq(s), d <= Len(s), NEW v, NEW x,
         OnWay(m, s, Len(s), d, v, x), NEW f, NEW x2, x2 # NoMeaning,
         Takes(m, f, Below(Append(s, f), d, Len(s) + 1), x2, x)
  PROVE  OnWay(m, Append(s, f), Len(Append(s, f)), d, v, x2)
<1> DEFINE t == Append(s, f)
<1>1. Len(s) \in Nat /\ Len(t) = Len(s) + 1 /\ t[Len(s) + 1] = f
      /\ \A i \in 1 .. Len(s): t[i] = s[i]
  BY AppendElements, LenIsNat
<1>2. Takes(m, f, Below(t, d, Len(s) + 1), x2, x)
  OBVIOUS
<1> HIDE DEF t
<1>3. OnWay(m, t, Len(s), d, v, x)
  BY <1>1, WaySame
<1>4. OnWay(m, t, Len(s) + 1, d, v, x2)
  BY <1>1, <1>2, <1>3, WayUp
<1> QED
  BY <1>1, <1>4 DEF t

\* The expression that is to be evaluated, in an environment that holds a.
Evaluating(m, a, x) ==
  /\ pc_ = "eval" /\ expr_ \in Terms /\ a \in Seq(Values) /\ Fits(local_env_, a)
  /\ m[<<expr_, a>>] = x /\ x = MeaningBy(m, expr_, a, base.globals)

LEMMA EvaluatingTerm ==
  ASSUME NEW m, NEW v, Going(m, v), NEW x, x # NoMeaning, Pending(m, x),
         pc_ = "eval", expr_.op # "define"
  PROVE  \E a: Evaluating(m, a, x)
<1>1. PICK a \in Seq(Values): expr_ \in Terms /\ Fits(local_env_, a) /\ m[<<expr_, a>>] = x
  BY DEF Pending
<1>2. m[<<expr_, a>>] = MeaningBy(m, expr_, a, base.globals)
  BY <1>1, GoingFacts
<1> QED
  BY <1>1, <1>2 DEF Evaluating

LEMMA ConstantAgrees ==
  ASSUME NEW m, NEW a, NEW x, Evaluating(m, a, x), EvalConstant \/ EvalLambda
  PROVE  /\ expr_.op # "define" /\ pc_' = cont_ /\ stack_' = stack_ /\ vsm_fault' = vsm_fault
         /\ Plain(value_') = x
<1>1. CASE EvalConstant
  <2>1. expr_.op = "constant" /\ value_' = expr_.value /\ x = expr_.value
    BY <1>1 DEF EvalConstant, Deliver, Evaluating, MeaningBy
  <2>2. expr_.value \in Values
    BY <2>1, TermFacts DEF Evaluating, Values
  <2> QED
    BY <1>1, <2>1, <2>2, ValueFacts DEF EvalConstant, Deliver, Continue
<1>2. CASE EvalLambda
  <2>1. expr_.op = "lambda" /\ value_' = [lambda |-> expr_, env |-> local_env_] /\ x = [lambda |-> expr_]
    BY <1>2 DEF EvalLambda, Deliver, Evaluating, MeaningBy
  <2>2. Plain(value_') = x
    BY <2>1 DEF Plain, IsClosure
  <2> QED
    BY <1>2, <2>1, <2>2 DEF EvalLambda, Deliver, Continue
<1> QED
  BY <1>1, <1>2

LEMMA VarRefAgrees ==
  ASSUME Globals, NEW m, NEW a, NEW x, x # NoMeaning, Evaluating(m, a, x), EvalVarRef
  PROVE  /\ expr_.op # "define" /\ pc_' = cont_ /\ stack_' = stack_ /\ vsm_fault' = vsm_fault
         /\ Plain(value_') = x
<1>1. expr_.op \in {"local", "global"} /\ pc_ = "eval"
  BY DEF EvalVarRef, Evaluating
<1>2. Plain(Bound(expr_)) = x /\ x \in Values
      /\ ~(expr_.op = "global" /\ Slot(expr_.name) \notin DOMAIN values_)
  <2>1. CASE expr_.op = "local"
    <3>1. x = IF expr_.link = 0 /\ expr_.slot \in DOMAIN a THEN a[expr_.slot] ELSE NoMeaning
      BY <2>1 DEF Evaluating, MeaningBy
    <3>2. expr_.link = 0 /\ expr_.slot \in DOMAIN a /\ x = a[expr_.slot]
      BY <3>1
    <3>3. a \in Seq(Values) /\ a # <<>>
      BY <3>2 DEF Evaluating
    <3>4. local_env_ # NoEnv /\ PlainAll(Head(local_env_)) = a
      BY <3>3 DEF Evaluating, Fits
    <3>5. PICK h: h = Head(local_env_)
      OBVIOUS
    <3>6. expr_.slot \in DOMAIN h /\ x = Plain(h[expr_.slot])
      BY <3>2, <3>4, <3>5 DEF PlainAll
    <3>7. Bound(expr_) = h[expr_.slot]
      BY <2>1, <3>2, <3>4, <3>5 DEF Bound
    <3>8. x \in Values
      BY <3>2, <3>3
    <3> QED
      BY <2>1, <3>6, <3>7, <3>8
  <2>2. CASE expr_.op = "global"
    <3>1. x = IF expr_.name \in DOMAIN base.globals THEN Proper(base.globals[expr_.name]) ELSE NoMeaning
      BY <2>2 DEF Evaluating, MeaningBy
    <3>2. expr_.name \in DOMAIN base.globals /\ x = Proper(base.globals[expr_.name])
      BY <3>1
    <3>3. x = Plain(base.globals[expr_.name]) /\ x \in Values
      BY <3>2 DEF Proper
    <3>4. Slot(expr_.name) \in DOMAIN values_ /\ values_[Slot(expr_.name)] = base.globals[expr_.name]
      BY <1>1, <3>2 DEF Globals
    <3>5. Bound(expr_) = values_[Slot(expr_.name)]
      BY <2>2 DEF Bound
    <3> QED
      BY <3>3, <3>4, <3>5
  <2> QED
    BY <1>1, <2>1, <2>2
<1>3. Bound(expr_) # NoValue
  BY <1>2, ValueFacts
<1>4. Deliver(Bound(expr_))
  BY <1>2, <1>3 DEF EvalVarRef
<1> QED
  BY <1>1, <1>2, <1>4 DEF Deliver, Continue

LEMMA DefineAgrees ==
  ASSUME VsmInv, Contained, Defining, vsm_fault = "none", form' = form, base' = base,
         NEW m, NEW v, Going(m, v), NEW x, x # NoMeaning,
         OnWay(m, stack_, Len(stack_), base.depth, v, x), Pending(m, x),
         pc_ = "eval", EvalDefine
  PROVE  Agrees'
<1>1. expr_.op = "define"
  BY DEF EvalDefine
<1>2. expr_ = form /\ form.op = "define" /\ cont_ = "halt" /\ m[<<form.rhs, <<>>>>] = x
  BY <1>1, TermFacts DEF Pending
<1>3. /\ IsSeq(stack_) /\ Len(stack_) \in Nat /\ base.depth \in Nat /\ Len(stack_) = base.depth
      /\ local_env_ = base.env
  BY <1>2, StackFacts
<1>4. CASE local_env_ # NoEnv
  <2>1. vsm_fault' = "assert" /\ base'.env # NoEnv
    BY <1>3, <1>4 DEF EvalDefine, FailedAssertion
  <2> QED
    BY <2>1 DEF Agrees
<1>5. CASE local_env_ = NoEnv
  <2> DEFINE f == Frame("def_cont", expr_)
  <2>1. f.op = "def_cont"
    BY DEF Frame
  <2>2. /\ stack_' = Append(stack_, f) /\ expr_' = form.rhs /\ pc_' = "eval"
        /\ vsm_fault' = "none"
    BY <1>2, <1>5 DEF EvalDefine, PushFrame, Evaluate
  <2> HIDE DEF f
  <2>3. Takes(m, f, Below(Append(stack_, f), base.depth, Len(stack_) + 1), x, x)
    BY <2>1 DEF Takes
  <2>4. OnWay(m, stack_', Len(stack_'), base.depth, v, x)
    BY <1>3, <2>2, <2>3, WayPush
  <2>5. form.rhs \in Terms
    BY <1>2 DEF Contained
  <2>6. <<>> \in Seq(Values) /\ Fits(local_env_', <<>>)
    BY DEF Fits
  <2> QED
    BY <1>2, <2>2, <2>4, <2>5, <2>6, Evaluates
<1> QED
  BY <1>4, <1>5

LEMMA ApplyAgrees ==
  ASSUME VsmInv, vsm_fault = "none", form' = form, base' = base,
         NEW m, NEW v, Going(m, v), NEW x, x # NoMeaning,
         OnWay(m, stack_, Len(stack_), base.depth, v, x), NEW a, Evaluating(m, a, x), EvalApply
  PROVE  Agrees'
<1> DEFINE f == Frame("apply", expr_)
           g == [Frame("evalargs", expr_) EXCEPT !.cont = "apply", !.i = -1]
           s == Append(stack_, f)
           d == base.depth
           all == ArgumentsOf(m, expr_, a)
           fn == m[<<expr_.fn, a>>]
<1>1. /\ IsSeq(stack_) /\ Len(stack_) \in Nat /\ d \in Nat /\ Len(stack_) >= d
      /\ pc_ = "eval" /\ expr_ \in Terms /\ expr_.op = "apply" /\ a \in Seq(Values)
      /\ Fits(local_env_, a)
  BY StackFacts DEF Evaluating, EvalApply
<1>2. expr_.fn \in Terms /\ Len(expr_.args) \in Nat
  BY <1>1, TermFacts, Elements
<1>3. IsProcedure(fn) /\ all \in Seq(Values) /\ x = Result(m, fn, all)
  <2>1. x = IF ~IsProcedure(fn) \/ ~(all \in Seq(Values)) THEN NoMeaning ELSE Result(m, fn, all)
    BY <1>1 DEF Evaluating, MeaningBy, ArgumentsOf
  <2> QED
    BY <2>1
<1>4. fn # NoMeaning
  BY <1>3 DEF IsProcedure, IsClosure, NoMeaning
<1>5. /\ f.op = "apply" /\ f.args = <<>>
      /\ g.op = "evalargs" /\ g.env = local_env_ /\ g.of = expr_ /\ g.i = -1
  BY DEF Frame
<1>6. /\ stack_' = Append(s, g) /\ local_env_' = local_env_ /\ expr_' = expr_.fn /\ pc_' = "eval"
      /\ vsm_fault' = "none"
  BY DEF EvalApply, Evaluate
<1> HIDE DEF f, g, all
<1>7. IsSeq(s) /\ Len(s) = Len(stack_) + 1 /\ s[Len(stack_) + 1] = f
  BY <1>1, AppendElements
<1>8. OnWay(m, s, Len(s), d, v, x)
  <2>1. Takes(m, f, Below(s, d, Len(stack_) + 1), x, x)
    BY <1>5 DEF Takes
  <2> QED
    BY <1>1, <2>1, WayPush
<1> HIDE DEF s
<1>9. Below(Append(s, g), d, Len(s) + 1) = f
  <2>1. Append(s, g)[Len(s)] = f /\ Len(s) \in Nat
    BY <1>1, <1>7, AppendElements
  <2>2. Len(s) + 1 # d + 1 /\ (Len(s) + 1) - 1 = Len(s)
    BY <1>1, <1>7, <2>1
  <2> QED
    BY <2>1, <2>2 DEF Below
<1>10. Calls(m, g, f, fn, x)
  <2>1. Len(<<>>) = 0 /\ IsSeq(<<>>) /\ 1 .. Len(<<>>) = {}
    BY EmptyIsSeq
  <2>2. -1 \in -1 .. Len(expr_.args) - 1
    BY <1>2
  <2>3. /\ Fits(g.env, a) /\ g.of \in Terms /\ g.of.op = "apply" /\ g.i \in -1 .. Len(g.of.args) - 1
        /\ g.of.fn = expr_.fn /\ ArgumentsOf(m, g.of, a) = all
    BY <1>1, <1>5, <2>2 DEF all
  <2>4. IsSeq(f.args) /\ Len(f.args) = 0 /\ \A j \in 1 .. Len(f.args): Plain(f.args[j]) = all[j]
    BY <1>5, <2>1
  <2> QED
    <3>1. m[<<g.of.fn, a>>] = fn /\ g.i = -1
      BY <1>5, <2>3
    <3> HIDE DEF fn
    <3>2. CallsWith(m, a, g, f, fn, x)
      BY ONLY <1>3, <2>3, <2>4, <3>1 DEF CallsWith
    <3> QED
      BY <1>1, <3>2 DEF Calls
<1>11. Takes(m, g, f, fn, x)
  BY <1>5, <1>10 DEF Takes
<1>12. d <= Len(s)
  BY <1>1, <1>7
<1>13. OnWay(m, stack_', Len(stack_'), d, v, fn)
  BY <1>1, <1>4, <1>6, <1>7, <1>8, <1>9, <1>11, <1>12, WayPush
<1>14. Fits(local_env_', a)
  BY <1>1, <1>6
<1> QED
  BY <1>1, <1>2, <1>6, <1>13, <1>14, Evaluates

LEMMA IfElseAgrees ==
  ASSUME VsmInv, vsm_fault = "none", form' = form, base' = base,
         NEW m, NEW v, Going(m, v), NEW x, x # NoMeaning,
         OnWay(m, stack_, Len(stack_), base.depth, v, x), NEW a, Evaluating(m, a, x), EvalIfElse
  PROVE  Agrees'
<1> DEFINE f == Frame("ifelse_cont", expr_)
           test == m[<<expr_.test, a>>]
<1>1. /\ IsSeq(stack_) /\ Len(stack_) \in Nat /\ base.depth \in Nat /\ Len(stack_) >= base.depth
      /\ pc_ = "eval" /\ expr_ \in Terms /\ expr_.op = "if" /\ a \in Seq(Values)
      /\ Fits(local_env_, a)
  BY StackFacts DEF Evaluating, EvalIfElse
<1>2. expr_.test \in Terms
  BY <1>1, TermFacts
<1>3. IsBoolean(test) /\ x = m[<<IF test.bool THEN expr_.yes ELSE expr_.no, a>>]
  <2>1. x = IF ~IsBoolean(test) THEN NoMeaning
            ELSE IF test.bool THEN m[<<expr_.yes, a>>] ELSE m[<<expr_.no, a>>]
    BY <1>1 DEF Evaluating, MeaningBy
  <2> QED
    BY <2>1
<1>4. test # NoMeaning
  BY <1>3 DEF IsBoolean, NoMeaning
<1>5. f.op = "ifelse_cont" /\ f.env = local_env_ /\ f.of = expr_
  BY DEF Frame
<1>6. /\ stack_' = Append(stack_, f) /\ local_env_' = local_env_ /\ expr_' = expr_.test /\ pc_' = "eval"
      /\ vsm_fault' = "none"
  BY DEF EvalIfElse, PushFrame, Evaluate
<1> HIDE DEF f
<1>7. Takes(m, f, Below(Append(stack_, f), base.depth, Len(stack_) + 1), test, x)
  <2>1. Branches(m, f, test, x)
    BY <1>1, <1>3, <1>5 DEF Branches
  <2> QED
    BY <1>5, <2>1 DEF Takes
<1>8. OnWay(m, stack_', Len(stack_'), base.depth, v, test)
  BY <1>1, <1>4, <1>6, <1>7, WayPush
<1> QED
  BY <1>1, <1>2, <1>6, <1>8, Evaluates

LEMMA SequenceAgrees ==
  ASSUME VsmInv, vsm_fault = "none", form' = form, base' = base,
         NEW m, NEW v, Going(m, v), NEW x, x # NoMeaning,
         OnWay(m, stack_, Len(stack_), base.depth, v, x), NEW a, Evaluating(m, a, x), EvalSequence,
         expr_.elts # <<>>
  PROVE  Agrees'
<1> DEFINE f == Frame("seq_cont", expr_)
           elts == expr_.elts
           first == m[<<elts[1], a>>]
<1>1. /\ IsSeq(stack_) /\ Len(stack_) \in Nat /\ base.depth \in Nat /\ Len(stack_) >= base.depth
      /\ pc_ = "eval" /\ expr_ \in Terms /\ expr_.op = "sequence" /\ a \in Seq(Values)
      /\ Fits(local_env_, a)
  BY StackFacts DEF Evaluating, EvalSequence
<1>2. elts \in Seq(Terms)
  BY <1>1, TermFacts
<1>3. Len(elts) \in Nat /\ Len(elts) # 0 /\ DOMAIN elts = 1 .. Len(elts) /\ 1 \in DOMAIN elts
      /\ elts[1] \in Terms
  <2> HIDE DEF elts
  <2>1. elts # <<>>
    BY DEF elts
  <2> QED
    BY <1>2, <2>1, Elements
<1>4. (\A j \in DOMAIN elts: m[<<elts[j], a>>] # NoMeaning) /\ x = m[<<elts[Len(elts)], a>>]
  BY <1>1 DEF Evaluating, MeaningBy
<1>5. f.op = "seq_cont" /\ f.env = local_env_ /\ f.of = expr_ /\ f.i = 0
  BY DEF Frame
<1>6. /\ stack_' = Append(stack_, f) /\ local_env_' = local_env_ /\ expr_' = elts[1] /\ pc_' = "eval"
      /\ vsm_fault' = "none"
  BY DEF EvalSequence, PushFrame, Evaluate
<1> HIDE DEF f
<1>7. Takes(m, f, Below(Append(stack_, f), base.depth, Len(stack_) + 1), first, x)
  <2>1. 0 \in 0 .. Len(elts) - 1 /\ 0 + 1 = 1
    BY <1>3
  <2>2. Sequences(m, f, first, x)
    BY <1>1, <1>4, <1>5, <2>1 DEF Sequences
  <2> QED
    BY <1>5, <2>2 DEF Takes
<1>8. first # NoMeaning
  BY <1>3, <1>4
<1>9. OnWay(m, stack_', Len(stack_'), base.depth, v, first)
  BY <1>1, <1>6, <1>7, <1>8, WayPush
<1> QED
  BY <1>1, <1>3, <1>6, <1>9, Evaluates

LEMMA EvalAgrees ==
  ASSUME VsmInv, Contained, Defining, Globals, vsm_fault = "none", form' = form, base' = base,
         NEW m, NEW v, Going(m, v), NEW x, x # NoMeaning,
         OnWay(m, stack_, Len(stack_), base.depth, v, x), Pending(m, x), EvalStep
  PROVE  Agrees'
<1>1. pc_ = "eval"
  BY DEF EvalStep
<1>2. CASE EvalDefine
  BY <1>1, <1>2, DefineAgrees
<1>3. CASE ~EvalDefine
  <2>1. expr_.op # "define"
    BY <1>3 DEF EvalStep, EvalConstant, EvalLambda, EvalVarRef, EvalApply, EvalIfElse, EvalSequence
  <2>2. PICK a: Evaluating(m, a, x)
    BY <1>1, <2>1, EvaluatingTerm
  <2>3. CASE EvalConstant \/ EvalLambda
    BY <1>1, <2>1, <2>2, <2>3, ConstantAgrees, Delivered
  <2>4. CASE EvalVarRef
    BY <1>1, <2>1, <2>2, <2>4, VarRefAgrees, Delivered
  <2>5. CASE EvalApply
    BY <2>2, <2>5, ApplyAgrees
  <2>6. CASE EvalIfElse
    BY <2>2, <2>6, IfElseAgrees
  <2>7. CASE EvalSequence /\ expr_.elts # <<>>
    BY <2>2, <2>7, SequenceAgrees
  <2>8. CASE EvalSequence /\ expr_.elts = <<>>
    <3>1. x = NoValue
      BY <2>2, <2>8 DEF Evaluating, MeaningBy, EvalSequence
    <3>2. pc_' = cont_ /\ stack_' = stack_ /\ vsm_fault' = "none" /\ value_' = NoValue
      BY <2>8 DEF EvalSequence
    <3>3. Plain(value_') = x
      BY <3>1, <3>2, ValueFacts
    <3> QED
      BY <1>1, <2>1, <3>2, <3>3, Delivered
  <2> QED
    BY <1>3, <2>3, <2>4, <2>5, <2>6, <2>7, <2>8 DEF EvalStep
<1> QED
  BY <1>2, <1>3

\* The frames below the one that is taken off, and what it delivers to them.
LEMMA TakenOff ==
  ASSUME VsmInv, Defining, vsm_fault = "none", pc_ \in {"apply_cont", "ifelse_cont", "seq_cont"},
         NEW m, NEW v, NEW x, OnWay(m, stack_, Len(stack_), base.depth, v, x)
  PROVE  \E y: /\ y # NoMeaning
               /\ Takes(m, Top, Below(stack_, base.depth, Len(stack_)), x, y)
               /\ OnWay(m, stack_, Len(stack_) - 1, base.depth, v, y)
               /\ Pop => /\ OnWay(m, stack_', Len(stack_'), base.depth, v, y)
                         /\ Top.cont = "halt" => form.op # "define" /\ Len(stack_') = base.depth
<1> DEFINE n == Len(stack_)
           d == base.depth
<1>1. /\ IsSeq(stack_) /\ n \in Nat /\ d \in Nat /\ n > d /\ Top.op = pc_ /\ Top = stack_[n]
      /\ Top.cont = "halt" => n - 1 = d
  BY StackFacts DEF Top
<1>2. PICK y: /\ y # NoMeaning /\ Takes(m, stack_[n], Below(stack_, d, n), x, y)
              /\ OnWay(m, stack_, n - 1, d, v, y)
  BY <1>1, WayDown
<1>3. ASSUME Pop
      PROVE  /\ OnWay(m, stack_', Len(stack_'), d, v, y)
             /\ Top.cont = "halt" => form.op # "define" /\ Len(stack_') = d
  <2>1. n - 1 \in 0 .. n /\ n - 1 \in Nat /\ stack_' = SubSeq(stack_, 1, n - 1)
    BY <1>1, <1>3 DEF Pop
  <2>2. Len(stack_') = n - 1 /\ \A i \in 1 .. n - 1: stack_'[i] = stack_[i]
    BY <1>1, <2>1, PrefixElements
  <2>3. \A i \in d + 1 .. n - 1: stack_'[i] = stack_[i]
    BY <1>1, <2>2
  <2>4. OnWay(m, stack_', n - 1, d, v, y)
    <3> HIDE DEF n, d
    <3>1. d \in Nat
      BY <1>1
    <3> QED
      BY <1>2, <2>1, <2>3, <3>1, WaySame
  <2>5. n - 1 = d => form.op # "define"
    <3>1. n - 1 = d => n # d /\ stack_[d + 1].op # "def_cont"
      BY <1>1
    <3> QED
      BY <3>1 DEF Defining
  <2> QED
    BY <1>1, <2>2, <2>4, <2>5
<1> QED
  BY <1>1, <1>2, <1>3

LEMMA ApplyContAgrees ==
  ASSUME VsmInv, Defining, vsm_fault = "none", form' = form, base' = base,
         NEW m, NEW v, Going(m, v), NEW x, x # NoMeaning,
         OnWay(m, stack_, Len(stack_), base.depth, v, x), Pending(m, x), ApplyCont
  PROVE  Agrees'
<1>1. /\ pc_ = "apply_cont" /\ Pop /\ pc_' = Top.cont /\ value_' = value_ /\ vsm_fault' = "none"
  BY DEF ApplyCont, Continue
<1>2. Top.cont \in Conts /\ Top.op = "apply_cont" /\ base.depth \in Nat
  BY <1>1, StackFacts
<1>3. PICK y: /\ Takes(m, Top, Below(stack_, base.depth, Len(stack_)), x, y)
              /\ OnWay(m, stack_', Len(stack_'), base.depth, v, y)
              /\ Top.cont = "halt" => form.op # "define" /\ Len(stack_') = base.depth
  BY <1>1, TakenOff
<1>4. y = x
  BY <1>2, <1>3 DEF Takes
<1>5. Plain(value_') = x
  BY <1>1 DEF Pending
<1> QED
  BY <1>1, <1>2, <1>3, <1>4, <1>5, Arrives

LEMMA IfElseContAgrees ==
  ASSUME VsmInv, Defining, vsm_fault = "none", form' = form, base' = base,
         NEW m, NEW v, Going(m, v), NEW x, x # NoMeaning,
         OnWay(m, stack_, Len(stack_), base.depth, v, x), Pending(m, x), IfElseCont
  PROVE  Agrees'
<1>1. pc_ = "ifelse_cont" /\ Plain(value_) = x
  BY DEF IfElseCont, Pending
<1>2. Top.op = "ifelse_cont" /\ Top.env = local_env_
  BY <1>1, StackFacts
<1>3. PICK y: /\ Takes(m, Top, Below(stack_, base.depth, Len(stack_)), x, y)
              /\ Pop => OnWay(m, stack_', Len(stack_'), base.depth, v, y)
  BY <1>1, TakenOff
<1>4. Branches(m, Top, x, y)
  BY <1>2, <1>3 DEF Takes
<1>5. PICK a \in Seq(Values):
        /\ Fits(Top.env, a) /\ Top.of \in Terms /\ Top.of.op = "if" /\ IsBoolean(x)
        /\ y = m[<<IF x.bool THEN Top.of.yes ELSE Top.of.no, a>>]
  BY <1>4 DEF Branches
<1>6. value_ = x /\ value_ # NoValue
  <2>1. value_ = x
    BY <1>1, <1>5, PlainFacts
  <2> QED
    BY <1>5, <2>1 DEF IsBoolean, NoValue
<1>7. /\ Pop /\ pc_' = "eval" /\ expr_' = (IF x.bool THEN Top.of.yes ELSE Top.of.no)
      /\ local_env_' = local_env_ /\ vsm_fault' = "none"
  BY <1>5, <1>6 DEF IfElseCont, Evaluate
<1>8. expr_' \in Terms
  BY <1>5, <1>7, TermFacts
<1>9. m[<<expr_', a>>] = y /\ Fits(local_env_', a)
  BY <1>2, <1>5, <1>7
<1>10. OnWay(m, stack_', Len(stack_'), base.depth, v, y)
  BY <1>3, <1>7
<1> QED
  BY <1>5, <1>7, <1>8, <1>9, <1>10, Evaluates

LEMMA SeqContAgrees ==
  ASSUME VsmInv, Defining, vsm_fault = "none", form' = form, base' = base,
         NEW m, NEW v, Going(m, v), NEW x, x # NoMeaning,
         OnWay(m, stack_, Len(stack_), base.depth, v, x), Pending(m, x), SeqCont
  PROVE  Agrees'
<1> DEFINE n == Len(stack_)
           d == base.depth
           elts == Top.of.elts
           i == Top.i + 1
<1>1. /\ pc_ = "seq_cont" /\ Plain(value_) = x /\ value_' = value_ /\ local_env_' = local_env_
      /\ vsm_fault' = "none"
  BY DEF SeqCont, Pending
<1>2. /\ Top.op = "seq_cont" /\ Top.env = local_env_ /\ Top = stack_[n] /\ Top.cont \in Conts
      /\ n \in Nat /\ d \in Nat /\ n > d /\ IsSeq(stack_) /\ DOMAIN stack_ = 1 .. n
      /\ Fields \subseteq DOMAIN stack_[n]
  <2>1. n \in Nat /\ d \in Nat /\ n > d
    BY <1>1, StackFacts
  <2>2. n \in 1 .. n
    BY <2>1
  <2> QED
    BY <1>1, <2>1, <2>2, StackFacts DEF Top
<1>3. PICK y: /\ y # NoMeaning
              /\ Takes(m, Top, Below(stack_, d, n), x, y)
              /\ OnWay(m, stack_, n - 1, d, v, y)
              /\ Pop => /\ OnWay(m, stack_', Len(stack_'), d, v, y)
                        /\ Top.cont = "halt" => form.op # "define" /\ Len(stack_') = d
  BY <1>1, TakenOff
<1>4. Sequences(m, Top, x, y)
  BY <1>2, <1>3 DEF Takes
<1>5. PICK a \in Seq(Values):
        /\ Fits(Top.env, a) /\ Top.of \in Terms /\ Top.of.op = "sequence" /\ Top.i \in 0 .. Len(elts) - 1
        /\ \A j \in DOMAIN elts: m[<<elts[j], a>>] # NoMeaning
        /\ x = m[<<elts[i], a>>] /\ y = m[<<elts[Len(elts)], a>>]
  BY <1>4 DEF Sequences
<1>6. CASE i = Len(elts)
  <2>1. Pop /\ pc_' = Top.cont
    BY <1>6 DEF SeqCont, Continue
  <2>2. y = x
    BY <1>5, <1>6
  <2> QED
    BY <1>1, <1>2, <1>3, <2>1, <2>2, Arrives
<1>7. CASE i # Len(elts)
  <2> DEFINE g == [stack_[n] EXCEPT !.i = i]
             next == m[<<elts[i + 1], a>>]
  <2>1. stack_' = [stack_ EXCEPT ![n].i = i] /\ expr_' = elts[i + 1] /\ pc_' = "eval"
    BY <1>7 DEF SeqCont, Evaluate
  <2>2. elts \in Seq(Terms)
    BY <1>5, TermFacts
  <2>3. g.op = "seq_cont" /\ g.env = local_env_ /\ g.of = Top.of /\ g.i = i
    BY <1>2 DEF Fields
  <2>4. stack_' = [k \in 1 .. n |-> stack_'[k]]
    BY <1>2, <2>1
  <2>5. \A k \in 1 .. n: stack_'[k] = IF k = n THEN g ELSE stack_[k]
    BY <1>2, <2>1
  <2>6. i + 1 \in 1 .. Len(elts) /\ i \in 0 .. Len(elts) - 1 /\ expr_' \in Terms /\ i + 1 \in DOMAIN elts
    <3>1. Len(elts) \in Nat /\ DOMAIN elts = 1 .. Len(elts) /\ \A k \in 1 .. Len(elts): elts[k] \in Terms
      <4> HIDE DEF elts
      <4> QED
        BY <2>2, Elements
    <3>2. Top.i \in 0 .. Len(elts) - 1 /\ i = Top.i + 1
      BY <1>5
    <3> HIDE DEF i, elts
    <3>3. i + 1 \in 1 .. Len(elts) /\ i \in 0 .. Len(elts) - 1
      BY <1>7, <3>1, <3>2
    <3> QED
      BY <2>1, <3>1, <3>3
  <2>7. next # NoMeaning
    BY <1>5, <2>6
  <2> HIDE DEF g
  <2>8. Sequences(m, g, next, y)
    <3>1. /\ Fits(g.env, a) /\ g.of \in Terms /\ g.of.op = "sequence" /\ g.of.elts = elts
          /\ g.i \in 0 .. Len(elts) - 1 /\ g.i + 1 = i + 1
      BY <1>2, <1>5, <2>3, <2>6
    <3> HIDE DEF i, elts
    <3> QED
      BY <1>5, <3>1 DEF Sequences
  <2>9. Takes(m, g, Below(stack_', d, n), next, y)
    BY <2>3, <2>8 DEF Takes
  <2> HIDE DEF i, next
  <2>10. /\ Len(stack_') = n /\ stack_'[n] = g
         /\ \A k \in d + 1 .. n - 1: stack_'[k] = stack_[k]
    <3>1. Len(stack_') = n
      BY <1>2, <2>4, FunctionIsSeq
    <3> HIDE DEF n, d
    <3>2. n \in 1 .. n /\ \A k \in d + 1 .. n - 1: k \in 1 .. n /\ k # n
      BY <1>2
    <3>3. stack_'[n] = g
      BY ONLY <2>5, <3>2
    <3>4. \A k \in d + 1 .. n - 1: stack_'[k] = stack_[k]
      BY ONLY <2>5, <3>2
    <3> QED
      BY <3>1, <3>3, <3>4
  <2>11. n - 1 \in Nat /\ d <= n - 1 /\ (n - 1) + 1 = n
    BY <1>2
  <2> HIDE DEF n, d
  <2>12. OnWay(m, stack_', n - 1, d, v, y)
    BY <1>2, <1>3, <2>10, <2>11, WaySame
  <2>13. OnWay(m, stack_', n, d, v, next)
    BY <1>2, <2>7, <2>9, <2>10, <2>11, <2>12, WayUp
  <2>14. m[<<expr_', a>>] = next /\ Fits(local_env_', a)
    BY <1>1, <1>2, <1>5, <2>1 DEF next
  <2> QED
    BY <1>1, <1>5, <2>1, <2>6, <2>10, <2>13, <2>14, Evaluates DEF n, d
<1> QED
  BY <1>6, <1>7

LEMMA DefContAgrees ==
  ASSUME VsmInv, Contained, Globals, vsm_fault = "none", form' = form, base' = base,
         NEW m, NEW v, Going(m, v), NEW x, x # NoMeaning,
         OnWay(m, stack_, Len(stack_), base.depth, v, x), Pending(m, x), DefCont
  PROVE  Agrees'
<1> DEFINE n == Len(stack_)
           d == base.depth
<1>1. pc_ = "def_cont" /\ Plain(value_) = x
  BY DEF DefCont, Pending
<1>2. n \in Nat /\ d \in Nat /\ n > d /\ Top.op = "def_cont" /\ Top = stack_[n] /\ IsSeq(stack_)
      /\ (Top.cont = "halt" <=> n - 1 = d)
  BY <1>1, StackFacts DEF Top
<1>3. FrameContained(Top, form)
  <2>1. n \in 1 .. n
    BY <1>2
  <2> QED
    BY <1>2, <2>1 DEF Contained, StackContained
<1>4. form.op = "define" /\ n - 1 = d
  BY <1>2, <1>3 DEF FrameContained
<1>5. x = v
  <2>1. PICK y: Takes(m, stack_[n], Below(stack_, d, n), x, y) /\ OnWay(m, stack_, n - 1, d, v, y)
    BY <1>2, WayDown
  <2>2. x = y
    BY <1>2, <2>1 DEF Takes
  <2>3. y = v
    BY <1>2, <1>4, <2>1, WayEnd
  <2> QED
    BY <2>2, <2>3
<1>6. v # NoValue
  BY <1>4 DEF Going, FormMeaning
<1>7. value_ # NoValue
  BY <1>1, <1>5, <1>6, ValueFacts
<1>8. /\ pc_' = "halt" /\ symtab' = symtab /\ value_' = [name |-> form.name]
      /\ values_'[Slot(form.name)] = value_
  BY <1>7, Assigns
<1>9. vsm_fault' = "none"
  BY <1>7 DEF DefCont
<1>10. Slot(form.name)' = Slot(form.name)
  BY <1>8 DEF Slot
<1>11. Finished(v)'
  BY <1>1, <1>4, <1>5, <1>8, <1>10 DEF Finished
<1>12. ASSUME NEW m2, NEW v2, Going(m2, v2)' PROVE v2 = v
  BY <1>12, SameGoing DEF Going
<1> QED
  BY <1>8, <1>9, <1>11, <1>12 DEF Agrees

LEMMA CallAgrees ==
  ASSUME VsmInv, Contained, Defining, vsm_fault = "none", form' = form, base' = base,
         PrimitivesSeeNoEnvironment,
         NEW m, NEW v, Going(m, v), NEW x, x # NoMeaning,
         OnWay(m, stack_, Len(stack_), base.depth, v, x), Pending(m, x), Apply
  PROVE  Agrees'
<1> DEFINE all == PlainAll(args_)
<1>1. /\ pc_ = "apply" /\ IsSeq(args_) /\ all \in Seq(Values) /\ IsProcedure(fn_)
      /\ Plain(fn_) \in Values /\ Result(m, Plain(fn_), all) = x
  BY DEF Apply, Pending
<1>2. IsSeq(stack_) /\ Len(stack_) \in Nat /\ base.depth \in Nat /\ Len(stack_) >= base.depth
  BY <1>1, StackFacts
<1>3. CASE CallClosure
  <2>1. IsClosure(fn_) /\ IsClosure(Plain(fn_)) /\ Plain(fn_).lambda = fn_.lambda
    BY <1>3, PlainFacts DEF CallClosure
  <2>2. fn_.lambda.body \in Terms
    BY <1>1, <2>1, ValueFacts, TermFacts
  <2>3. m[<<fn_.lambda.body, all>>] = x
    BY <1>1, <2>1 DEF Result
  <2>4. expr_' = fn_.lambda.body /\ pc_' = "eval" /\ vsm_fault' = "none"
        /\ local_env_' = <<args_>> \o local_env_
    BY <1>3 DEF CallClosure, NewEnv
  <2>5. Fits(local_env_', all)
    <3>1. local_env_' # NoEnv /\ Head(local_env_') = args_
      BY <2>4, NewEnvironment DEF Contained
    <3> QED
      BY <3>1 DEF Fits
  <2>6. OnWay(m, stack_', Len(stack_'), base.depth, v, x)
    <3>1. CASE TailCall
      BY <1>3, <3>1 DEF CallClosure
    <3>2. CASE ~TailCall
      <4> DEFINE f == Frame("apply_cont", fn_.lambda)
      <4>1. f.op = "apply_cont" /\ stack_' = Append(stack_, f)
        BY <1>3, <3>2 DEF CallClosure, PushFrame, Frame
      <4> HIDE DEF f
      <4>2. Takes(m, f, Below(Append(stack_, f), base.depth, Len(stack_) + 1), x, x)
        BY <4>1 DEF Takes
      <4> QED
        BY <1>2, <4>1, <4>2, WayPush
    <3> QED
      BY <3>1, <3>2
  <2> HIDE DEF all
  <2>7. expr_' \in Terms /\ m[<<expr_', all>>] = x
    BY <2>2, <2>3, <2>4
  <2> QED
    BY <1>1, <2>4, <2>5, <2>6, <2>7, Evaluates
<1>4. CASE CallPrimitive
  <2>1. ~IsClosure(fn_) /\ ~IsClosure(Plain(fn_)) /\ Plain(fn_) = fn_
    BY <1>4, PlainFacts DEF CallPrimitive
  <2>2. x = Proper(Primitive(fn_.prim, all))
    BY <1>1, <2>1 DEF Result
  <2>3. x = Plain(Primitive(fn_.prim, all))
    BY <2>2 DEF Proper
  <2>4. Plain(Primitive(fn_.prim, args_)) = Plain(Primitive(fn_.prim, all))
    BY <1>1, <2>2 DEF PrimitivesSeeNoEnvironment
  <2>5. /\ value_' = Primitive(fn_.prim, args_) /\ pc_' = cont_ /\ stack_' = stack_
        /\ vsm_fault' = "none"
    BY <1>4 DEF CallPrimitive, Deliver, Continue
  <2>6. Plain(value_') = x
    BY <2>3, <2>4, <2>5
  <2> QED
    BY <1>1, <2>5, <2>6, Delivered
<1> QED
  BY <1>3, <1>4 DEF Apply

\* The frame g of a call holds the function fn, once it is known, and the arguments before i.
HoldsBefore(g, fn, all, i) ==
  /\ i # -1 => Plain(g.fn) = fn
  /\ IsSeq(g.args) /\ Len(g.args) = (IF i = -1 THEN 0 ELSE i)
  /\ \A j \in 1 .. Len(g.args): Plain(g.args[j]) = all[j]

\* c is the frame g of a call with the value of argument i in its place.
Took(g, i, val, c) == c = IF i = -1 THEN [g EXCEPT !.fn = val] ELSE [g EXCEPT !.args = Append(@, val)]

\* The frame of a call, with the value of the function or of one more argument.
LEMMA OneMore ==
  ASSUME NEW g, Fields \subseteq DOMAIN g, NEW fn, NEW all \in Seq(Values),
         NEW i \in -1 .. Len(all) - 1, HoldsBefore(g, fn, all, i), NEW val, Plain(val) = IF i = -1 THEN fn ELSE all[i + 1],
         NEW c, Took(g, i, val, c)
  PROVE  /\ c.op = g.op /\ c.cont = g.cont /\ Plain(c.fn) = fn
         /\ IsSeq(c.args) /\ Len(c.args) = i + 1
         /\ \A j \in 1 .. Len(c.args): Plain(c.args[j]) = all[j]
<1> USE DEF HoldsBefore
<1>1. Len(all) \in Nat
  OBVIOUS
<1>2. CASE i = -1
  <2>1. c.op = g.op /\ c.cont = g.cont /\ c.fn = val /\ c.args = g.args
    BY <1>2 DEF Fields, Took
  <2> QED
    BY <1>2, <2>1
<1>3. CASE i # -1
  <2>1. c.op = g.op /\ c.cont = g.cont /\ c.fn = g.fn /\ c.args = Append(g.args, val)
    BY <1>3 DEF Fields, Took
  <2>2. Len(g.args) = i /\ i \in Nat
    BY <1>1, <1>3
  <2> HIDE DEF Fields
  <2>3. /\ IsSeq(c.args) /\ Len(c.args) = i + 1 /\ c.args[i + 1] = val
        /\ \A j \in 1 .. i: c.args[j] = g.args[j]
    BY <2>1, <2>2, AppendElements
  <2>4. Plain(val) = all[i + 1]
    BY <1>3
  <2>5. ASSUME NEW j \in 1 .. i + 1 PROVE Plain(c.args[j]) = all[j]
    <3>1. j \in 1 .. i \/ j = i + 1
      BY <2>2
    <3>2. CASE j \in 1 .. i
      BY <2>2, <2>3, <3>2
    <3>3. CASE j = i + 1
      BY <2>3, <2>4, <3>3
    <3> QED
      BY <3>1, <3>2, <3>3
  <2>6. Plain(c.fn) = fn
    BY <1>3, <2>1
  <2> QED
    BY <2>1, <2>3, <2>5, <2>6
<1> QED
  BY <1>2, <1>3

LEMMA ArgsAgrees ==
  ASSUME VsmInv, Defining, vsm_fault = "none", form' = form, base' = base,
         NEW m, NEW v, Going(m, v), NEW x, x # NoMeaning,
         OnWay(m, stack_, Len(stack_), base.depth, v, x), Pending(m, x), EvalArgs
  PROVE  Agrees'
<1>1. /\ pc_ = "evalargs" /\ Plain(value_) = x /\ local_env_' = local_env_
  BY DEF EvalArgs, Pending
<1>2. PICK n, d, i, args, g: n = Len(stack_) /\ d = base.depth /\ i = Top.i /\ args = Top.of.args
                             /\ g = stack_[n - 1]
  OBVIOUS
<1>3. n \in Nat /\ d \in Nat /\ n - 1 > d /\ n > d
  <2>1. Len(stack_) \in Nat /\ base.depth \in Nat /\ Len(stack_) - 1 > base.depth
    BY <1>1, StackFacts
  <2> QED
    BY ONLY <1>2, <2>1
<1>4. n \in 1 .. n /\ n - 1 \in 1 .. n /\ n - 1 \in Nat /\ n - 2 \in Nat /\ d <= n - 2
      /\ n # n - 1 /\ n - 1 - 1 = n - 2 /\ n - 2 + 1 = n - 1 /\ n - 1 + 1 = n /\ n # d + 1
      /\ d <= n - 1
  BY ONLY <1>3
<1>5. /\ IsSeq(stack_) /\ DOMAIN stack_ = 1 .. n /\ Top.op = "evalargs" /\ Top = stack_[n]
      /\ Top.env = local_env_ /\ g.op = "apply"
      /\ Fields \subseteq DOMAIN Top /\ Fields \subseteq DOMAIN g
  BY <1>1, <1>2, <1>4, StackFacts DEF Top
<1>6. OnWay(m, stack_, n, d, v, x)
  BY <1>2
<1>7. PICK y: y # NoMeaning /\ Takes(m, stack_[n], Below(stack_, d, n), x, y)
              /\ OnWay(m, stack_, n - 1, d, v, y)
  BY <1>3, <1>6, WayDown
<1>8. PICK z: Takes(m, stack_[n - 1], Below(stack_, d, n - 1), y, z)
              /\ OnWay(m, stack_, n - 1 - 1, d, v, z)
  BY <1>3, <1>4, <1>7, WayDown
<1>9. OnWay(m, stack_, n - 2, d, v, y)
  <2>1. z = y
    BY <1>2, <1>5, <1>8 DEF Takes
  <2> QED
    BY <1>4, <1>8, <2>1
<1>10. Calls(m, Top, g, x, y)
  <2>1. Below(stack_, d, n) = g
    BY <1>2, <1>4 DEF Below
  <2> QED
    BY <1>5, <1>7, <2>1 DEF Takes
<1>11. PICK a \in Seq(Values): CallsWith(m, a, Top, g, x, y)
  BY <1>10 DEF Calls
<1>12. PICK fn, all: fn = m[<<Top.of.fn, a>>] /\ all = ArgumentsOf(m, Top.of, a)
  OBVIOUS
<1>13. /\ Fits(Top.env, a) /\ Top.of \in Terms /\ Top.of.op = "apply" /\ i \in -1 .. Len(args) - 1
       /\ IsProcedure(fn) /\ all \in Seq(Values) /\ y = Result(m, fn, all)
       /\ x = IF i = -1 THEN fn ELSE all[i + 1]
       /\ i # -1 => Plain(g.fn) = fn
       /\ IsSeq(g.args) /\ Len(g.args) = (IF i = -1 THEN 0 ELSE i)
       /\ \A j \in 1 .. Len(g.args): Plain(g.args[j]) = all[j]
  BY <1>2, <1>11, <1>12 DEF CallsWith
<1>14. args \in Seq(Terms) /\ Top.of.fn \in Terms
  BY <1>2, <1>13, TermFacts
<1>15. /\ Len(args) \in Nat /\ DOMAIN args = 1 .. Len(args) /\ \A k \in 1 .. Len(args): args[k] \in Terms
       /\ Len(all) = Len(args) /\ \A k \in 1 .. Len(args): all[k] = m[<<args[k], a>>] /\ all[k] \in Values
  <2>1. Len(args) \in Nat /\ DOMAIN args = 1 .. Len(args) /\ \A k \in 1 .. Len(args): args[k] \in Terms
    BY <1>14, Elements
  <2>2. DOMAIN all = DOMAIN args /\ \A k \in DOMAIN args: all[k] = m[<<args[k], a>>]
    BY <1>2, <1>12 DEF ArgumentsOf
  <2>3. Len(all) = Len(args)
    BY <1>13, <1>14, <2>2, SameLength
  <2>4. \A k \in 1 .. Len(all): all[k] \in Values
    BY <1>13, Elements
  <2> QED
    BY <2>1, <2>2, <2>3, <2>4
<1>16. fn \in Values /\ x \in Values
  <2>1. fn \in Outcomes
    BY <1>12, <1>14, GoingFacts
  <2>2. fn \in Values
    BY <1>13, <2>1, ResultType, GoingFacts
  <2>3. i # -1 => i + 1 \in 1 .. Len(args)
    BY <1>13, <1>15
  <2> QED
    BY <1>13, <1>15, <2>2, <2>3
<1>17. value_ # NoValue /\ ~(i = -1 /\ ~IsProcedure(value_))
  <2>1. value_ # NoValue
    BY <1>1, <1>16, ValueFacts
  <2>2. i = -1 => IsProcedure(value_)
    BY <1>1, <1>13, PlainFacts
  <2> QED
    BY <2>1, <2>2
<1>18. PICK c: c = IF i = -1 THEN [g EXCEPT !.fn = value_] ELSE [g EXCEPT !.args = Append(@, value_)]
  OBVIOUS
<1>19. /\ vsm_fault' = "none"
       /\ IF i + 1 = Len(args)
          THEN CallWith(c)
          ELSE /\ stack_' = [stack_ EXCEPT ![n - 1] = c, ![n].i = i + 1]
               /\ pc_' = "eval" /\ expr_' = args[i + 2]
  BY <1>2, <1>17, <1>18 DEF EvalArgs, Evaluate
<1>20. /\ c.op = "apply" /\ c.cont = g.cont /\ Plain(c.fn) = fn
       /\ IsSeq(c.args) /\ Len(c.args) = i + 1
       /\ \A j \in 1 .. Len(c.args): Plain(c.args[j]) = all[j]
  <2>1. i \in -1 .. Len(all) - 1 /\ Plain(value_) = IF i = -1 THEN fn ELSE all[i + 1]
    BY <1>1, <1>13, <1>15
  <2>2. Took(g, i, value_, c)
    BY <1>18 DEF Took
  <2>3. HoldsBefore(g, fn, all, i)
    BY ONLY <1>13 DEF HoldsBefore
  <2>4. Fields \subseteq DOMAIN g /\ g.op = "apply" /\ all \in Seq(Values)
    BY <1>5, <1>13
  <2>5. /\ c.op = g.op /\ c.cont = g.cont /\ Plain(c.fn) = fn
        /\ IsSeq(c.args) /\ Len(c.args) = i + 1
        /\ \A j \in 1 .. Len(c.args): Plain(c.args[j]) = all[j]
    BY ONLY <2>1, <2>2, <2>4, <2>3, OneMore
  <2> QED
    BY <2>4, <2>5
<1>21. CASE i + 1 = Len(args)
  <2>1. /\ fn_' = c.fn /\ args_' = c.args /\ stack_' = SubSeq(stack_, 1, n - 2) /\ pc_' = "apply"
    BY <1>2, <1>19, <1>21 DEF CallWith
  <2>2. PlainAll(args_') = all
    BY <1>13, <1>15, <1>20, <1>21, <2>1, PlainIs
  <2>3. IsProcedure(fn_')
    BY <1>13, <1>20, <2>1, PlainFacts
  <2>4. Pending(m, y)'
    BY <1>13, <1>16, <1>20, <2>1, <2>2, <2>3 DEF Pending
  <2>5. Len(stack_') = n - 2 /\ \A k \in 1 .. n - 2: stack_'[k] = stack_[k]
    <3>1. n - 2 \in 0 .. Len(stack_)
      BY <1>2, <1>4
    <3> QED
      BY <1>5, <2>1, <3>1, PrefixElements
  <2>6. OnWay(m, stack_', Len(stack_'), d, v, y)
    <3>1. \A k \in d + 1 .. n - 2: stack_'[k] = stack_[k]
      BY <1>3, <2>5
    <3> QED
      BY <1>3, <1>4, <1>9, <2>5, <3>1, WaySame
  <2> QED
    BY <1>2, <1>19, <2>1, <2>4, <2>6, GoesOn
<1>22. CASE i + 1 # Len(args)
  <2>1. PICK h: h = [stack_[n] EXCEPT !.i = i + 1]
    OBVIOUS
  <2>2. stack_' = [stack_ EXCEPT ![n - 1] = c, ![n].i = i + 1] /\ pc_' = "eval" /\ expr_' = args[i + 2]
    BY <1>19, <1>22
  <2>3. stack_' = [k \in 1 .. n |-> stack_'[k]]
    BY <1>5, <2>2
  <2>4. \A k \in 1 .. n: stack_'[k] = IF k = n THEN h ELSE IF k = n - 1 THEN c ELSE stack_[k]
    BY ONLY <1>4, <1>5, <2>1, <2>2
  <2>5. Len(stack_') = n
    BY <1>3, <2>3, FunctionIsSeq
  <2>6. stack_'[n] = h /\ stack_'[n - 1] = c /\ \A k \in d + 1 .. n - 2: stack_'[k] = stack_[k]
    <3>1. \A k \in d + 1 .. n - 2: k \in 1 .. n /\ k # n /\ k # n - 1
      BY ONLY <1>3
    <3> QED
      BY ONLY <1>4, <2>4, <3>1
  <2>7. h.op = "evalargs" /\ h.env = local_env_ /\ h.of = Top.of /\ h.i = i + 1
    BY <1>5, <2>1 DEF Fields
  <2>8. i + 2 \in 1 .. Len(args) /\ i + 1 \in -1 .. Len(args) - 1 /\ i + 1 # -1 /\ (i + 1) + 1 = i + 2
    <3>1. Len(args) \in Nat /\ i \in -1 .. Len(args) - 1 /\ i + 1 # Len(args)
      BY ONLY <1>13, <1>15, <1>22
    <3>2. PICK l: l = Len(args)
      OBVIOUS
    <3>3. l \in Nat /\ i \in -1 .. l - 1 /\ i + 1 # l
      BY ONLY <3>1, <3>2
    <3>4. i \in Int /\ i >= -1 /\ i <= l - 1 /\ l \in Int
      BY ONLY <3>3
    <3>5. i + 2 \in 1 .. l /\ i + 1 \in -1 .. l - 1 /\ i + 1 # -1 /\ (i + 1) + 1 = i + 2
      BY ONLY <3>3, <3>4
    <3> QED
      BY ONLY <3>2, <3>5
  <2>9. expr_' \in Terms /\ m[<<expr_', a>>] = all[i + 2] /\ all[i + 2] \in Values
    BY <1>15, <2>2, <2>8
  <2>10. CallsWith(m, a, h, c, all[i + 2], y)
    <3>1. /\ Fits(h.env, a) /\ h.of \in Terms /\ h.of.op = "apply" /\ h.i \in -1 .. Len(h.of.args) - 1
          /\ m[<<h.of.fn, a>>] = fn /\ ArgumentsOf(m, h.of, a) = all
          /\ h.i # -1 /\ h.i + 1 = i + 2 /\ Len(c.args) = h.i
      BY <1>2, <1>5, <1>12, <1>13, <1>20, <2>7, <2>8
    <3> QED
      BY ONLY <1>13, <1>20, <3>1 DEF CallsWith
  <2>11. Takes(m, h, c, all[i + 2], y)
    BY <2>7, <2>10 DEF Takes, Calls
  <2>12. Takes(m, c, Below(stack_', d, n - 1), y, y)
    BY <1>20 DEF Takes
  <2>13. OnWay(m, stack_', n - 2, d, v, y)
    BY <1>3, <1>4, <1>9, <2>6, WaySame
  <2>14. OnWay(m, stack_', n - 1, d, v, y)
    <3>1. OnWay(m, stack_', n - 2 + 1, d, v, y)
      BY <1>3, <1>4, <1>7, <2>6, <2>12, <2>13, WayUp
    <3> QED
      BY <1>4, <3>1
  <2>15. OnWay(m, stack_', n, d, v, all[i + 2])
    <3>1. Below(stack_', d, n) = c
      BY <1>4, <2>6 DEF Below
    <3>2. all[i + 2] # NoMeaning
      BY <2>9, ValueFacts
    <3>3. OnWay(m, stack_', n - 1 + 1, d, v, all[i + 2])
      BY <1>3, <1>4, <2>6, <2>11, <2>14, <3>1, <3>2, WayUp
    <3> QED
      BY <1>4, <3>3
  <2>16. Fits(local_env_', a)
    BY <1>1, <1>5, <1>13
  <2> QED
    BY <1>2, <1>19, <2>2, <2>5, <2>9, <2>15, <2>16, Evaluates
<1> QED
  BY <1>21, <1>22

-----------------------------------------------------------------------------
(* The inductive invariant.                                                         *)

MeaningInv ==
  /\ VsmInv /\ Contained /\ Defining /\ Globals /\ Agrees
  /\ vsm_fault # "none" => pc_ # "halt"

LEMMA InvGivesMeaning == MeaningInv => ResultIsMeaning
<1> SUFFICES ASSUME MeaningInv, form.op # "none" PROVE ResultIsMeaning
  BY DEF ResultIsMeaning
<1> DEFINE m == Meanings(base.globals)
           meaning == FormMeaning(base.globals)
           defines == IF form.op = "define" THEN {form.name} ELSE {}
<1>1. meaning # NoMeaning => Going(m, meaning)
  BY DEF Going
<1> HIDE DEF m, meaning
<1>2. ASSUME pc_ = "halt", meaning # NoMeaning
      PROVE  /\ defines = {} => Plain(value_) = meaning
             /\ \A x \in defines: value_ = [name |-> x] /\ Plain(values_[Slot(x)]) = meaning
  BY <1>1, <1>2 DEF MeaningInv, Agrees, Finished
<1>3. ASSUME NEW x \in DOMAIN base.globals \ defines PROVE values_[Slot(x)] = base.globals[x]
  BY DEF MeaningInv, Globals
<1>4. vsm_fault # "none" => meaning = NoMeaning \/ base.env # NoEnv
  BY <1>1 DEF MeaningInv, Agrees
<1> QED
  BY <1>2, <1>3, <1>4 DEF ResultIsMeaning, meaning

LEMMA MeaningStart ==
  ASSUME MeaningInv, vsm_fault = "none", NEW f \in Forms, StartEval(f)
  PROVE  MeaningInv'
<1>1. VsmInv' /\ Contained' /\ Defining' /\ Globals'
  BY StartKeeps, ContainedStart, DefiningStart, GlobalsStart DEF MeaningInv
<1>2. Len(stack_) \in Nat
  BY LenIsNat DEF MeaningInv, VsmInv, Chain
<1>3. /\ pc_' = "eval" /\ expr_' = f.expr /\ cont_' = "halt" /\ form' = f.expr
      /\ stack_' = stack_ /\ base'.depth = Len(stack_) /\ vsm_fault' = "none"
  BY DEF StartEval, Evaluate
<1>4. IF f.expr.op = "define" THEN f.expr.rhs \in Terms ELSE f.expr \in Terms
  BY TermAssumption DEF TermAssumption
<1>5. ASSUME NEW m, NEW v, Going(m, v)'
      PROVE  OnWay(m, stack_', Len(stack_'), base'.depth, v, v) /\ Pending(m, v)'
  <2>1. v # NoMeaning
    BY <1>5 DEF Going
  <2>2. OnWay(m, stack_', Len(stack_'), base'.depth, v, v)
    BY <1>2, <1>3, <2>1, WayStart
  <2>3. m = Meanings(base'.globals) /\ v = FormMeaning(base.globals)'
    BY <1>5 DEF Going
  <2>4. CASE f.expr.op = "define"
    <3>1. v = IF m[<<form'.rhs, <<>>>>] = NoValue THEN NoMeaning ELSE m[<<form'.rhs, <<>>>>]
      BY <1>3, <2>3, <2>4 DEF FormMeaning
    <3>2. m[<<form'.rhs, <<>>>>] = v
      BY <2>1, <3>1
    <3>3. Pending(m, v)'
      BY <1>3, <2>4, <3>2 DEF Pending
    <3> QED
      BY <2>2, <3>3
  <2>5. CASE f.expr.op # "define"
    <3>1. v = m[<<expr_', <<>>>>]
      BY <1>3, <2>3, <2>5 DEF FormMeaning
    <3>2. <<>> \in Seq(Values) /\ Fits(local_env_', <<>>)
      BY DEF Fits
    <3>3. Pending(m, v)'
      BY <1>3, <1>4, <2>5, <3>1, <3>2 DEF Pending
    <3> QED
      BY <2>2, <3>3
  <2> QED
    BY <2>4, <2>5
<1>6. Agrees'
  BY <1>3, <1>5 DEF Agrees
<1> QED
  BY <1>1, <1>3, <1>6 DEF MeaningInv

LEMMA FaultRuns ==
  ASSUME vsm_fault = "none", Instruction, vsm_fault' # "none"
  PROVE  pc_' = pc_
<1>1. CASE EvalStep
  BY <1>1 DEF EvalStep, EvalConstant, EvalDefine, EvalLambda, EvalVarRef, EvalApply, EvalIfElse,
     EvalSequence, Deliver, Stop, FailedAssertion
<1>2. CASE EvalArgs
  BY <1>2 DEF EvalArgs
<1>3. CASE Apply
  BY <1>3 DEF Apply, CallClosure, CallPrimitive, Deliver
<1>4. CASE ApplyCont \/ IfElseCont \/ SeqCont \/ DefCont
  BY <1>4 DEF ApplyCont, IfElseCont, SeqCont, DefCont, FailedAssertion, Stop
<1> QED
  BY <1>1, <1>2, <1>3, <1>4 DEF Instruction

LEMMA ContainedStep ==
  ASSUME VsmInv, Contained, vsm_fault = "none", Instruction, base' = base, form' = form
  PROVE  Contained'
BY ContainedEval, ContainedArgs, ContainedCall, ContainedApplyCont, ContainedDefCont,
   ContainedIfElseCont, ContainedSeqCont DEF Instruction

LEMMA AgreesStep ==
  ASSUME MeaningInv, vsm_fault = "none", Instruction, base' = base, form' = form,
         PrimitivesSeeNoEnvironment
  PROVE  Agrees'
<1>1. CASE \E m, v: Going(m, v)
  <2>1. PICK m, v: Going(m, v)
    BY <1>1
  <2>2. PICK x: OnWay(m, stack_, Len(stack_), base.depth, v, x) /\ Pending(m, x)
    BY <2>1, InstructionRuns DEF MeaningInv, Agrees
  <2>3. VsmInv /\ Contained /\ Defining /\ Globals
    BY DEF MeaningInv
  <2>4. x # NoMeaning
    <3>1. base.depth \in Nat /\ Len(stack_) \in Nat /\ base.depth <= Len(stack_)
      <4>1. pc_ # "halt"
        BY InstructionRuns
      <4> QED
        BY <2>3, <4>1, StackFacts
    <3> QED
      BY <2>2, <3>1, WayKnown
  <2> QED
    BY <2>1, <2>2, <2>3, <2>4, EvalAgrees, ArgsAgrees, CallAgrees, ApplyContAgrees,
       DefContAgrees, IfElseContAgrees, SeqContAgrees DEF Instruction
<1>2. CASE ~\E m, v: Going(m, v)
  BY <1>2, SameGoing DEF Agrees
<1> QED
  BY <1>1, <1>2

LEMMA StepKeepsMeaning ==
  PrimitivesSeeNoEnvironment => (MeaningInv /\ [VsmNext]_vsmVars => MeaningInv')
<1> SUFFICES ASSUME PrimitivesSeeNoEnvironment, MeaningInv, [VsmNext]_vsmVars PROVE MeaningInv'
  OBVIOUS
<1>1. VsmInv'
  BY StepKeepsInv DEF MeaningInv
<1>2. CASE UNCHANGED vsmVars
  <2>1. /\ stack_' = stack_ /\ base' = base /\ form' = form /\ pc_' = pc_ /\ vsm_fault' = vsm_fault
        /\ local_env_' = local_env_ /\ expr_' = expr_ /\ cont_' = cont_ /\ value_' = value_
        /\ values_' = values_ /\ symtab' = symtab /\ fn_' = fn_ /\ args_' = args_
    BY <1>2 DEF vsmVars, history, vsmGlobals
  <2>2. Contained' /\ Defining' /\ Globals'
    BY <2>1 DEF MeaningInv, Contained, Defining, Globals, Slot
  <2>3. Agrees'
    <3>1. \A m, v: Going(m, v)' => Going(m, v)
      BY <2>1, SameGoing
    <3>2. \A m, x: Pending(m, x)' = Pending(m, x)
      BY <2>1 DEF Pending
    <3>3. \A v: Finished(v)' = Finished(v)
      BY <2>1 DEF Finished, Slot
    <3> QED
      BY <2>1, <3>1, <3>2, <3>3 DEF MeaningInv, Agrees
  <2> QED
    BY <1>1, <2>1, <2>2, <2>3 DEF MeaningInv
<1>3. CASE vsm_fault = "none" /\ Instruction
  <2>1. base' = base /\ form' = form
    BY <1>3 DEF Instruction, history
  <2>2. Contained' /\ Defining' /\ Globals' /\ Agrees'
    BY <1>3, <2>1, ContainedStep, DefiningStep, GlobalsStep, AgreesStep DEF MeaningInv
  <2>3. vsm_fault' # "none" => pc_' # "halt"
    BY <1>3, FaultRuns, InstructionRuns
  <2> QED
    BY <1>1, <2>2, <2>3 DEF MeaningInv
<1>4. CASE vsm_fault = "none" /\ \E f \in Forms: StartEval(f)
  BY <1>4, MeaningStart
<1> QED
  BY <1>2, <1>3, <1>4 DEF VsmNext

LEMMA MeaningInit == VsmInit => MeaningInv
<1> SUFFICES ASSUME VsmInit PROVE MeaningInv
  OBVIOUS
<1>1. VsmInv /\ Contained /\ Globals
  BY InitInv, ContainedInit, GlobalsInit
<1>2. form.op = "none" /\ vsm_fault = "none"
  BY DEF VsmInit
<1> QED
  BY <1>1, <1>2 DEF MeaningInv, Defining, Agrees, Going

(* If primitives do not look into closures: a form that ends leaves the value it      *)
(* means, a define gives that value to its name, no other global variable changes,    *)
(* and no form with a meaning fails an assertion, unless an earlier error has left an *)
(* environment behind (DVirtualSchematikaMachine.cpp, start_eval and every            *)
(* instruction).                                                                    *)
THEOREM MachineComputesMeaning == PrimitivesSeeNoEnvironment => (VsmSpec => []ResultIsMeaning)
<1> SUFFICES ASSUME PrimitivesSeeNoEnvironment PROVE VsmSpec => []ResultIsMeaning
  OBVIOUS
<1>1. MeaningInv /\ [VsmNext]_vsmVars => MeaningInv'
  BY StepKeepsMeaning
<1>2. VsmSpec => []MeaningInv
  BY <1>1, MeaningInit, PTL DEF VsmSpec
<1> QED
  BY <1>2, InvGivesMeaning, PTL

=============================================================================
