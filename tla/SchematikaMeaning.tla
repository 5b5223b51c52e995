--------------------------- MODULE SchematikaMeaning ---------------------------
(* What an expression means, without registers and stack: a call by value evaluator, *)
(* and the machine compared with it. Where the machine reports an error, or a failed *)
(* assertion stops it, an expression has no meaning.                                 *)
EXTENDS SchematikaMachine

CONSTANTS Terms,      \* the expressions that forms are made of, but for the defines
          Data,       \* the values of an expression, other than closures
          MaxHeight   \* bound: evaluations within one another

ASSUME TermAssumption ==
  /\ \A f \in Forms: IF f.expr.op = "define" THEN f.expr.rhs \in Terms ELSE f.expr \in Terms
  /\ \A e \in Terms:
       /\ e.op \in {"constant", "lambda", "local", "global", "if", "sequence", "apply"}
       /\ e.op = "constant" => e.value \in Data
       /\ e.op = "lambda" => e.body \in Terms
       /\ e.op = "if" => {e.test, e.yes, e.no} \subseteq Terms
       /\ e.op = "sequence" => e.elts \in Seq(Terms)
       /\ e.op = "apply" => e.fn \in Terms /\ e.args \in Seq(Terms)
  /\ \A v \in Data: {"none", "unknown", "error", "lambda"} \cap DOMAIN v = {}
  /\ Builtins \in Seq(ToSet(Builtins)) /\ IsInjective(Builtins)
  /\ MaxHeight \in Nat

NoMeaning == [unknown |-> TRUE]

\* values without the environments of closures
Plain(v) == IF IsClosure(v) THEN [lambda |-> v.lambda] ELSE v
Closures == [lambda: {e \in Terms: e.op = "lambda"}]
Values == Data \cup Closures
Proper(v) == IF Plain(v) \in Values THEN Plain(v) ELSE NoMeaning

\* an expression, in the body of a function that was called with these arguments
Evaluations == Terms \X Seq(Values)

\* what the closure or primitive fn makes of its arguments, if m[e, a] is what e means
\* in the body of a function called with a
Result(m, fn, args) ==
  IF IsClosure(fn) THEN m[<<fn.lambda.body, args>>] ELSE Proper(Primitive(fn.prim, args))

MeaningBy(m, e, args, globals) ==
  LET M(x) == m[<<x, args>>] IN
  CASE e.op = "constant" -> e.value
    [] e.op = "lambda"   -> [lambda |-> e]
    [] e.op = "local"    -> IF e.link = 0 /\ e.slot \in DOMAIN args THEN args[e.slot] ELSE NoMeaning
    [] e.op = "global"   -> IF e.name \in DOMAIN globals THEN Proper(globals[e.name]) ELSE NoMeaning
    [] e.op = "if"       -> IF ~IsBoolean(M(e.test)) THEN NoMeaning
                            ELSE IF M(e.test).bool THEN M(e.yes) ELSE M(e.no)
    [] e.op = "sequence" -> IF e.elts = <<>> THEN NoValue
                            ELSE IF \E i \in DOMAIN e.elts: M(e.elts[i]) = NoMeaning THEN NoMeaning
                            ELSE M(e.elts[Len(e.elts)])
    [] e.op = "apply"    -> LET args2 == [i \in DOMAIN e.args |-> M(e.args[i])] IN
                            IF ~IsProcedure(M(e.fn)) \/ ~(args2 \in Seq(Values)) THEN NoMeaning
                            ELSE Result(m, M(e.fn), args2)

\* what evaluations mean that go no deeper than MaxHeight
Meanings(globals) ==
  LET upto[n \in 0 .. MaxHeight] ==
        IF n = 0 THEN [j \in Evaluations |-> NoMeaning]
        ELSE [j \in Evaluations |-> MeaningBy(upto[n - 1], j[1], j[2], globals)]
  IN  upto[MaxHeight]

\* the value of a form, or of the right hand side of a define
FormMeaning(globals) ==
  IF form.op # "define" THEN Meanings(globals)[<<form, <<>>>>]
  ELSE LET rhs == Meanings(globals)[<<form.rhs, <<>>>>] IN IF rhs = NoValue THEN NoMeaning ELSE rhs

\* When a form ends, its value is what it means, a define has given that value to its
\* name, and no other global has changed; a form with a meaning does not fail an
\* assertion, unless an error in an earlier form has left an environment behind
\* (start_eval, run, and every instruction).
ResultIsMeaning ==
  LET meaning == FormMeaning(base.globals)
      defines == IF form.op = "define" THEN {form.name} ELSE {}
  IN  form.op # "none" =>
        /\ pc_ = "halt" /\ meaning # NoMeaning =>
             /\ defines = {} => Plain(value_) = meaning
             /\ \A x \in defines: value_ = [name |-> x] /\ Plain(values_[Slot(x)]) = meaning
        /\ pc_ = "halt" => \A x \in DOMAIN base.globals \ defines:
                             values_[Slot(x)] = base.globals[x]
        /\ vsm_fault # "none" => meaning = NoMeaning \/ base.env # NoEnv

\* The frames that an evaluation has on the stack at most, if d gives those of the ones
\* within it and m what they mean; last says that its end is the end of a closure call
FramesBy(d, m, e, args, last, globals) ==
  LET Frames(x) == d[<<x, args, FALSE>>]
      AtEnd(x) == d[<<x, args, last>>]
      M(x) == m[<<x, args>>]
      Most(s) == Max({0} \cup {Frames(s[i]): i \in DOMAIN s}) IN
  CASE e.op = "if"       -> Max({1 + Frames(e.test), AtEnd(IF M(e.test).bool THEN e.yes ELSE e.no)})
    [] e.op = "sequence" -> IF e.elts = <<>> THEN 0 ELSE 1 + Most(e.elts)
    [] e.op = "apply"    -> LET fn == M(e.fn)
                                args2 == [i \in DOMAIN e.args |-> M(e.args[i])] IN
                            Max({2 + Frames(e.fn), 2 + Most(e.args),
                                 IF ~IsClosure(fn) THEN 0
                                 ELSE (IF last THEN 0 ELSE 1) + d[<<fn.lambda.body, args2, TRUE>>]})
    [] OTHER             -> 0

FramesOf(globals) ==
  LET m == Meanings(globals)
      upto[n \in 0 .. MaxHeight] ==
        IF n = 0 THEN [j \in Evaluations \X BOOLEAN |-> 0]
        ELSE [j \in Terms \X Seq(Values) \X BOOLEAN |->
                FramesBy(upto[n - 1], m, j[1], j[2], j[3], globals)]
  IN  upto[MaxHeight]

FormFrames(globals) ==
  IF form.op # "define" THEN FramesOf(globals)[<<form, <<>>, FALSE>>]
  ELSE 1 + FramesOf(globals)[<<form.rhs, <<>>, FALSE>>]

\* The stack of a form that has a meaning gets exactly as deep as its evaluations are
\* nested: two frames while the function and the arguments of a call are evaluated, one
\* for the call of a closure, for a test, for a sequence as long as it goes on, for a
\* define; and a call with nothing to do after it in a function adds none, so that only
\* recursion of this kind runs in a stack of constant depth (_do_call_closure_op,
\* _do_evalargs_op and the continuations, which take the frames off).
StackIsNesting ==
  pc_ = "halt" /\ form.op # "none" /\ FormMeaning(base.globals) # NoMeaning =>
    deepest = base.depth + FormFrames(base.globals)

\* The branch of _do_eval_define_op for a define that is not at top level is never taken,
\* if no form has one: "nested defines implemented by rewriting, so this branch should be
\* unreachable".
NestedDefineUnreachable == ~(pc_ = "eval" /\ expr_.op = "define" /\ local_env_ # NoEnv)
=============================================================================
