------------------------------ MODULE MCSchematika ------------------------------
(* Forms for the virtual Schematika machine: recursion in tail position and elsewhere, *)
(* higher order functions, a loop without end, and errors of every kind. A Function is *)
(* what the reader makes, whose body is the sequence between its braces; a Lambda that *)
(* has another body is what a program can make, and give to start_eval.                *)
EXTENDS SchematikaMeaning

BuiltinsMC == <<"sub", "eq">>

IsInt(v) == DOMAIN v = {"int"}
PrimitiveMC(name, args) ==
  IF Len(args) # 2 \/ \E i \in DOMAIN args: ~IsInt(args[i]) THEN Error("not numbers")
  ELSE IF name = "sub" THEN [int |-> args[1].int - args[2].int]
  ELSE [bool |-> args[1].int = args[2].int]

Int_(n) == [op |-> "constant", value |-> [int |-> n]]
True == [op |-> "constant", value |-> [bool |-> TRUE]]
Arg(slot) == [op |-> "local", link |-> 0, slot |-> slot]
Outer(slot) == [op |-> "local", link |-> 1, slot |-> slot]
Global(x) == [op |-> "global", name |-> x]
Lambda(n, body) == [op |-> "lambda", n |-> n, body |-> body]
Call(fn, args) == [op |-> "apply", fn |-> fn, args |-> args]
If(test, yes, no) == [op |-> "if", test |-> test, yes |-> yes, no |-> no]
Do(elts) == [op |-> "sequence", elts |-> elts]
Function(n, e) == Lambda(n, Do(<<e>>))
Define(x, rhs) == [op |-> "define", name |-> x, rhs |-> rhs]
Sub(a, b) == Call(Global("sub"), <<a, b>>)
IsZero(a) == Call(Global("eq"), <<a, Int_(0)>>)
F(a) == Call(Global("f"), <<a>>)
G(a, b) == Call(Global("g"), <<a, b>>)
SelfCall == Function(1, Call(Arg(1), <<Arg(1)>>))

CountDown == If(IsZero(Arg(1)), Arg(2), G(Sub(Arg(1), Int_(1)), Sub(Arg(2), Int_(1))))

Expressions == {
  Define("f", Function(1, If(IsZero(Arg(1)), Int_(0), Sub(F(Sub(Arg(1), Int_(1))), Int_(-1))))),
  Define("g", Function(2, CountDown)),
  Define("g", Lambda(2, CountDown)),                          \* in constant depth
  Sub(F(Int_(2)), F(Int_(1))),
  G(Int_(2), Int_(5)),
  Define("x", F(Int_(1))),
  Define("x", Sub(True, Int_(1))),                            \* defined as an error
  Define("y", Do(<<>>)),                                      \* no value to assign
  Global("x"),
  Sub(Global("x"), Int_(1)),
  Call(Lambda(1, Do(<<F(Arg(1)), Arg(1)>>)), <<Int_(1)>>),
  Call(Function(1, Call(Function(1, Outer(1)), <<Int_(0)>>)), <<Int_(1)>>),
  Call(Function(1, Sub(Do(<<>>), Arg(1))), <<Int_(1)>>),      \* an argument without value
  Define("x", If(Int_(0), Int_(1), Int_(2))),                 \* never defined: not a boolean
  Call(Function(1, If(Arg(1), Int_(1), Int_(2))), <<Int_(0)>>), \* an error inside a function
  Call(SelfCall, <<SelfCall>>),                               \* never ends
  Call(Function(1, Call(Arg(1), <<Int_(1)>>)), <<Function(1, Sub(Arg(1), Int_(1)))>>),
  Call(Lambda(1, Call(Arg(1), <<Int_(1)>>)), <<Lambda(1, Arg(1))>>), \* a tail call
  Call(Call(Function(1, Function(1, Arg(1))), <<Int_(0)>>), <<Int_(3)>>),
  Call(Int_(1), <<Int_(0)>>),                                 \* not a procedure
  Call(If(IsZero(Int_(0)), Global("sub"), Global("eq")), <<Int_(3), Int_(1)>>),
  Call(Function(0, Int_(4)), <<>>)}

RECURSIVE Uses(_)
Uses(e) ==
  LET All(s) == UNION {Uses(s[i]): i \in DOMAIN s} IN
  CASE e.op = "global" -> {e.name}
    [] e.op = "lambda" -> Uses(e.body)
    [] e.op = "apply" -> Uses(e.fn) \cup All(e.args)
    [] e.op = "if" -> Uses(e.test) \cup Uses(e.yes) \cup Uses(e.no)
    [] e.op = "sequence" -> All(e.elts)
    [] e.op = "define" -> Uses(e.rhs)
    [] OTHER -> {}

FormsMC == {[expr |-> e, uses |-> Uses(e)]: e \in Expressions}

RECURSIVE Subterms(_)
Subterms(e) ==
  LET All(s) == UNION {Subterms(s[i]): i \in DOMAIN s} IN
  {e} \cup CASE e.op = "lambda" -> Subterms(e.body)
           [] e.op = "apply" -> Subterms(e.fn) \cup All(e.args)
           [] e.op = "if" -> Subterms(e.test) \cup Subterms(e.yes) \cup Subterms(e.no)
           [] e.op = "sequence" -> All(e.elts)
           [] e.op = "define" -> Subterms(e.rhs)
           [] OTHER -> {}

TermsMC == {t \in UNION {Subterms(e): e \in Expressions}: t.op # "define"}
DataMC == [int: -5 .. 9] \cup [bool: BOOLEAN] \cup [prim: {"sub", "eq"}]
=============================================================================
