--------------------------- MODULE SchematikaMachine ---------------------------
(* The virtual Schematika machine of xo-interpreter2: registers, a stack of frames,  *)
(* one instruction at a time. A session evaluates one top-level form after the other. *)
(* An expression is a record, its kind in op; a value is a record, its type the name  *)
(* of its field. The stack is a sequence with its top at the end; the kind of a frame *)
(* is the instruction that takes it off. Memory is as if it were never collected.     *)
EXTENDS Integers, Sequences, SequencesExt

CONSTANTS Forms,      \* top-level forms: an expression, and the global names it uses
          Builtins,   \* the primitives, a sequence of names
          Primitive(_, _),   \* what the primitive with this name makes of its arguments
          MaxForms,   \* bound: forms in a session
          MaxVsmCalls \* bound: closures called during one form

NoValue == [none |-> TRUE]
Error(what) == [error |-> what]
NoEnv == <<>>   \* the null environment

VARIABLES pc_, cont_, expr_, value_, fn_, args_,
          stack_,
          local_env_,      \* the chain of environments, innermost first: their arguments
          symtab, values_, \* the global symbols and their values
          vsm_fault,       \* a failed assertion: nothing follows
          form, base,      \* history: the form, and stack_, local_env_, values_ as it began
          deepest,         \* history: how many frames stack_ has had at most since then
          vsm_forms, vsm_calls

vsmGlobals == <<symtab, values_>>
history == <<form, base, vsm_forms>>
vsmVars == <<pc_, cont_, expr_, value_, fn_, args_, stack_, local_env_, vsmGlobals, vsm_fault,
             history, deepest, vsm_calls>>

VsmInit ==
  /\ pc_ = "halt" /\ cont_ = "sentinel" /\ expr_ = [op |-> "none"]
  /\ value_ = NoValue /\ fn_ = NoValue /\ args_ = <<>>
  /\ stack_ = <<>> /\ local_env_ = NoEnv
  /\ symtab = Builtins /\ values_ = [i \in DOMAIN Builtins |-> [prim |-> Builtins[i]]]
  /\ vsm_fault = "none"
  /\ form = [op |-> "none"] /\ base = [depth |-> 0, env |-> NoEnv, globals |-> <<>>]
  /\ deepest = 0 /\ vsm_forms = 0 /\ vsm_calls = 0

IsClosure(v) == "lambda" \in DOMAIN v
IsProcedure(v) == IsClosure(v) \/ "prim" \in DOMAIN v
IsBoolean(v) == "bool" \in DOMAIN v

Slot(name) == CHOOSE i \in DOMAIN symtab: symtab[i] = name

-----------------------------------------------------------------------------
(* What the instructions have in common.                                            *)

Top == stack_[Len(stack_)]

\* a frame to continue with the expression e; only the frame of a closure call saves
\* local_env_, for the others env is a history
Frame(op, e) ==
  [op |-> op, cont |-> cont_, env |-> local_env_, of |-> e, i |-> 0, fn |-> NoValue, args |-> <<>>]
PushFrame(frame) == stack_' = Append(stack_, frame)
Pop == stack_' = SubSeq(stack_, 1, Len(stack_) - 1)

Evaluate(e, cont) == pc_' = "eval" /\ expr_' = e /\ cont_' = cont
Continue(pc) == pc_' = pc /\ cont_' = "sentinel"

Deliver(v) ==
  /\ value_' = v
  /\ Continue(cont_)
  /\ UNCHANGED <<expr_, fn_, args_, stack_, local_env_, vsmGlobals, vsm_fault>>

\* an error stops the machine where it is
Stop(what) ==
  /\ value_' = Error(what)
  /\ Continue("halt")
  /\ UNCHANGED <<expr_, fn_, args_, stack_, local_env_, vsmGlobals, vsm_fault>>

FailedAssertion ==
  /\ vsm_fault' = "assert"
  /\ UNCHANGED <<pc_, cont_, expr_, value_, fn_, args_, stack_, local_env_, vsmGlobals>>

-----------------------------------------------------------------------------
(* The top level. The reader knows every name a form uses, and enters the one it     *)
(* defines into the symbol table; the value comes later, if it comes.                *)

StartEval(f) ==
  /\ pc_ = "halt" /\ vsm_forms < MaxForms
  /\ symtab' = IF f.expr.op = "define" /\ f.expr.name \notin ToSet(symtab)
               THEN Append(symtab, f.expr.name) ELSE symtab
  /\ f.uses \subseteq ToSet(symtab')
  /\ value_' = NoValue
  /\ Evaluate(f.expr, "halt")
  /\ form' = f.expr
  /\ base' = [depth |-> Len(stack_), env |-> local_env_,
              globals |-> [x \in {y \in ToSet(symtab): Slot(y) \in DOMAIN values_} |->
                             values_[Slot(x)]]]
  /\ deepest' = Len(stack_) /\ vsm_forms' = vsm_forms + 1 /\ vsm_calls' = 0
  /\ UNCHANGED <<fn_, args_, stack_, local_env_, values_, vsm_fault>>

-----------------------------------------------------------------------------
(* _do_eval_op, by the kind of expression.                                          *)

EvalConstant == expr_.op = "constant" /\ Deliver(expr_.value)

\* _do_eval_define_op: a define in the body of a function should have been rewritten
EvalDefine ==
  /\ expr_.op = "define"
  /\ IF local_env_ # NoEnv
     THEN FailedAssertion
     ELSE /\ PushFrame(Frame("def_cont", expr_))
          /\ Evaluate(expr_.rhs, "def_cont")
          /\ UNCHANGED <<value_, fn_, args_, local_env_, vsmGlobals, vsm_fault>>

EvalLambda ==
  /\ expr_.op = "lambda"
  /\ Deliver([lambda |-> expr_, env |-> local_env_])

\* the value of a variable, or of none: only those of the innermost function are looked
\* up in the environment
Bound(v) ==
  CASE v.op = "local" /\ v.link = 0 /\ local_env_ # NoEnv -> Head(local_env_)[v.slot]
    [] v.op = "global" -> values_[Slot(v.name)]
    [] OTHER -> NoValue

\* _do_eval_varref_op: the table of values may end before the slot of a global name
EvalVarRef ==
  /\ expr_.op \in {"local", "global"}
  /\ IF expr_.op = "global" /\ Slot(expr_.name) \notin DOMAIN values_
     THEN FailedAssertion
     ELSE IF Bound(expr_) = NoValue THEN Stop("no binding for variable") ELSE Deliver(Bound(expr_))

\* _do_eval_apply_op
EvalApply ==
  /\ expr_.op = "apply"
  /\ stack_' = Append(Append(stack_, Frame("apply", expr_)),
                      [Frame("evalargs", expr_) EXCEPT !.cont = "apply", !.i = -1])
  /\ Evaluate(expr_.fn, "evalargs")
  /\ UNCHANGED <<value_, fn_, args_, local_env_, vsmGlobals, vsm_fault>>

EvalIfElse ==
  /\ expr_.op = "if"
  /\ PushFrame(Frame("ifelse_cont", expr_))
  /\ Evaluate(expr_.test, "ifelse_cont")
  /\ UNCHANGED <<value_, fn_, args_, local_env_, vsmGlobals, vsm_fault>>

EvalSequence ==
  /\ expr_.op = "sequence"
  /\ IF expr_.elts = <<>>
     THEN /\ value_' = NoValue
          /\ pc_' = cont_
          /\ UNCHANGED <<cont_, expr_, stack_>>
     ELSE /\ PushFrame(Frame("seq_cont", expr_))
          /\ Evaluate(expr_.elts[1], "seq_cont")
          /\ UNCHANGED value_
  /\ UNCHANGED <<fn_, args_, local_env_, vsmGlobals, vsm_fault>>

EvalStep ==
  /\ pc_ = "eval"
  /\ \/ EvalConstant \/ EvalDefine \/ EvalLambda \/ EvalVarRef \/ EvalApply \/ EvalIfElse
     \/ EvalSequence
  /\ UNCHANGED vsm_calls

-----------------------------------------------------------------------------
(* Function calls.                                                                  *)

\* the last argument was evaluated: take both frames off, and call
CallWith(apply) ==
  /\ fn_' = apply.fn /\ args_' = apply.args
  /\ stack_' = SubSeq(stack_, 1, Len(stack_) - 2)
  /\ pc_' = "apply" /\ cont_' = apply.cont
  /\ UNCHANGED expr_

\* _do_evalargs_op: the value is that of the function, or of argument i
EvalArgs ==
  LET n == Len(stack_)
      i == Top.i
      args == Top.of.args
      apply == IF i = -1 THEN [stack_[n - 1] EXCEPT !.fn = value_]
                         ELSE [stack_[n - 1] EXCEPT !.args = Append(@, value_)]
  IN  /\ pc_ = "evalargs"
      /\ IF value_ = NoValue
         THEN Continue("halt") /\ UNCHANGED <<expr_, fn_, args_, stack_, vsm_fault>>
         ELSE IF i = -1 /\ ~IsProcedure(value_)
         THEN vsm_fault' = "assert" /\ UNCHANGED <<pc_, cont_, expr_, fn_, args_, stack_>>
         ELSE /\ IF i + 1 = Len(args)
                 THEN CallWith(apply)
                 ELSE /\ stack_' = [stack_ EXCEPT ![n - 1] = apply, ![n].i = i + 1]
                      /\ Evaluate(args[i + 2], "evalargs")
                      /\ UNCHANGED <<fn_, args_>>
              /\ UNCHANGED vsm_fault
      /\ UNCHANGED <<value_, local_env_, vsmGlobals, vsm_calls>>

\* a call with nothing to do after it in the function that makes it keeps the frame of
\* that function's own call; after a call that ends a sequence, there is the sequence
\* to go on with, and the body of every function the reader makes is in a sequence
TailCall_never == FALSE   \* mutant: every call saves the registers
TailCall == cont_ = "apply_cont"

NewEnv_once == IF TailCall THEN local_env_ ELSE <<args_>> \o local_env_   \* mutant
NewEnv == <<args_>> \o local_env_

\* _do_call_closure_op
CallClosure ==
  /\ IsClosure(fn_) /\ vsm_calls < MaxVsmCalls
  /\ IF TailCall
     THEN UNCHANGED <<cont_, stack_>>
     ELSE PushFrame(Frame("apply_cont", fn_.lambda)) /\ cont_' = "apply_cont"
  /\ local_env_' = NewEnv
  /\ expr_' = fn_.lambda.body
  /\ pc_' = "eval"
  /\ vsm_calls' = vsm_calls + 1
  /\ UNCHANGED <<value_, fn_, args_, vsmGlobals, vsm_fault>>

CallPrimitive ==
  /\ ~IsClosure(fn_)
  /\ Deliver(Primitive(fn_.prim, args_))
  /\ UNCHANGED vsm_calls

Apply == pc_ = "apply" /\ (CallClosure \/ CallPrimitive)

Restored_not == local_env_   \* mutant: the caller goes on in the environment of the callee
Restored == Top.env

\* _do_apply_cont_op: the end of a closure call
ApplyCont ==
  /\ pc_ = "apply_cont"
  /\ Pop
  /\ local_env_' = Restored
  /\ Continue(Top.cont)
  /\ UNCHANGED <<expr_, value_, fn_, args_, vsmGlobals, vsm_fault, vsm_calls>>

-----------------------------------------------------------------------------
(* The other continuations.                                                         *)

\* _do_def_cont_op, DGlobalEnv::assign_value: the table of values grows to the slot
DefCont ==
  LET slot == Slot(Top.of.name) IN
  /\ pc_ = "def_cont"
  /\ IF value_ = NoValue
     THEN FailedAssertion
     ELSE /\ values_' = [i \in 1 .. (IF slot \in DOMAIN values_ THEN Len(values_) ELSE slot) |->
                          IF i = slot THEN value_
                          ELSE IF i \in DOMAIN values_ THEN values_[i] ELSE NoValue]
          /\ value_' = [name |-> Top.of.name]
          /\ Pop
          /\ Continue(Top.cont)
          /\ UNCHANGED <<expr_, fn_, args_, local_env_, symtab, vsm_fault>>
  /\ UNCHANGED vsm_calls

\* _do_ifelse_cont_op
IfElseCont ==
  /\ pc_ = "ifelse_cont"
  /\ IF value_ = NoValue THEN FailedAssertion
     ELSE IF ~IsBoolean(value_) THEN Stop("expected boolean for test condition")
     ELSE /\ Pop
          /\ Evaluate(IF value_.bool THEN Top.of.yes ELSE Top.of.no, Top.cont)
          /\ UNCHANGED <<value_, fn_, args_, local_env_, vsmGlobals, vsm_fault>>
  /\ UNCHANGED vsm_calls

\* _do_seq_cont_op: the value of the last element is that of the sequence
SeqCont ==
  LET i == Top.i + 1 IN
  /\ pc_ = "seq_cont"
  /\ IF i = Len(Top.of.elts)
     THEN Pop /\ Continue(Top.cont) /\ UNCHANGED expr_
     ELSE /\ stack_' = [stack_ EXCEPT ![Len(stack_)].i = i]
          /\ Evaluate(Top.of.elts[i + 1], "seq_cont")
  /\ UNCHANGED <<value_, fn_, args_, local_env_, vsmGlobals, vsm_fault, vsm_calls>>

Instruction ==
  /\ EvalStep \/ EvalArgs \/ Apply \/ ApplyCont \/ DefCont \/ IfElseCont \/ SeqCont
  /\ deepest' = Max({deepest, Len(stack_')})
  /\ UNCHANGED history

VsmNext == vsm_fault = "none" /\ (Instruction \/ \E f \in Forms: StartEval(f))

VsmSpec == VsmInit /\ [][VsmNext]_vsmVars

-----------------------------------------------------------------------------
(* Properties. *)

\* The continuation c finds its frame on a stack of n frames, with the environment env:
\* halt finds the stack and the environment the form began with.
Finds(c, n, env) ==
  IF c = "halt" THEN n = base.depth /\ env = base.env
  ELSE /\ n > base.depth
       /\ stack_[n].op = c
       /\ c # "apply_cont" => stack_[n].env = env

\* Evaluation preserves stack_ and local_env_, as DVirtualSchematikaMachine.hpp says: each
\* continuation finds the frame that was pushed for it, and the environment of that
\* time, through any nesting of calls, tail calls, branches and sequences; and so does
\* the end of a form, unless an error has ended it.
RegistersPreserved ==
  LET next == IF pc_ \in {"eval", "apply"} THEN cont_ ELSE pc_ IN
  \/ vsm_fault # "none"
  \/ pc_ = "halt" /\ ("error" \in DOMAIN value_ \/ value_ = NoValue)
  \/ Finds(next, Len(stack_), local_env_)

=============================================================================
