----------------------------- MODULE CallbackSet -----------------------------
(* CallbackSetImpl of xo-callback. A callback that runs, like the application when    *)
(* none does, may add and remove callbacks and invoke the set; changes that are made  *)
(* while callbacks run are put off until the loop over them has ended.               *)
EXTENDS Naturals, Sequences, SequencesExt

CONSTANTS MaxCallbacks,  \* bound: callbacks ever added
          MaxDeferred,   \* bound: changes put off at one time
          MaxDepth       \* bound: invocations inside one another

ASSUME CallbackAssumption == MaxCallbacks \in Nat /\ MaxDeferred \in Nat /\ MaxDepth \in Nat

VARIABLES cb_v_,             \* the ids of the registered callbacks
          cb_running_,
          cb_cmd_v_,         \* reentrant_cmd_v_: the changes that were put off
          last_id,           \* CallbackId::generate
          loops,             \* open invocations, each at a position of cb_v_: 0 before the first
          cb_fault,          \* undefined behaviour: nothing comes after it
          asked,             \* history: the ids that should be registered
          nested             \* history: a callback has invoked the set

cbVars == <<cb_v_, cb_running_, cb_cmd_v_, last_id, loops, cb_fault, asked, nested>>

CallbackInit ==
  /\ cb_v_ = <<>> /\ cb_running_ = FALSE /\ cb_cmd_v_ = <<>>
  /\ last_id = 0 /\ loops = <<>> /\ cb_fault = "none"
  /\ asked = <<>> /\ nested = FALSE

CanCall == loops # <<>> => Last(loops) > 0
Without(v, id) == SelectSeq(v, LAMBDA x: x # id)

\* a loop that is open iterates over a vector that is no longer the same
Disturbed(open) == IF open # <<>> /\ cb_v_' # cb_v_ THEN "iterating" ELSE "none"

Defers_adds_only(add) == cb_running_ /\ add

Defers(add) == cb_running_

AddCallback ==
  LET id == last_id + 1 IN
  /\ CanCall /\ last_id < MaxCallbacks /\ Len(cb_cmd_v_) < MaxDeferred
  /\ last_id' = id
  /\ asked' = Append(asked, id)
  /\ IF Defers(TRUE)
     THEN /\ cb_cmd_v_' = Append(cb_cmd_v_, [add |-> TRUE, id |-> id])
          /\ UNCHANGED <<cb_v_, cb_fault>>
     ELSE /\ cb_v_' = Append(cb_v_, id)
          /\ cb_fault' = Disturbed(loops)
          /\ UNCHANGED cb_cmd_v_
  /\ UNCHANGED <<cb_running_, loops, nested>>

RemoveCallback(id) ==
  /\ CanCall /\ Len(cb_cmd_v_) < MaxDeferred
  /\ asked' = Without(asked, id)
  /\ IF Defers(FALSE)
     THEN /\ cb_cmd_v_' = Append(cb_cmd_v_, [add |-> FALSE, id |-> id])
          /\ UNCHANGED <<cb_v_, cb_fault>>
     ELSE /\ cb_v_' = Without(cb_v_, id)
          /\ cb_fault' = Disturbed(loops)
          /\ UNCHANGED cb_cmd_v_
  /\ UNCHANGED <<cb_running_, last_id, loops, nested>>

Invoke ==
  /\ CanCall /\ Len(loops) < MaxDepth
  /\ cb_running_' = TRUE
  /\ loops' = Append(loops, 0)
  /\ nested' = (nested \/ loops # <<>>)
  /\ UNCHANGED <<cb_v_, cb_cmd_v_, last_id, cb_fault, asked>>

\* the loop goes on to the next callback
CallNext ==
  /\ loops # <<>> /\ Last(loops) < Len(cb_v_)
  /\ loops' = [loops EXCEPT ![Len(loops)] = @ + 1]
  /\ UNCHANGED <<cb_v_, cb_running_, cb_cmd_v_, last_id, cb_fault, asked, nested>>

Applied(v, cmd) == IF cmd.add THEN Append(v, cmd.id) ELSE Without(v, cmd.id)
\* an added callback was moved into the vector, and its hook is called through the null
\* pointer that is left: a crash, or nothing when the hook is empty and not virtual
HookOutcomes(cmds) == IF \E i \in DOMAIN cmds: cmds[i].add THEN {"null", "none"} ELSE {"none"}

\* make_deferred_changes
MakeDeferredChanges(open) ==
  /\ cb_running_' = FALSE
  /\ cb_cmd_v_' = <<>>
  /\ cb_v_' = FoldLeft(Applied, cb_v_, cb_cmd_v_)
  /\ cb_fault' \in IF Disturbed(open) = "none" THEN HookOutcomes(cb_cmd_v_) ELSE {"iterating"}

EndLoop_discards ==
  /\ loops' = Front(loops)
  /\ cb_running_' = FALSE /\ cb_cmd_v_' = <<>>
  /\ UNCHANGED <<cb_v_, cb_fault, last_id, asked, nested>>

EndLoop ==
  /\ loops' = Front(loops)
  /\ MakeDeferredChanges(Front(loops))
  /\ UNCHANGED <<last_id, asked, nested>>

\* a callback throws
ThrowFromCallback ==
  /\ loops # <<>> /\ Last(loops) > 0
  /\ EndLoop

EndInvoke ==
  /\ loops # <<>> /\ Last(loops) = Len(cb_v_)
  /\ EndLoop

CallbackNext ==
  /\ cb_fault = "none"
  /\ \/ AddCallback
     \/ \E id \in 1 .. last_id: RemoveCallback(id)
     \/ Invoke \/ CallNext \/ EndInvoke \/ ThrowFromCallback

CallbackSpec == CallbackInit /\ [][CallbackNext]_cbVars

-----------------------------------------------------------------------------
(* Properties. *)

\* Callbacks may add and remove callbacks, themselves included, and may throw: as long as
\* none invokes the set that invoked it, no loop iterates over a vector that has changed
\* ("running callbacks can safely make add/remove calls on the cbset that invoked them").
LoopsUndisturbed == ~nested => cb_fault # "iterating"

\* When no invocation is open, also after one that ended by an exception, every change
\* that was asked for, at once or from a callback, has been made, in the order of the calls.
ChangesAreMade ==
  cb_fault = "none" /\ loops = <<>> => cb_v_ = asked /\ ~cb_running_ /\ cb_cmd_v_ = <<>>
=============================================================================
