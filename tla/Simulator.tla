------------------------------- MODULE Simulator -------------------------------
(* The discrete event simulator of xo-simulator and the event sources of         *)
(* xo-reactor and xo-process it schedules. A delivery calls the sinks of a        *)
(* source, which may push events into other sources, add or remove sources, or    *)
(* throw: the delivery is a first step, the calls are steps, and its end is one.  *)
(* An event is its timestamp. The binary heap is the set of its entries: the one  *)
(* at its front is the least, by time and then by the address of its source.      *)
EXTENDS Integers, Sequences, FiniteSets, SequencesExt

CONSTANTS Primary,    \* RealizationSources: always have a next event
          Fifo,       \* FifoQueues
          Sorted,     \* SecondarySources with a HeapReducer
          Feeds,      \* Feeds[s]: the sources that the sinks of s push into
          T0,         \* the time the simulation starts at
          MaxTime,    \* bound: timestamps
          MaxCalls    \* bound: calls in a run, add_source excepted, and throws

Sources == Primary \cup Fifo \cup Sorted
Times == 0 .. MaxTime

ASSUME SimulatorAssumption ==
  /\ Sources \subseteq Nat                       \* a source is its address
  /\ Primary \cap Fifo = {} /\ Primary \cap Sorted = {} /\ Fifo \cap Sorted = {}
  /\ Feeds \in [Sources -> SUBSET (Fifo \cup Sorted)]
  /\ T0 \in Nat /\ MaxTime \in Nat /\ MaxCalls \in Nat

Nowhere == -1   \* no source

VARIABLES
  src_v_, sim_heap_, last_tm_, reentrant_cmd_v_,  \* Simulator
  delivering, now,     \* the source whose delivery is in progress, the time of its event
  parent,              \* sources whose parent_reactor_ is the simulator
  upstream_exhausted_, \* SecondarySources told that nothing more comes
  events,              \* the events a source holds, in the order it delivers them
  sim_calls,           \* count of the calls so far
  sim_fault,           \* a failed assertion or undefined behaviour: nothing follows
  thrown, removed      \* history: a sink has thrown, sources taken out of the heap

simVars == <<src_v_, sim_heap_, last_tm_, reentrant_cmd_v_, delivering, now, parent,
             upstream_exhausted_, events, sim_calls, sim_fault, thrown, removed>>

SimInit ==
  /\ src_v_ = {} /\ sim_heap_ = {} /\ last_tm_ = T0 /\ reentrant_cmd_v_ = <<>>
  /\ delivering = Nowhere /\ now = T0
  /\ parent = {} /\ upstream_exhausted_ = {}
  /\ events = [s \in Sources |-> IF s \in Primary THEN <<0>> ELSE <<>>]
  /\ sim_calls = 0 /\ sim_fault = "none" /\ thrown = FALSE /\ removed = {}

Before_by_source(x, y) == x.src < y.src \/ (x.src = y.src /\ x.t0 <= y.t0)

\* SourceTimestamp::compare
Before(x, y) == x.t0 < y.t0 \/ (x.t0 = y.t0 /\ x.src <= y.src)
Earliest(heap) == CHOOSE x \in heap: \A y \in heap: Before(x, y)
Scheduled(heap) == {x.src: x \in heap}

\* an entry for a source, with its sim_current_tm, when the sources hold the events ev
Entry(s, ev) == [t0 |-> Head(ev[s]), src |-> s]

-----------------------------------------------------------------------------
(* What a call asks of the heap; during a delivery it is put off to its end.     *)
(* A state of the heap is its entries, the fault, and the sources taken out.     *)

HeapState == [heap |-> sim_heap_, fault |-> sim_fault, removed |-> removed]
Become(st) == sim_heap_' = st.heap /\ sim_fault' = st.fault /\ removed' = st.removed

\* heap_insert_source asserts that the source is not there
InsertPrimed(st, s, ev) ==
  IF s \in Scheduled(st.heap)
  THEN [st EXCEPT !.fault = "assert"]
  ELSE [st EXCEPT !.heap = @ \cup {Entry(s, ev)}]

CompleteAdd(st, s, ev) == [st EXCEPT !.heap = @ \cup {Entry(s, ev)}]

\* complete_remove_source moves the heap over inside the loop that goes through it
CompleteRemove(st, s) ==
  IF Cardinality(st.heap) > 1
  THEN [st EXCEPT !.fault = "undefined"]
  ELSE [st EXCEPT !.heap = {x \in @: x.src # s}, !.removed = @ \cup {s}]

Perform(st, cmd, ev) ==
  IF st.fault # "none"
  THEN st
  ELSE CASE cmd.op = "primed" -> InsertPrimed(st, cmd.src, ev)
         [] cmd.op = "add" -> CompleteAdd(st, cmd.src, ev)
         [] cmd.op = "remove" -> CompleteRemove(st, cmd.src)

Request_lost(op, s, ev) ==
  /\ IF delivering # Nowhere
     THEN UNCHANGED <<sim_heap_, sim_fault, removed>>
     ELSE Become(Perform(HeapState, [op |-> op, src |-> s], ev))
  /\ UNCHANGED reentrant_cmd_v_

Request(op, s, ev) ==
  IF delivering # Nowhere
  THEN /\ reentrant_cmd_v_' = Append(reentrant_cmd_v_, [op |-> op, src |-> s])
       /\ UNCHANGED <<sim_heap_, sim_fault, removed>>
  ELSE /\ Become(Perform(HeapState, [op |-> op, src |-> s], ev))
       /\ UNCHANGED reentrant_cmd_v_

NoRequest == UNCHANGED <<sim_heap_, sim_fault, removed, reentrant_cmd_v_>>

-----------------------------------------------------------------------------
(* Calls, made by the application between deliveries or by a sink during one.    *)

Counted == sim_calls < MaxCalls /\ sim_calls' = sim_calls + 1

\* add_source: events before T0 are dropped; a source that is exhausted gets no reactor
AddSource(s) ==
  /\ s \notin src_v_
  /\ src_v_' = src_v_ \cup {s}
  /\ events' = [events EXCEPT ![s] = IF s \in Primary /\ Head(@) < T0 THEN <<T0>> ELSE @]
  /\ IF s \in upstream_exhausted_
     THEN UNCHANGED parent /\ NoRequest
     ELSE /\ parent' = parent \cup {s}
          /\ IF events[s] = <<>> THEN NoRequest ELSE Request("add", s, events')
  /\ UNCHANGED <<last_tm_, delivering, now, upstream_exhausted_, sim_calls, thrown>>

\* remove_source: the source stays in src_v_ and keeps its parent
RemoveSource(s) ==
  /\ s \in src_v_ /\ Counted
  /\ Request("remove", s, events)
  /\ UNCHANGED <<src_v_, last_tm_, delivering, now, parent, upstream_exhausted_, events,
                 thrown>>

\* the place a HeapReducer gives an event; a FifoQueue appends it
Include(q, t, s) ==
  IF s \in Fifo
  THEN Append(q, t)
  ELSE LET n == Cardinality({i \in DOMAIN q: q[i] <= t}) IN InsertAt(q, n + 1, t)

\* FifoQueue::notify_ev, SecondarySource::notify_secondary_event: a source that was
\* empty tells its reactor that it is primed. (A source without a reactor keeps
\* nothing: it delivers the event to its sinks at once.)
Push(s, t) ==
  /\ s \in parent \ (Primary \cup upstream_exhausted_) /\ Counted
  /\ events' = [events EXCEPT ![s] = Include(@, t, s)]
  /\ IF events[s] = <<>> THEN Request("primed", s, events') ELSE NoRequest
  /\ UNCHANGED <<src_v_, last_tm_, delivering, now, parent, upstream_exhausted_, thrown>>

\* SecondarySource::notify_upstream_exhausted
Exhaust(s) ==
  /\ s \in Sorted \ upstream_exhausted_ /\ Counted
  /\ upstream_exhausted_' = upstream_exhausted_ \cup {s}
  /\ NoRequest
  /\ UNCHANGED <<src_v_, last_tm_, delivering, now, parent, events, thrown>>

-----------------------------------------------------------------------------
(* advance_one_event *)

\* deliver_one takes the event out (a RealizationSource only looks at it) and calls the sinks
BeginDelivery ==
  LET s == Earliest(sim_heap_).src IN
  /\ delivering = Nowhere /\ sim_heap_ # {}
  /\ events[s] # <<>>
  /\ s \in Primary => Head(events[s]) < MaxTime
  /\ delivering' = s /\ now' = Head(events[s])
  /\ events' = [events EXCEPT ![s] = IF s \in Primary THEN @ ELSE Tail(@)]
  /\ UNCHANGED <<src_v_, sim_heap_, last_tm_, reentrant_cmd_v_, parent, upstream_exhausted_,
                 sim_calls, sim_fault, thrown, removed>>

\* a sink pushes an event that is not before the one it handles
SinkPushes ==
  delivering # Nowhere /\ \E s \in Feeds[delivering], t \in now .. MaxTime: Push(s, t)

Reschedule_old_time(heap, s, ev) ==
  IF ev[s] = <<>> THEN heap \ {Earliest(heap)} ELSE heap

\* the front of the heap is put back at its new time, or goes; then what was put off
Reschedule(heap, s, ev) ==
  (heap \ {Earliest(heap)}) \cup (IF ev[s] = <<>> THEN {} ELSE {Entry(s, ev)})

CompleteDeliveryWork_forgets(heap, ev) ==
  /\ Become([HeapState EXCEPT !.heap = heap])
  /\ reentrant_cmd_v_' = <<>>
  /\ delivering' = Nowhere

CompleteDeliveryWork(heap, ev) ==
  /\ Become(FoldLeft(LAMBDA st, cmd: Perform(st, cmd, ev),
                     [HeapState EXCEPT !.heap = heap], reentrant_cmd_v_))
  /\ reentrant_cmd_v_' = <<>>
  /\ delivering' = Nowhere

EndDelivery ==
  /\ delivering # Nowhere
  /\ IF delivering \in Primary
     THEN \E t \in now + 1 .. MaxTime: events' = [events EXCEPT ![delivering] = <<t>>]
     ELSE UNCHANGED events
  /\ last_tm_' = Earliest(sim_heap_).t0
  /\ CompleteDeliveryWork(Reschedule(sim_heap_, delivering, events'), events')
  /\ UNCHANGED <<src_v_, now, parent, upstream_exhausted_, sim_calls, thrown>>

\* a sink throws: the entry at the front of the heap stays as it was
Throw ==
  /\ delivering # Nowhere /\ Counted
  /\ thrown' = TRUE
  /\ CompleteDeliveryWork(sim_heap_, events)
  /\ UNCHANGED <<src_v_, last_tm_, now, parent, upstream_exhausted_, events>>

\* the entry of a source that has nothing (its sink threw) is only taken out
DeliverNothing ==
  LET s == Earliest(sim_heap_).src IN
  /\ delivering = Nowhere /\ sim_heap_ # {}
  /\ events[s] = <<>>
  /\ last_tm_' = Earliest(sim_heap_).t0
  /\ sim_heap_' = Reschedule(sim_heap_, s, events)
  /\ UNCHANGED <<src_v_, reentrant_cmd_v_, delivering, now, parent, upstream_exhausted_,
                 events, sim_calls, sim_fault, thrown, removed>>

-----------------------------------------------------------------------------
AppPushes == delivering = Nowhere /\ \E s \in Fifo \cup Sorted, t \in Times: Push(s, t)

SimNext ==
  /\ sim_fault = "none"
  /\ \/ \E s \in Sources: AddSource(s) \/ RemoveSource(s) \/ Exhaust(s)
     \/ AppPushes \/ SinkPushes
     \/ BeginDelivery \/ EndDelivery \/ Throw \/ DeliverNothing

(* run_until, and every other loop over run_one, advances while there are events. *)
SimFairness ==
  /\ WF_simVars(sim_fault = "none" /\ BeginDelivery)
  /\ WF_simVars(sim_fault = "none" /\ EndDelivery)
  /\ WF_simVars(sim_fault = "none" /\ DeliverNothing)

SimSpec == SimInit /\ [][SimNext]_simVars

-----------------------------------------------------------------------------
(* Properties. *)

\* Between deliveries, and whatever the sinks called meanwhile, a source of the
\* simulation that has events is in the heap once, and one that has none is not,
\* unless a sink threw (Simulator.hpp, of sim_heap_; a source that was removed is
\* out of the simulation's hands).
EachSourceOnce ==
  delivering = Nowhere /\ sim_fault = "none" =>
    \A s \in src_v_ \ removed:
      LET n == Cardinality({x \in sim_heap_: x.src = s}) IN
      IF events[s] # <<>> THEN n = 1 ELSE n = 0 \/ thrown

\* The heap knows when the next event of a source is due, without asking it: the
\* time of an entry is that of the source's next event, or is too late, which
\* happens to a source that sorts its events (SourceTimestamp.hpp promises the
\* opposite).
HeapTimes ==
  ~thrown /\ sim_fault = "none" =>
    \A x \in sim_heap_:
      x.src # delivering /\ x.src \notin removed =>
        IF x.src \in Sorted THEN x.t0 >= Head(events[x.src]) ELSE x.t0 = Head(events[x.src])

\* No event is delivered ahead of an earlier one that a queue or a stochastic
\* process has next (advance_one_event, heap_update_source).
EarliestFirst ==
  [][BeginDelivery /\ ~thrown =>
       \A s \in (src_v_ \cap (Primary \cup Fifo)) \ removed:
         events[s] # <<>> => now' <= Head(events[s])]_simVars

\* An event that a queue has next is delivered in the end, if someone runs the
\* simulation and no sink throws.
NextIsDelivered ==
  \A s \in Fifo:
    (s \in src_v_ \ removed /\ events[s] # <<>> /\ Head(events[s]) < MaxTime)
      ~> (delivering = s \/ s \in removed \/ thrown \/ sim_fault # "none")

=============================================================================
