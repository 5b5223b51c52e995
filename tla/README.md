# Models of xo-umbrella2 in TLA+

This directory holds TLA+ models of the parts of xo that keep state: the
generational copying collector of `xo-gc`; the arena allocator, the hash table
and the input buffer of `xo-arena`; the web server of `xo-websock`; the discrete
event simulator of `xo-simulator` with its event sources; the callback sets of
`xo-callback`; the red-black tree and the B+ tree of `xo-ordinaltree`; the
virtual machine of `xo-interpreter2`. TLC checks them on small
instances, and TLAPS proves some of the results for every value of the
constants.

Contents:

1. [The system](#1-the-system)
2. [Modules](#2-modules)
3. [Model and code](#3-model-and-code)
4. [Runs](#4-runs)
5. [Proofs](#5-proofs)
6. [Where the code and its comments disagree](#6-where-the-code-and-its-comments-disagree)
7. [Not modelled](#7-not-modelled)
8. [Plan](#8-plan)

## 1. The system

xo is a collection of C++ libraries: a language (Schematika) with its reader,
type checker and interpreters; the memory management below it; reactors and a
discrete event simulator; stochastic processes, filters and other numerics;
Python bindings. The libraries with logic of their own:

| Component | State | Operations | What is hard | What makes it correct |
|---|---|---|---|---|
| `DX1Collector`, `GCObjectStore` (xo-gc) | two half-spaces per generation, with roles; roots; per-collection checkpoints | `alloc`, `add_gc_root`, `assign_member`, `request_gc`/`execute_gc` | partial collections, promotion, sharing, forwarding | the program cannot tell that its objects move; no pointer into freed memory; garbage goes away; a collection ends |
| `MutationLogStore` (xo-gc) | three logs per generation of the child | write barrier, `forward_mutation_log`, `swap_roles` | entries outlive the objects they name; order of entries; triage | every old-to-young pointer is remembered; dead parents rescue nothing |
| `DArena` (xo-arena) | `lo_ <= free_ <= limit_ <= hi_`, headers, guards | four ways to allocate, checkpoint/restore, `clear`, `unmap`, iteration | boundaries of words and pages, refused commits, nested resets | allocations are disjoint and committed; iteration visits each one once |
| `DArenaVector` (xo-arena) | an arena and a size | `push_back`, `insert`, `erase` | a full reserve | elements in order; a failed push changes nothing |
| `DArenaHashMap` (xo-arena) | control bytes, slots, size | insert, find, erase, grow | tombstones, wrap-around, load limit | behaves as a function from keys to values |
| `DCircularBuffer` (xo-arena) | reserved, mapped, occupied and input ranges, pins | append, consume, pin, unpin | compaction, refused commits | no unread byte is lost; consumed bytes do not fill the buffer |
| `CallbackSetImpl` (xo-callback) | callbacks, deferred commands, a running flag | invoke, add, remove | reentrance, exceptions | a callback runs once per event while it is registered |
| sources and sinks, `PollingReactor` (xo-reactor) | event queues, a parent reactor | `notify_ev`, `deliver_one`, `run_one` | priming during delivery, starvation | events are delivered once, in order |
| `Simulator` (xo-simulator) | a heap of (time, source), deferred commands | add, remove, primed, advance | sources that change while one of them delivers | time does not go back; a source with events is in the heap once |
| `WebserverImpl`, `WebsocketSessionRecd`, `OutputBuffer` (xo-websock) | run state, session table, a queue and an output buffer per session | start, interrupt, stop, join, `send_text`; callbacks of libwebsockets | the thread of the event loop against the threads of the application | a message a session took is sent once; no thread outlives the server |
| red-black and B+ trees (xo-ordinaltree) | nodes with sizes and sums; least keys, the chain of leaves | insert, erase, ordinal lookup | rebalancing with reductions | a sorted map; exact ordinals |
| virtual Schematika machine (xo-interpreter2) | registers, a stack of frames, global values | one instruction at a time | how deep calls nest, errors that leave registers behind | a form evaluates to what it means; stack and environment are restored; the stack is as deep as evaluations are nested |

The components of the first three rows work together. An `X1` space is a
`DArena`; a mutation log is a `DArenaVector` on a `DArena`. The program calls
`alloc` and `assign_member`; the barrier in `assign_member` appends to a log of
`MutationLogStore`. `request_gc` runs the collection at once, in the calling
thread: `_swap_roles` exchanges the halves and the logs, `_copy_roots` copies
what the roots reach, `forward_mutation_log` copies what remembered pointers
reach (calling back into the store for each rescued child), `_cleanup_phase`
empties from-space. Nothing is concurrent, so the hard behaviours are of
another kind: long sequences of legal calls, and state that is read long after
it was written (log entries, forwarding headers, stale memory). The other components are separate libraries. A `Webserver` is written to from
the sinks of event sources: `WebsocketSink::notify_ev` calls `send_text` on the
thread of the publisher while the thread of libwebsockets serves the sockets;
this is the one place of xo where threads share state. A `Simulator` delivers
the events of its sources one at a time, in the thread that calls `run_one`, and
sinks call back into sources and simulator. Sources keep their sinks in callback
sets. `DArenaHashMap` and `DCircularBuffer` are arenas with structure:
the hash table keeps its control bytes and slots in two vectors on arenas, the
buffer is what the tokenizer reads from. The trees are plain containers. The
virtual machine evaluates the expressions of the reader one after the other, all
in one thread.

`PROJECT.json` lists the hazards with the lines where they bite, and the
properties aimed at them.

## 2. Modules

| Module | Content |
|---|---|
| `DArena` | the arena, its iterator and its properties |
| `DArenaProofs` | theorems about `DArena` |
| `GCHeap` | what a collector promises: a heap of objects, no addresses, no collections |
| `X1Collector` | store, remembered set and driver of xo-gc; properties; refinement of `GCHeap` |
| `X1CollectorProofs` | theorems about single objects of `X1Collector` (types, ages, forwarding pointers, copies) and about the pointers between them (dangling, remembered, white) |
| `X1HeapProofs` | the theorems that `X1Collector` implements `GCHeap`, that a full collection is exact, and that the collector does not crash |
| `MCX1Collector` | root module of its runs |
| `Webserver` | life cycle, sessions and threads of the web server |
| `WebserverProofs` | theorems about `Webserver` |
| `MCLive` | the web server and the simulator for TLC, one moving in each behaviour, under fairness |
| `Simulator` | the simulator and the three kinds of source it schedules |
| `ArenaHashMap` | the swiss table |
| `CircularBuffer` | the input buffer |
| `ContainerProofs` | theorems about `ArenaHashMap` and `CircularBuffer` |
| `RedBlackTree` | the red-black tree with sizes and sums |
| `RedBlackTreeProofs` | the theorem that `RedBlackTree` stays a balanced, ordered tree of what it should hold |
| `BplusTree` | the B+ tree with sizes |
| `CallbackSet` | callbacks and deferred changes |
| `DeferralProofs` | theorems about `CallbackSet` and `Simulator`, which both put commands off |
| `SchematikaMachine` | registers, frames and instructions of the virtual machine |
| `SchematikaMeaning` | what an expression means, without a machine |
| `SchematikaMachineProofs` | theorems about `SchematikaMachine`, and that it computes what `SchematikaMeaning` says |
| `MCSchematika` | forms and primitives for its runs |
| `MCSequential` | the components without threads but the collector for TLC, one moving in each behaviour |

An operator `name_x` next to `name` is a plausible mistake in the code that
`name` models. It is used nowhere; putting it in the place of `name` shows that
a property notices the mistake (`mutants` in `PROJECT.json`).

## 3. Model and code

### DArena

Addresses are offsets from `lo_`, in bytes. `hi`, `committed`, `limit`, `free`
and `last_error` are the members of the same names. `regions` is a ghost: what
`_alloc` wrote below `free_`, each with the sizes of its header, padded
payload and guard, and the value of the size field in its header (the size
modulo the width of the field). `resets` are the checkpoints held by open
`ArenaReset` scopes, `open` says that a `super_alloc` waits for its last
`sub_alloc`.

`AllocIn` is `_alloc` with `expand`. It has the code's three outcomes: enough
is committed; the reserve is exhausted; or more is committed, by whole
`arena_align_z_`, which mprotect may refuse. `Bump` writes the region and moves
`free_`. The check in `expand` is for header and payload, and the guard is
written after it, as in the code. The first commit also writes the initial
guard. `Alloc`, `SuperAlloc` and `SubAlloc` select header and guard as the
tables of `_alloc` do. Clients are taken to follow the comments in
`DArena.hpp`: between `super_alloc` and its last `sub_alloc` they do nothing
else, and scopes nest. A write at or beyond `limit_` kills the process: after
it, no action is enabled.

### X1Collector

An address is `<<generation, half, cell>>`, an object takes one cell. `mem` is
the content of each cell, stale content included: the code reads it (a log
entry may lead to memory that was freed), so the model keeps it. `free` and
`to` are the allocation pointer of each half and the half that is to-space.
`fwd` is the forwarding header and the pointer stored under it. Ages count
collections survived; the model stops at `MaxAge`, above which an object is in
the last generation and the barrier compares no ages. `id` is a ghost that
follows an object through its copies.

| Code | Model |
|---|---|
| `alloc`, and keeping the result in a root | `New` |
| assignment to a root variable | `SetRoot` |
| `assign_member`, `assign_member_aux`, `_append_mutation` | `Assign`, `MustLog`, `Put` |
| `request_gc`, `execute_gc` to `_swap_roles` | `RequestGc` |
| `_copy_roots`, `deep_move_root` | `CopyRoot`, `RootsDone` |
| `snap_move_checkpoint` | `Checkpoint` |
| `_deep_move_gc_owned`, `_shallow_move`, `alloc_copy` | `DeepMove`, `Moved`, `Grown`, `Dest` |
| `_forward_inplace_aux`, one pointer of one object | `SkipNull`, `VisitChildren`, `FollowForward`, `MoveChild` |
| recursion of `visit_gco_children` | `stack` |
| `_forward_children_until_fixpoint` | `ScanGray`, `Fixpoint`, `gray` |
| `check_forward_inplace`, `is_superseded` | `Refreshed`, `Repaired`, `Current` |
| `_forward_mutation_log_phase` | `DropEntry`, `TriageEntry`, `KeepEntry` |
| `_preserve_child_of_live_parent` | `RescueChild`, `KeepEntry` |
| `refresh_snapshot` | `KeepsEntry` |
| end of a phase, loop over logs and passes | `NextLog`, `RotateLogs` |
| `_cleanup_phase`, `cleanup_phase` | `Cleanup`, `Emptied`, `Scrubbed` |
| stack overflow, failed assertion, wild pointer | `Crash` |

A collection is many steps, so that each property can speak about the middle of
one, but the program never sees the middle: mutations need `pc = "idle"`. The
program works on what its roots reach. The first `NExt` roots hold objects
outside the collector's spaces ("virtual root nodes" in `deep_move_root`).
`Acyclic` restricts the program to acyclic graphs; cycles make the recursion of
`_forward_inplace_aux` unbounded (section 6), and the stack then has a limit,
`MaxObjs + NExt`, that no acyclic path reaches.

Abstractions: objects of one size and one type (`install_type` and facets are
not there), one cell per object instead of a `DArena` per half (the arena is
checked on its own), and no statistics.

### GCHeap

The abstract heap has identities instead of addresses, and forgets an object
when no root reaches it. `HeapKept` states that `X1Collector` implements it:
`hroot` is the identity behind each root, `hobj` the reachable objects with the
identities behind their pointers, both read through forwarding pointers. A step
of a collection must be a stutter.

### Webserver

Application threads run the calls of `WebserverImpl` and `send_text`; one more
thread, the one `start_webserver` creates, runs `WebserverImplWsThread::run` and
gets every callback of libwebsockets. `pc` and `lpc` are their program counters.
A step is a stretch of code between two accesses to shared state. A mutex is the
thread that holds it. `session_v_` is the table from session ids to session
records, `free_session_id_v_` the ids to be used again; a record is named by its
connection. Of the output buffer the model keeps whether the socket accepts
data, whether a message waits (`sent_seq < stored_seq`), and which; a message is
the number of the call that sends it. `accepted` and `wire` are histories.

| Code | Model |
|---|---|
| `start_webserver` | `CallStart`, `StartThread` |
| `interrupt_stop_webserver` | `CallInterrupt`, `IntFlag`, `IntTest`, `IntCancel`, `IntState` |
| `stop_webserver` | `CallStop`, `Stop`, and the steps of the interrupt |
| `join_webserver` | `CallJoin`, `Join`, `JoinThread`, `Joined`; `Stopped` wakes it |
| `WebsocketSink::notify_ev`, `WebserverImpl::send_text` | `CallSend`, `Get` |
| `WebsocketSessionRecd::send_text` | `Lock`, `Enqueue`, `Store`, `Wake` |
| `run` | `CreateContext`, `ServiceFails`, `DestroyContext`, `Stopped` |
| `EVENT_WAIT_CANCELLED`, `lws_write_pending_traffic` | `Cancelled`, `Pending`, `PendingQueue`, `PendingDequeue` |
| `SERVER_WRITEABLE`, `lws_write_aux` | `Writeable`, `WriteAux` |
| BIND and ESTABLISHED; CLOSED; RECEIVE | `Open`; `Close`; `Receive` |

Undefined behaviour is a value of `fault`, after which nothing happens: a failed
assertion, a read through a pointer to something deleted ("wild"), a
`std::thread` that is replaced before it is joined ("terminate"). A torn read of
`session_v_` while it is resized may be a wild access or succeed. BIND and
ESTABLISHED, which libwebsockets sends in a row for one connection, are one
event, `Open`. When the id of the new connection is that of a record in use, `Open`
deletes that record: its queue is emptied, its connection has no record any more
(`Freed`), and a thread that uses the record is a wild access. An `lws_write` that fails, and HTTP requests, are left out. In a release
build a message that the assertion of `store_message` would catch is
overwritten; the model has the debug build.

### Simulator

The binary heap is the set of its entries, whose least element is at the front
of a binary heap; an event is its timestamp. Sources are of three kinds:
`RealizationSource` (always has a next event), `FifoQueue`, and
`SecondarySource` with a `HeapReducer` (sorts what it is given). `BeginDelivery`
is `advance_one_event` up to the call of the sinks, `SinkPushes`, `AddSource`,
`RemoveSource`, `Exhaust` are what sinks may do, `EndDelivery` and `Throw` end
it; commands that came meanwhile are put off in `reentrant_cmd_v_` and performed
by `CompleteDeliveryWork`, which has the order of the code: first the entry at
the front, then the commands. The application makes the same calls between
deliveries. A failed assertion and the loop over a heap that is replaced are
values of `sim_fault`.

### ArenaHashMap

The store is a record with the fields of `HashMapStore`. A probe is the sequence
of control bytes a search looks at, by groups; `Match`, `RoomFor` and `Stops` say
where it ends. The SIMD match of 16 bytes is a set of places. Hashes are
functions of the keys, so chosen that homes collide, probes wrap around and
fingerprints agree. `Erase` of an absent key in a table without empty slots
never returns (`map_fault = "forever"`).

### CircularBuffer

The ranges are pairs of ends, `memory` is the bytes, mprotect may refuse to map
more. `unread` is a history: the bytes appended and not yet consumed. Pins are
not there: the vector that should hold them is created with a reserve of zero,
so `pin_range` stores nothing and `unpin_range` fails its assertion.

### RedBlackTree

A node is its key, the tree a record of functions from keys to parents,
children, colors, sizes, values and sums. The operations are the code's:
insertion at a leaf and `fixup_red_shape`; `erase_aux` with the exchange with a
predecessor, removal of a red or black leaf, the cases of `remove_black_leaf`,
and the recalculation of sizes and sums on the way up. The reduction is
`SumReduce`. The null dereference of `erase_aux` is a value of `tree_fault`.

A loop of the code is a step (`RedStep` is the body of that of `fixup_red_shape`,
`BlackStep` of that of `remove_black_leaf`) and `Loop`, which takes that step as often
as the tree can have levels; a state in which the code leaves the loop is kept. The
proof shows that every loop of a change to the tree has ended by then.

### BplusTree

Leaves and internal nodes both hold an array of items: the item of a leaf is a
key, that of an internal node a child and the least key below it as it was last
written, which is a copy the code has to keep right. Operators take a tree and
give the tree after the assignments of one function of the code.

| Code | Model |
|---|---|
| `leaf_insert_aux`, `internal_insert_aux` | `KeyInserted`, `SplitRootLeaf`, `SplitInnerLeaf`, and `Attach` for the loop over the ancestors |
| `LeafNode::annex`, `InternalNode::annex`, `make_2` | `SplitLeafLower`, `SplitLeafUpper`, `SplitInternal`, `GrowRoot` |
| `leaf_erase_aux`, `internal_erase_aux` | `LeafErased`, `InternalErased` |
| their redistributions and merges, and those of `post_remove_shrink_ancestor_path` | `Rebalanced`, `ShrinkPath` |
| `post_modify_...` | `AddAncestorSize`, `CorrectGlbKeys`, `CorrectEndpoints` |
| `find`, `find_ith` | `BpFind`, `FindIth` |

After each call the nodes are numbered in the order of a walk, since nothing
compares their addresses; a pointer to a deleted node becomes `Dangling`. Values
travel with their keys and are left out. The failed assertion of
`internal_erase_aux` is a value of `bp_fault`.

### CallbackSet

A callback is its id. `loops` is the stack of open invocations, each with its
place in the vector. A change to the vector under an open loop is undefined
behaviour ("iterating"). `make_deferred_changes` moves a callback into the
vector and then calls its hook through what is left of the pointer: a crash, or
nothing for a hook that is empty and not virtual.

### SchematikaMachine

The registers are those of `DVirtualSchematikaMachine`; an instruction is an
action, as in `execute_one`, and `_do_eval_op` one for each kind of expression. A frame is the
instruction that takes it off, with the continuation and environment of the time
it was pushed. A local environment is the chain of argument lists, since that is
all that is looked up. A session starts one form after the other with the
registers the form before left, as `start_eval` does. Each form comes with the
global names it uses; the reader, which is not modelled, knows every one and
enters a name into the symbol table when it meets its definition. Primitives are
a constant operator. A failed assertion is a value of `vsm_fault`. Memory is as
if it were never collected (`X1Collector` is about that).

| Code | Model |
|---|---|
| `start_eval` | `StartEval` |
| `_do_eval_op` | `EvalConstant`, `EvalDefine`, `EvalLambda`, `EvalVarRef`, `EvalApply`, `EvalIfElse`, `EvalSequence` |
| `_do_evalargs_op`, `_do_apply_op` | `EvalArgs`, `CallWith`, `CallClosure`, `CallPrimitive` |
| `_do_apply_cont_op`, `_do_def_cont_op`, `_do_ifelse_cont_op`, `_do_seq_cont_op` | `ApplyCont`, `DefCont`, `IfElseCont`, `SeqCont` |

`SchematikaMeaning` defines the value of an expression in the body of a function
called with given arguments, as a call-by-value language with global names has
it: `MeaningBy` is one step of the definition, `Meanings` repeats it as often as
evaluations may be within one another (`MaxHeight`). Where the machine stops with
an error, an expression has no meaning. Values here are the data of the
program and closures without their environments (`Plain`). `Terms`, the
expressions of all forms, and `Data` are constants, so that meanings are a
function on a set.

## 4. Runs

| Run | Instance | Shows |
|---|---|---|
| `x1_core` | 2 generations, promotion at the first survival, 3 objects, nursery and full collections | sharing, exactness, no crash |
| `x1_ages` | promotion at the second survival, nursery collections | `ForwardsToCopy`, `RememberedSet` with objects of several ages |
| `x1_chain` | 3 generations, the two younger collected, 2 log entries | `NoDangling`, with rescues that lead to rescues |
| `x1_gen3` | 3 generations, 2 pointers per object, fairness | `AgeGeneration`, refinement, termination |
| `x1_cycles` | cyclic graphs, an object outside the collector | the heap is kept until the stack overflows |
| `x1_overflow`, `x1_unsanitized`, `x1_xage` | see section 6 | violations |
| `live` | two application threads; calls, messages and connections of the web server as one of the triples of `WebBudgets`; one thread that starts the server again after it failed, within `RestartBudget`; a simulation with two counted calls | no message is doubled, none is lost but with the record of its session, the life cycle ends, liveness of both |
| `sequential` | nine parts: simulator, hash table, buffer, red-black tree, B+ tree, callbacks, virtual machine, and the arena twice: with headers, no guard and nested resets; with guards of 2 and composite allocations | the properties of these modules; `InCommitted`, `IterationExact`, `EmptyIteration` of the first arena, `Disjoint` of the second (`GuardedDisjoint`) |
| `vsm_after_error`, `bplus_three` | see section 6 | violations |

The properties of the collector:

- `CopiedOnce`, `ForwardsToCopy`: sharing survives. No two current objects have
  one identity; a forwarding pointer goes from from-space to the copy.
- `WhiteIsForwarded`: the comment in `_forward_children_until_fixpoint`. What
  lies below `gray_lo` has no pointer into from-space.
- `NoDangling`: between collections no object, garbage included, points into
  from-space or to memory that holds no object.
- `RememberedSet`: between collections each pointer from an older to a younger
  generation is in a log that every collection of the younger one reads.
- `FullIsExact`: after a collection of all generations the objects are exactly
  the reachable ones.
- `AgeGeneration`: the generation an object is in is that of its age. The code
  relies on it (`_check_move_policy` looks at the age only).
- `NoCrash`: no failed assertion, wild pointer or stack overflow.
- `HeapKept`: the refinement.
- `Terminates`: every collection ends.

The properties of the web server:

- `NothingLost`: however senders, the event loop and partial writes interleave,
  a session has each message it took once, on the wire, staged or queued. One that
  lost its record to another connection with the same id has no message twice and
  none it did not take; its queue is gone.
- `OutputIsLive`: no record the event loop goes through points to a deleted
  output buffer.
- `StoppedIsQuiet`, `NoSleepWhenStopped`, `JoinEndsThread`: what "stopped" means
  to the threads that test it, sleep on it, or destroy the server after it.
- `StagedIsWritten`: no wake-up is lost. A staged message is written unless its
  connection closes or the event loop no longer comes to its buffer, because the
  record in the table is that of another connection with its id, or the end of such
  a connection took the buffer out of the record.
- `InterruptEndsService`: neither is that of an interrupt.

The properties of the sequential components:

- `EachSourceOnce`, `HeapTimes`, `EarliestFirst`, `NextIsDelivered`: the heap
  holds a source with events once and at its time; events come in order, and
  come.
- `TableVerifies`, `CallsDoTheirPart`: `verify_ok` holds, tombstones cut no probe,
  and from every reachable table each operation does to the contents what it
  would do to a function, and to `size_` what it did to the contents.
- `InputIsUnread`, `WasteIsBounded`: refused mappings and moves to
  the start lose no byte, and consumed bytes do not fill the buffer.
- `TreeInShape`, `OrderStatistics`: the red-black conditions, and sizes, sums,
  ranks and neighbours against their definition by the sorted set of keys.
- `BpShape`, `BpSortedMap`: what the header of the B+ tree and `verify_ok` ask
  for (equal depths, half-full nodes, parents, least keys, sizes, the chain of
  leaves), and every answer against the sorted set of keys.
- `InCommitted`, `IterationExact`, `EmptyIteration`, `GuardedDisjoint`: what is
  allocated is committed and shared with nobody, guards included, and iteration
  visits exactly the allocations.
- `LoopsUndisturbed`, `ChangesAreMade`: changes by running callbacks disturb no
  loop and are all made when it ends.
- `RegistersPreserved`, `ResultIsMeaning`: every continuation finds its own frame and
  environment, and what the machine computes is what `SchematikaMeaning` says.
- `StackIsNesting`: the stack of a form gets exactly as deep as its evaluations are
  nested (`FormFrames`). A call that continues with `apply_cont` adds no frame. The
  reader does not make such a call: the body of each function it reads is a sequence
  (`DLambdaSsm`, `DSequenceSsm`), so a call at its end continues with `seq_cont`, and
  each turn of a recursion adds a `seq_cont` and an `apply_cont` frame. Only a
  function whose body a program builds without a sequence recurses in constant depth.

`RangesNested` and `LayoutInv` are only proved: the runs check what they are for.

**Bounds.** Three objects are enough for a chain root - old - young with garbage
beside it, and for an object with two parents; two in `x1_cycles` for a cycle. Two fields
in `x1_gen3` give an object two children. A log entry more or less matters where
one rescue causes another, which is `x1_chain`. Three generations are the most
that the code is compiled for (`c_max_generation`), and let a child be promoted
twice. `LogCap` is never reached: what happens then is in section 6. The arena
has room for three pages and sizes that are empty, unaligned, aligned and as
large as most of a page, so that allocations end before, at and beyond the end
of a page and of the reserve. Every bound is a constant named in its module.
In `live`, the triples bound server calls, messages and connections together:
many calls with few messages (start, interrupt, join, restart), four messages
for one session (one partly written, one staged, two queued), three connections
with a message (ids that are used again). None of them reaches an id that two
open connections share, which takes start, join, start and three connections, and
two messages for a queue to be lost. This is a part of its own, `restart`, where one
of the threads makes the calls, does not interrupt the server, and sends once a
second client connected (`OnlyRestarts`); without these three limits the safety
properties were checked once (12 million states). In `sequential`, groups of three slots
and loads of two thirds make a table of one group fill, leave tombstones, wrap
around and grow to four groups; a buffer of one page, and of three, with pieces
larger than a page; seven keys, the fewest for which removing a black leaf
propagates upwards in the red-black tree; eleven keys and a branching factor of
4 for the B+ tree, which reaches three levels, so that internal nodes split,
redistribute and merge too (12 keys, and factor 6 with 13 keys, were also run,
with the same result); three callbacks, three deferred changes, three
nested invocations; four sources of the three kinds, which feed one another,
with three calls in a run (two in `live`); for the machine, sessions of three of the twenty-two
forms of `MCSchematika` (recursion, at the end of a function and elsewhere, closures as
arguments and results, definitions, errors of every kind, a loop without end;
`Function` is a function as the reader makes it, with a sequence for a body, and
the bare `Lambda` what a program builds: `g` counts down in both forms)
with five closure calls in each, so that a function is defined, called and
calls itself, or a form follows one that failed. `Terms` is the expressions
inside those forms, `Data` the numbers and booleans they can come to, and no
evaluation that ends is within `MaxHeight` = 40 others.

**Fairness.** `FairSpec` assumes `WF_vars(Collect)`: once started, a collection
takes its next step. `execute_gc` is a function that runs to its end in the
thread that called `request_gc`. Nothing is assumed of the program.
In `live`, threads that can run do (`AppStep`, `LoopStep`), and a context that
is being destroyed closes each of its connections, as `lws_context_destroy` does.
Nothing is assumed of clients or of new calls. `SimFairness` is that someone
loops over `run_one`, as every caller of the simulator does.

**Deadlock** is checked in the runs of acyclic collections. It is not checked for the
arena, where a process that wrote beyond `limit_` stops, where cycles
overflow the stack, nor in `live` and `sequential`, where a fault ends the
process, bounds end what the application asks for, and `stop_webserver` blocks
itself (section 6).

## 5. Proofs

The proof modules prove, for every value of the constants that the assumptions
of their components allow (`X1Assumption`, `NilAssumption`, `ArenaAssumption`,
`WebserverAssumption`, `ThreadAssumption`, `RingAssumption`, `MapAssumption`,
`CallbackAssumption`, `SimulatorAssumption`, `TermAssumption`):

| Theorem | States |
|---|---|
| `X1CollectorProofs!TypeCorrect` | `Spec => []TypeInv` |
| `X1CollectorProofs!AgeCorrect` | `Spec => []AgeGeneration` |
| `X1CollectorProofs!ForwardsCorrect` | `Spec => []ForwardsToCopy` |
| `X1CollectorProofs!CopiesOnce` | `Spec => []CopiedOnce` |
| `X1CollectorProofs!NothingDangles` | `Faithful` configurations: `Spec => []NoDangling` |
| `X1CollectorProofs!RememberedCorrect` | `Faithful` configurations: `Spec => []RememberedSet` |
| `X1CollectorProofs!WhiteCorrect` | `Faithful` configurations: `Spec => []WhiteIsForwarded` |
| `X1HeapProofs!HeapIsKept` | `Faithful` configurations: `Spec => HeapKept`, the refinement of `GCHeap` |
| `X1HeapProofs!FullCorrect` | `Faithful` configurations: `Spec => FullIsExact` |
| `X1HeapProofs!CollectorSurvives` | `Faithful` configurations with `Acyclic`, without `DebugBuild`: `Spec => []NoCrash` |
| `DArenaProofs!LayoutCorrect` | `Spec => []LayoutInv` |
| `DArenaProofs!TypeCorrect`, `DisjointCorrect` | corollaries of `LayoutCorrect`; the runs check `Disjoint` of an instance with guards |
| `DArenaProofs!CommittedCorrect` | with `GuardZ = 0`, `Spec => []InCommitted` |
| `DArenaProofs!IterationCorrect` | with headers, no composite allocations, sizes that fit in the size field, and no guard or no reset of an empty arena, `Spec => []IterationExact` |
| `DArenaProofs!EmptyIterationCorrect` | as before, without guards: `Spec => []EmptyIteration` |
| `WebserverProofs!WebserverTypes` | `Spec => []TypeOK` |
| `WebserverProofs!StoppedMeansQuiet` | `Spec => []StoppedIsQuiet` |
| `WebserverProofs!NobodySleepsWhenStopped` | `Spec => []NoSleepWhenStopped` |
| `WebserverProofs!JoinLeavesNoThread` | `Spec => JoinEndsThread` |
| `WebserverProofs!OutputStaysLive` | `Spec => []OutputIsLive` |
| `WebserverProofs!MessagesAreKept` | `Spec => []NothingLost` |
| `ContainerProofs!RangesStayNested` | `RingSpec => []RangesNested` |
| `ContainerProofs!WasteStaysBounded` | `RingSpec => []WasteIsBounded` |
| `ContainerProofs!ReadsWhatWasAppended` | `RingSpec => []InputIsUnread` |
| `ContainerProofs!TableStaysVerified` | `MapSpec => []TableVerifies` |
| `ContainerProofs!CallsKeepContents` | `MapSpec => []CallsDoTheirPart` |
| `DeferralProofs!LoopsStayUndisturbed` | `CallbackSpec => []LoopsUndisturbed` |
| `DeferralProofs!EveryChangeIsMade` | `CallbackSpec => []ChangesAreMade` |
| `DeferralProofs!SimulatorInvariant` | `SimSpec => []SimInv` |
| `DeferralProofs!SourcesAreInOnce` | `SimSpec => []EachSourceOnce` |
| `DeferralProofs!TimesInHeap` | `SimSpec => []HeapTimes` |
| `DeferralProofs!EarliestIsFirst` | `SimSpec => EarliestFirst` |
| `RedBlackTreeProofs!TreeStaysInShape` | `TreeSpec => []TreeInShape` |
| `SchematikaMachineProofs!RegistersArePreserved` | `VsmSpec => []RegistersPreserved` |
| `SchematikaMachineProofs!MachineComputesMeaning` | `PrimitivesSeeNoEnvironment => (VsmSpec => []ResultIsMeaning)` |

*Collector.* `TypeOK` alone is not inductive: that `ri`, the root being copied,
is an index when a root is copied needs `RootsStarted`, so the invariant is
`TypeInv`. Each action has a lemma; those on which they rest say that a copy
(`StoreType`, `CopyType`), a push on the stack, a repaired entry and a log with
one entry more keep their types. `AgeCorrect` rests on `CanMove`: whatever is
copied is copied to the generation of its new age, allocation pointers only
cover cells written this way, and no action changes an age in place
(`CopyAge`, `SameAge`, `StoreAge`).

`ForwardsCorrect` and `CopiesOnce` need one another: `CopyInv` says that a
forwarded cell leads to a copy with its identity in to-space and that no two cells
that hold an object have the same identity (`UniqueIds`). A copy is made only of a
cell that is not forwarded, so the identity it takes is nowhere else in to-space.

The second half of `X1CollectorProofs` is about pointers. Its inductive invariant `Whole` has three parts:
`PathInv`, what the driver has done in each phase and what is on its stack;
`Tracked`, every pointer from an older to a younger generation is in a log that the
next collection of the younger one reads, or in one that is being triaged; and
`Settled`, the tricolour condition: an object that was copied and scanned has
pointers to current objects only, and what may point into from-space is a gray
object, a root not reached yet, or the entry of a log not reached yet. Each step
of a collection is first shown to be a copy, a repaired pointer or a change of a log
(`Evac` steps); each of the three parts then needs one lemma per kind.

`Faithful` is where these theorems hold, and no smaller set of conditions would do:
from-space is sanitized, the write barrier logs, the logs have room (`MaxLog <=
LogCap`), and an object is promoted after one collection, or after two where there
are two generations, which is the default of the code. For each condition a
counterexample exists: the runs `x1_unsanitized` and `x1_xage`, and a log that is
full (`DArenaVector`).

`HeapIsKept` is the refinement. The abstract heap is what the cells say once
forwarding pointers are followed. Reachability is a recursive function in `GCHeap`;
`X1HeapProofs` shows that it is the least set that contains the roots and is closed
under pointers, by induction over the number of passes (`NatSetInduction`, stated for
a set of numbers rather than a predicate, which the provers can instantiate), and
uses nothing else of it. A copy, a repaired pointer and a change of a log then leave
the abstract heap as it was (`EvacView`), the end of a collection forgets only what
the roots do not reach (`CleanupView`, from the tricolour condition), and a store, an
allocation and a change of a root are the steps of `GCHeap` of that name.
`NilAssumption` says that the null pointer is no address and no identity.

`FullIsExact` needs, besides `ReachClosed`, that nothing but what the roots reach gets
into to-space: `OnlyReached`, of a collection of all generations. An old object is
then no root of its own, and no log entry rescues a child for a parent that is not
itself reachable.

`NoCrash` has two parts. A copy fits (`CanBeCopied`): the objects of a half-space have
different identities, all different from that of the object to be copied. And the
recursion of `_forward_inplace_aux` ends: the objects on its stack form a path of
pointers (`StackIsPath`), and without cycles no path meets an object twice
(`PathIsShort`), so that it is shorter than `StackMax`. "No cycle" is stated as "in
every set of objects one points to none of them" (`NoCycle`), which needs no closure
of the pointer relation, and which copying, cutting off garbage, allocating and,
under `Acyclic`, assigning preserve. The theorem is not true without its conditions:
`x1_overflow` violates it with cycles, `x1_unsanitized` shows what dangles without
sanitizing, and a debug build fails an assertion (section 6).

*Arena.* `LayoutInv` adds to disjointness what restoring a checkpoint needs:
checkpoints are ordered, below `free_`, and none is inside a region
(`ResetsNested`). `ChainInv` adds that regions form a chain of headers that
starts at `begin_header()`, and that every checkpoint is a place in that chain; `ChainKept` is that every step
keeps it.
The assumptions of `CommittedCorrect` and `IterationCorrect` are necessary: TLC
finds counterexamples without them (section 6).

*Web server.* `StoppedIsQuiet` is not inductive: that the run thread has gone
when the state says so depends on where it is when nobody owns a thread, and
whether one can be started meanwhile. `RunThread` says this: the program counter
of the run thread against `thread_ptr_`, the context, the connections and the
state. `OutputIsLive` needs `Placed`: a record in the table is where its session
id says, so that `Close`, which finds the record by that id, leaves none in the
table with the buffer of a closed connection. This holds although, after a
failed `lws_service` and a restart, two open connections may share an id: the
table has the record of the later one only.

`MessagesAreKept` rests on `MessageInv`. A message that a thread is about to place is
nowhere else (`Sender`, `OwnMessages`); a thread that was told that the buffer is
free holds the mutex of the record until it has filled it, and nobody else fills it
meanwhile; a buffer that is not busy can be written, so that what is put into it is
staged. That the event loop may test `outbound_q_.empty()` without the lock is
sound because only the loop takes messages out (`LoopPlace`). A connection finds a
record under its id, though after a restart it may be that of another connection
(`Seated`). `Open` may delete the record of another connection: what that one
still holds, without the queue, is a part of what it held, each message once
(`OpenReplaces`, `WithoutQueue`), and a sender that comes with a message for a
deleted record is a wild access, and places it nowhere. `ThreadAssumption` says that no thread is the mark of a free mutex.

*Buffer.* `RangesNested` and `WasteIsBounded` need one another, since only a move
of all that is occupied may shrink it: `RingInv` is their conjunction with the
types. `BytesInv` adds the content of the memory, and that the two ranges are
equal as long as nothing was announced with `report_append`.

*Hash table.* The inductive invariant `Good` says that slots agree with their
control bytes and hold a key once, and, beyond what `verify_ok` tests, `WayIsClear`:
no group that a search for a key goes through before that of its slot has an empty
slot. Otherwise a search would end before it finds the key. Probing is arithmetic
first: group by group or one by one, a probe reaches each slot once
(`ProbeReaches`, `ProbeReachesOnce`), and what it reads in the copy of the first
group is what the slot holds (`PlaceFacts`). An insertion takes the first tombstone
or empty slot, and none of the slots before it is empty (`AddFacts`). Erase is the
step that could break `WayIsClear`: `WindowFacts` says that where `needs_tombstone`
answers no, each group of consecutive slots that holds the erased one has an empty
slot already, so that no search went through it. Growing is a recursive function
over the slots of the old table; `GrowRuns` shows that it exists, and `GrowFacts`,
by a least slot where the copy would fail, that it holds the pairs of the slots
before. Twice the size is below the maximum load (`DoubleIsEnough`), so that each
insertion finds room. `MapAssumption` asks of the load factor what the code's 7/8
and groups of 16 give: a table that may be added to has an empty slot in some
group, and one at its maximum is not when doubled.

*Red-black tree.* The invariant `TreeInv` says of the nodes what `TreeInShape` says of
what they look like from the root. `Linked` has, besides the agreement of child and
parent pointers, the sets `sub[k]` of the keys below each node, which make the pointers a
tree: the root has all keys, and those of a node are its own and, apart from one
another, those of its children. `Ordered` is order with respect to these sets,
`Balanced` that there are black heights, `Calm` that no two red nodes are in a row. Each
has a form in which it holds in the middle of a call, where one place is out of order:
balance but for the paths through one child, which lack a black node; calm but for
one node; order but for the one key that erase has put in the wrong place, and is
about to remove. `RotateKeeps` and `SwapBalanced`, `PromoteBalanced`, `RecolourEven`
say what a rotation and the colors that go with it do to these; `RedStepIs` and
`BlackStepIs` are the invariants of the two loops, which end because each turn brings
them closer to the root (`SubFacts`, `LoopEnds`), and `RepairRedIs`,
`RepairBlackIs` what comes after them. Insertion grafts a red leaf where the search
ends, which is a place in order (`FindIs`, `GraftLinks`). Erase exchanges a node
with the one before it: `TransposedIs` shows that the assignments of
`swap_locations`, and those of the case of a left child, rename two nodes of the tree
and do nothing else. Sizes and sums change no pointer (`RecalcUpIs`), and nothing here
depends on them. `TreeInvShape` then goes from the nodes to the sequence: lists of
keys in order are unique (`ListsUnique`), and joining those of two children gives that of
their parent (`JoinLists`); `Inorder` and `BlackHeights` are recursive functions, and
that they exist is proved too (`InorderExists`, `HeightsExist`).

*Callbacks.* `OneLoop`: without nesting at most one loop is open, and the set is
running as long as it is, so every change is put off. `ChangesAreMade` is
about all of them, nested or not: `ChangesInv` says that the vector with the deferred
commands applied is what was asked for. `make_deferred_changes` is a fold of the
library over the commands. The library defines it by a function on sets of positions;
`ChangesExists` shows that this function exists and `ChangesByRun` that it applies one
command after the other, after which a command that is put off, or one that is applied
at once, is one step more of the fold (`OneMoreChange`).

*Simulator.* `SimInv` holds in the middle of a delivery too, when the entry of the
source that delivers is out of date and other sources wait in the deferred commands.
`InOrder` leaves that source out and says of all others that have events: they are in
the heap once, in time, or a command will enter them. A source that a command is to
enter without a look at the heap (`complete_add_source`) is a new one, which is why
only `heap_insert_source` can find its source already there, and then its assertion
fails. `OneCommand` is one command, `CommandsEnter` the fold over all of them at the
end of the delivery, after the front of the heap was put back (`FrontPutBack`) or,
when a sink threw, left as it was. `EarliestIsThere` is that the heap has a least
entry, by the order of time and address.

*Machine.* `RegistersPreserved` speaks of the top frame. Inductive is `Chain`: what it
says of the continuation register holds of the continuation each frame of the
form saved, for the frame beneath it; and an `evalargs` frame lies on the `apply` frame
of its call. `Ready` is what each instruction needs to find in the registers. Errors
keep `Chain` and end the form. This theorem does not use `TermAssumption`.

`MachineComputesMeaning` needs no induction over expressions: the invariant follows
a value on its way. `Takes` says what a frame makes of the value that is delivered
to it (an `ifelse_cont` frame the meaning of the branch it selects, a `seq_cont` frame that of
the last expression, an `evalargs` frame the result of the call, if the arguments
before it are in the `apply` frame below), `OnWay` that frame by frame the
meaning of the form comes out at the bottom, and `Pending` that the registers are about
to produce what the top frame waits for. `Agrees` says so of each form
that has a meaning, until it has ended with it. Each instruction either pushes a
frame whose `Takes` is one step of `MeaningBy`, or pops the top one. Besides, the
invariant `MeaningInv` has to know that expressions in registers and frames are
expressions of the form (`Contained`), that a define is the bottom frame
(`Defining`), and that global variables are as they were when the form began
(`Globals`). `MeaningsUnfold` is what replaces the recursion: a meaning within
`MaxHeight` evaluations is what `MeaningBy` makes of the meanings themselves.

The assumptions: `TermAssumption` says that `Terms` is closed under parts and that
data are not closures, and that no builtin is registered twice.
`PrimitivesSeeNoEnvironment`, the hypothesis of the theorem, says that a
primitive that makes data or a closure of its arguments makes the same whatever
environments the closures among them have. `PrimitiveMC` does, to which a closure is
not a number; so do those of `xo-procedure2`, which look at most at the number
of a function's parameters (`fn_n_args`). A list or dictionary with a closure in it
is no value in `SchematikaMeaning`, and a primitive is an operator on values:
the theorem is silent about forms that store closures, and about the primitives
that change a list or a dictionary (`set-car`, `dict_upsert`) or ask the collector.
`Agrees` quantifies over all values, which TLC cannot do; what it implies,
`ResultIsMeaning`, was checked first.

Only model-checked: `Terminates`, `StagedIsWritten`, `InterruptEndsService` and
`NextIsDelivered` (liveness needs fairness and ENABLED); `OrderStatistics`, the sizes and
sums of the red-black tree, which would need sums over paths in the invariant;
`BpShape` and `BpSortedMap`, since the operators of the B+ tree are recursive;
`StackIsNesting`, for which the invariant would have to follow the greatest depth, level
by level, as `MeaningInv` follows the value; and `GuardedDisjoint` as such, which is
`Disjoint` of an instance of `DArena` and so an instance of `DisjointCorrect`. No
theorem speaks of the depth of the stack.

## 6. Where the code and its comments disagree

Five runs find what the code does against what its comments say; `PROJECT.json`
quotes the lines.

- `x1_overflow`: a collection that meets a cycle outside from-space (two
  objects, one of them just copied) recurses without end in
  `_forward_inplace_aux`.
- `x1_unsanitized`: the loop that discards triaged entries clears other logs
  than the ones that hold them. Without `sanitize_flag_`, which zeroes
  from-space and so makes such an entry look superseded, an entry is acted upon
  two collections later.
- `x1_xage`: `refresh_snapshot` retires an entry made for two objects of one
  generation and different age at the first collection that leaves them in it.
  This needs `n_survive_threshold_ >= 3`, or 2 with three generations; the
  default of 2 with two generations is safe (`x1_ages`).
- `vsm_after_error`: after an error inside a function the machine halts with the
  environment of that function, and `start_eval` does not reset it. The next
  top-level define takes the branch that "should be unreachable", and its
  assertion fails.

- `bplus_three`: with branching factor 3, the least the B+ tree names
  (`c_min_branching_factor`), a full internal node splits into one child and two,
  and a leaf may have no sibling. Inserting 1 to 6 in order and erasing 1 removes
  the key and then fails the assertion behind "must have at least one sibling";
  without assertions `erase` answers false and the sizes stay wrong.

Seen while modelling, and shown by changing constants of a run, or by reading:

- With a small `LogCap`, `NoDangling` fails: a full log drops entries and
  assignments go on.
- In a debug build (`DebugBuild = TRUE`) `NoCrash` fails: the assertion in
  `_forward_mutation_log_phase` (MutationLogStore.cpp:457) has its condition
  inverted.
- `swap_roles` with `upto = c_max_generation` exchanges an element past the end
  of `mlog_` (MutationLogStore.cpp:287).
- With guard bytes (`GuardZ > 0`) `InCommitted` fails, since `expand` is not
  asked for the guard; so does `EmptyIteration`, since `begin_header` of an arena
  that never committed lies beyond `free_`; and so does `IterationExact`, after
  an `ArenaReset` that was opened before the first commit.
- `IterationExact` fails with composite allocations, whose header has the size
  of the first part, and with sizes that exceed the size field.
- `request_gc` while blocked records a request that nothing runs;
  `remove_gc_root_poly` has no body; `lookup_type` compares with `>` where the
  table has one type less (GCObjectStore.cpp:110).

Web server, all reached by `Webserver` (a fault, or a state that a property has
to leave room for):

- Between `lws_write`, which leaves `sent_seq = stored_seq`, and the unlocked
  `outbound_q_.empty()` (WebsocketSessionRecd, Webserver.cpp:509) a sender may
  store a message: the assertion of `store_message` fails. So it does when
  `lws_write` takes part of a message while the queue is not empty.
- A sender that queues after that test has its message stranded until the next
  one: the comment near line 429, "this message will eventually get sent", is
  not so.
- `send_text` uses `output_buf_` after it released the mutex (near 440).
- `stop_webserver` of a running server calls `interrupt_stop_webserver` with
  the mutex held, which takes it again: the caller, and the destructor, hang.
- `interrupt_stop_webserver` sets `stop_requested` also when the server has
  stopped meanwhile; a join then waits for ever. `lws_cancel_service` races
  with the destruction of the context.
- `start_webserver` after a stop without a join ends the process
  (`std::terminate`); two joins at a time join one thread twice. A context that
  cannot be created leaves the state `running`. `interrupt_flag_` is never
  reset, so a restarted server ends at once. An id that is used
  again gives a delayed message to another client.
- After a failed `lws_service` the server can be joined and started again. Its
  session ids start at one (Webserver.cpp:1678), while `free_session_id_v_` still has
  those that sessions gave back before: two open connections get one id, and the
  second deletes the record of the first (1006), of which the server "keeps exactly one
  of these for each active websocket session" (371). The queue of the first goes with
  it, and what is staged in its buffer is not sent. `live` reaches this, and
  `NothingLost` and `StagedIsWritten` leave room for it.

Simulator and reactor:

- A source that is refilled by the sinks of its last event is put into the heap
  twice, or an assertion fails (Simulator.cpp:473). Removing a source iterates
  over a heap that the loop replaces (228), and leaves the source in `src_v_`
  with its parent.
- `SourceTimestamp.hpp:63` promises that the heap never has a later time than
  the source; a source with a `HeapReducer` breaks it (`HeapTimes` says what
  remains). A sink that throws leaves a stale entry.
- `run_until` and `run_throttled_until` do not end once the heap is empty.
- `next_ix_` of `PollingReactor` never changes (PollingReactor.cpp:89).

Hash table: `erase` of an absent key never ends when tombstones leave no slot
empty (DArenaHashMap.hpp:604); in such a table the load passes the maximum,
which `verify_ok` SM2.1 excludes (879); after `clear()`, `verify_ok` reads the
control bytes of a table that has none (898); `insert` ignores a failed retry
(287).

Buffer: pins are never recorded (the size of their arena is 0, line 86);
`report_append` does not extend the input range, so the next `append` fails an
assertion and `consume` drops bytes; moving a buffer leaves its input range
behind; the tokenizer appends each line and consumes none, so it reports a line
too long once the input exceeds the buffer (Tokenizer.cpp, near 656).

Red-black tree: `erase_aux` reads `N->key()` (RbTreeUtil.hpp:1418) before it
tests `N`: erasing from an empty tree, or a key below all others, dereferences
null where a comment promises `false`. `operator[]` inserts without `++size_`
(RedBlackTree.hpp:389), against `verify_ok` RB1. `verify_subtree_ok` looks at
leaves only. `insert(const &)` and `operator+=` do not compile if used.

B+ tree: with an odd branching factor `b`, a leaf split leaves `(b - 1) / 2` keys
in one half, below the `ceil(b/2)` the header promises (BplusTree.hpp:180-188).
With factor 3, erasing the only key of a leaf reads its first slot, which still
holds the key, so the parent keeps a least key that is gone. `find` in an empty
tree goes on with a null leaf (BplusTree.hpp:376). The tests use even factors.

Callbacks: a deferred addition is moved into the vector before its hook is
called through it (CallbackSetImpl.hpp:255). A nested invocation ends the running state
of the outer one (248), whose loop then sees changes. `visit_callbacks` does not
compile if used.

Virtual machine (`DVirtualSchematikaMachine.cpp`): the stack an error left stays
under the next form. Without assertions, the branch of the run above returns with
`pc_` as it was, and the machine repeats the instruction for ever. A closure keeps
its environment, but `_do_call_closure_op` chains the new one to that of the
caller, and `Binding::is_local` finds only the innermost: a function never sees the
variables of the function around it, and a recursion lengthens the chain with
each call, also one that adds no frame. A function position whose value is no procedure, a definition without
value, and a global whose definition failed each fail an assertion. An error a
primitive returns is a value like others, as an argument and in a definition.
`DVsmApplyFrame::assign_fn` and `DGlobalEnv::assign_value` are marked as in need of a
write barrier, which `X1Collector` shows to be necessary.

## 7. Not modelled

- Web server: HTTP, JSON, the matching of endpoints, alerts, failing
  `lws_write`. Simulator: throttled runs, which wait for the clock. Hash table:
  moving, iterators. Trees: iterators beyond one step, red-black trees on a
  collected heap, B+ trees without order statistics.
- Buffer: what would happen if pins were recorded.
- Virtual machine: the reader, type checks, printing, and the collection of its
  frames and environments.
- In the collector and the arena: `clear()` of the collector, move and swap of
  arenas, statistics, logging, printing, the types of objects, and the
  verification walks, whose checks are invariants here.
- Other components: see `components` in `PROJECT.json`. Front end, types,
  numerics, printing and bindings are sequential code whose correctness is that
  of their data; they gain little from a model checker. `xo-alloc` is superseded
  by what is modelled here.

## 8. Plan

Done: `DArena`, `X1Collector` over `GCHeap`, `Webserver`, `Simulator`,
`ArenaHashMap`, `CircularBuffer`, `RedBlackTree`, `BplusTree`, `CallbackSet`,
`SchematikaMachine`, and the proofs of section 5.

Left, in this order:

1. `PollingReactor`, whose starvation would be a violation of fairness between
   sources.
2. Lifetime of roots and `clear` in `X1Collector`.
3. A proof of `StackIsNesting`.

Runs are few by intention: one per question, with the bounds in its `.cfg` file.
The sequential parts share one run, and the two with liveness another, since no
question is about two of them together.
