----------------------------- MODULE X1Collector -----------------------------
(***************************************************************************)
(* The generational copying collector of xo-gc: the object store           *)
(* (GCObjectStore), its remembered set (MutationLogStore) and the driver   *)
(* that combines them (DX1Collector).                                      *)
(*                                                                         *)
(* Each generation has two half-spaces that exchange the roles to-space    *)
(* and from-space.  A collection of the generations below upto swaps their *)
(* halves, copies what the roots reach, then what the mutation log says    *)
(* older objects refer to, and empties from-space.                         *)
(*                                                                         *)
(* An address is <<generation, half, cell>>; every object takes one cell   *)
(* and has NField pointers.  The field id of a cell is a ghost: it follows *)
(* an object from address to address and the code does not have it.        *)
(***************************************************************************)
EXTENDS Integers, Sequences, FiniteSets

CONSTANTS
  NGen,         \* config_.n_generation_
  NSurvive,     \* config_.n_survive_threshold_
  NField,       \* pointers in an object
  NRoot,        \* roots registered by add_gc_root
  NExt,         \* virtual roots: objects outside the collector's spaces
  Upto,         \* the arguments of request_gc
  MlogEnabled,  \* config_.allow_incremental_gc_
  LogCap,       \* entries that fit in one mutation log
  Sanitize,     \* config_.sanitize_flag_
  DebugBuild,   \* assert() is compiled in
  Acyclic,      \* whether the client keeps its object graph acyclic
  MaxObjs,      \* bound: objects in the heap, live or garbage
  MaxLog,       \* bound: an assignment is logged while the logs hold fewer entries
  Nil

ASSUME X1Assumption ==
  /\ NGen \in Nat /\ NGen >= 2 /\ NSurvive \in Nat \ {0}
  /\ NField \in Nat \ {0} /\ NRoot \in Nat /\ NExt \in 0..NRoot
  /\ Upto \subseteq 1..NGen
  /\ LogCap \in Nat /\ MaxLog \in Nat /\ MaxObjs \in Nat
  /\ MlogEnabled \in BOOLEAN /\ Sanitize \in BOOLEAN
  /\ DebugBuild \in BOOLEAN /\ Acyclic \in BOOLEAN

Gens == 0..(NGen - 1)
LogGens == 0..(NGen - 2)
Cells == Gens \X {0, 1} \X (1..MaxObjs)
Ext == {<<NGen, 0, i>> : i \in 1..NExt}
Addr == Cells \cup Ext

(* The null pointer is no address, and the identity of no object. *)
ASSUME NilAssumption == Nil \notin Addr /\ Nil \notin 0..(MaxObjs + NExt)

\* Ages above this one are in the last generation, and the code compares
\* ages of two objects only in younger ones: the model stops counting here.
MaxAge == NSurvive * (NGen - 1)

VARIABLES
  mem,       \* contents of every cell, stale ones included
  free,      \* cells in use in each half of each generation
  to,        \* the half that is to-space
  root,      \* the registered roots
  tolog,     \* mlog_[to_space]: entries by generation of the child
  fromlog,   \* mlog_[from_space]
  triage,    \* mlog_[c_n_role]
  pc,        \* where execute_gc is
  upto,      \* generations below this one are being collected
  ri,        \* root being copied
  stack,     \* pending visit_gco_children calls, innermost last
  gray,      \* gray_lo_v
  sg,        \* generation scanned by _forward_children_until_fixpoint
  back,      \* caller of the deep move: where pc goes when it returns
  cg,        \* child_gen of forward_mutation_log
  rescued    \* work > 0 in forward_mutation_log

heap == <<mem, free, to, root>>
logs == <<tolog, fromlog, triage>>
scan == <<stack, gray, sg, back>>
vars == <<heap, logs, pc, upto, ri, scan, cg, rescued>>

-----------------------------------------------------------------------------
(* Spaces, ages and forwarding *)

\* DArena::contains of the half in each role
InTo(a) == a \in Cells /\ a[2] = to[a[1]]
InFrom(a) == a \in Cells /\ a[2] # to[a[1]]
Allocated(a) == a \in Ext \/ a[3] <= free[a[1]][a[2]]

Age2Gen(age) == IF age \div NSurvive < NGen - 1 THEN age \div NSurvive ELSE NGen - 1
Older_uncapped(age) == age + 1
Older(age) == IF age < MaxAge THEN age + 1 ELSE MaxAge
Movable(a) == Age2Gen(mem[a].age) < upto

NoKids == [k \in 1..NField |-> Nil]
Blank == [id |-> 0, age |-> 0, fwd |-> Nil, kid |-> NoKids]

(* Here and below, name_x is a plausible wrong version of name: the          *)
(* properties are tested by putting it in its place.                        *)

\* where an object is now, if a is where it was
Now(a) == IF mem[a].fwd = Nil THEN a ELSE mem[a].fwd

\* addresses reached from the set s
Reached(s) ==
  LET kids(b) == {Now(c) : c \in {mem[b].kid[k] : k \in 1..NField} \ {Nil}}
      r[n \in 0..(MaxObjs + NExt)] ==
        IF n = 0 THEN {Now(a) : a \in s}
        ELSE UNION {{b} \cup kids(b) : b \in r[n - 1]}
  IN Addr \cap r[MaxObjs + NExt]

Reachable == Reached({root[r] : r \in 1..NRoot} \ {Nil})
Objects == {a \in Addr : Allocated(a) /\ mem[a].fwd = Nil}

-----------------------------------------------------------------------------
(* The client, between collections *)

Init ==
  /\ mem = [a \in Addr |-> IF a \in Ext THEN [Blank EXCEPT !.id = MaxObjs + a[3]]
                                        ELSE Blank]
  /\ free = [g \in Gens |-> [h \in {0, 1} |-> 0]]
  /\ to = [g \in Gens |-> 0]
  /\ root = [r \in 1..NRoot |-> IF r <= NExt THEN <<NGen, 0, r>> ELSE Nil]
  /\ tolog = [g \in LogGens |-> <<>>] /\ fromlog = tolog /\ triage = tolog
  /\ pc = "idle" /\ upto = 0 /\ ri = 0
  /\ stack = <<>> /\ gray = [g \in Gens |-> 0] /\ sg = 0
  /\ back = "idle" /\ cg = 0 /\ rescued = FALSE

UnusedIds == 1..MaxObjs \ {mem[a].id : a \in Objects}

\* alloc in the nursery; the client's constructor clears the pointers and
\* the client keeps the object in a root
New(r) ==
  LET a == <<0, to[0], free[0][to[0]] + 1>> IN
  /\ UnusedIds # {} /\ a \in Cells
  /\ mem' = [mem EXCEPT ![a] =
               [Blank EXCEPT !.id = CHOOSE i \in UnusedIds : \A j \in UnusedIds : i <= j]]
  /\ free' = [free EXCEPT ![0][to[0]] = @ + 1]
  /\ root' = [root EXCEPT ![r] = a]
  /\ UNCHANGED <<to, logs, pc, upto, ri, scan, cg, rescued>>

SetRoot(r, v) ==
  /\ root[r] # v
  /\ root' = [root EXCEPT ![r] = v]
  /\ UNCHANGED <<mem, free, to, logs, pc, upto, ri, scan, cg, rescued>>

\* MutationLog::push_back drops the entry when the log is full
Put(log, e) == IF Len(log) < LogCap THEN Append(log, e) ELSE log

\* assign_member_aux: an old-to-young pointer, or one that will become so
\* because its source is promoted first
Loggable(p, v) == MlogEnabled /\ InTo(p) /\ InTo(v) /\ v[1] + 1 < NGen
MustLog_reversed(p, v) == Loggable(p, v) /\ p[1] < v[1]
MustLog_xgen(p, v) == Loggable(p, v) /\ p[1] > v[1]
MustLog(p, v) ==
  /\ Loggable(p, v)
  /\ p[1] > v[1] \/ (p[1] = v[1] /\ mem[p].age > mem[v].age)

LogRoom == \A g \in LogGens : Len(tolog[g]) + Len(fromlog[g]) < MaxLog

\* assign_member; assert(rhs_data): the null pointer is not assigned
Assign(p, k, v) ==
  /\ mem[p].kid[k] # v
  /\ Acyclic => p \notin Reached({v})
  /\ MustLog(p, v) => LogRoom
  /\ mem' = [mem EXCEPT ![p].kid[k] = v]
  /\ tolog' = IF MustLog(p, v)
              THEN [tolog EXCEPT ![v[1]] = Put(@, [parent |-> p, k |-> k, snap |-> v])]
              ELSE tolog
  /\ UNCHANGED <<free, to, root, fromlog, triage, pc, upto, ri, scan, cg, rescued>>

\* request_gc and execute_gc up to _swap_roles; gc_blocked_ is always 0
RequestGc(u) ==
  /\ to' = [g \in Gens |-> IF g < u THEN 1 - to[g] ELSE to[g]]
  /\ tolog' = [g \in LogGens |-> IF g < u THEN fromlog[g] ELSE tolog[g]]
  /\ fromlog' = [g \in LogGens |-> IF g < u THEN tolog[g] ELSE fromlog[g]]
  /\ pc' = "roots" /\ upto' = u /\ ri' = 1
  /\ UNCHANGED <<mem, free, root, triage, scan, cg, rescued>>

\* The client works on what its roots reach, and never while execute_gc runs.
Mutate ==
  LET live == Reachable IN
  /\ pc = "idle"
  /\ \/ \E r \in (NExt + 1)..NRoot : New(r)
     \/ \E r \in (NExt + 1)..NRoot, v \in live \cup {Nil} : SetRoot(r, v)
     \/ \E p, v \in live, k \in 1..NField : Assign(p, k, v)
     \/ \E u \in Upto : RequestGc(u)

-----------------------------------------------------------------------------
(* Copying *)

\* one more than the oldest generation that this collection copies into
ScanEnd_collected == upto
ScanEnd == IF upto + 1 < NGen THEN upto + 1 ELSE NGen

\* snap_move_checkpoint
Checkpoint_late == gray' = [g \in Gens |-> IF g < ScanEnd THEN free[g][to[g]] + 1 ELSE gray[g]]
Checkpoint == gray' = [g \in Gens |-> IF g < ScanEnd THEN free[g][to[g]] ELSE gray[g]]

\* alloc_copy: the copy is one collection older, in the generation of its age
Dest_unpromoted(a) == <<a[1], to[a[1]], free[a[1]][to[a[1]]] + 1>>
Dest(a) == LET g == Age2Gen(Older(mem[a].age)) IN <<g, to[g], free[g][to[g]] + 1>>

\* _shallow_move
Moved_unmarked(a) == [mem EXCEPT ![Dest(a)] = [mem[a] EXCEPT !.age = Older(@)]]
Moved(a) == [mem EXCEPT ![Dest(a)] = [mem[a] EXCEPT !.age = Older(@)],
                        ![a].fwd = Dest(a)]
Grown_source(a) == [free EXCEPT ![a[1]][to[a[1]]] = @ + 1]
Grown(a) == [free EXCEPT ![Dest(a)[1]][Dest(a)[2]] = @ + 1]

\* Copying a is defined: a is an object, and the copy fits.  AgeGeneration
\* makes every object of from-space movable.
CanMove(a) == Allocated(a) /\ mem[a].fwd = Nil /\ Movable(a) /\ Dest(a) \in Cells

Frame(a) == [obj |-> a, k |-> 1]

\* start of _deep_move_gc_owned; the fixpoint is reached before pc = caller
DeepMove(a, caller) ==
  /\ CanMove(a)
  /\ Checkpoint
  /\ mem' = Moved(a) /\ free' = Grown(a)
  /\ pc' = "scan" /\ sg' = 0 /\ back' = caller
  /\ UNCHANGED stack

\* deep_move_root of the root that _copy_roots has come to
RootDone == ri' = ri + 1 /\ UNCHANGED <<mem, free, pc, scan>>

CopyRoot ==
  /\ pc = "roots" /\ ri <= NRoot
  /\ UNCHANGED <<to, logs, upto, cg, rescued>>
  /\ LET a == root[ri] IN
     \/ a = Nil /\ RootDone /\ UNCHANGED root
     \/ /\ a # Nil /\ InFrom(a) /\ mem[a].fwd # Nil
        /\ root' = [root EXCEPT ![ri] = mem[a].fwd] /\ RootDone
     \/ /\ a # Nil /\ InFrom(a) /\ mem[a].fwd = Nil
        /\ DeepMove(a, "roots")
        /\ root' = [root EXCEPT ![ri] = Dest(a)] /\ ri' = ri + 1
     \/ /\ a # Nil /\ ~InFrom(a)
        /\ Checkpoint /\ stack' = <<Frame(a)>>
        /\ pc' = "scan" /\ sg' = 0 /\ back' = "roots"
        /\ ri' = ri + 1 /\ UNCHANGED <<mem, free, root>>

RootsDone ==
  /\ pc = "roots" /\ ri > NRoot
  /\ pc' = "mlog" /\ cg' = 0 /\ rescued' = FALSE
  /\ UNCHANGED <<heap, logs, upto, ri, scan>>

(* visit_gco_children(forward) on the innermost frame, one pointer a step *)

Top == stack[Len(stack)]
Slot == mem[Top.obj].kid[Top.k]
Visiting == pc = "scan" /\ stack # <<>>

\* The visit of a pointer is over: go to the next one of the object, or
\* return to the visit of the pointer that led to the object.
NextSlot_stuck == stack
NextSlot ==
  LET todo == {i \in 1..Len(stack) : stack[i].k < NField}
      inner == {i \in todo : \A j \in todo : j <= i}
  IN IF todo = {} THEN <<>>
     ELSE LET n == CHOOSE i \in inner : TRUE
          IN [SubSeq(stack, 1, n) EXCEPT ![n].k = @ + 1]

OnlyScan == UNCHANGED <<to, root, logs, pc, upto, ri, gray, sg, back, cg, rescued>>

SkipNull ==
  /\ Visiting /\ Slot = Nil
  /\ stack' = NextSlot
  /\ UNCHANGED <<mem, free>> /\ OnlyScan

\* not in from-space: "don't forward, but check children", however often the
\* object was visited before.  The depth of a path without cycles is at most
\* the number of objects; a longer stack has overflowed.
StackMax == MaxObjs + NExt

VisitChildren ==
  /\ Visiting /\ Slot # Nil /\ ~InFrom(Slot) /\ Len(stack) < StackMax
  /\ stack' = Append(stack, Frame(Slot))
  /\ UNCHANGED <<mem, free>> /\ OnlyScan

FollowForward ==
  /\ Visiting /\ Slot # Nil /\ InFrom(Slot) /\ mem[Slot].fwd # Nil
  /\ mem' = [mem EXCEPT ![Top.obj].kid[Top.k] = mem[Slot].fwd]
  /\ stack' = NextSlot
  /\ UNCHANGED free /\ OnlyScan

MoveChild ==
  /\ Visiting /\ Slot # Nil /\ InFrom(Slot) /\ CanMove(Slot)
  /\ mem' = [Moved(Slot) EXCEPT ![Top.obj].kid[Top.k] = Dest(Slot)]
  /\ free' = Grown(Slot)
  /\ stack' = NextSlot
  /\ OnlyScan

(* _forward_children_until_fixpoint *)

Gray(gs) == {g \in gs : gray[g] < free[g][to[g]]}
GrayGens == Gray(0..(ScanEnd - 1))
FixpointStep == pc = "scan" /\ stack = <<>> /\ UNCHANGED <<heap, logs, upto, ri, back, cg, rescued>>

\* A pass goes up the generations, and is followed by another one until a
\* pass finds nothing to do.  The code advances gray_lo_v after the visit;
\* nothing reads it meanwhile.
ScanGray ==
  LET ahead == Gray(sg..(ScanEnd - 1))
      next == IF ahead # {} THEN ahead ELSE GrayGens
  IN /\ FixpointStep
     /\ \E g \in next :
          /\ \A x \in next : g <= x
          /\ sg' = g /\ gray' = [gray EXCEPT ![g] = @ + 1]
          /\ stack' = <<Frame(<<g, to[g], gray[g] + 1>>)>>
     /\ UNCHANGED pc

Fixpoint ==
  /\ FixpointStep /\ GrayGens = {}
  /\ pc' = back /\ sg' = 0 /\ gray' = [g \in Gens |-> 0]
  /\ UNCHANGED stack

-----------------------------------------------------------------------------
(* forward_mutation_log *)

\* check_forward_inplace and is_superseded on entry e: its parent is where
\* the parent is now, and it is current if the pointer still is to the
\* snapshot, before or after the snapshot moved.
Target(e) == mem[Now(e.parent)].kid[e.k]
Current(e) == Target(e) \in {e.snap, Now(e.snap)}
Refreshed(e) == [parent |-> Now(e.parent), k |-> e.k, snap |-> Now(e.snap)]
Repaired_unstored(e) == mem
Repaired(e) == [mem EXCEPT ![Now(e.parent)].kid[e.k] = Now(e.snap)]

\* the parent is in to-space: copied, or in a generation not collected
ParentLive_assumed(e) == TRUE
ParentLive(e) == InTo(Now(e.parent))

\* refresh_snapshot, with the parent and the child where they are now
KeepsEntry(e) == e.snap[1] + 1 < NGen /\ e.parent[1] > e.snap[1]

InLog == pc = "mlog" /\ fromlog[cg] # <<>> /\ UNCHANGED <<to, root, upto, ri, cg>>
Entry == Head(fromlog[cg])
NextEntry == fromlog' = [fromlog EXCEPT ![cg] = Tail(@)] /\ UNCHANGED <<pc, free, scan>>

\* A debug build asserts, before anything else, that a parent that is not in
\* to-space is not in from-space either.
Asserted == DebugBuild => ~InFrom(Now(Entry.parent))

DropEntry ==
  /\ InLog /\ Asserted /\ ~Current(Entry)
  /\ NextEntry /\ UNCHANGED <<mem, tolog, triage, rescued>>

TriageEntry ==
  /\ InLog /\ Asserted /\ Current(Entry) /\ ~ParentLive(Entry)
  /\ mem' = Repaired(Entry)
  /\ triage' = [triage EXCEPT ![cg] = Put(@, Refreshed(Entry))]
  /\ NextEntry /\ UNCHANGED <<tolog, rescued>>

\* _preserve_child_of_live_parent on a child that was not copied: the entry
\* stays at the head of the log until deep_move_interior has returned.
RescueChild ==
  /\ InLog /\ Current(Entry) /\ ParentLive(Entry) /\ InFrom(Now(Entry.snap))
  /\ DeepMove(Entry.snap, "mlog")
  /\ rescued' = TRUE /\ UNCHANGED logs

\* ... and once the child is in to-space; it counts as a rescue either way.
KeepEntry ==
  LET e == Refreshed(Entry) IN
  /\ InLog /\ Current(Entry) /\ ParentLive(Entry) /\ InTo(e.snap)
  /\ mem' = Repaired(Entry)
  /\ tolog' = IF KeepsEntry(e) THEN [tolog EXCEPT ![cg] = Put(@, e)] ELSE tolog
  /\ rescued' = TRUE
  /\ NextEntry /\ UNCHANGED triage

LogDone == pc = "mlog" /\ fromlog[cg] = <<>>

\* end of a phase: from-log and triage-log change roles
RotateLogs_discard == UNCHANGED fromlog /\ triage' = [triage EXCEPT ![cg] = <<>>]
RotateLogs ==
  /\ fromlog' = [fromlog EXCEPT ![cg] = triage[cg]]
  /\ triage' = [triage EXCEPT ![cg] = <<>>]

\* child_gen + 1 < n_generation_ ends the loop over the logs
LastLog_first == TRUE
LastLog == cg + 2 = NGen

NextLog ==
  /\ LogDone /\ RotateLogs
  /\ \/ ~LastLog /\ cg' = cg + 1 /\ UNCHANGED rescued
     \/ LastLog /\ rescued /\ cg' = 0 /\ rescued' = FALSE
  /\ UNCHANGED <<heap, tolog, pc, upto, ri, scan>>

\* GCObjectStore::cleanup_phase: scrub, then clear the collected halves
Emptied_short ==
  [g \in Gens |-> IF g + 1 < upto THEN [free[g] EXCEPT ![1 - to[g]] = 0] ELSE free[g]]
Emptied == [g \in Gens |-> IF g < upto THEN [free[g] EXCEPT ![1 - to[g]] = 0] ELSE free[g]]
Scrubbed == [a \in Addr |-> IF InFrom(a) /\ a[1] < upto /\ Allocated(a) THEN Blank ELSE mem[a]]

\* The last pass rescued nothing: "any remaining triaged mlogs can be
\* discarded", and the collection is over.
Cleanup ==
  /\ LogDone /\ LastLog /\ ~rescued
  /\ fromlog' = [fromlog EXCEPT ![cg] = triage[cg]]
  /\ triage' = [g \in LogGens |-> IF g = cg \/ g + 2 < NGen THEN <<>> ELSE triage[g]]
  /\ free' = Emptied /\ mem' = IF Sanitize THEN Scrubbed ELSE mem
  /\ pc' = "idle" /\ upto' = 0 /\ ri' = 0 /\ back' = "idle" /\ cg' = 0
  /\ UNCHANGED <<to, root, tolog, stack, gray, sg, rescued>>

(* The process is lost: the C++ stack overflows, an assertion fails, or a   *)
(* pointer into from-space does not lead to an object that can be copied.   *)
Wild(a) == InFrom(a) /\ mem[a].fwd = Nil /\ ~CanMove(a)

Crash ==
  /\ \/ Visiting /\ Slot # Nil /\ (Wild(Slot) \/ (~InFrom(Slot) /\ Len(stack) = StackMax))
     \/ pc = "roots" /\ ri <= NRoot /\ root[ri] # Nil /\ Wild(root[ri])
     \/ /\ pc = "mlog" /\ fromlog[cg] # <<>>
        /\ \/ ~Asserted
           \/ Current(Entry) /\ ParentLive(Entry) /\ Wild(Now(Entry.snap))
  /\ pc' = "dead"
  /\ UNCHANGED <<heap, logs, upto, ri, scan, cg, rescued>>

Visit == SkipNull \/ VisitChildren \/ FollowForward \/ MoveChild
Collect ==
  \/ CopyRoot \/ RootsDone
  \/ Visit \/ ScanGray \/ Fixpoint
  \/ DropEntry \/ TriageEntry \/ RescueChild \/ KeepEntry \/ NextLog
  \/ Cleanup \/ Crash

Next == Mutate \/ Collect

Spec == Init /\ [][Next]_vars

\* execute_gc runs in the thread that requested it, until it returns
FairSpec == Spec /\ WF_vars(Collect)

-----------------------------------------------------------------------------
(* Properties *)

Cell == [id : 0..(MaxObjs + NExt), age : 0..MaxAge, fwd : Cells \cup {Nil},
         kid : [1..NField -> Addr \cup {Nil}]]
LogEntry == [parent : Cells, k : 1..NField, snap : Cells]
Log == [LogGens -> Seq(LogEntry)]

\* Every variable has its type.
TypeOK ==
  /\ mem \in [Addr -> Cell]
  /\ free \in [Gens -> [{0, 1} -> 0..MaxObjs]] /\ to \in [Gens -> {0, 1}]
  /\ root \in [1..NRoot -> Addr \cup {Nil}]
  /\ tolog \in Log /\ fromlog \in Log /\ triage \in Log
  /\ pc \in {"idle", "roots", "scan", "mlog", "dead"}
  /\ upto \in 0..NGen /\ ri \in 0..(NRoot + 1)
  /\ stack \in Seq([obj : Addr, k : 1..NField])
  /\ gray \in [Gens -> 0..MaxObjs] /\ sg \in Gens
  /\ back \in {"idle", "roots", "mlog"} /\ cg \in LogGens /\ rescued \in BOOLEAN

\* _copy_roots has started when a collection copies anything: ri is then an
\* index of a root or just past the last one.
RootsStarted == pc \in {"roots", "scan", "mlog"} => ri >= 1

\* TypeOK is not inductive without it.
TypeInv == TypeOK /\ RootsStarted

\* _verify_aux's n_age_ok_: every object is in the generation of its age.
\* The code moves an object by its age alone and never looks where it is.
AgeGeneration == \A a \in Cells : Allocated(a) => Age2Gen(mem[a].age) = a[1]

\* A from-space object is copied once, however many pointers and log entries
\* lead to it: no two current objects have one identity.
CopiedOnce == Cardinality({mem[a].id : a \in Objects}) = Cardinality(Objects)

ForwardsToCopy ==
  \A a \in Cells : Allocated(a) /\ mem[a].fwd # Nil =>
    /\ InFrom(a) /\ InTo(mem[a].fwd) /\ Allocated(mem[a].fwd)
    /\ mem[mem[a].fwd].id = mem[a].id

\* The picture in _forward_children_until_fixpoint: an object below gray_lo
\* that this collection copied into a collected generation has no pointer
\* into from-space, and between two deep moves no object there is gray.
Scanned(a) ==
  /\ InTo(a) /\ a[1] < upto /\ Allocated(a)
  /\ pc = "scan" => a[3] <= gray[a[1]] /\ \A i \in 1..Len(stack) : stack[i].obj # a
WhiteIsForwarded ==
  pc \in {"roots", "scan", "mlog"} =>
    \A a \in Cells : Scanned(a) =>
      \A k \in 1..NField : mem[a].kid[k] # Nil => ~InFrom(mem[a].kid[k])

\* verify_ok after and between collections: no object in to-space, garbage
\* included, points into from-space or to memory that holds no object.
NoDangling ==
  pc = "idle" => \A a \in Objects : \A k \in 1..NField :
    LET v == mem[a].kid[k] IN v # Nil => ~InFrom(v) /\ Allocated(v)

\* The remembered set: between collections, every pointer from an older to a
\* younger generation is in a log that each collection of the younger
\* generation reads.  Garbage counts, nobody knows yet that it is garbage.
Remembered(p, k) ==
  LET v == mem[p].kid[k] IN
  \E g \in 0..v[1] : \E i \in 1..Len(tolog[g]) :
    tolog[g][i] = [parent |-> p, k |-> k, snap |-> v]
RememberedSet ==
  pc = "idle" => \A p \in Objects \ Ext : \A k \in 1..NField :
    LET v == mem[p].kid[k] IN
    v # Nil /\ InTo(v) /\ v[1] < p[1] => Remembered(p, k)

\* The collector never loses the process.
NoCrash == pc # "dead"

\* A collection of every generation leaves the reachable objects and nothing
\* else: no garbage survives it, and what no root reaches is never rescued
\* through the log.
FullIsExact ==
  [][pc = "mlog" /\ pc' = "idle" /\ upto = NGen => Objects' \ Ext = Reachable' \ Ext]_vars

\* Every collection ends.
Terminates == pc # "idle" ~> pc = "idle"

(* Refinement: the client cannot tell that its objects move *)

IdAt(a) == IF a = Nil THEN Nil
           ELSE IF Allocated(Now(a)) THEN mem[Now(a)].id ELSE 0
Heap == INSTANCE GCHeap WITH
  hroot <- [r \in 1..NRoot |-> IdAt(root[r])],
  hobj <- {[id |-> IdAt(a), kid |-> [k \in 1..NField |-> IdAt(mem[a].kid[k])]] :
             a \in Reachable}

\* Roots and reachable pointers change as the client asked, and no step of a
\* collection changes them.
HeapKept == Heap!HSpec
===============================================================================
