------------------------------ MODULE MCSequential ------------------------------
(* Eight components without threads in one run: part says which one moves, and      *)
(* the others stay at an initial state. The arena comes twice: the one extended     *)
(* here has no guard bytes, the other one, on variables of its own, has them, and   *)
(* composite allocations.                                                           *)
EXTENDS DArena, MCSchematika, ArenaHashMap, CircularBuffer, RedBlackTree, BplusTree,
        CallbackSet, Simulator

VARIABLES part, g_hi, g_committed, g_limit, g_free, g_regions, g_open, g_resets, g_last_error
guardedVars == <<g_hi, g_committed, g_limit, g_free, g_regions, g_open, g_resets, g_last_error>>
allVars == <<part, mapVars, ringVars, treeVars, bpVars, cbVars, vars, guardedVars, vsmVars,
             simVars>>

Guarded ==
  INSTANCE DArena WITH
    GuardZ <- 2, SuperAllocs <- TRUE, EmptyReset <- FALSE, MaxRegions <- 4, MaxResets <- 2,
    hi <- g_hi, committed <- g_committed, limit <- g_limit, free <- g_free,
    regions <- g_regions, open <- g_open, resets <- g_resets, last_error <- g_last_error

\* Disjoint, of the arena with guards: no region reaches into the guard of another.
GuardedDisjoint == Guarded!Disjoint

ArenaSizes == {0, 1, 4, 7}
HashesMC == {[k \in 1 .. 6 |-> [h1 |-> k, h2 |-> 0]],
             [k \in 1 .. 6 |-> [h1 |-> 5 * (k % 2), h2 |-> k % 2]],
             [k \in 1 .. 6 |-> [h1 |-> 2 * k, h2 |-> k % 2]]}
FeedsMC == [s \in 1 .. 4 |-> CASE s = 1 -> {2, 4} [] s = 2 -> {} [] s = 3 -> {3} [] s = 4 -> {2}]
ValueOfMC == [k \in TreeKey |-> {1 + (k % 3)}]

MCInit ==
  /\ part \in {"map", "ring", "tree", "bptree", "callbacks", "arena", "guarded", "vsm",
              "sim"}
  /\ RingInit /\ TreeInit /\ BpInit /\ CallbackInit /\ Init /\ Guarded!Init /\ VsmInit
  /\ SimInit
  /\ IF part = "map"
     THEN MapInit
     ELSE store_ = Fresh(0) /\ hash_ = (CHOOSE h \in HashesMC: TRUE) /\ map_fault = "none"
  /\ part # "ring" => reserved_range_ = Page

MCNext ==
  \/ part = "map" /\ MapNext
     /\ UNCHANGED <<part, ringVars, treeVars, bpVars, cbVars, vars, guardedVars,
                    vsmVars, simVars>>
  \/ part = "ring" /\ RingNext
     /\ UNCHANGED <<part, mapVars, treeVars, bpVars, cbVars, vars, guardedVars,
                    vsmVars, simVars>>
  \/ part = "tree" /\ TreeNext
     /\ UNCHANGED <<part, mapVars, ringVars, bpVars, cbVars, vars, guardedVars,
                    vsmVars, simVars>>
  \/ part = "bptree" /\ BpNext
     /\ UNCHANGED <<part, mapVars, ringVars, treeVars, cbVars, vars, guardedVars,
                    vsmVars, simVars>>
  \/ part = "callbacks" /\ CallbackNext
     /\ UNCHANGED <<part, mapVars, ringVars, treeVars, bpVars, vars, guardedVars,
                    vsmVars, simVars>>
  \/ part = "arena" /\ Next
     /\ UNCHANGED <<part, mapVars, ringVars, treeVars, bpVars, cbVars, guardedVars,
                    vsmVars, simVars>>
  \/ part = "guarded" /\ Guarded!Next
     /\ UNCHANGED <<part, mapVars, ringVars, treeVars, bpVars, cbVars, vars, vsmVars,
                    simVars>>
  \/ part = "vsm" /\ VsmNext
     /\ UNCHANGED <<part, mapVars, ringVars, treeVars, bpVars, cbVars, vars,
                    guardedVars, simVars>>
  \/ part = "sim" /\ SimNext
     /\ UNCHANGED <<part, mapVars, ringVars, treeVars, bpVars, cbVars, vars,
                    guardedVars, vsmVars>>

MCSpec == MCInit /\ [][MCNext]_allVars
=============================================================================
