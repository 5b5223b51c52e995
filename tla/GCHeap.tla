-------------------------------- MODULE GCHeap --------------------------------
(***************************************************************************)
(* What the X1 collector promises the program that allocates from it: a    *)
(* heap of objects with NField pointers each, reached from NRoot roots.    *)
(* Objects have identities instead of addresses, there is no collection,   *)
(* and an object that no root reaches is forgotten at once.                *)
(*                                                                         *)
(* The first NExt roots are virtual: they hold for good an object that the *)
(* collector does not own.                                                 *)
(***************************************************************************)
EXTENDS Integers

CONSTANTS NField, NRoot, NExt, MaxObjs, Nil

VARIABLES
  hroot,  \* identity held by each root, or Nil
  hobj    \* the reachable objects, each with its identity and its pointers

hvars == <<hroot, hobj>>

Ids == {o.id : o \in hobj}
New(i) == [id |-> i, kid |-> [f \in 1..NField |-> Nil]]

\* the identities that the roots r reach through the pointers of objs
Live(r, objs) ==
  LET kids(i) == UNION {{o.kid[f] : f \in 1..NField} : o \in {x \in objs : x.id = i}}
      reached[n \in 0..(MaxObjs + NExt)] ==
        IF n = 0 THEN {r[i] : i \in 1..NRoot} \ {Nil}
        ELSE UNION {({i} \cup kids(i)) \ {Nil} : i \in reached[n - 1]}
  IN reached[MaxObjs + NExt]

\* the heap with roots r, cut down to what they reach
Becomes(r, objs) == hroot' = r /\ hobj' = {o \in objs : o.id \in Live(r, objs)}

HInit ==
  /\ hroot = [r \in 1..NRoot |-> IF r <= NExt THEN MaxObjs + r ELSE Nil]
  /\ hobj = {New(MaxObjs + r) : r \in 1..NExt}

HNew(r, i) ==
  /\ i \notin Ids
  /\ Becomes([hroot EXCEPT ![r] = i], hobj \cup {New(i)})

HAssign(p, f, i) == Becomes(hroot, (hobj \ {p}) \cup {[p EXCEPT !.kid[f] = i]})

HSetRoot(r, i) == Becomes([hroot EXCEPT ![r] = i], hobj)

HNext ==
  /\ hvars' # hvars
  /\ \/ \E r \in (NExt + 1)..NRoot, i \in 1..MaxObjs : HNew(r, i)
     \/ \E p \in hobj, f \in 1..NField, i \in Ids : HAssign(p, f, i)
     \/ \E r \in (NExt + 1)..NRoot, i \in Ids \cup {Nil} : HSetRoot(r, i)

HSpec == HInit /\ [][HNext]_hvars
===============================================================================
