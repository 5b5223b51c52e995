---------------------------- MODULE WebserverProofs ----------------------------
(* Theorems about the web server, for every set of application threads and every  *)
(* bound: what its states and its session table promise the threads that call it, *)
(* and that no message a session took is lost or sent twice.                       *)
EXTENDS Webserver, SequenceTheorems, FiniteSetTheorems, TLAPS

\* What a step takes from the definitions of the variable groups.
USE DEF None

Threads == \A t \in App: pc[t] = "start_thread" => calls > 0

-----------------------------------------------------------------------------
(* Types. *)

LEMMA InitTypes == Init => TypeOK
<1> SUFFICES ASSUME Init PROVE TypeOK
  OBVIOUS
<1>1. session_v_ \in Seq(Conns \cup {None}) /\ free_session_id_v_ \in Seq(Nat)
  BY DEF Init
<1> QED
  BY <1>1 DEF Init, TypeOK, Labels, Nobody

\* A step of an application thread leaves the session table and the event loop
\* thread alone, except that it may start or join that thread.
LEMMA AppTypes ==
  ASSUME TypeOK, NEW t \in App, NewCall(t) \/ AppStep(t)
  PROVE  TypeOK'
<1> USE DEF TypeOK, Labels, server, table, record, loop, history, app
<1>1. CASE CallStart(t)
  BY <1>1 DEF CallStart, Call
<1>2. CASE CallInterrupt(t)
  BY <1>2 DEF CallInterrupt, Call
<1>3. CASE CallStop(t)
  BY <1>3 DEF CallStop, Call
<1>4. CASE CallJoin(t)
  BY <1>4 DEF CallJoin, Call
<1>5. CASE CallSend(t)
  BY <1>5 DEF CallSend
<1>6. CASE StartThread(t)
  BY <1>6 DEF StartThread, Fails, Return
<1>7. CASE InterruptStep(t)
  BY <1>7 DEF InterruptStep, IntFlag, IntTest, IntCancel, IntState, Fails, Return, Goto
<1>8. CASE Stop(t)
  BY <1>8 DEF Stop, Return, Goto
<1>9. CASE JoinStep(t)
  <2>1. CASE Join(t)
    BY <2>1 DEF Join, Goto
  <2>2. CASE JoinThread(t)
    BY <2>2 DEF JoinThread, Return
  <2>3. CASE Joined(t)
    BY <2>3 DEF Joined, Fails, Return
  <2> QED
    BY <1>9, <2>1, <2>2, <2>3 DEF JoinStep
<1>10. CASE SendStep(t)
  <2>1. CASE Get(t)
    BY <2>1 DEF Get, Fails
  <2>2. CASE Lock(t)
    BY <2>2 DEF Lock, Fails, Return, Goto
  <2>3. CASE Enqueue(t)
    BY <2>3 DEF Enqueue, Fails, Return
  <2>4. CASE Store(t)
    BY <2>4 DEF Store, Fails, Goto
  <2>5. CASE Wake(t)
    BY <2>5 DEF Wake, Fails, Return
  <2> QED
    BY <1>10, <2>1, <2>2, <2>3, <2>4, <2>5 DEF SendStep
<1> QED
  BY <1>1, <1>2, <1>3, <1>4, <1>5, <1>6, <1>7, <1>8, <1>9, <1>10 DEF NewCall, AppStep

\* AfterEvent is where the event loop goes on.
LEMMA AfterEventIsAPlace == AfterEvent \in {"destroy", "service"}
  BY DEF AfterEvent

\* The table grows to the id that a new session gets.
LEMMA OpenTable ==
  ASSUME TypeOK, NEW c \in Conns, Open(c)
  PROVE  /\ session_v_' \in Seq(Conns \cup {None})
         /\ free_session_id_v_' \in Seq(Nat) /\ next_session_id_' \in Nat
         /\ \A i \in DOMAIN session_v_': \/ i = next_session_id_ /\ session_v_'[i] = c
                                         \/ session_v_'[i] = None
                                         \/ i \in DOMAIN session_v_ /\ session_v_'[i] = session_v_[i]
<1> DEFINE id == next_session_id_
           size == IF Len(session_v_) < id THEN id ELSE Len(session_v_)
           grown == [i \in 1 .. size |-> IF i = id THEN c
                                         ELSE IF i <= Len(session_v_) THEN session_v_[i] ELSE None]
<1> USE DEF TypeOK
<1>1. id \in Nat /\ size \in Nat
  OBVIOUS
<1>2. session_v_' = grown
  BY DEF Open
<1>3. \A i \in 1 .. size: grown[i] \in Conns \cup {None}
  OBVIOUS
<1>4. grown \in Seq(Conns \cup {None}) /\ DOMAIN grown = 1 .. size
  BY <1>1, <1>3
<1>5. free_session_id_v_' \in Seq(Nat) /\ next_session_id_' \in Nat
  <2>1. CASE free_session_id_v_ = <<>>
    BY <1>1, <2>1 DEF Open
  <2>2. CASE free_session_id_v_ # <<>>
    <3>1. Len(free_session_id_v_) \in Nat \ {0}
      BY <2>2, EmptySeq
    <3>2. Front(free_session_id_v_) \in Seq(Nat) /\ Last(free_session_id_v_) \in Nat
      BY <3>1 DEF Front, Last
    <3> QED
      BY <2>2, <3>2 DEF Open
  <2> QED
    BY <2>1, <2>2
<1>6. \A i \in 1 .. size: \/ i = id /\ grown[i] = c
                          \/ grown[i] = None
                          \/ i \in DOMAIN session_v_ /\ grown[i] = session_v_[i]
  BY <1>1
<1> QED
  BY <1>2, <1>4, <1>5, <1>6

\* Steps of the event loop thread: the ones that may change the table first.
LEMMA LoopTypes ==
  ASSUME TypeOK, LoopStep \/ ClientStep
  PROVE  TypeOK'
<1> USE DEF server, table, record, loop, history, app
<1>1. ASSUME NEW c \in Conns, Open(c)
      PROVE  TypeOK'
  <2>1. /\ session_v_' \in Seq(Conns \cup {None})
        /\ free_session_id_v_' \in Seq(Nat) /\ next_session_id_' \in Nat
    BY <1>1, OpenTable
  <2>2. /\ sid' = [sid EXCEPT ![c] = next_session_id_]
        /\ conn' = [conn EXCEPT ![c] = "open"]
        /\ out' = [out EXCEPT ![c] = TRUE]
        /\ lpc' = AfterEvent
        /\ UNCHANGED <<server, app>>
    BY <1>1 DEF Open
  <2> QED
    BY <2>1, <2>2, AfterEventIsAPlace DEF TypeOK
<1>2. ASSUME NEW c \in Conns, Close(c)
      PROVE  TypeOK'
  <2>1. Append(free_session_id_v_, sid[c]) \in Seq(Nat)
    BY <1>2 DEF TypeOK
  <2>2. /\ free_session_id_v_' = Append(free_session_id_v_, sid[c])
        /\ conn' = [conn EXCEPT ![c] = "closed"]
        /\ out' = [out EXCEPT ![session_v_[sid[c]]] = FALSE]
        /\ lpc' \in {lpc, AfterEvent}
        /\ UNCHANGED <<server, app, session_v_, next_session_id_, sid>>
    BY <1>2 DEF Close
  <2>3. conn' \in [Conns -> {"new", "open", "closed"}] /\ out' \in [Conns -> BOOLEAN]
    BY <2>2 DEF TypeOK
  <2>4. free_session_id_v_' \in Seq(Nat) /\ lpc' \in {lpc, "destroy", "service"}
    BY <2>1, <2>2, AfterEventIsAPlace
  <2> QED
    BY <2>2, <2>3, <2>4 DEF TypeOK
<1> USE DEF TypeOK
<1>3. ASSUME NEW c \in Conns, Receive(c) \/ Writeable(c)
      PROVE  TypeOK'
  BY <1>3, AfterEventIsAPlace DEF Receive, Writeable
<1>4. CASE ServiceFails
  BY <1>4 DEF ServiceFails
<1>5. CASE CreateContext
  <2>1. /\ lws_cx_' \in BOOLEAN /\ next_session_id_' \in Nat
        /\ lpc' \in {"ended", "destroy", "service"}
    <3>1. CASE lws_cx_' = TRUE /\ lpc' = AfterEvent /\ next_session_id_' = 1
      BY <3>1, AfterEventIsAPlace
    <3>2. CASE lpc' = "ended" /\ UNCHANGED <<lws_cx_, next_session_id_>>
      BY <3>2
    <3> QED
      BY <1>5, <3>1, <3>2 DEF CreateContext
  <2>2. UNCHANGED <<state_, interrupt_flag_, thread_ptr_, mutex_, session_v_,
                    free_session_id_v_, conn, sid, out, pc, calls>>
    BY <1>5 DEF CreateContext
  <2> QED
    BY <2>1, <2>2
<1>6. CASE Cancelled \/ Pending
  BY <1>6, AfterEventIsAPlace DEF Cancelled, Pending
<1>7. CASE PendingQueue
  BY <1>7 DEF PendingQueue
<1>8. CASE PendingDequeue
  BY <1>8 DEF PendingDequeue, Fails
<1>9. CASE DestroyContext
  BY <1>9 DEF DestroyContext
<1>10. CASE Stopped
  BY <1>10 DEF Stopped, Labels
<1> QED
  BY <1>1, <1>2, <1>3, <1>4, <1>5, <1>6, <1>7, <1>8, <1>9, <1>10 DEF LoopStep, ClientStep

\* The state of the server, its table and its threads has its type always.
THEOREM WebserverTypes == Spec => []TypeOK
<1>1. ASSUME TypeOK, [Next]_vars
      PROVE  TypeOK'
  <2>1. CASE Next
    BY <1>1, <2>1, AppTypes, LoopTypes DEF Next
  <2>2. CASE UNCHANGED vars
    BY <1>1, <2>2 DEF vars, TypeOK, server, table, record, app, loop
  <2> QED
    BY <1>1, <2>1, <2>2
<1> QED
  BY InitTypes, <1>1, PTL DEF Spec

-----------------------------------------------------------------------------
(* The run thread: what the fields of the server say of where it is.             *)

RunThread ==
  /\ thread_ptr_ = None => lpc = "none"
  /\ Threads
  /\ lpc \in {"none", "create", "stopping", "ended"} =>
       ~lws_cx_ /\ \A c \in Conns: conn[c] # "open"
  /\ state_ = "stopped" => lpc \in {"none", "ended"} /\ \A t \in App: pc[t] # "waiting"

\* A step of an application thread that is not the start or the end of the run
\* thread leaves it where it is, and does not make a stopped server a sleeper's.
LEMMA AppRunThread ==
  ASSUME TypeOK, RunThread, NEW t \in App, NewCall(t) \/ AppStep(t)
  PROVE  RunThread'
<1> USE DEF TypeOK, RunThread, Threads, server, table, record, loop, history, app
<1>1. CASE CallStart(t)
  BY <1>1 DEF CallStart, Call
<1>2. CASE CallInterrupt(t)
  BY <1>2 DEF CallInterrupt, Call
<1>3. CASE CallStop(t)
  BY <1>3 DEF CallStop, Call
<1>4. CASE CallJoin(t)
  BY <1>4 DEF CallJoin, Call
<1>5. CASE CallSend(t)
  BY <1>5 DEF CallSend
<1>6. CASE StartThread(t)
  BY <1>6 DEF StartThread, Fails, Return
<1>7. CASE InterruptStep(t)
  <2>1. CASE IntFlag(t)
    BY <2>1 DEF IntFlag, Goto
  <2>2. CASE IntTest(t)
    BY <2>2 DEF IntTest, Goto
  <2>3. CASE IntCancel(t)
    BY <2>3 DEF IntCancel, Fails, Goto
  <2>4. CASE IntState(t)
    BY <2>4 DEF IntState, Return
  <2> QED
    BY <1>7, <2>1, <2>2, <2>3, <2>4 DEF InterruptStep
<1>8. CASE Stop(t)
  BY <1>8 DEF Stop, Return, Goto
<1>9. CASE JoinStep(t)
  <2>1. CASE Join(t)
    BY <2>1 DEF Join, Goto
  <2>2. CASE JoinThread(t)
    BY <2>2 DEF JoinThread, Return
  <2>3. CASE Joined(t)
    BY <2>3 DEF Joined, Fails, Return
  <2> QED
    BY <1>9, <2>1, <2>2, <2>3 DEF JoinStep
<1>10. CASE SendStep(t)
  <2>1. CASE Get(t)
    BY <2>1 DEF Get, Fails
  <2>2. CASE Lock(t)
    BY <2>2 DEF Lock, Fails, Return, Goto
  <2>3. CASE Enqueue(t)
    BY <2>3 DEF Enqueue, Fails, Return
  <2>4. CASE Store(t)
    BY <2>4 DEF Store, Fails, Goto
  <2>5. CASE Wake(t)
    BY <2>5 DEF Wake, Fails, Return
  <2> QED
    BY <1>10, <2>1, <2>2, <2>3, <2>4, <2>5 DEF SendStep
<1> QED
  BY <1>1, <1>2, <1>3, <1>4, <1>5, <1>6, <1>7, <1>8, <1>9, <1>10 DEF NewCall, AppStep

\* The event loop has a context from its creation to its destruction, destroys it
\* without open connections, and publishes the stopped state after that.
LEMMA LoopRunThread ==
  ASSUME TypeOK, RunThread, LoopStep \/ ClientStep
  PROVE  RunThread'
<1> USE DEF RunThread, Threads, server, table, record, loop, history, app
<1>1. ASSUME NEW c \in Conns, Open(c) \/ Close(c) \/ Receive(c) \/ Writeable(c)
      PROVE  RunThread'
  <2>1. /\ lpc \in {"service", "destroy"} /\ lpc' \in {"service", "destroy"}
        /\ UNCHANGED <<state_, thread_ptr_, pc, calls>>
    BY <1>1, AfterEventIsAPlace DEF Open, Close, Receive, Writeable
  <2> QED
    BY <2>1
<1>2. CASE ServiceFails
  BY <1>2 DEF ServiceFails
<1>3. CASE CreateContext
  BY <1>3, AfterEventIsAPlace DEF CreateContext
<1>4. CASE Cancelled
  BY <1>4 DEF Cancelled
<1>5. CASE Pending
  <2>1. /\ lpc = "pending" /\ lpc' \in {"service", "destroy", "pending", "queue"}
        /\ UNCHANGED <<state_, thread_ptr_, pc, calls>>
    BY <1>5, AfterEventIsAPlace DEF Pending
  <2> QED
    BY <2>1
<1>6. CASE PendingQueue
  BY <1>6 DEF PendingQueue
<1>7. CASE PendingDequeue
  BY <1>7 DEF PendingDequeue, Fails
<1>8. CASE DestroyContext
  BY <1>8 DEF DestroyContext
<1>9. CASE Stopped
  BY <1>9 DEF Stopped, TypeOK
<1> QED
  BY <1>1, <1>2, <1>3, <1>4, <1>5, <1>6, <1>7, <1>8, <1>9 DEF LoopStep, ClientStep

LEMMA StepRunThread == TypeOK /\ RunThread /\ [Next]_vars => RunThread'
<1> SUFFICES ASSUME TypeOK, RunThread, [Next]_vars PROVE RunThread'
  OBVIOUS
<1>1. CASE Next
  BY <1>1, AppRunThread, LoopRunThread DEF Next
<1>2. CASE UNCHANGED vars
  BY <1>2 DEF vars, RunThread, Threads, server, table, app, loop
<1> QED
  BY <1>1, <1>2

LEMMA RunThreadAlways == Spec => []RunThread
<1>1. Init => RunThread
  BY DEF Init, RunThread, Threads
<1> QED
  BY <1>1, StepRunThread, WebserverTypes, PTL DEF Spec

\* A server that says it is stopped has no context and no open connection, and its
\* run thread touches neither any more.
THEOREM StoppedMeansQuiet == Spec => []StoppedIsQuiet
<1>1. RunThread => StoppedIsQuiet
  BY DEF RunThread, StoppedIsQuiet
<1> QED
  BY <1>1, RunThreadAlways, PTL

\* No thread is left sleeping in join_webserver once the server is stopped.
THEOREM NobodySleepsWhenStopped == Spec => []NoSleepWhenStopped
<1>1. RunThread => NoSleepWhenStopped
  BY DEF RunThread, NoSleepWhenStopped
<1> QED
  BY <1>1, RunThreadAlways, PTL

\* A call of join_webserver that returns leaves no run thread behind.
THEOREM JoinLeavesNoThread == Spec => JoinEndsThread
<1> DEFINE Ends(t) == pc[t] \in {"join_thread", "joining"} /\ pc'[t] = "idle" => lpc' = "none"
<1>1. ASSUME TypeOK, RunThread, Next, NEW t \in App
      PROVE  Ends(t)
  <2>1. ASSUME NEW u \in App, NewCall(u)
        PROVE  Ends(t)
    <3>1. pc[u] = "idle" /\ \E l \in Labels: pc' = [pc EXCEPT ![u] = l]
      BY <2>1 DEF Labels, NewCall, CallStart, CallInterrupt, CallStop, CallJoin, CallSend, Call
    <3> QED
      BY <3>1, <1>1 DEF TypeOK
  <2>2. ASSUME NEW u \in App, AppStep(u)
        PROVE  Ends(t)
    <3>1. CASE u # t
      <4>1. pc' = pc \/ \E l \in Labels: pc' = [pc EXCEPT ![u] = l]
        <5>1. CASE StartThread(u) \/ InterruptStep(u)
          BY <5>1 DEF StartThread, InterruptStep, IntFlag, IntTest, IntCancel, IntState,
             Fails, Goto, Return, app, Labels
        <5>2. CASE Stop(u) \/ JoinStep(u)
          BY <5>2 DEF Stop, JoinStep, Join, JoinThread, Joined, Fails, Goto, Return, app, Labels
        <5>3. CASE SendStep(u)
          BY <5>3 DEF SendStep, Get, Lock, Enqueue, Store, Wake, Fails, Goto, Return, app, Labels
        <5> QED
          BY <2>2, <5>1, <5>2, <5>3 DEF AppStep
      <4> QED
        BY <3>1, <4>1, <1>1 DEF TypeOK
    <3>2. CASE u = t /\ pc[t] \notin {"join_thread", "joining"}
      BY <3>2
    <3>3. CASE JoinThread(t)
      BY <3>3, <1>1 DEF JoinThread, Return, RunThread, loop, TypeOK
    <3>4. CASE Joined(t)
      BY <3>4, <1>1 DEF Joined, Fails, app, TypeOK
    <3>5. CASE u = t /\ pc[t] \in {"join_thread", "joining"}
      <4>1. JoinThread(t) \/ Joined(t)
        BY <2>2, <3>5 DEF AppStep, StartThread, InterruptStep, IntFlag, IntTest, IntCancel,
             IntState, Stop, JoinStep, Join, SendStep, Get, Lock, Enqueue, Store, Wake
      <4> QED
        BY <4>1, <3>3, <3>4
    <3> QED
      BY <3>1, <3>2, <3>5
  <2>3. CASE LoopStep
    <3>1. pc' = pc \/ pc' = [u \in App |-> IF pc[u] = "waiting" THEN "join" ELSE pc[u]]
      BY <2>3 DEF LoopStep, CreateContext, Cancelled, Pending, PendingQueue, PendingDequeue,
           DestroyContext, Stopped, Fails, app
    <3> QED
      BY <3>1
  <2>4. CASE ClientStep
    BY <2>4 DEF ClientStep, ServiceFails, Open, Close, Receive, Writeable, app
  <2> QED
    BY <1>1, <2>1, <2>2, <2>3, <2>4 DEF Next
<1>2. ASSUME UNCHANGED vars, NEW t \in App
      PROVE  Ends(t)
  BY <1>2 DEF vars, app
<1>3. TypeOK /\ RunThread /\ [Next]_vars =>
        [\A t \in App: pc[t] \in {"join_thread", "joining"} /\ pc'[t] = "idle" => lpc' = "none"]_vars
  BY <1>1, <1>2
<1> QED
  BY <1>3, WebserverTypes, RunThreadAlways, PTL DEF Spec, JoinEndsThread

-----------------------------------------------------------------------------
(* The session table: a record is at the place its session id says, and has an    *)
(* output buffer only while its connection is open.                               *)

Placed == \A i \in DOMAIN session_v_:
  LET r == session_v_[i] IN
    r # None => /\ r \in Conns /\ conn[r] # "new" /\ sid[r] = i
                /\ out[r] => conn[r] = "open"

LEMMA OpenPlaced ==
  ASSUME TypeOK, Placed, NEW c \in Conns, Open(c)
  PROVE  Placed'
<1>1. /\ sid' = [sid EXCEPT ![c] = next_session_id_]
      /\ conn' = [conn EXCEPT ![c] = "open"]
      /\ out' = [out EXCEPT ![c] = TRUE]
      /\ conn[c] = "new"
  BY DEF Open
<1>2. ASSUME NEW i \in DOMAIN session_v_', session_v_'[i] # None
      PROVE  LET r == session_v_'[i] IN
             /\ r \in Conns /\ conn'[r] # "new" /\ sid'[r] = i
             /\ out'[r] => conn'[r] = "open"
  <2>1. CASE i = next_session_id_ /\ session_v_'[i] = c
    BY <1>1, <2>1 DEF TypeOK
  <2>2. CASE i \in DOMAIN session_v_ /\ session_v_'[i] = session_v_[i]
    <3>1. session_v_[i] \in Conns /\ conn[session_v_[i]] # "new" /\ sid[session_v_[i]] = i
          /\ (out[session_v_[i]] => conn[session_v_[i]] = "open")
      BY <1>2, <2>2 DEF Placed
    <3>2. session_v_[i] # c
      BY <3>1, <1>1
    <3> QED
      BY <1>1, <2>2, <3>1, <3>2 DEF TypeOK
  <2> QED
    BY <1>2, <2>1, <2>2, OpenTable
<1> QED
  BY <1>2 DEF Placed

LEMMA ClosePlaced ==
  ASSUME TypeOK, Placed, NEW c \in Conns, Close(c)
  PROVE  Placed'
<1>1. /\ conn' = [conn EXCEPT ![c] = "closed"]
      /\ out' = [out EXCEPT ![session_v_[sid[c]]] = FALSE]
      /\ UNCHANGED <<session_v_, sid>>
  BY DEF Close
<1>2. ASSUME NEW i \in DOMAIN session_v_, session_v_[i] # None
      PROVE  LET r == session_v_[i] IN
             /\ r \in Conns /\ conn'[r] # "new" /\ sid'[r] = i
             /\ out'[r] => conn'[r] = "open"
  <2>1. /\ session_v_[i] \in Conns /\ conn[session_v_[i]] # "new" /\ sid[session_v_[i]] = i
        /\ (out[session_v_[i]] => conn[session_v_[i]] = "open")
    BY <1>2 DEF Placed
  <2>2. CASE session_v_[i] = c
    BY <1>1, <2>1, <2>2 DEF TypeOK
  <2>3. CASE session_v_[i] # c
    BY <1>1, <2>1, <2>3 DEF TypeOK
  <2> QED
    BY <2>2, <2>3
<1> QED
  BY <1>1, <1>2 DEF Placed

LEMMA StepPlaced == TypeOK /\ Placed /\ [Next]_vars => Placed'
<1> SUFFICES ASSUME TypeOK, Placed, [Next]_vars PROVE Placed'
  OBVIOUS
<1> DEFINE Same == UNCHANGED <<session_v_, conn, sid, out>>
<1>1. Same => Placed'
  BY DEF Placed
<1>2. ASSUME NEW t \in App, NewCall(t) \/ AppStep(t)
      PROVE  Same
  <2>1. CASE NewCall(t)
    BY <2>1 DEF NewCall, CallStart, CallInterrupt, CallStop, CallJoin, CallSend, table, record
  <2>2. CASE AppStep(t)
    BY <2>2 DEF AppStep, StartThread, InterruptStep, IntFlag, IntTest, IntCancel, IntState, Stop,
         JoinStep, Join, JoinThread, Joined, SendStep, Get, Lock, Enqueue, Store, Wake,
         Fails, table, record
  <2> QED
    BY <1>2, <2>1, <2>2
<1>3. LoopStep \/ ServiceFails => Same
  BY DEF LoopStep, CreateContext, Cancelled, Pending, PendingQueue, PendingDequeue,
     DestroyContext, Stopped, ServiceFails, Fails, table, record
<1>4. ASSUME NEW c \in Conns, Receive(c) \/ Writeable(c)
      PROVE  Same
  BY <1>4 DEF Receive, Writeable, table, record
<1>5. CASE Next
  BY <1>1, <1>2, <1>3, <1>4, <1>5, OpenPlaced, ClosePlaced DEF Next, ClientStep
<1>6. CASE UNCHANGED vars
  BY <1>1, <1>6 DEF vars, table, record
<1> QED
  BY <1>5, <1>6

LEMMA PlacedAlways == Spec => []Placed
<1>1. Init => Placed
  BY DEF Init, Placed
<1> QED
  BY <1>1, StepPlaced, WebserverTypes, PTL DEF Spec

\* The event loop, which goes through every record of the table, finds no output
\* buffer that was deleted with its connection.
THEOREM OutputStaysLive == Spec => []OutputIsLive
<1>1. Placed => OutputIsLive
  BY DEF Placed, OutputIsLive
<1> QED
  BY <1>1, PlacedAlways, PTL

-----------------------------------------------------------------------------
(* Messages: what a session took is where NothingLost says, because a thread that  *)
(* was told that the output buffer is free holds the mutex until it has filled it. *)

LEMMA JoinSet ==
  ASSUME NEW u \in Seq(Nat), NEW v \in Seq(Nat)
  PROVE  ToSet(u \o v) = ToSet(u) \cup ToSet(v)
<1>1. /\ u \o v \in Seq(Nat) /\ Len(u \o v) = Len(u) + Len(v)
      /\ \A i \in 1 .. Len(u \o v): (u \o v)[i] = IF i <= Len(u) THEN u[i] ELSE v[i - Len(u)]
      /\ Len(u) \in Nat /\ Len(v) \in Nat
  OBVIOUS
<1>2. /\ DOMAIN u = 1 .. Len(u) /\ DOMAIN v = 1 .. Len(v) /\ DOMAIN (u \o v) = 1 .. Len(u \o v)
  BY <1>1
<1>3. ASSUME NEW i \in DOMAIN (u \o v)
      PROVE  (u \o v)[i] \in ToSet(u) \cup ToSet(v)
  <2>1. CASE i <= Len(u)
    BY <1>1, <1>2, <2>1 DEF ToSet
  <2>2. CASE ~(i <= Len(u))
    <3>1. i - Len(u) \in DOMAIN v /\ (u \o v)[i] = v[i - Len(u)]
      BY <1>1, <1>2, <2>2
    <3> QED
      BY <3>1 DEF ToSet
  <2> QED
    BY <2>1, <2>2
<1>4. ASSUME NEW i \in DOMAIN u
      PROVE  u[i] \in ToSet(u \o v)
  <2>1. i \in DOMAIN (u \o v) /\ (u \o v)[i] = u[i]
    BY <1>1, <1>2
  <2> QED
    BY <2>1 DEF ToSet
<1>5. ASSUME NEW i \in DOMAIN v
      PROVE  v[i] \in ToSet(u \o v)
  <2>1. /\ i \in Nat /\ i + Len(u) \in 1 .. Len(u \o v) /\ ~(i + Len(u) <= Len(u))
        /\ (i + Len(u)) - Len(u) = i
    BY <1>1, <1>2
  <2>2. i + Len(u) \in DOMAIN (u \o v) /\ (u \o v)[i + Len(u)] = v[i]
    BY <1>1, <1>2, <2>1
  <2> QED
    BY <2>2 DEF ToSet
<1>6. \A x \in ToSet(u \o v): x \in ToSet(u) \cup ToSet(v)
  BY <1>3 DEF ToSet
<1>7. \A x \in ToSet(u) \cup ToSet(v): x \in ToSet(u \o v)
  BY <1>4, <1>5 DEF ToSet
<1> QED
  BY <1>6, <1>7

LEMMA JoinedSequences ==
  ASSUME NEW w \in Seq(Nat), NEW s \in Seq(Nat), NEW q \in Seq(Nat)
  PROVE  /\ ToSet(w \o s \o q) = ToSet(w) \cup ToSet(s) \cup ToSet(q)
         /\ Len(w \o s \o q) = Len(w) + Len(s) + Len(q)
<1>1. w \o s \in Seq(Nat)
  OBVIOUS
<1>2. ToSet(w \o s) = ToSet(w) \cup ToSet(s)
  BY JoinSet
<1>3. ToSet((w \o s) \o q) = ToSet(w \o s) \cup ToSet(q)
  BY <1>1, JoinSet, Zenon
<1>4. Len((w \o s) \o q) = Len(w) + Len(s) + Len(q)
  OBVIOUS
<1> QED
  BY <1>2, <1>3, <1>4

LEMMA ShortSequences ==
  /\ \A m \in Nat: ToSet(<<m>>) = {m} /\ <<m>> \in Seq(Nat) /\ Len(<<m>>) = 1
  /\ ToSet(<<>>) = {} /\ <<>> \in Seq(Nat) /\ Len(<<>>) = 0
<1>1. ASSUME NEW m \in Nat
      PROVE  ToSet(<<m>>) = {m} /\ <<m>> \in Seq(Nat) /\ Len(<<m>>) = 1
  <2>1. DOMAIN <<m>> = {1} /\ <<m>>[1] = m
    OBVIOUS
  <2>2. ToSet(<<m>>) = {m}
    BY <2>1 DEF ToSet
  <2> QED
    BY <2>2
<1>2. ToSet(<<>>) = {} /\ <<>> \in Seq(Nat) /\ Len(<<>>) = 0
  <2>1. ToSet(<<>>) = {}
    BY DEF ToSet
  <2> QED
    BY <2>1
<1> QED
  BY <1>1, <1>2

LEMMA AppendSet ==
  ASSUME NEW q \in Seq(Nat), NEW m \in Nat
  PROVE  /\ ToSet(Append(q, m)) = ToSet(q) \cup {m}
         /\ Append(q, m) \in Seq(Nat) /\ Len(Append(q, m)) = Len(q) + 1
<1>1. <<m>> \in Seq(Nat) /\ ToSet(<<m>>) = {m}
  BY ShortSequences
<1>2. ToSet(q \o <<m>>) = ToSet(q) \cup {m}
  BY <1>1, JoinSet
<1>3. Append(q, m) = q \o <<m>>
  BY AppendIsConcat
<1> QED
  BY <1>2, <1>3

LEMMA HeadTailSet ==
  ASSUME NEW q \in Seq(Nat), q # <<>>
  PROVE  /\ Head(q) \in Nat /\ Tail(q) \in Seq(Nat) /\ Len(Tail(q)) = Len(q) - 1
         /\ ToSet(q) = {Head(q)} \cup ToSet(Tail(q))
<1>1. /\ Head(q) \in Nat /\ Tail(q) \in Seq(Nat) /\ Len(Tail(q)) = Len(q) - 1
      /\ \A i \in 1 .. Len(q) - 1: Tail(q)[i] = q[i + 1]
      /\ Len(q) \in Nat /\ Len(q) > 0 /\ Head(q) = q[1]
  BY HeadTailProperties, EmptySeq
<1>2. DOMAIN q = 1 .. Len(q) /\ DOMAIN Tail(q) = 1 .. Len(q) - 1
  BY <1>1
<1>3. ASSUME NEW i \in DOMAIN q
      PROVE  q[i] \in {Head(q)} \cup ToSet(Tail(q))
  <2>1. CASE i = 1
    BY <1>1, <2>1
  <2>2. CASE i # 1
    <3>1. i - 1 \in DOMAIN Tail(q) /\ Tail(q)[i - 1] = q[i]
      BY <1>1, <1>2, <2>2
    <3> QED
      BY <3>1 DEF ToSet
  <2> QED
    BY <2>1, <2>2
<1>4. ASSUME NEW i \in DOMAIN Tail(q)
      PROVE  Tail(q)[i] \in ToSet(q)
  <2>1. i + 1 \in DOMAIN q /\ Tail(q)[i] = q[i + 1]
    BY <1>1, <1>2
  <2> QED
    BY <2>1 DEF ToSet
<1>5. Head(q) \in ToSet(q)
  <2>1. 1 \in DOMAIN q
    BY <1>1, <1>2
  <2> QED
    BY <1>1, <2>1 DEF ToSet
<1>6. \A x \in ToSet(q): x \in {Head(q)} \cup ToSet(Tail(q))
  BY <1>3 DEF ToSet
<1>7. \A x \in ToSet(Tail(q)): x \in ToSet(q)
  BY <1>4 DEF ToSet
<1> QED
  BY <1>1, <1>5, <1>6, <1>7
-----------------------------------------------------------------------------
(* The strengthening of NothingLost.                                              *)

Speaking == {"get", "lock", "enqueue", "store"}   \* a thread with a message to place
Serving == {"service", "pending", "queue", "dequeue", "destroy"}

MessageTypes ==
  /\ sends \in Nat /\ at \in Nat
  /\ arg = [u \in App |-> arg[u]]
  /\ rmutex \in [Conns -> App \cup {Nobody}]
  /\ subscribed \in [Conns -> BOOLEAN]
  /\ queue \in [Conns -> Seq(Nat)] /\ wire \in [Conns -> Seq(Nat)]
  /\ obuf \in [Conns -> [writeable: BOOLEAN, busy: BOOLEAN, text: Nat]]
  /\ accepted \in [Conns -> SUBSET (1 .. sends)]

\* a connection finds a record under its session id, its own or, after a restart,
\* the one of a connection that got the same id; the loop is at a record
Seated ==
  /\ lpc \in Serving => next_session_id_ # 0
  /\ free_session_id_v_ \in Seq(Nat \ {0})
  /\ \A c \in Conns: conn[c] # "new" => sid[c] \in DOMAIN session_v_ /\ session_v_[sid[c]] # None
  /\ \A c \in Conns: subscribed[c] => conn[c] # "new"

LoopPlace ==
  /\ lpc = "pending" => at >= 1
  /\ lpc \in {"queue", "dequeue"} => at \in DOMAIN session_v_ /\ session_v_[at] # None
  /\ lpc = "dequeue" => queue[session_v_[at]] # <<>>

\* a sender keeps the record it found; with the mutex of that record it goes by
\* what it read of the buffer; its message is nowhere yet
Sender(t) ==
  /\ pc[t] = "get" => arg[t].id \in DOMAIN session_v_ /\ session_v_[arg[t].id] # None
  /\ pc[t] \in {"lock", "enqueue", "store", "wake"} => arg[t].rec \in Conns /\ conn[arg[t].rec] # "new"
  /\ pc[t] \in {"enqueue", "store"} => rmutex[arg[t].rec] = t
  /\ pc[t] = "store" => ~obuf[arg[t].rec].busy
  /\ pc[t] \in Speaking => arg[t].m \in 1 .. sends /\ \A c \in Conns: arg[t].m \notin accepted[c]

Senders == \A t \in App: Sender(t)

OwnMessages == \A t, u \in App:
  t # u /\ pc[t] \in Speaking /\ pc[u] \in Speaking => arg[t].m # arg[u].m

StagedSet(c) == IF obuf[c].busy /\ obuf[c].writeable THEN {obuf[c].text} ELSE {}
StagedLen(c) == IF obuf[c].busy /\ obuf[c].writeable THEN 1 ELSE 0

HeldSet(c) == ToSet(wire[c]) \cup StagedSet(c) \cup ToSet(queue[c])
HeldLen(c) == Len(wire[c]) + StagedLen(c) + Len(queue[c])

\* a session holds what it took, once; when its record was replaced, some of it
Session(c) ==
  /\ conn[c] = "new" => /\ obuf[c] = NoBuffer /\ queue[c] = <<>> /\ wire[c] = <<>>
                        /\ accepted[c] = {}
  /\ conn[c] = "open" =>
       /\ obuf[c].busy \/ obuf[c].writeable
       /\ HeldSet(c) \subseteq accepted[c]
       /\ HeldLen(c) = Cardinality(HeldSet(c))
       /\ ~Freed(c) => HeldSet(c) = accepted[c]

Sessions == \A c \in Conns: Session(c)

MessageInv ==
  /\ MessageTypes /\ Seated /\ LoopPlace
  /\ Senders /\ OwnMessages /\ Sessions

\* The table only grows, and a connection that opened does not become new again.
TableGrows ==
  /\ \A i \in DOMAIN session_v_: session_v_[i] # None =>
       i \in DOMAIN session_v_' /\ session_v_'[i] # None
  /\ \A c \in Conns: conn[c] # "new" => conn'[c] # "new"

LEMMA SenderKept ==
  ASSUME NEW t \in App, Sender(t), TableGrows, sends \in Nat, sends' \in Nat, sends' >= sends,
         \/ pc'[t] = pc[t] /\ arg'[t] = arg[t]
         \/ pc'[t] \notin Speaking \cup {"wake"},
         \A c \in Conns: rmutex[c] = t => rmutex'[c] = t /\ (~obuf[c].busy => ~obuf'[c].busy),
         pc[t] \in Speaking => \A c \in Conns: arg[t].m \notin accepted[c] => arg[t].m \notin accepted'[c]
  PROVE  Sender(t)'
<1>1. CASE pc'[t] \notin Speaking \cup {"wake"}
  BY <1>1 DEF Sender, Speaking
<1>2. CASE pc'[t] = pc[t] /\ arg'[t] = arg[t]
  <2>1. pc[t] = "get" => arg[t].id \in DOMAIN session_v_' /\ session_v_'[arg[t].id] # None
    BY DEF Sender, TableGrows
  <2>2. pc[t] \in {"lock", "enqueue", "store", "wake"} => arg[t].rec \in Conns /\ conn'[arg[t].rec] # "new"
    BY DEF Sender, TableGrows
  <2>3. /\ pc[t] \in {"enqueue", "store"} => rmutex'[arg[t].rec] = t
        /\ pc[t] = "store" => ~obuf'[arg[t].rec].busy
    BY DEF Sender
  <2>4. pc[t] \in Speaking => arg[t].m \in 1 .. sends' /\ \A c \in Conns: arg[t].m \notin accepted'[c]
    BY DEF Sender
  <2> QED
    BY <1>2, <2>1, <2>2, <2>3, <2>4 DEF Sender
<1> QED
  BY <1>1, <1>2

LEMMA OwnMessagesKept ==
  ASSUME OwnMessages,
         \A u \in App: pc'[u] \in Speaking => pc[u] \in Speaking /\ arg'[u].m = arg[u].m
  PROVE  OwnMessages'
  BY DEF OwnMessages

\* What a session holds when nothing of it changes.
LEMMA SessionKept ==
  ASSUME NEW c \in Conns, Session(c), obuf'[c] = obuf[c], queue'[c] = queue[c],
         wire'[c] = wire[c], accepted'[c] = accepted[c], conn'[c] = conn[c],
         conn[c] = "open" /\ Freed(c) => Freed(c)'
  PROVE  Session(c)'
<1>1. HeldSet(c)' = HeldSet(c) /\ HeldLen(c)' = HeldLen(c)
  BY DEF HeldSet, HeldLen, StagedSet, StagedLen
<1> QED
  BY ONLY Session(c), <1>1, obuf'[c] = obuf[c], queue'[c] = queue[c], wire'[c] = wire[c],
          accepted'[c] = accepted[c], conn'[c] = conn[c],
          conn[c] = "open" /\ Freed(c) => Freed(c)' DEF Session

\* What an open session holds moves from one place to another.
LEMMA SessionMoves ==
  ASSUME NEW c \in Conns, Session(c), conn[c] = "open", conn'[c] = "open",
         HeldSet(c)' = HeldSet(c), HeldLen(c)' = HeldLen(c), accepted'[c] = accepted[c],
         obuf'[c].busy \/ obuf'[c].writeable, Freed(c) => Freed(c)'
  PROVE  Session(c)'
  BY ONLY Session(c), conn[c] = "open", conn'[c] = "open",
          HeldSet(c)' = HeldSet(c), HeldLen(c)' = HeldLen(c), accepted'[c] = accepted[c],
          obuf'[c].busy \/ obuf'[c].writeable, Freed(c) => Freed(c)' DEF Session

\* One message more is one member more.
LEMMA OneMore ==
  ASSUME NEW n \in Nat, NEW A \in SUBSET (1 .. n), NEW m, m \notin A
  PROVE  Cardinality(A \cup {m}) = Cardinality(A) + 1 /\ Cardinality(A) \in Nat
<1>1. IsFiniteSet(1 .. n)
  BY FS_Interval
<1>2. IsFiniteSet(A)
  BY <1>1, FS_Subset
<1> QED
  BY <1>2, FS_AddElement, FS_CardinalityType

\* An open session takes a message that it did not have.
LEMMA SessionTakes ==
  ASSUME NEW c \in Conns, Session(c), conn[c] = "open", conn'[c] = "open",
         sends \in Nat, accepted[c] \subseteq 1 .. sends, NEW m, m \notin accepted[c],
         HeldSet(c)' = HeldSet(c) \cup {m}, HeldLen(c)' = HeldLen(c) + 1,
         accepted'[c] = accepted[c] \cup {m},
         obuf'[c].busy \/ obuf'[c].writeable, Freed(c) => Freed(c)'
  PROVE  Session(c)'
<1>1. PICK h: h = HeldSet(c)
  OBVIOUS
<1>2. /\ h \subseteq accepted[c] /\ HeldLen(c) = Cardinality(h)
      /\ ~Freed(c) => h = accepted[c]
  BY <1>1 DEF Session
<1>3. Cardinality(h \cup {m}) = Cardinality(h) + 1
  BY <1>2, OneMore
<1>4. /\ HeldSet(c)' \subseteq accepted'[c] /\ HeldLen(c)' = Cardinality(HeldSet(c)')
      /\ ~Freed(c)' => HeldSet(c)' = accepted'[c]
  BY <1>1, <1>2, <1>3
<1> QED
  BY ONLY <1>4, conn'[c] = "open", obuf'[c].busy \/ obuf'[c].writeable DEF Session

\* Steps that leave sessions alone, and senders, but for one that has nothing to say.
LEMMA Aside ==
  ASSUME MessageInv, MessageTypes', Seated', LoopPlace',
         UNCHANGED <<conn, sid, session_v_, obuf, queue, wire, accepted, rmutex, sends>>,
         \A u \in App: \/ pc'[u] = pc[u] /\ arg'[u] = arg[u]
                       \/ pc'[u] \notin Speaking \cup {"wake"}
  PROVE  MessageInv'
<1>1. TableGrows
  BY DEF TableGrows
<1>2. sends \in Nat /\ sends' \in Nat /\ sends' >= sends
  BY DEF MessageInv, MessageTypes
<1>3. ASSUME NEW t \in App
      PROVE  Sender(t)'
  <2>1. Sender(t)
    BY DEF MessageInv, Senders
  <2> QED
    BY <1>1, <1>2, <2>1, SenderKept
<1>4. OwnMessages'
  BY OwnMessagesKept DEF MessageInv
<1>5. ASSUME NEW c \in Conns
      PROVE  Session(c)'
  <2>1. Session(c) /\ (Freed(c) => Freed(c)')
    BY DEF MessageInv, Sessions, Freed
  <2> QED
    BY <2>1, SessionKept
<1> QED
  BY <1>3, <1>4, <1>5 DEF MessageInv, Senders, Sessions

\* Steps of the application threads that are not about messages.
LEMMA OtherCalls ==
  ASSUME TypeOK, MessageInv, NEW t \in App,
         \/ CallStart(t) \/ CallInterrupt(t) \/ CallStop(t) \/ CallJoin(t)
         \/ StartThread(t) \/ InterruptStep(t) \/ Stop(t) \/ JoinStep(t)
  PROVE  MessageInv'
<1> DEFINE Same == UNCHANGED <<session_v_, free_session_id_v_, next_session_id_, conn, sid,
                              rmutex, out, subscribed, queue, obuf, at, accepted, wire, sends>>
           Turn == \E l \in Labels \ (Speaking \cup {"wake"}): pc' = [pc EXCEPT ![t] = l]
           Args == arg' = arg \/ \E a: arg' = [arg EXCEPT ![t] = a]
           Moves == lpc' = lpc \/ lpc' \in {"create", "none"}
<1>1. Same /\ Moves /\ ((pc' = pc /\ arg' = arg) \/ (Turn /\ Args))
  <2> USE DEF table, record, loop, history, app, Labels, Speaking
  <2>1. CASE CallStart(t) \/ CallInterrupt(t) \/ CallStop(t) \/ CallJoin(t)
    BY <2>1 DEF CallStart, CallInterrupt, CallStop, CallJoin, Call
  <2>2. CASE StartThread(t)
    BY <2>2 DEF StartThread, Fails, Return
  <2>3. CASE InterruptStep(t)
    BY <2>3 DEF InterruptStep, IntFlag, IntTest, IntCancel, IntState, Fails, Return, Goto
  <2>4. CASE Stop(t)
    BY <2>4 DEF Stop, Return, Goto
  <2>5. CASE JoinStep(t)
    <3>1. CASE Join(t)
      BY <3>1 DEF Join, Goto
    <3>2. CASE JoinThread(t)
      BY <3>2 DEF JoinThread, Return
    <3>3. CASE Joined(t)
      BY <3>3 DEF Joined, Fails, Return
    <3> QED
      BY <2>5, <3>1, <3>2, <3>3 DEF JoinStep
  <2> QED
    BY <2>1, <2>2, <2>3, <2>4, <2>5
<1>2. /\ arg' = [u \in App |-> arg'[u]]
      /\ \A u \in App: \/ pc'[u] = pc[u] /\ arg'[u] = arg[u]
                       \/ pc'[u] \notin Speaking \cup {"wake"}
  <2>0. arg = [u \in App |-> arg[u]] /\ pc \in [App -> Labels]
    BY DEF MessageInv, MessageTypes, TypeOK
  <2>1. /\ arg' = [u \in App |-> arg'[u]]
        /\ \A u \in App \ {t}: arg'[u] = arg[u]
    <3>1. CASE arg' = arg
      BY <2>0, <3>1
    <3>2. CASE \E a: arg' = [arg EXCEPT ![t] = a]
      BY <2>0, <3>2
    <3> QED
      BY <1>1, <3>1, <3>2
  <2>2. CASE pc' = pc /\ arg' = arg
    BY <2>1, <2>2
  <2>3. CASE Turn
    BY <2>0, <2>1, <2>3
  <2> QED
    BY <1>1, <2>2, <2>3
<1>3. MessageTypes'
  BY <1>1, <1>2 DEF MessageInv, MessageTypes
<1>4. Seated' /\ LoopPlace'
  BY <1>1 DEF MessageInv, Seated, LoopPlace, Serving
<1> QED
  BY <1>1, <1>2, <1>3, <1>4, Aside

LEMMA SendCall ==
  ASSUME TypeOK, MessageInv, NEW t \in App, CallSend(t)
  PROVE  MessageInv'
<1> USE DEF table, record, loop, history
<1>1. PICK c \in Conns:
        /\ subscribed[c] /\ pc[t] = "idle" /\ sends' = sends + 1
        /\ pc' = [pc EXCEPT ![t] = "get"]
        /\ arg' = [arg EXCEPT ![t] = [m |-> sends + 1, id |-> sid[c], size |-> Len(session_v_)]]
        /\ UNCHANGED <<table, record, obuf, loop, history>>
  BY DEF CallSend
<1>2. /\ arg = [u \in App |-> arg[u]] /\ pc \in [App -> Labels] /\ sends \in Nat
      /\ \A d \in Conns: accepted[d] \subseteq 1 .. sends
  BY DEF MessageInv, MessageTypes, TypeOK
<1>3. /\ arg'[t].m = sends + 1 /\ arg'[t].id = sid[c] /\ pc'[t] = "get"
      /\ arg' = [u \in App |-> arg'[u]]
      /\ \A u \in App \ {t}: pc'[u] = pc[u] /\ arg'[u] = arg[u]
  BY <1>1, <1>2
<1>4. MessageTypes'
  <2>1. accepted \in [Conns -> SUBSET (1 .. sends')] /\ sends' \in Nat
    BY <1>1, <1>2 DEF MessageInv, MessageTypes
  <2> QED
    BY <1>1, <1>3, <2>1 DEF MessageInv, MessageTypes
<1>5. Seated' /\ LoopPlace'
  BY <1>1 DEF MessageInv, Seated, LoopPlace, Serving
<1>6. TableGrows
  BY <1>1 DEF TableGrows
<1>7. ASSUME NEW u \in App
      PROVE  Sender(u)'
  <2>1. CASE u = t
    <3>1. sid[c] \in DOMAIN session_v_ /\ session_v_[sid[c]] # None
      BY <1>1 DEF MessageInv, Seated
    <3>2. sends + 1 \in 1 .. sends' /\ \A d \in Conns: sends + 1 \notin accepted[d]
      BY <1>1, <1>2
    <3> QED
      BY <1>1, <1>3, <2>1, <3>1, <3>2 DEF Sender, Speaking
  <2>2. CASE u # t
    <3>1. Sender(u)
      BY DEF MessageInv, Senders
    <3>2. sends' \in Nat /\ sends' >= sends /\ pc'[u] = pc[u] /\ arg'[u] = arg[u]
      BY <1>1, <1>2, <1>3, <2>2
    <3>3. UNCHANGED <<rmutex, obuf, accepted>>
      BY <1>1
    <3> QED
      BY <1>2, <1>6, <3>1, <3>2, <3>3, SenderKept
  <2> QED
    BY <2>1, <2>2
<1>8. OwnMessages'
  <2>1. \A u \in App \ {t}: pc[u] \in Speaking => arg[u].m \in 1 .. sends
    BY DEF MessageInv, Senders, Sender
  <2>2. ASSUME NEW u \in App, NEW v \in App, u # v, pc'[u] \in Speaking, pc'[v] \in Speaking
        PROVE  arg'[u].m # arg'[v].m
    <3>1. CASE u = t
      BY <1>2, <1>3, <2>1, <2>2, <3>1
    <3>2. CASE v = t
      BY <1>2, <1>3, <2>1, <2>2, <3>2
    <3>3. CASE u # t /\ v # t
      BY <1>3, <2>2, <3>3 DEF MessageInv, OwnMessages
    <3> QED
      BY <3>1, <3>2, <3>3
  <2> QED
    BY <2>2 DEF OwnMessages
<1>9. ASSUME NEW d \in Conns
      PROVE  Session(d)'
  <2>1. Session(d)
    BY DEF MessageInv, Sessions
  <2>2. UNCHANGED <<obuf, queue, wire, accepted, conn>> /\ (Freed(d) => Freed(d)')
    BY <1>1 DEF Freed
  <2> QED
    BY <2>1, <2>2, SessionKept
<1> QED
  BY <1>4, <1>5, <1>7, <1>8, <1>9 DEF MessageInv, Senders, Sessions

\* A sender that moves on by itself: the others, the sessions and the types stay.
LEMMA SenderMoves ==
  ASSUME TypeOK, MessageInv, NEW t \in App, NEW l \in Labels, NEW a,
         pc' = [pc EXCEPT ![t] = l], arg' = [arg EXCEPT ![t] = a],
         rmutex' \in [Conns -> App \cup {Nobody}],
         \A c \in Conns: rmutex[c] \in App \ {t} => rmutex'[c] = rmutex[c],
         UNCHANGED <<session_v_, free_session_id_v_, next_session_id_, conn, sid, subscribed,
                     queue, obuf, at, lpc, accepted, wire, sends>>,
         \/ l \notin Speaking \cup {"wake"}
         \/ Sender(t)' /\ (l \in Speaking => pc[t] \in Speaking /\ a.m = arg[t].m)
  PROVE  MessageInv'
<1>1. /\ arg = [u \in App |-> arg[u]] /\ pc \in [App -> Labels] /\ sends \in Nat
  BY DEF MessageInv, MessageTypes, TypeOK
<1>2. /\ pc'[t] = l /\ arg'[t] = a /\ arg' = [u \in App |-> arg'[u]]
      /\ \A u \in App \ {t}: pc'[u] = pc[u] /\ arg'[u] = arg[u]
  BY <1>1
<1>3. MessageTypes'
  BY <1>2 DEF MessageInv, MessageTypes
<1>4. Seated' /\ LoopPlace' /\ TableGrows
  BY DEF MessageInv, Seated, LoopPlace, Serving, TableGrows
<1>5. ASSUME NEW u \in App
      PROVE  Sender(u)'
  <2>1. CASE u = t
    BY <1>2, <2>1 DEF Sender, Speaking
  <2>2. CASE u # t
    <3>1. Sender(u)
      BY DEF MessageInv, Senders
    <3>2. sends' \in Nat /\ sends' >= sends /\ pc'[u] = pc[u] /\ arg'[u] = arg[u]
      BY <1>1, <1>2, <2>2
    <3>3. \A c \in Conns: rmutex[c] = u => rmutex'[c] = u /\ (~obuf[c].busy => ~obuf'[c].busy)
      BY <2>2
    <3> QED
      BY <1>1, <1>4, <3>1, <3>2, <3>3, SenderKept
  <2> QED
    BY <2>1, <2>2
<1>6. \A u \in App: pc'[u] \in Speaking => pc[u] \in Speaking /\ arg'[u].m = arg[u].m
  BY <1>2 DEF Speaking
<1>7. OwnMessages'
  BY <1>6, OwnMessagesKept DEF MessageInv
<1>8. ASSUME NEW d \in Conns
      PROVE  Session(d)'
  <2>1. Session(d) /\ (Freed(d) => Freed(d)')
    BY DEF MessageInv, Sessions, Freed
  <2> QED
    BY <2>1, SessionKept
<1> QED
  BY <1>3, <1>4, <1>5, <1>7, <1>8 DEF MessageInv, Senders, Sessions

LEMMA NothingMoves ==
  ASSUME MessageInv, UNCHANGED <<server, table, record, obuf, app, loop, history>>
  PROVE  MessageInv'
<1> USE DEF table, record, app, loop, history
<1>1. MessageTypes' /\ Seated' /\ LoopPlace'
  BY DEF MessageInv, MessageTypes, Seated, LoopPlace
<1> QED
  BY <1>1, Aside

LEMMA SendGet ==
  ASSUME TypeOK, Placed, MessageInv, NEW t \in App, Get(t)
  PROVE  MessageInv'
<1>1. CASE Fails("wild")
  BY <1>1, NothingMoves DEF Fails
<1>2. CASE ~Fails("wild")
  <2> DEFINE a == [m |-> arg[t].m, rec |-> session_v_[arg[t].id]]
  <2>1. /\ pc[t] = "get"
        /\ pc' = [pc EXCEPT ![t] = "lock"] /\ arg' = [arg EXCEPT ![t] = a]
        /\ UNCHANGED <<table, record, obuf, sends, loop, history>>
    BY <1>2 DEF Get
  <2>2. a.m = arg[t].m /\ a.rec = session_v_[arg[t].id]
    OBVIOUS
  <2>3. Sender(t) /\ arg = [u \in App |-> arg[u]] /\ pc \in [App -> Labels]
    BY DEF MessageInv, Senders, MessageTypes, TypeOK
  <2>4. arg'[t] = a /\ pc'[t] = "lock"
    BY <2>1, <2>3
  <2>5. a.rec \in Conns /\ conn[a.rec] # "new"
    BY <2>1, <2>2, <2>3 DEF Placed, Sender
  <2>6. a.m \in 1 .. sends /\ \A c \in Conns: a.m \notin accepted[c]
    BY <2>1, <2>2, <2>3 DEF Sender, Speaking
  <2> HIDE DEF a
  <2>7. UNCHANGED <<session_v_, free_session_id_v_, next_session_id_, conn, sid, subscribed,
                    queue, obuf, at, lpc, accepted, wire, sends, rmutex>>
    BY <2>1 DEF table, record, loop, history
  <2>8. Sender(t)'
    BY <2>4, <2>5, <2>6, <2>7 DEF Sender, Speaking
  <2>9. rmutex' \in [Conns -> App \cup {Nobody}] /\ "get" \in Speaking /\ "lock" \in Labels
    BY <2>7 DEF MessageInv, MessageTypes, Speaking, Labels
  <2> QED
    BY <2>1, <2>2, <2>7, <2>8, <2>9, SenderMoves
<1> QED
  BY <1>1, <1>2

LEMMA SendLock ==
  ASSUME TypeOK, MessageInv, NEW t \in App, Lock(t)
  PROVE  MessageInv'
<1> DEFINE r == arg[t].rec
<1>1. CASE Fails("wild")
  BY <1>1, NothingMoves DEF Fails
<1>2. CASE ~Fails("wild")
  <2>1. /\ pc[t] = "lock" /\ rmutex[r] = Nobody
        /\ \/ Return(t) /\ UNCHANGED rmutex
           \/ /\ rmutex' = [rmutex EXCEPT ![r] = t]
              /\ Goto(t, IF obuf[r].busy THEN "enqueue" ELSE "store")
        /\ UNCHANGED <<table, subscribed, queue, obuf, loop, history>>
    BY <1>2 DEF Lock
  <2>2. /\ Sender(t) /\ arg = [u \in App |-> arg[u]] /\ pc \in [App -> Labels]
        /\ rmutex \in [Conns -> App \cup {Nobody}]
    BY DEF MessageInv, Senders, MessageTypes, TypeOK
  <2>3. /\ r \in Conns /\ conn[r] # "new" /\ r = arg[t].rec
        /\ arg[t].m \in 1 .. sends /\ \A c \in Conns: arg[t].m \notin accepted[c]
    BY <2>1, <2>2 DEF Sender, Speaking
  <2> HIDE DEF r
  <2>4. UNCHANGED <<session_v_, free_session_id_v_, next_session_id_, conn, sid, subscribed,
                    queue, obuf, at, lpc, accepted, wire>>
    BY <2>1 DEF table, loop, history
  <2>5. CASE Return(t) /\ UNCHANGED rmutex
    <3>1. pc' = [pc EXCEPT ![t] = "idle"] /\ arg' = [arg EXCEPT ![t] = NoArg] /\ UNCHANGED sends
      BY <2>5 DEF Return
    <3>2. "idle" \in Labels /\ "idle" \notin Speaking \cup {"wake"}
      BY DEF Labels, Speaking
    <3> QED
      BY <2>2, <2>4, <2>5, <3>1, <3>2, SenderMoves
  <2>6. CASE /\ rmutex' = [rmutex EXCEPT ![r] = t]
             /\ Goto(t, IF obuf[r].busy THEN "enqueue" ELSE "store")
    <3> DEFINE l == IF obuf[r].busy THEN "enqueue" ELSE "store"
    <3>1. pc' = [pc EXCEPT ![t] = l] /\ arg' = [arg EXCEPT ![t] = arg[t]] /\ arg' = arg
          /\ UNCHANGED sends
      BY <2>2, <2>6 DEF Goto
    <3>2. l \in {"enqueue", "store"} /\ (l = "store" => ~obuf[r].busy)
      OBVIOUS
    <3> HIDE DEF l
    <3>3. l \in Labels /\ l \in Speaking /\ pc[t] \in Speaking
      BY <2>1, <3>2 DEF Labels, Speaking
    <3>4. /\ rmutex' \in [Conns -> App \cup {Nobody}] /\ rmutex'[r] = t
          /\ \A c \in Conns: rmutex[c] \in App \ {t} => rmutex'[c] = rmutex[c]
      BY <2>1, <2>2, <2>3, <2>6, ThreadAssumption
    <3>5. pc'[t] = l
      BY <2>2, <3>1, <3>3
    <3>6. Sender(t)'
      BY <2>3, <2>4, <3>1, <3>2, <3>4, <3>5 DEF Sender, Speaking
    <3> QED
      BY <2>4, <3>1, <3>3, <3>4, <3>6, SenderMoves
  <2> QED
    BY <2>1, <2>5, <2>6
<1> QED
  BY <1>1, <1>2

LEMMA SendWake ==
  ASSUME TypeOK, MessageInv, NEW t \in App, Wake(t)
  PROVE  MessageInv'
<1>1. CASE Fails("wild")
  BY <1>1, NothingMoves DEF Fails
<1>2. CASE ~Fails("wild")
  <2>1. /\ Return(t) /\ UNCHANGED <<table, record, obuf, lpc, at, history>>
    BY <1>2 DEF Wake
  <2>2. UNCHANGED <<session_v_, free_session_id_v_, next_session_id_, conn, sid, subscribed,
                    queue, obuf, at, lpc, accepted, wire, rmutex>>
    BY <2>1 DEF table, record, history
  <2>3. pc' = [pc EXCEPT ![t] = "idle"] /\ arg' = [arg EXCEPT ![t] = NoArg] /\ UNCHANGED sends
    BY <2>1 DEF Return
  <2>4. /\ "idle" \in Labels /\ "idle" \notin Speaking \cup {"wake"}
        /\ rmutex' \in [Conns -> App \cup {Nobody}]
    BY <2>2 DEF Labels, Speaking, MessageInv, MessageTypes
  <2> QED
    BY <2>2, <2>3, <2>4, SenderMoves
<1> QED
  BY <1>1, <1>2

\* A sender with the mutex of a record puts its message into it, and releases it.
Places(t, r, m, l, a) ==
  /\ pc[t] \in {"enqueue", "store"} /\ r = arg[t].rec /\ m = arg[t].m
  /\ l \in {"idle", "wake"} /\ (l = "wake" => a = arg[t])
  /\ pc' = [pc EXCEPT ![t] = l] /\ arg' = [arg EXCEPT ![t] = a]
  /\ rmutex' = [rmutex EXCEPT ![r] = Nobody]
  /\ accepted' = [accepted EXCEPT ![r] = @ \cup {m}]
  /\ queue' \in [Conns -> Seq(Nat)] /\ (queue[r] # <<>> => queue'[r] # <<>>)
  /\ obuf' \in [Conns -> [writeable: BOOLEAN, busy: BOOLEAN, text: Nat]]
  /\ \A c \in Conns \ {r}: queue'[c] = queue[c] /\ obuf'[c] = obuf[c]
  /\ UNCHANGED <<session_v_, free_session_id_v_, next_session_id_, conn, sid, subscribed,
                 at, lpc, wire, sends>>

LEMMA SenderPlaces ==
  ASSUME TypeOK, MessageInv, NEW t \in App, NEW r \in Conns, NEW m, NEW l, NEW a,
         Places(t, r, m, l, a), Session(r)'
  PROVE  MessageInv'
<1> USE DEF Places
<1>1. /\ arg = [u \in App |-> arg[u]] /\ pc \in [App -> Labels] /\ sends \in Nat
      /\ rmutex \in [Conns -> App \cup {Nobody}] /\ accepted \in [Conns -> SUBSET (1 .. sends)]
  BY DEF MessageInv, MessageTypes, TypeOK
<1>2. /\ pc'[t] = l /\ arg'[t] = a /\ arg' = [u \in App |-> arg'[u]]
      /\ \A u \in App \ {t}: pc'[u] = pc[u] /\ arg'[u] = arg[u]
  BY <1>1
<1>3. /\ rmutex[r] = t /\ m \in 1 .. sends /\ \A c \in Conns: m \notin accepted[c]
      /\ conn[r] # "new"
  BY DEF MessageInv, Senders, Sender, Speaking
<1>4. MessageTypes'
  <2>1. accepted' \in [Conns -> SUBSET (1 .. sends')]
    BY <1>1, <1>3
  <2>2. rmutex' \in [Conns -> App \cup {Nobody}]
    BY <1>1
  <2> QED
    BY <1>2, <2>1, <2>2 DEF MessageInv, MessageTypes
<1>5. Seated' /\ TableGrows
  BY DEF MessageInv, Seated, Serving, TableGrows
<1>6. LoopPlace'
  <2>1. \A c: queue[c] # <<>> => queue'[c] # <<>> \/ c \notin Conns
    OBVIOUS
  <2>2. lpc \in {"queue", "dequeue"} => session_v_[at] \in Conns
    BY DEF MessageInv, LoopPlace, TypeOK
  <2> QED
    BY <2>1, <2>2 DEF MessageInv, LoopPlace
<1>7. ASSUME NEW u \in App
      PROVE  Sender(u)'
  <2>1. CASE u = t
    <3>1. l = "wake" => arg'[t].rec = r
      BY <1>2
    <3> QED
      BY <1>2, <1>3, <2>1, <3>1 DEF Sender, Speaking
  <2>2. CASE u # t
    <3>1. Sender(u)
      BY DEF MessageInv, Senders
    <3>2. sends' \in Nat /\ sends' >= sends /\ pc'[u] = pc[u] /\ arg'[u] = arg[u]
      BY <1>1, <1>2, <2>2
    <3>3. \A c \in Conns: rmutex[c] = u => rmutex'[c] = u /\ (~obuf[c].busy => ~obuf'[c].busy)
      BY <1>1, <1>3, <2>2
    <3>4. pc[u] \in Speaking => arg[u].m # m
      BY <2>2 DEF MessageInv, OwnMessages, Speaking
    <3>5. pc[u] \in Speaking => \A c \in Conns: arg[u].m \notin accepted[c] => arg[u].m \notin accepted'[c]
      BY <1>1, <3>4
    <3> QED
      BY <1>1, <1>5, <3>1, <3>2, <3>3, <3>5, SenderKept
  <2> QED
    BY <2>1, <2>2
<1>8. OwnMessages'
  <2>1. \A u \in App: pc'[u] \in Speaking => pc[u] \in Speaking /\ arg'[u].m = arg[u].m
    BY <1>2 DEF Speaking
  <2> QED
    BY <2>1, OwnMessagesKept DEF MessageInv
<1>9. ASSUME NEW c \in Conns
      PROVE  Session(c)'
  <2>1. CASE c # r
    <3>1. Session(c)
      BY DEF MessageInv, Sessions
    <3>2. /\ accepted'[c] = accepted[c] /\ obuf'[c] = obuf[c] /\ queue'[c] = queue[c]
          /\ Freed(c) => Freed(c)'
      BY <1>1, <2>1 DEF Freed
    <3> QED
      BY <3>1, <3>2, SessionKept
  <2> QED
    BY <2>1
<1> QED
  BY <1>4, <1>5, <1>6, <1>7, <1>8, <1>9 DEF MessageInv, Senders, Sessions

LEMMA SendEnqueue ==
  ASSUME TypeOK, MessageInv, NEW t \in App, Enqueue(t)
  PROVE  MessageInv'
<1>0. PICK r, m: r = arg[t].rec /\ m = arg[t].m
  OBVIOUS
<1>1. CASE Fails("wild")
  BY <1>1, NothingMoves DEF Fails
<1>2. CASE ~Fails("wild")
  <2>1. /\ pc[t] = "enqueue"
        /\ queue' = [queue EXCEPT ![r] = Append(@, m)]
        /\ accepted' = [accepted EXCEPT ![r] = @ \cup {m}]
        /\ rmutex' = [rmutex EXCEPT ![r] = Nobody]
        /\ Return(t)
        /\ UNCHANGED <<table, subscribed, obuf, loop, wire>>
    BY <1>0, <1>2 DEF Enqueue
  <2>2. /\ queue \in [Conns -> Seq(Nat)] /\ wire \in [Conns -> Seq(Nat)] /\ sends \in Nat
        /\ accepted \in [Conns -> SUBSET (1 .. sends)]
        /\ obuf \in [Conns -> [writeable: BOOLEAN, busy: BOOLEAN, text: Nat]]
    BY DEF MessageInv, MessageTypes
  <2>3. /\ r \in Conns /\ conn[r] # "new" /\ r = arg[t].rec /\ m = arg[t].m
        /\ m \in 1 .. sends /\ m \notin accepted[r] /\ Session(r)
    BY <1>0, <2>1 DEF MessageInv, Senders, Sender, Sessions, Speaking
  <2>4. UNCHANGED <<session_v_, free_session_id_v_, next_session_id_, conn, sid, subscribed,
                    at, lpc, wire, sends, obuf>>
    BY <2>1 DEF table, loop, Return
  <2>5. /\ pc' = [pc EXCEPT ![t] = "idle"] /\ arg' = [arg EXCEPT ![t] = NoArg]
    BY <2>1 DEF Return
  <2>6. /\ queue[r] \in Seq(Nat) /\ m \in Nat /\ wire[r] \in Seq(Nat)
        /\ accepted[r] \in SUBSET (1 .. sends)
    BY <2>2, <2>3
  <2>7. /\ queue'[r] = Append(queue[r], m) /\ accepted'[r] = accepted[r] \cup {m}
        /\ \A c \in Conns \ {r}: queue'[c] = queue[c] /\ obuf'[c] = obuf[c]
    BY <2>1, <2>2, <2>3, <2>4
  <2>8. /\ ToSet(queue'[r]) = ToSet(queue[r]) \cup {m} /\ queue'[r] \in Seq(Nat)
        /\ Len(queue'[r]) = Len(queue[r]) + 1
    BY <2>6, <2>7, AppendSet
  <2>9. queue' \in [Conns -> Seq(Nat)] /\ queue'[r] # <<>>
    BY <2>1, <2>2, <2>6, <2>7, <2>8
  <2>10. Len(wire[r]) \in Nat /\ Len(queue[r]) \in Nat /\ StagedLen(r) \in Nat
    BY <2>6 DEF StagedLen
  <2>11. HeldSet(r)' = HeldSet(r) \cup {m}
    BY <2>4, <2>8 DEF HeldSet, StagedSet
  <2>12. HeldLen(r)' = HeldLen(r) + 1
    <3>1. StagedLen(r)' = StagedLen(r)
      BY <2>4 DEF StagedLen
    <3>2. Len(wire[r]) + StagedLen(r) + (Len(queue[r]) + 1) = Len(wire[r]) + StagedLen(r) + Len(queue[r]) + 1
      BY <2>10
    <3> QED
      BY <2>4, <2>8, <3>1, <3>2 DEF HeldLen
  <2>13. Session(r)'
    <3>1. CASE conn[r] = "open"
      <4>1. obuf'[r].busy \/ obuf'[r].writeable
        BY <2>3, <2>4, <3>1 DEF Session
      <4>2. Freed(r) => Freed(r)'
        BY <2>4 DEF Freed
      <4>3. conn'[r] = "open"
        BY <2>4, <3>1
      <4> QED
        BY <2>2, <2>3, <2>6, <2>7, <2>11, <2>12, <3>1, <4>1, <4>2, <4>3, SessionTakes
    <3>2. CASE conn[r] # "open"
      BY <2>3, <2>4, <3>2 DEF Session
    <3> QED
      BY <3>1, <3>2
  <2> QED
    <3>1. obuf' \in [Conns -> [writeable: BOOLEAN, busy: BOOLEAN, text: Nat]]
      BY <2>2, <2>4
    <3>2. Places(t, r, m, "idle", NoArg)
      BY <2>1, <2>3, <2>4, <2>5, <2>7, <2>9, <3>1 DEF Places
    <3> QED
      BY <2>3, <2>13, <3>2, SenderPlaces
<1> QED
  BY <1>1, <1>2

LEMMA SendStore ==
  ASSUME TypeOK, MessageInv, NEW t \in App, Store(t)
  PROVE  MessageInv'
<1>0. PICK r, m: r = arg[t].rec /\ m = arg[t].m
  OBVIOUS
<1>1. CASE Fails("wild")
  BY <1>1, NothingMoves DEF Fails
<1>2. CASE ~Fails("wild")
  <2>1. /\ pc[t] = "store"
        /\ obuf' = [obuf EXCEPT ![r].busy = TRUE, ![r].text = m]
        /\ accepted' = [accepted EXCEPT ![r] = @ \cup {m}]
        /\ rmutex' = [rmutex EXCEPT ![r] = Nobody]
        /\ Goto(t, "wake")
        /\ UNCHANGED <<table, subscribed, queue, loop, wire>>
    BY <1>0, <1>2 DEF Store
  <2>2. /\ queue \in [Conns -> Seq(Nat)] /\ wire \in [Conns -> Seq(Nat)] /\ sends \in Nat
        /\ accepted \in [Conns -> SUBSET (1 .. sends)] /\ arg = [u \in App |-> arg[u]]
        /\ obuf \in [Conns -> [writeable: BOOLEAN, busy: BOOLEAN, text: Nat]]
    BY DEF MessageInv, MessageTypes
  <2>3. /\ r \in Conns /\ conn[r] # "new" /\ r = arg[t].rec /\ m = arg[t].m /\ ~obuf[r].busy
        /\ m \in 1 .. sends /\ m \notin accepted[r] /\ Session(r)
    BY <1>0, <2>1 DEF MessageInv, Senders, Sender, Sessions, Speaking
  <2>4. UNCHANGED <<session_v_, free_session_id_v_, next_session_id_, conn, sid, subscribed,
                    at, lpc, wire, sends, queue>>
    BY <2>1 DEF table, loop, Goto
  <2>5. pc' = [pc EXCEPT ![t] = "wake"] /\ arg' = [arg EXCEPT ![t] = arg[t]]
    BY <2>1, <2>2 DEF Goto
  <2>6. /\ queue[r] \in Seq(Nat) /\ m \in Nat /\ wire[r] \in Seq(Nat)
        /\ accepted[r] \in SUBSET (1 .. sends)
    BY <2>2, <2>3
  <2>7. /\ obuf'[r] = [writeable |-> obuf[r].writeable, busy |-> TRUE, text |-> m]
        /\ accepted'[r] = accepted[r] \cup {m}
        /\ \A c \in Conns \ {r}: queue'[c] = queue[c] /\ obuf'[c] = obuf[c]
    BY <2>1, <2>2, <2>3, <2>4
  <2>8. obuf' \in [Conns -> [writeable: BOOLEAN, busy: BOOLEAN, text: Nat]]
    <3>1. PICK b: b = [obuf[r] EXCEPT !.busy = TRUE, !.text = m]
      OBVIOUS
    <3>2. obuf[r] \in [writeable: BOOLEAN, busy: BOOLEAN, text: Nat]
      BY <2>2, <2>3
    <3>3. b \in [writeable: BOOLEAN, busy: BOOLEAN, text: Nat]
      BY <2>6, <3>1, <3>2
    <3>4. obuf' = [obuf EXCEPT ![r] = b]
      BY <2>1, <3>1
    <3> QED
      BY <2>2, <3>3, <3>4
  <2>9. Len(wire[r]) \in Nat /\ Len(queue[r]) \in Nat
    BY <2>6
  <2>10. StagedSet(r) = {} /\ StagedLen(r) = 0
    BY <2>3 DEF StagedSet, StagedLen
  <2>12. Session(r)'
    <3>1. CASE conn[r] = "open"
      <4>1. obuf[r].writeable
        BY <2>3, <3>1 DEF Session
      <4>2. StagedSet(r)' = {m} /\ StagedLen(r)' = 1 /\ obuf'[r].busy
        BY <2>7, <4>1 DEF StagedSet, StagedLen
      <4>3. HeldSet(r)' = HeldSet(r) \cup {m}
        BY <2>4, <2>10, <4>2 DEF HeldSet
      <4>4. HeldLen(r)' = HeldLen(r) + 1
        <5>1. \A i, j \in Nat: i + 1 + j = (i + 0 + j) + 1
          OBVIOUS
        <5>2. Len(wire[r]) + 1 + Len(queue[r]) = (Len(wire[r]) + 0 + Len(queue[r])) + 1
          BY ONLY <2>9, <5>1
        <5> QED
          BY <2>4, <2>10, <4>2, <5>2 DEF HeldLen
      <4>5. (Freed(r) => Freed(r)') /\ conn'[r] = "open"
        BY <2>4, <3>1 DEF Freed
      <4> QED
        BY <2>2, <2>3, <2>6, <2>7, <3>1, <4>2, <4>3, <4>4, <4>5, SessionTakes
    <3>2. CASE conn[r] # "open"
      BY <2>3, <2>4, <3>2 DEF Session
    <3> QED
      BY <3>1, <3>2
  <2>13. queue' \in [Conns -> Seq(Nat)] /\ (queue[r] # <<>> => queue'[r] # <<>>)
    BY <2>2, <2>4
  <2> QED
    <3>1. Places(t, r, m, "wake", arg[t])
      BY <2>1, <2>3, <2>4, <2>5, <2>7, <2>8, <2>13 DEF Places
    <3> QED
      BY <2>3, <2>12, <3>1, SenderPlaces
<1> QED
  BY <1>1, <1>2

\* Steps of the event loop: what they may change of one session.
Touches(R) ==
  /\ UNCHANGED <<pc, arg, sends, rmutex>>
  /\ TableGrows
  /\ \A c \in Conns \ R: /\ obuf'[c] = obuf[c] /\ queue'[c] = queue[c] /\ wire'[c] = wire[c]
                         /\ accepted'[c] = accepted[c] /\ conn'[c] = conn[c]
                         /\ conn[c] = "open" /\ Freed(c) => Freed(c)'
  /\ \A c \in R: /\ accepted'[c] \subseteq accepted[c]
                 /\ rmutex[c] \in App => (~obuf[c].busy => ~obuf'[c].busy)

LEMMA LoopTouches ==
  ASSUME MessageInv, NEW R \in SUBSET Conns, Touches(R), \A c \in R: Session(c)',
         MessageTypes', Seated', LoopPlace'
  PROVE  MessageInv'
<1>1. sends \in Nat /\ sends' \in Nat /\ sends' >= sends
  BY DEF MessageInv, MessageTypes, Touches
<1>2. ASSUME NEW t \in App
      PROVE  Sender(t)'
  <2>1. Sender(t) /\ TableGrows /\ pc'[t] = pc[t] /\ arg'[t] = arg[t]
    BY DEF MessageInv, Senders, Touches
  <2>2. \A c \in Conns: rmutex[c] = t => rmutex'[c] = t /\ (~obuf[c].busy => ~obuf'[c].busy)
    BY DEF Touches
  <2>3. \A c \in Conns: arg[t].m \notin accepted[c] => arg[t].m \notin accepted'[c]
    BY DEF Touches
  <2> QED
    BY <1>1, <2>1, <2>2, <2>3, SenderKept
<1>3. OwnMessages'
  BY OwnMessagesKept DEF MessageInv, Touches
<1>4. ASSUME NEW c \in Conns
      PROVE  Session(c)'
  <2>1. CASE c \notin R
    <3>1. Session(c)
      BY DEF MessageInv, Sessions
    <3> QED
      BY <2>1, <3>1, SessionKept DEF Touches
  <2> QED
    BY <2>1
<1> QED
  BY <1>2, <1>3, <1>4 DEF MessageInv, Senders, Sessions

\* lws_write takes what was staged: the message is on the wire instead.
LEMMA SessionWrites ==
  ASSUME MessageTypes, NEW c \in Conns, Session(c), obuf[c].writeable, obuf[c].busy, WriteAux(c),
         UNCHANGED <<queue, accepted, conn, session_v_, sid>>
  PROVE  /\ Session(c)'
         /\ wire' \in [Conns -> Seq(Nat)]
         /\ obuf' \in [Conns -> [writeable: BOOLEAN, busy: BOOLEAN, text: Nat]]
         /\ \A d \in Conns \ {c}: obuf'[d] = obuf[d] /\ wire'[d] = wire[d]
<1>0. queue' = queue /\ accepted' = accepted /\ conn' = conn
  OBVIOUS
<1>1. /\ wire \in [Conns -> Seq(Nat)] /\ queue \in [Conns -> Seq(Nat)]
      /\ obuf \in [Conns -> [writeable: BOOLEAN, busy: BOOLEAN, text: Nat]]
  BY DEF MessageTypes
<1>2. wire[c] \in Seq(Nat) /\ obuf[c].text \in Nat /\ Len(wire[c]) \in Nat /\ Len(queue[c]) \in Nat
  BY <1>1
<1>3. /\ ToSet(Append(wire[c], obuf[c].text)) = ToSet(wire[c]) \cup {obuf[c].text}
      /\ Append(wire[c], obuf[c].text) \in Seq(Nat)
      /\ Len(Append(wire[c], obuf[c].text)) = Len(wire[c]) + 1
  BY <1>2, AppendSet
<1>4. wire' = [wire EXCEPT ![c] = Append(wire[c], obuf[c].text)]
  BY DEF WriteAux
<1>5. wire' \in [Conns -> Seq(Nat)] /\ wire'[c] = Append(wire[c], obuf[c].text)
      /\ \A d \in Conns \ {c}: wire'[d] = wire[d]
  BY <1>1, <1>3, <1>4
<1>6. /\ obuf' \in [Conns -> [writeable: BOOLEAN, busy: BOOLEAN, text: Nat]]
      /\ \A d \in Conns \ {c}: obuf'[d] = obuf[d]
      /\ obuf'[c].writeable # obuf'[c].busy
  <2>1. CASE obuf' = [obuf EXCEPT ![c].writeable = FALSE]
    BY <1>1, <2>1
  <2>2. CASE obuf' = [obuf EXCEPT ![c].writeable = TRUE, ![c].busy = FALSE]
    BY <1>1, <2>2
  <2> QED
    BY <2>1, <2>2 DEF WriteAux
<1>7. /\ StagedSet(c) = {obuf[c].text} /\ StagedLen(c) = 1
      /\ StagedSet(c)' = {} /\ StagedLen(c)' = 0
  BY <1>6 DEF StagedSet, StagedLen
<1>8. ASSUME conn[c] = "open"
      PROVE  Session(c)'
  <2>1. obuf'[c].busy \/ obuf'[c].writeable
    BY <1>6
  <2>2. HeldSet(c)' = HeldSet(c)
    BY <1>0, <1>3, <1>5, <1>7 DEF HeldSet
  <2>3. HeldLen(c)' = HeldLen(c)
    <3>1. (Len(wire[c]) + 1) + 0 + Len(queue[c]) = Len(wire[c]) + 1 + Len(queue[c])
      BY <1>2
    <3>2. Len(wire'[c]) = Len(wire[c]) + 1
      BY <1>3, <1>5
    <3> QED
      BY <1>0, <1>7, <3>1, <3>2 DEF HeldLen
  <2>4. (Freed(c) => Freed(c)') /\ accepted'[c] = accepted[c] /\ conn'[c] = "open"
    BY <1>0, <1>8 DEF Freed
  <2> QED
    BY <1>8, <2>1, <2>2, <2>3, <2>4, SessionMoves
<1>9. ASSUME conn[c] # "open"
      PROVE  Session(c)'
  <2>1. conn[c] # "new"
    BY <1>9 DEF Session, NoBuffer
  <2> QED
    BY <1>0, <1>9, <2>1 DEF Session
<1> QED
  BY <1>5, <1>6, <1>8, <1>9

LEMMA LoopWriteable ==
  ASSUME TypeOK, MessageInv, NEW c \in Conns, Writeable(c)
  PROVE  MessageInv'
<1> USE DEF table, record, app
<1>1. MessageTypes /\ Session(c) /\ Seated
  BY DEF MessageInv, Sessions
<1>2. /\ lpc = "service" /\ conn[c] = "open" /\ lpc' \in {"destroy", "service"}
      /\ UNCHANGED <<table, record, app, at, accepted>>
  BY AfterEventIsAPlace DEF Writeable
<1>3. /\ Session(c)' /\ wire' \in [Conns -> Seq(Nat)]
      /\ obuf' \in [Conns -> [writeable: BOOLEAN, busy: BOOLEAN, text: Nat]]
      /\ \A d \in Conns \ {c}: obuf'[d] = obuf[d] /\ wire'[d] = wire[d]
      /\ ~obuf[c].busy => ~obuf'[c].busy
  <2>1. CASE obuf[c].writeable /\ obuf[c].busy /\ WriteAux(c)
    BY <1>1, <1>2, <2>1, SessionWrites
  <2>2. CASE /\ ~obuf[c].writeable
             /\ obuf' = [obuf EXCEPT ![c].writeable = TRUE, ![c].busy = FALSE]
             /\ UNCHANGED wire
    <3>1. /\ obuf \in [Conns -> [writeable: BOOLEAN, busy: BOOLEAN, text: Nat]]
          /\ wire \in [Conns -> Seq(Nat)]
      BY <1>1 DEF MessageTypes
    <3>2. /\ obuf' \in [Conns -> [writeable: BOOLEAN, busy: BOOLEAN, text: Nat]]
          /\ obuf'[c].writeable /\ ~obuf'[c].busy
          /\ \A d \in Conns \ {c}: obuf'[d] = obuf[d]
      BY <2>2, <3>1
    <3>3. /\ StagedSet(c) = {} /\ StagedLen(c) = 0 /\ StagedSet(c)' = {} /\ StagedLen(c)' = 0
      BY <2>2, <3>2 DEF StagedSet, StagedLen
    <3>4. Session(c)'
      <4>1. HeldSet(c)' = HeldSet(c) /\ HeldLen(c)' = HeldLen(c)
        BY <1>2, <2>2, <3>3 DEF HeldSet, HeldLen
      <4>2. (Freed(c) => Freed(c)') /\ accepted'[c] = accepted[c] /\ conn'[c] = "open"
        BY <1>2 DEF Freed
      <4> QED
        BY <1>1, <1>2, <3>2, <4>1, <4>2, SessionMoves
    <3> QED
      BY <2>2, <3>1, <3>2, <3>4
  <2> QED
    BY <2>1, <2>2 DEF Writeable
<1>4. MessageTypes'
  BY <1>1, <1>2, <1>3 DEF MessageTypes
<1>5. Seated' /\ LoopPlace'
  BY <1>1, <1>2 DEF Seated, LoopPlace, Serving
<1>6. Touches({c})
  BY <1>2, <1>3 DEF Touches, TableGrows, Freed
<1> QED
  BY <1>3, <1>4, <1>5, <1>6, LoopTouches

LEMMA LoopPending ==
  ASSUME TypeOK, Placed, MessageInv, Pending
  PROVE  MessageInv'
<1> USE DEF table, record, app
<1>1. MessageTypes /\ Seated /\ at \in Nat /\ at >= 1 /\ lpc = "pending"
  BY DEF MessageInv, MessageTypes, LoopPlace, Pending
<1>2. UNCHANGED <<table, record, app, accepted>>
  BY DEF Pending
<1>3. CASE lpc' \in {lpc, "destroy", "service"} /\ at' \in {0, at + 1} /\ (lpc' = lpc => at' = at + 1)
           /\ UNCHANGED <<obuf, wire>>
  <2>1. MessageTypes'
    BY <1>1, <1>2, <1>3 DEF MessageTypes
  <2>2. Seated' /\ LoopPlace'
    BY <1>1, <1>2, <1>3 DEF Seated, LoopPlace, Serving
  <2> QED
    BY <1>2, <1>3, <2>1, <2>2, Aside
<1>4. CASE /\ at <= Len(session_v_) /\ session_v_[at] # None
           /\ obuf[session_v_[at]].writeable /\ obuf[session_v_[at]].busy
           /\ WriteAux(session_v_[at]) /\ lpc' = "queue" /\ UNCHANGED at
  <2>1. PICK r: r = session_v_[at]
    OBVIOUS
  <2>2. at \in DOMAIN session_v_ /\ session_v_[at] # None
    BY <1>1, <1>4 DEF TypeOK
  <2>3. r \in Conns
    BY <2>1, <2>2 DEF Placed
  <2>4. Session(r)
    BY <2>3 DEF MessageInv, Sessions
  <2>5. /\ Session(r)' /\ wire' \in [Conns -> Seq(Nat)]
        /\ obuf' \in [Conns -> [writeable: BOOLEAN, busy: BOOLEAN, text: Nat]]
        /\ \A d \in Conns \ {r}: obuf'[d] = obuf[d] /\ wire'[d] = wire[d]
    BY <1>1, <1>2, <1>4, <2>1, <2>3, <2>4, SessionWrites
  <2>6. MessageTypes'
    BY <1>1, <1>2, <1>4, <2>5 DEF MessageTypes
  <2>7. Seated' /\ LoopPlace'
    BY <1>1, <1>2, <1>4, <2>2 DEF Seated, LoopPlace, Serving
  <2>8. Touches({r})
    BY <1>2, <1>4, <2>1, <2>5 DEF Touches, TableGrows, Freed
  <2> QED
    BY <2>3, <2>5, <2>6, <2>7, <2>8, LoopTouches
<1> QED
  BY <1>1, <1>3, <1>4, AfterEventIsAPlace DEF Pending

LEMMA LoopDequeue ==
  ASSUME TypeOK, Placed, MessageInv, PendingDequeue
  PROVE  MessageInv'
<1>0. PICK r: r = session_v_[at]
  OBVIOUS
<1>1. CASE Fails("assert")
  BY <1>1, NothingMoves DEF Fails
<1>2. CASE ~Fails("assert")
  <2>1. /\ lpc = "dequeue" /\ rmutex[r] = Nobody /\ ~obuf[r].busy
        /\ obuf' = [obuf EXCEPT ![r].busy = TRUE, ![r].text = Head(queue[r])]
        /\ queue' = [queue EXCEPT ![r] = Tail(@)]
        /\ lpc' = "pending"
        /\ UNCHANGED <<table, rmutex, subscribed, pc, arg, sends, at, accepted, wire>>
    BY <1>0, <1>2 DEF PendingDequeue, app, history
  <2>2. /\ queue \in [Conns -> Seq(Nat)] /\ wire \in [Conns -> Seq(Nat)]
        /\ obuf \in [Conns -> [writeable: BOOLEAN, busy: BOOLEAN, text: Nat]]
    BY DEF MessageInv, MessageTypes
  <2>3. at \in DOMAIN session_v_ /\ r # None /\ queue[r] # <<>>
    BY <1>0, <2>1 DEF MessageInv, LoopPlace
  <2>4. r \in Conns /\ conn[r] # "new"
    BY <1>0, <2>3 DEF Placed
  <2>5. /\ Head(queue[r]) \in Nat /\ Tail(queue[r]) \in Seq(Nat)
        /\ Len(Tail(queue[r])) = Len(queue[r]) - 1
        /\ ToSet(queue[r]) = {Head(queue[r])} \cup ToSet(Tail(queue[r]))
    BY <2>2, <2>3, <2>4, HeadTailSet
  <2>6. /\ obuf'[r] = [writeable |-> obuf[r].writeable, busy |-> TRUE, text |-> Head(queue[r])]
        /\ queue'[r] = Tail(queue[r])
        /\ \A c \in Conns \ {r}: queue'[c] = queue[c] /\ obuf'[c] = obuf[c]
    BY <2>1, <2>2, <2>4
  <2>7. /\ obuf' \in [Conns -> [writeable: BOOLEAN, busy: BOOLEAN, text: Nat]]
        /\ queue' \in [Conns -> Seq(Nat)]
    BY <2>1, <2>2, <2>4, <2>5
  <2>8. UNCHANGED <<session_v_, free_session_id_v_, next_session_id_, conn, sid, rmutex,
                    subscribed, pc, arg, sends, at, accepted, wire>>
    BY <2>1 DEF table
  <2>9. Session(r)'
    <3>0. Session(r) /\ conn'[r] = conn[r] /\ wire'[r] = wire[r] /\ accepted'[r] = accepted[r]
      BY <2>4, <2>8 DEF MessageInv, Sessions
    <3>1. CASE conn[r] = "open"
      <4>1. obuf[r].writeable
        BY <2>1, <3>0, <3>1 DEF Session
      <4>2. /\ StagedSet(r) = {} /\ StagedLen(r) = 0 /\ obuf'[r].busy
            /\ StagedSet(r)' = {Head(queue[r])} /\ StagedLen(r)' = 1
        <5>1. obuf'[r].writeable /\ obuf'[r].busy /\ obuf'[r].text = Head(queue[r])
          BY <2>6, <4>1
        <5>2. StagedSet(r)' = {Head(queue[r])} /\ StagedLen(r)' = 1
          BY <5>1 DEF StagedSet, StagedLen
        <5>3. StagedSet(r) = {} /\ StagedLen(r) = 0
          BY <2>1 DEF StagedSet, StagedLen
        <5> QED
          BY <5>1, <5>2, <5>3
      <4>3. HeldSet(r)' = HeldSet(r)
        BY <2>5, <2>6, <3>0, <4>2 DEF HeldSet
      <4>4. HeldLen(r)' = HeldLen(r)
        <5>1. Len(queue'[r]) = Len(queue[r]) - 1
          BY <2>5, <2>6
        <5>2. Len(wire[r]) \in Nat /\ Len(queue[r]) \in Nat
          BY <2>2, <2>4
        <5>3. \A i, j \in Nat: i + 1 + (j - 1) = i + 0 + j
          OBVIOUS
        <5>4. Len(wire[r]) + 1 + (Len(queue[r]) - 1) = Len(wire[r]) + 0 + Len(queue[r])
          BY ONLY <5>2, <5>3
        <5> QED
          BY <3>0, <4>2, <5>1, <5>4 DEF HeldLen
      <4>5. (Freed(r) => Freed(r)') /\ conn'[r] = "open"
        BY <2>8, <3>1 DEF Freed
      <4> QED
        BY <2>4, <3>0, <3>1, <4>2, <4>3, <4>4, <4>5, SessionMoves
    <3>2. CASE conn[r] # "open"
      BY <2>4, <3>0, <3>2 DEF Session
    <3> QED
      BY <3>1, <3>2
  <2>10. MessageTypes'
    BY <2>7, <2>8 DEF MessageInv, MessageTypes
  <2>11. Seated' /\ LoopPlace'
    <3>1. at >= 1
      BY <2>3 DEF TypeOK
    <3> QED
      BY <2>1, <2>8, <3>1 DEF MessageInv, Seated, LoopPlace, Serving
  <2>12. Touches({r})
    <3>1. ~(rmutex[r] \in App)
      BY <2>1, ThreadAssumption
    <3> QED
      BY <2>6, <2>8, <3>1 DEF Touches, TableGrows, Freed
  <2> QED
    BY <2>4, <2>9, <2>10, <2>11, <2>12, LoopTouches
<1> QED
  BY <1>1, <1>2

\* The ids that are free were the ids of connections, which are places in the table.
LEMMA OpenSeats ==
  ASSUME TypeOK, MessageInv, NEW c \in Conns, Open(c)
  PROVE  /\ TableGrows
         /\ next_session_id_ \in DOMAIN session_v_' /\ session_v_'[next_session_id_] = c
         /\ next_session_id_' # 0 /\ free_session_id_v_' \in Seq(Nat \ {0})
<1> DEFINE size == IF Len(session_v_) < next_session_id_ THEN next_session_id_ ELSE Len(session_v_)
           grown == [i \in 1 .. size |-> IF i = next_session_id_ THEN c
                                         ELSE IF i <= Len(session_v_) THEN session_v_[i] ELSE None]
<1>1. /\ next_session_id_ \in Nat \ {0} /\ free_session_id_v_ \in Seq(Nat \ {0})
      /\ session_v_ \in Seq(Conns \cup {None})
  BY DEF MessageInv, Seated, Serving, TypeOK, Open
<1>2. session_v_' = grown /\ conn' = [conn EXCEPT ![c] = "open"]
  BY DEF Open
<1>3. /\ DOMAIN session_v_ = 1 .. Len(session_v_) /\ Len(session_v_) \in Nat /\ size \in Nat
      /\ Len(session_v_) <= size /\ next_session_id_ \in 1 .. size
  BY <1>1
<1>4. DOMAIN grown = 1 .. size /\ grown[next_session_id_] = c
  BY <1>3
<1>5. c # None
  BY WebserverAssumption DEF Conns
<1>6. \A i \in DOMAIN session_v_: session_v_[i] # None => i \in DOMAIN grown /\ grown[i] # None
  BY <1>3, <1>4, <1>5
<1>7. TableGrows
  <2>1. \A d \in Conns: conn[d] # "new" => conn'[d] # "new"
    BY <1>2 DEF TypeOK
  <2> QED
    BY <1>2, <1>6, <2>1 DEF TableGrows
<1>8. next_session_id_' # 0 /\ free_session_id_v_' \in Seq(Nat \ {0})
  <2>1. CASE free_session_id_v_ = <<>>
    <3>1. next_session_id_' = size + 1 /\ free_session_id_v_' = free_session_id_v_
      BY <2>1 DEF Open
    <3> QED
      BY <1>1, <1>3, <3>1
  <2>2. CASE free_session_id_v_ # <<>>
    <3>1. Len(free_session_id_v_) \in Nat \ {0}
      BY <1>1, <2>2, EmptySeq
    <3>2. Front(free_session_id_v_) \in Seq(Nat \ {0}) /\ Last(free_session_id_v_) \in Nat \ {0}
      BY <1>1, <3>1 DEF Front, Last
    <3> QED
      BY <2>2, <3>2 DEF Open
  <2> QED
    BY <2>1, <2>2
<1> QED
  BY <1>2, <1>4, <1>3, <1>7, <1>8

\* The longest a sequence without repetition can be.
LEMMA SetOfSequence ==
  ASSUME NEW q \in Seq(Nat)
  PROVE  IsFiniteSet(ToSet(q)) /\ Cardinality(ToSet(q)) \in Nat /\ Cardinality(ToSet(q)) <= Len(q)
<1>1. DOMAIN q = 1 .. Len(q) /\ Len(q) \in Nat /\ q = [i \in 1 .. Len(q) |-> q[i]]
  BY LenProperties
<1>2. IsFiniteSet(1 .. Len(q)) /\ Cardinality(1 .. Len(q)) = Len(q)
  <2>1. PICK n \in Nat: n = Len(q)
    BY <1>1
  <2>2. IsFiniteSet(1 .. n) /\ Cardinality(1 .. n) = IF 1 > n THEN 0 ELSE n - 1 + 1
    BY FS_Interval
  <2> QED
    BY <2>1, <2>2
<1>3. \A x \in ToSet(q): \E i \in 1 .. Len(q): q[i] = x
  BY <1>1 DEF ToSet
<1>4. \A i \in 1 .. Len(q): q[i] \in ToSet(q)
  BY <1>1 DEF ToSet
<1>5. q \in Surjection(1 .. Len(q), ToSet(q))
  BY <1>1, <1>3, <1>4 DEF Surjection
<1> QED
  BY <1>2, <1>5, FS_Surjection, FS_CardinalityType

\* What is staged: nothing, or one message.
AtMostOne(S, n) == (S = {} /\ n = 0) \/ ((\E x: S = {x}) /\ n = 1)

\* No message twice, in what was written, what is staged and what is queued.
Once(w, S, n, q) == Len(w) + n + Len(q) = Cardinality(ToSet(w) \cup S \cup ToSet(q))

\* A session that held everything once does so without its queue too.
LEMMA WithoutQueue ==
  ASSUME NEW w \in Seq(Nat), NEW q \in Seq(Nat), NEW S, NEW n \in Nat,
         AtMostOne(S, n), Once(w, S, n, q)
  PROVE  Once(w, S, n, <<>>)
<1>1. /\ IsFiniteSet(ToSet(w)) /\ Cardinality(ToSet(w)) \in Nat /\ Cardinality(ToSet(w)) <= Len(w)
      /\ IsFiniteSet(ToSet(q)) /\ Cardinality(ToSet(q)) \in Nat /\ Cardinality(ToSet(q)) <= Len(q)
      /\ Len(w) \in Nat /\ Len(q) \in Nat
  BY SetOfSequence
<1>2. IsFiniteSet(S) /\ Cardinality(S) = n
  BY FS_EmptySet, FS_Singleton DEF AtMostOne
<1>3. PICK u: u = ToSet(w) \cup S
  OBVIOUS
<1>4. /\ IsFiniteSet(u)
      /\ Cardinality(u) = Cardinality(ToSet(w)) + n - Cardinality(ToSet(w) \cap S)
  BY <1>1, <1>2, <1>3, FS_Union
<1>5. Cardinality(u \cup ToSet(q)) = Cardinality(u) + Cardinality(ToSet(q)) - Cardinality(u \cap ToSet(q))
  BY <1>1, <1>4, FS_Union
<1>6. IsFiniteSet(ToSet(w) \cap S) /\ IsFiniteSet(u \cap ToSet(q))
  BY <1>1, <1>4, FS_Subset
<1>7. /\ Cardinality(ToSet(w) \cap S) \in Nat /\ Cardinality(u \cap ToSet(q)) \in Nat
      /\ Cardinality(u) \in Nat
  BY <1>4, <1>6, FS_CardinalityType
<1>8. Len(w) + n + Len(q) = Cardinality(u \cup ToSet(q))
  BY <1>3 DEF Once
<1>9. PICK a \in Nat, b \in Nat, i \in Nat, j \in Nat, x \in Nat, y \in Nat, z \in Nat:
        /\ a = Cardinality(ToSet(w)) /\ b = Cardinality(ToSet(q)) /\ x = Len(w) /\ y = Len(q)
        /\ i = Cardinality(ToSet(w) \cap S) /\ j = Cardinality(u \cap ToSet(q)) /\ z = Cardinality(u)
  BY ONLY <1>1, <1>7
<1>10. a <= x /\ b <= y /\ z = a + n - i /\ x + n + y = z + b - j
  BY ONLY <1>1, <1>4, <1>5, <1>8, <1>9
<1>11. x + n = z
  BY ONLY <1>10, n \in Nat
<1>12. Len(w) + n + Len(<<>>) = Len(w) + n /\ ToSet(w) \cup S \cup ToSet(<<>>) = u
  BY <1>1, <1>3, ShortSequences
<1>13. Len(w) + n = Cardinality(u)
  BY ONLY <1>9, <1>11
<1> QED
  BY <1>12, <1>13, Zenon DEF Once

\* The record in the place of the table that a new session gets.
Replaced == IF next_session_id_ <= Len(session_v_) THEN session_v_[next_session_id_] ELSE None

\* What the new record takes the place of: it was the record of no connection, or
\* of one that is replaced from now on; no other connection loses its record.
LEMMA OpenReplaces ==
  ASSUME TypeOK, Placed, MessageInv, NEW c \in Conns, Open(c), NEW old, old = Replaced
  PROVE  /\ old # None => old \in Conns /\ conn[old] # "new" /\ Freed(old)'
         /\ \A d \in Conns: conn[d] = "open" /\ Freed(d) => Freed(d)'
         /\ \A d \in Conns: queue'[d] = IF d = old THEN <<>> ELSE queue[d]
<1>1. /\ conn[c] = "new" /\ sid' = [sid EXCEPT ![c] = next_session_id_]
      /\ queue' = [d \in Conns |-> IF d = old THEN <<>> ELSE queue[d]]
  BY DEF Open, Replaced
<1>2. /\ next_session_id_ \in DOMAIN session_v_' /\ session_v_'[next_session_id_] = c
      /\ next_session_id_ # 0
  BY OpenSeats DEF MessageInv, Seated, Serving, Open
<1>3. ASSUME old # None
      PROVE  old \in Conns /\ conn[old] # "new" /\ sid[old] = next_session_id_
  <2>1. next_session_id_ \in DOMAIN session_v_ /\ old = session_v_[next_session_id_]
    BY <1>2, <1>3 DEF Replaced, TypeOK
  <2> QED
    BY <1>3, <2>1 DEF Placed
<1>4. ASSUME old # None
      PROVE  Freed(old)'
  <2>1. old # c /\ sid'[old] = next_session_id_
    BY <1>1, <1>3, <1>4 DEF TypeOK
  <2> QED
    BY <1>2, <2>1 DEF Freed
<1>5. ASSUME NEW d \in Conns, conn[d] = "open", Freed(d)
      PROVE  Freed(d)'
  <2>1. d # c /\ sid'[d] = sid[d] /\ sid[d] \in DOMAIN session_v_ /\ session_v_[sid[d]] # None
    BY <1>1, <1>5 DEF MessageInv, Seated, TypeOK
  <2>2. /\ sid[d] \in DOMAIN session_v_'
        /\ session_v_'[sid[d]] = c \/ session_v_'[sid[d]] = None \/ session_v_'[sid[d]] = session_v_[sid[d]]
    BY <2>1, OpenTable, OpenSeats DEF TableGrows
  <2>3. session_v_'[sid[d]] # None
    BY <2>1, OpenSeats DEF TableGrows
  <2> QED
    BY <1>5, <2>1, <2>2, <2>3 DEF Freed
<1> QED
  BY <1>1, <1>3, <1>4, <1>5

LEMMA LoopOpen ==
  ASSUME TypeOK, Placed, MessageInv, NEW c \in Conns, Open(c)
  PROVE  MessageInv'
<1> USE DEF app, history
<1>1. /\ lpc = "service" /\ conn[c] = "new" /\ lpc' \in {"destroy", "service"}
      /\ sid' = [sid EXCEPT ![c] = next_session_id_]
      /\ conn' = [conn EXCEPT ![c] = "open"]
      /\ obuf' = [obuf EXCEPT ![c].writeable = TRUE]
      /\ UNCHANGED <<rmutex, subscribed, app, at, history>>
  BY AfterEventIsAPlace DEF Open
<1>2. /\ TableGrows
      /\ next_session_id_ \in DOMAIN session_v_' /\ session_v_'[next_session_id_] = c
      /\ next_session_id_' # 0 /\ free_session_id_v_' \in Seq(Nat \ {0})
  BY OpenSeats
<1>3. /\ obuf \in [Conns -> [writeable: BOOLEAN, busy: BOOLEAN, text: Nat]]
      /\ sid \in [Conns -> Nat] /\ conn \in [Conns -> {"new", "open", "closed"}] /\ Session(c)
  BY DEF MessageInv, MessageTypes, TypeOK, Sessions
<1>4. /\ obuf[c] = NoBuffer /\ queue[c] = <<>> /\ wire[c] = <<>> /\ accepted[c] = {}
  BY <1>1, <1>3 DEF Session
<1>5. /\ obuf' \in [Conns -> [writeable: BOOLEAN, busy: BOOLEAN, text: Nat]]
      /\ obuf'[c].writeable /\ ~obuf'[c].busy
      /\ \A d \in Conns \ {c}: obuf'[d] = obuf[d] /\ conn'[d] = conn[d] /\ sid'[d] = sid[d]
      /\ conn'[c] = "open" /\ sid'[c] = next_session_id_
  <2>1. obuf[c] \in [writeable: BOOLEAN, busy: BOOLEAN, text: Nat] /\ ~obuf[c].busy
    BY <1>3, <1>4 DEF NoBuffer
  <2>2. PICK b: b = [obuf[c] EXCEPT !.writeable = TRUE]
    OBVIOUS
  <2>3. b \in [writeable: BOOLEAN, busy: BOOLEAN, text: Nat] /\ b.writeable /\ ~b.busy
    BY <2>1, <2>2
  <2>4. obuf' = [obuf EXCEPT ![c] = b]
    BY <1>1, <2>2
  <2>5. /\ obuf' \in [Conns -> [writeable: BOOLEAN, busy: BOOLEAN, text: Nat]]
        /\ obuf'[c].writeable /\ ~obuf'[c].busy
        /\ \A d \in Conns \ {c}: obuf'[d] = obuf[d]
    BY <1>3, <2>3, <2>4
  <2>6. /\ \A d \in Conns \ {c}: conn'[d] = conn[d] /\ sid'[d] = sid[d]
        /\ conn'[c] = "open" /\ sid'[c] = next_session_id_
    BY <1>1, <1>3
  <2> QED
    BY <2>5, <2>6
<1> PICK old: old = Replaced
  OBVIOUS
<1>6. /\ old # None => old \in Conns /\ conn[old] # "new" /\ Freed(old)'
      /\ \A d \in Conns: conn[d] = "open" /\ Freed(d) => Freed(d)'
      /\ \A d \in Conns: queue'[d] = IF d = old THEN <<>> ELSE queue[d]
  BY OpenReplaces
<1>7. Session(c)'
  <2>0. old # c
    BY <1>1, <1>6, WebserverAssumption DEF Conns
  <2>1. StagedSet(c)' = {} /\ StagedLen(c)' = 0
    BY <1>5 DEF StagedSet, StagedLen
  <2>2. ToSet(<<>>) \cup {} \cup ToSet(<<>>) = {}
    BY ShortSequences
  <2>3. Len(<<>>) + 0 + Len(<<>>) = Cardinality({})
    <3>1. Cardinality({}) = 0
      BY FS_EmptySet
    <3>2. Len(<<>>) + 0 + Len(<<>>) = 0
      OBVIOUS
    <3> QED
      BY <3>1, <3>2, Zenon
  <2>4. queue'[c] = <<>> /\ wire'[c] = <<>> /\ accepted'[c] = {}
    BY <1>1, <1>4, <1>6, <2>0
  <2>5. HeldSet(c)' = {} /\ HeldLen(c)' = Cardinality({})
    BY <2>1, <2>2, <2>3, <2>4, Zenon DEF HeldSet, HeldLen
  <2> QED
    BY <1>5, <2>4, <2>5, Zenon DEF Session
<1>8. \A d \in Conns: d = old => Session(d)'
  <2> SUFFICES ASSUME NEW d \in Conns, d = old PROVE Session(d)'
    OBVIOUS
  <2>1. d # None /\ d # c
    BY <1>1, <1>6, WebserverAssumption DEF Conns
  <2>2. /\ Freed(d)' /\ queue'[d] = <<>> /\ conn[d] # "new" /\ Session(d)
        /\ wire'[d] = wire[d] /\ accepted'[d] = accepted[d] /\ obuf'[d] = obuf[d] /\ conn'[d] = conn[d]
    BY <1>1, <1>5, <1>6, <2>1 DEF MessageInv, Sessions
  <2>3. CASE conn[d] = "open"
    <3>1. /\ wire[d] \in Seq(Nat) /\ queue[d] \in Seq(Nat)
          /\ StagedLen(d) \in Nat
          /\ \/ StagedSet(d) = {} /\ StagedLen(d) = 0
             \/ (\E x: StagedSet(d) = {x}) /\ StagedLen(d) = 1
      BY DEF MessageInv, MessageTypes, StagedSet, StagedLen
    <3>2. Once(wire[d], StagedSet(d), StagedLen(d), <<>>)
      <4>1. Once(wire[d], StagedSet(d), StagedLen(d), queue[d])
        BY <2>2, <2>3, Zenon DEF Session, HeldSet, HeldLen, Once
      <4>2. AtMostOne(StagedSet(d), StagedLen(d))
        BY ONLY <3>1 DEF AtMostOne
      <4> QED
        BY ONLY <3>1, <4>1, <4>2, WithoutQueue
    <3>3. StagedSet(d)' = StagedSet(d) /\ StagedLen(d)' = StagedLen(d)
      BY <2>2 DEF StagedSet, StagedLen
    <3>4. HeldSet(d)' = ToSet(wire[d]) \cup StagedSet(d) \cup ToSet(<<>>)
      BY <2>2, <3>3, Zenon DEF HeldSet
    <3>5. HeldLen(d)' = Len(wire[d]) + StagedLen(d) + Len(<<>>)
      BY <2>2, <3>3, Zenon DEF HeldLen
    <3>6. HeldSet(d)' \subseteq accepted'[d]
      BY <2>2, <2>3, <3>4, ShortSequences DEF Session, HeldSet
    <3>7. obuf'[d].busy \/ obuf'[d].writeable
      BY <2>2, <2>3 DEF Session
    <3>8. HeldLen(d)' = Cardinality(HeldSet(d)')
      BY <3>2, <3>4, <3>5, Zenon DEF Once
    <3> QED
      BY ONLY <2>2, <2>3, <3>6, <3>7, <3>8 DEF Session
  <2>4. CASE conn[d] # "open"
    BY <2>2, <2>4 DEF Session
  <2> QED
    BY <2>3, <2>4
<1>9. MessageTypes'
  <2>1. queue' \in [Conns -> Seq(Nat)]
    <3>1. queue' = [d \in Conns |-> IF d = old THEN <<>> ELSE queue[d]]
      BY DEF Open, Replaced
    <3> QED
      BY <3>1 DEF MessageInv, MessageTypes
  <2> QED
    BY <1>1, <1>5, <2>1 DEF MessageInv, MessageTypes
<1>10. Seated'
  <2>1. ASSUME NEW d \in Conns, conn'[d] # "new"
        PROVE  sid'[d] \in DOMAIN session_v_' /\ session_v_'[sid'[d]] # None
    <3>1. CASE d = c
      BY <1>2, <1>5, <3>1, WebserverAssumption DEF Conns
    <3>2. CASE d # c
      BY <1>2, <1>5, <2>1, <3>2 DEF MessageInv, Seated, TableGrows
    <3> QED
      BY <3>1, <3>2
  <2>2. \A d \in Conns: subscribed'[d] => conn'[d] # "new"
    BY <1>1, <1>2 DEF MessageInv, Seated, TableGrows
  <2> QED
    BY <1>2, <2>1, <2>2 DEF Seated
<1>11. LoopPlace'
  BY <1>1 DEF LoopPlace
<1>12. Touches({c, old} \cap Conns)
  <2>1. \A d \in {c, old} \cap Conns:
          /\ accepted'[d] \subseteq accepted[d]
          /\ rmutex[d] \in App => (~obuf[d].busy => ~obuf'[d].busy)
    BY <1>1, <1>4, <1>5
  <2>2. \A d \in Conns \ ({c, old} \cap Conns):
          /\ obuf'[d] = obuf[d] /\ queue'[d] = queue[d] /\ wire'[d] = wire[d]
          /\ accepted'[d] = accepted[d] /\ conn'[d] = conn[d]
          /\ conn[d] = "open" /\ Freed(d) => Freed(d)'
    BY <1>1, <1>5, <1>6
  <2>3. UNCHANGED <<pc, arg, sends, rmutex>>
    BY <1>1
  <2> QED
    BY ONLY <1>2, <2>1, <2>2, <2>3 DEF Touches
<1>13. \A d \in {c, old} \cap Conns: Session(d)'
  BY <1>7, <1>8
<1> QED
  BY <1>9, <1>10, <1>11, <1>12, <1>13, LoopTouches

LEMMA LoopClose ==
  ASSUME TypeOK, Placed, MessageInv, NEW c \in Conns, Close(c)
  PROVE  MessageInv'
<1>1. PICK r: r = session_v_[sid[c]]
  OBVIOUS
<1>2. /\ lpc \in {"service", "destroy"} /\ conn[c] = "open"
      /\ lpc' \in {"service", "destroy"}
      /\ subscribed' = [subscribed EXCEPT ![r] = FALSE]
      /\ free_session_id_v_' = Append(free_session_id_v_, sid[c])
      /\ conn' = [conn EXCEPT ![c] = "closed"]
      /\ obuf' = [obuf EXCEPT ![c] = NoBuffer]
      /\ accepted' = [accepted EXCEPT ![c] = {}] /\ wire' = [wire EXCEPT ![c] = <<>>]
      /\ UNCHANGED <<session_v_, next_session_id_, sid, rmutex, queue, pc, arg, sends, at>>
  BY <1>1, AfterEventIsAPlace DEF Close, app
<1>3. /\ obuf \in [Conns -> [writeable: BOOLEAN, busy: BOOLEAN, text: Nat]]
      /\ conn \in [Conns -> {"new", "open", "closed"}] /\ subscribed \in [Conns -> BOOLEAN]
      /\ accepted \in [Conns -> SUBSET (1 .. sends)] /\ wire \in [Conns -> Seq(Nat)]
      /\ sid \in [Conns -> Nat] /\ session_v_ \in Seq(Conns \cup {None})
      /\ free_session_id_v_ \in Seq(Nat \ {0})
  BY DEF MessageInv, MessageTypes, TypeOK, Seated
<1>4. /\ NoBuffer \in [writeable: BOOLEAN, busy: BOOLEAN, text: Nat] /\ ~NoBuffer.busy
      /\ <<>> \in Seq(Nat)
  BY DEF NoBuffer
<1>5. /\ obuf' \in [Conns -> [writeable: BOOLEAN, busy: BOOLEAN, text: Nat]] /\ ~obuf'[c].busy
      /\ wire' \in [Conns -> Seq(Nat)] /\ accepted' \in [Conns -> SUBSET (1 .. sends')]
      /\ conn'[c] = "closed" /\ accepted'[c] = {}
      /\ \A d \in Conns \ {c}: /\ obuf'[d] = obuf[d] /\ conn'[d] = conn[d] /\ wire'[d] = wire[d]
                               /\ accepted'[d] = accepted[d]
  BY <1>2, <1>3, <1>4
<1>6. subscribed' \in [Conns -> BOOLEAN] /\ \A d \in Conns: subscribed'[d] => subscribed[d]
  BY <1>2, <1>3
<1>7. Session(c)'
  BY <1>5 DEF Session
<1>8. MessageTypes'
  BY <1>2, <1>5, <1>6 DEF MessageInv, MessageTypes
<1>9. free_session_id_v_' \in Seq(Nat \ {0})
  <2>1. sid[c] \in DOMAIN session_v_
    BY <1>2 DEF MessageInv, Seated
  <2>2. sid[c] \in Nat \ {0}
    BY <1>3, <2>1
  <2> QED
    BY <1>2, <1>3, <2>2
<1>10. \A d \in Conns: conn'[d] # "new" <=> conn[d] # "new"
  BY <1>2, <1>5
<1>11. Seated' /\ LoopPlace'
  BY <1>2, <1>6, <1>9, <1>10 DEF MessageInv, Seated, LoopPlace, Serving
<1>12. Touches({c})
  BY <1>2, <1>5, <1>10 DEF Touches, TableGrows, Freed
<1> QED
  BY <1>7, <1>8, <1>11, <1>12, LoopTouches

LEMMA LoopReceive ==
  ASSUME TypeOK, Placed, MessageInv, NEW c \in Conns, Receive(c)
  PROVE  MessageInv'
<1> USE DEF table, app, history
<1>1. PICK r: r = session_v_[sid[c]]
  OBVIOUS
<1>2. /\ lpc = "service" /\ conn[c] = "open" /\ lpc' \in {"service", "destroy"}
      /\ subscribed' = [subscribed EXCEPT ![r] = TRUE]
      /\ UNCHANGED <<table, rmutex, queue, obuf, app, at, history>>
  BY <1>1, AfterEventIsAPlace DEF Receive
<1>3. r \in Conns /\ conn[r] # "new"
  BY <1>1, <1>2 DEF MessageInv, Seated, Placed
<1>4. /\ subscribed' \in [Conns -> BOOLEAN]
      /\ \A d \in Conns: subscribed'[d] => subscribed[d] \/ d = r
  BY <1>2 DEF MessageInv, MessageTypes
<1>5. MessageTypes'
  BY <1>2, <1>4 DEF MessageInv, MessageTypes
<1>6. Seated' /\ LoopPlace'
  BY <1>2, <1>3, <1>4 DEF MessageInv, Seated, LoopPlace, Serving
<1> QED
  BY <1>2, <1>5, <1>6, Aside

\* The steps of the event loop that are about no message.
LEMMA LoopGoesOn ==
  ASSUME TypeOK, MessageInv,
         \/ CreateContext \/ ServiceFails \/ Cancelled \/ PendingQueue \/ DestroyContext \/ Stopped
  PROVE  MessageInv'
<1> DEFINE Same == UNCHANGED <<session_v_, free_session_id_v_, conn, sid, rmutex, subscribed,
                               queue, obuf, arg, accepted, wire, sends>>
           Wakes == \A u \in App: pc'[u] = pc[u] \/ pc'[u] \notin Speaking \cup {"wake"}
<1>1. Same /\ Wakes
  BY DEF CreateContext, ServiceFails, Cancelled, PendingQueue, DestroyContext, Stopped,
     table, record, app, history, Speaking
<1>2. at' \in Nat
  BY DEF MessageInv, MessageTypes, CreateContext, ServiceFails, Cancelled, PendingQueue,
     DestroyContext, Stopped
<1>3. MessageTypes'
  BY <1>1, <1>2 DEF MessageInv, MessageTypes
<1>4. lpc' \in Serving => next_session_id_' # 0
  <2>1. CASE CreateContext
    BY <2>1 DEF CreateContext, Serving
  <2>2. CASE ServiceFails \/ Cancelled \/ PendingQueue
    BY <2>2 DEF ServiceFails, Cancelled, PendingQueue, MessageInv, Seated, Serving, table
  <2>3. CASE DestroyContext \/ Stopped
    BY <2>3 DEF DestroyContext, Stopped, Serving
  <2> QED
    BY <2>1, <2>2, <2>3
<1>5. Seated'
  BY <1>1, <1>4 DEF MessageInv, Seated
<1>6. LoopPlace'
  <2>1. CASE CreateContext
    BY <2>1, AfterEventIsAPlace DEF CreateContext, LoopPlace
  <2>2. CASE PendingQueue
    <3>1. at \in DOMAIN session_v_ /\ session_v_[at] # None /\ UNCHANGED at
      BY <2>2 DEF PendingQueue, MessageInv, LoopPlace
    <3>2. at >= 1
      BY <3>1 DEF TypeOK
    <3> QED
      BY <1>1, <2>2, <3>1, <3>2 DEF PendingQueue, LoopPlace
  <2>3. CASE Cancelled
    BY <2>3 DEF Cancelled, LoopPlace
  <2>4. CASE ServiceFails \/ DestroyContext \/ Stopped
    BY <2>4 DEF ServiceFails, DestroyContext, Stopped, LoopPlace
  <2> QED
    BY <2>1, <2>2, <2>3, <2>4
<1> QED
  BY <1>1, <1>3, <1>5, <1>6, Aside

LEMMA InitMessages == Init => MessageInv
<1> SUFFICES ASSUME Init PROVE MessageInv
  OBVIOUS
<1>1. NoBuffer \in [writeable: BOOLEAN, busy: BOOLEAN, text: Nat]
  BY DEF NoBuffer
<1>2. MessageTypes
  <2>1. arg = [u \in App |-> arg[u]]
    BY DEF Init
  <2>2. /\ queue \in [Conns -> Seq(Nat)] /\ wire \in [Conns -> Seq(Nat)]
        /\ obuf \in [Conns -> [writeable: BOOLEAN, busy: BOOLEAN, text: Nat]]
        /\ accepted \in [Conns -> SUBSET (1 .. sends)]
    BY <1>1 DEF Init
  <2> QED
    BY <2>1, <2>2 DEF Init, MessageTypes
<1>3. Seated /\ LoopPlace /\ Senders /\ OwnMessages
  BY DEF Init, Seated, LoopPlace, Senders, Sender, OwnMessages, Speaking, Serving
<1>4. Sessions
  BY DEF Init, Sessions, Session
<1> QED
  BY <1>2, <1>3, <1>4 DEF MessageInv

LEMMA StepMessages == TypeOK /\ Placed /\ MessageInv /\ [Next]_vars => MessageInv'
<1> SUFFICES ASSUME TypeOK, Placed, MessageInv, [Next]_vars PROVE MessageInv'
  OBVIOUS
<1>1. ASSUME NEW t \in App, NewCall(t) \/ AppStep(t)
      PROVE  MessageInv'
  BY <1>1, OtherCalls, SendCall, SendGet, SendLock, SendEnqueue, SendStore, SendWake
     DEF NewCall, AppStep, SendStep
<1>2. ASSUME LoopStep \/ ClientStep
      PROVE  MessageInv'
  BY <1>2, LoopGoesOn, LoopPending, LoopDequeue, LoopOpen, LoopClose, LoopReceive, LoopWriteable
     DEF LoopStep, ClientStep
<1>3. CASE UNCHANGED vars
  BY <1>3, NothingMoves DEF vars
<1> QED
  BY <1>1, <1>2, <1>3 DEF Next

\* Whatever a session took is on the wire, staged in its output buffer or in its
\* queue, once, however senders and the event loop interleave; only a session whose
\* record was replaced by that of another has lost some of it, and it has none twice.
THEOREM MessagesAreKept == Spec => []NothingLost
<1>1. MessageInv => NothingLost
  <2> SUFFICES ASSUME MessageInv, NEW c \in Conns, conn[c] = "open"
               PROVE  LET held == wire[c] \o Staged(c) \o queue[c] IN
                      /\ ToSet(held) \subseteq accepted[c]
                      /\ Len(held) = Cardinality(ToSet(held))
                      /\ ~Freed(c) => ToSet(held) = accepted[c]
    BY DEF NothingLost
  <2>1. /\ wire[c] \in Seq(Nat) /\ queue[c] \in Seq(Nat) /\ obuf[c].text \in Nat
    BY DEF MessageInv, MessageTypes
  <2>2. /\ HeldSet(c) \subseteq accepted[c] /\ HeldLen(c) = Cardinality(HeldSet(c))
        /\ ~Freed(c) => HeldSet(c) = accepted[c]
    BY DEF MessageInv, Sessions, Session
  <2>3. Staged(c) \in Seq(Nat) /\ ToSet(Staged(c)) = StagedSet(c) /\ Len(Staged(c)) = StagedLen(c)
    <3>1. CASE obuf[c].busy /\ obuf[c].writeable
      <4>1. Staged(c) = <<obuf[c].text>> /\ StagedSet(c) = {obuf[c].text} /\ StagedLen(c) = 1
        BY <3>1 DEF Staged, StagedSet, StagedLen
      <4> QED
        BY <2>1, <4>1, ShortSequences
    <3>2. CASE ~(obuf[c].busy /\ obuf[c].writeable)
      <4>1. Staged(c) = <<>> /\ StagedSet(c) = {} /\ StagedLen(c) = 0
        BY <3>2 DEF Staged, StagedSet, StagedLen
      <4> QED
        BY <4>1, ShortSequences
    <3> QED
      BY <3>1, <3>2
  <2>4. /\ ToSet(wire[c] \o Staged(c) \o queue[c]) = HeldSet(c)
        /\ Len(wire[c] \o Staged(c) \o queue[c]) = HeldLen(c)
    <3>1. /\ ToSet(wire[c] \o Staged(c) \o queue[c])
               = ToSet(wire[c]) \cup ToSet(Staged(c)) \cup ToSet(queue[c])
          /\ Len(wire[c] \o Staged(c) \o queue[c]) = Len(wire[c]) + Len(Staged(c)) + Len(queue[c])
      BY <2>1, <2>3, JoinedSequences
    <3> QED
      BY <2>3, <3>1, Zenon DEF HeldSet, HeldLen
  <2> QED
    BY ONLY <2>2, <2>4, Zenon
<1>2. Spec => []MessageInv
  BY InitMessages, StepMessages, WebserverTypes, PlacedAlways, PTL DEF Spec
<1> QED
  BY <1>1, <1>2, PTL
=============================================================================
