------------------------------- MODULE Webserver -------------------------------
(* The web server of xo-websock: its life cycle (start, interrupt, stop, join)   *)
(* and the websocket sessions it serves. One thread, started by start_webserver, *)
(* runs the libwebsockets event loop and is the only one that gets callbacks;    *)
(* application threads call into the server and into its sessions. A step is a   *)
(* stretch of code between two accesses to state that threads share.             *)
(* A session is named by its connection, which also names its WebsocketSessionRecd *)
(* and its OutputBuffer; a message is named by the call that sends it.           *)
EXTENDS Integers, Sequences, FiniteSets, SequencesExt

CONSTANTS App,       \* application threads
          Budgets    \* bounds: what a run holds at most, one of these triples of
                     \* server calls, send_text calls and connections

ASSUME WebserverAssumption == IsFiniteSet(Budgets) /\ Budgets \subseteq Nat \X Nat \X Nat

Conns == 1 .. Max({b[3]: b \in Budgets})
Messages == 1 .. Max({b[2]: b \in Budgets})
Nobody == "nobody"   \* a mutex that is free
NoArg == [m |-> 0]
NoBuffer == [writeable |-> FALSE, busy |-> FALSE, text |-> 0]
None == 0            \* a null pointer, an absent session, connection or thread

\* no thread is the mark of a free mutex
ASSUME ThreadAssumption == Nobody \notin App

VARIABLES
  state_, interrupt_flag_, lws_cx_, thread_ptr_, mutex_,      \* WebserverImpl
  session_v_, free_session_id_v_, next_session_id_,           \* its session table
  conn, sid,          \* connections: their stage, their session id
  rmutex, out, subscribed, queue,                             \* WebsocketSessionRecd
  obuf,               \* OutputBuffer: writeable, busy (sent_seq < stored_seq), text
  pc, arg,            \* application threads
  calls, sends,       \* counts of the server calls and the send_text calls so far
  lpc, at, cancelled, \* the event loop thread, its place in session_v_, a pending wake-up
  accepted, wire,     \* history of the open sessions: messages taken, given to lws_write
  fault               \* a failed assertion, a wild access, std::terminate: nothing follows

server == <<state_, interrupt_flag_, lws_cx_, thread_ptr_, mutex_>>
table == <<session_v_, free_session_id_v_, next_session_id_, conn, sid>>
record == <<rmutex, out, subscribed, queue>>
app == <<pc, arg, calls, sends>>
loop == <<lpc, at, cancelled>>
history == <<accepted, wire>>
vars == <<server, table, record, obuf, app, loop, history, fault>>

Init ==
  /\ state_ = "stopped" /\ interrupt_flag_ = FALSE /\ lws_cx_ = FALSE
  /\ thread_ptr_ = None /\ mutex_ = Nobody
  /\ session_v_ = <<>> /\ free_session_id_v_ = <<>> /\ next_session_id_ = None
  /\ conn = [c \in Conns |-> "new"] /\ sid = [c \in Conns |-> None]
  /\ rmutex = [c \in Conns |-> Nobody] /\ out = [c \in Conns |-> FALSE]
  /\ subscribed = [c \in Conns |-> FALSE] /\ queue = [c \in Conns |-> <<>>]
  /\ obuf = [c \in Conns |-> NoBuffer]
  /\ pc = [t \in App |-> "idle"] /\ arg = [t \in App |-> NoArg] /\ calls = 0 /\ sends = 0
  /\ lpc = "none" /\ at = 0 /\ cancelled = FALSE
  /\ accepted = [c \in Conns |-> {}] /\ wire = [c \in Conns |-> <<>>]
  /\ fault = "none"

Goto(t, l) == pc' = [pc EXCEPT ![t] = l] /\ UNCHANGED <<arg, calls, sends>>
Fails(f) == fault' = f /\ UNCHANGED <<server, table, record, obuf, app, loop, history>>
Return(t) == pc' = [pc EXCEPT ![t] = "idle"] /\ arg' = [arg EXCEPT ![t] = NoArg] /\ UNCHANGED <<calls, sends>>

\* the record of a session lives until its id is given to another session
Freed(c) == session_v_[sid[c]] # c

-----------------------------------------------------------------------------
(* Calls of the application threads. *)

Opened == Cardinality({c \in Conns: conn[c] # "new"})
Within(server_calls, send_calls, conns) ==
  \E b \in Budgets: server_calls <= b[1] /\ send_calls <= b[2] /\ conns <= b[3]

\* thread t calls the server: it does what comes before the code label l, and goes there
Call(t, l) ==
  /\ pc[t] = "idle" /\ Within(calls + 1, sends, Opened)
  /\ calls' = calls + 1
  /\ pc' = [pc EXCEPT ![t] = l]
  /\ UNCHANGED <<arg, sends>>

\* start_webserver reads state_ before it takes the lock, and throws unless it is stopped
CallStart(t) ==
  /\ state_ = "stopped"
  /\ Call(t, "start_thread")
  /\ UNCHANGED <<server, table, record, obuf, loop, history, fault>>

CallInterrupt(t) ==
  /\ Call(t, "int_test")
  /\ interrupt_flag_' = TRUE
  /\ UNCHANGED <<state_, lws_cx_, thread_ptr_, mutex_, table, record, obuf, loop, history, fault>>

CallStop(t) == Call(t, "stop") /\ UNCHANGED <<server, table, record, obuf, loop, history, fault>>
CallJoin(t) == Call(t, "join") /\ UNCHANGED <<server, table, record, obuf, loop, history, fault>>

\* WebsocketSink::notify_ev, run by a callback of the endpoint the session subscribed to,
\* and WebserverImpl::send_text, which reads the storage of session_v_ without a lock
CallSend(t) ==
  \E c \in Conns:
    /\ subscribed[c] /\ pc[t] = "idle" /\ Within(calls, sends + 1, Opened)
    /\ sends' = sends + 1
    /\ pc' = [pc EXCEPT ![t] = "get"]
    /\ arg' = [arg EXCEPT ![t] = [m |-> sends + 1, id |-> sid[c], size |-> Len(session_v_)]]
    /\ UNCHANGED <<calls, server, table, record, obuf, loop, history, fault>>

\* replacing a std::thread that was not joined ends the process
StartThread(t) ==
  /\ pc[t] = "start_thread" /\ mutex_ = Nobody
  /\ IF thread_ptr_ # None
     THEN Fails("terminate")
     ELSE /\ thread_ptr_' = calls
          /\ state_' = "running"
          /\ lpc' = "create"
          /\ Return(t)
          /\ UNCHANGED <<interrupt_flag_, lws_cx_, mutex_, table, record, obuf,
                         at, cancelled, history, fault>>

\* interrupt_stop_webserver; its callers may hold mutex_ already
IntFlag(t) ==
  /\ pc[t] = "int_flag"
  /\ interrupt_flag_' = TRUE
  /\ Goto(t, "int_test")
  /\ UNCHANGED <<state_, lws_cx_, thread_ptr_, mutex_, table, record, obuf, loop, history, fault>>

IntTest(t) ==
  /\ pc[t] = "int_test"
  /\ Goto(t, IF lws_cx_ THEN "int_cancel" ELSE "int_state")
  /\ UNCHANGED <<server, table, record, obuf, loop, history, fault>>

IntCancel(t) ==
  /\ pc[t] = "int_cancel"
  /\ IF ~lws_cx_
     THEN Fails("wild")
     ELSE /\ cancelled' = TRUE
          /\ Goto(t, "int_state")
          /\ UNCHANGED <<server, table, record, obuf, lpc, at, history, fault>>

IntState(t) ==
  /\ pc[t] = "int_state" /\ mutex_ = Nobody
  /\ state_' = "stop_requested"
  /\ Return(t)
  /\ UNCHANGED <<interrupt_flag_, lws_cx_, thread_ptr_, mutex_, table, record, obuf,
                 loop, history, fault>>

\* stop_webserver calls interrupt_stop_webserver with mutex_ held: it never gets past IntState
Stop(t) ==
  /\ pc[t] = "stop" /\ mutex_ = Nobody
  /\ IF state_ = "running"
     THEN mutex_' = t /\ Goto(t, "int_flag")
     ELSE Return(t) /\ UNCHANGED mutex_
  /\ UNCHANGED <<state_, interrupt_flag_, lws_cx_, thread_ptr_, table, record, obuf,
                 loop, history, fault>>

\* join_webserver: wait for state_, then for the thread
Join(t) ==
  /\ pc[t] = "join" /\ mutex_ = Nobody
  /\ IF state_ = "stopped" THEN Goto(t, "join_thread") ELSE Goto(t, "waiting")
  /\ UNCHANGED <<server, table, record, obuf, loop, history, fault>>

JoinThread_trusts_state(t) ==
  /\ pc[t] = "join_thread"
  /\ Return(t)
  /\ UNCHANGED <<server, table, record, obuf, loop, history, fault>>

JoinThread(t) ==
  /\ pc[t] = "join_thread"
  /\ IF thread_ptr_ = None
     THEN Return(t)
     ELSE /\ pc' = [pc EXCEPT ![t] = "joining"]
          /\ arg' = [arg EXCEPT ![t] = [thread |-> thread_ptr_]]
          /\ UNCHANGED <<calls, sends>>
  /\ UNCHANGED <<server, table, record, obuf, loop, history, fault>>

\* the thread another call joined, and deleted, is not there any more
Joined(t) ==
  /\ pc[t] = "joining"
  /\ IF thread_ptr_ # arg[t].thread
     THEN Fails("wild")
     ELSE /\ lpc = "ended"
          /\ lpc' = "none"
          /\ thread_ptr_' = None
          /\ Return(t)
          /\ UNCHANGED <<state_, interrupt_flag_, lws_cx_, mutex_, table, record, obuf,
                         at, cancelled, history, fault>>

-----------------------------------------------------------------------------
(* send_text: WebserverImpl finds the session record without a lock, the record *)
(* decides under its own mutex, and wakes the event loop after releasing it.     *)

\* index the storage: a resize since it was read may have moved it
Get(t) ==
  /\ pc[t] = "get"
  /\ \/ /\ arg[t].size # Len(session_v_)
        /\ Fails("wild")
     \/ /\ pc' = [pc EXCEPT ![t] = "lock"]
        /\ arg' = [arg EXCEPT ![t] = [m |-> @.m, rec |-> session_v_[arg[t].id]]]
        /\ UNCHANGED <<calls, sends, server, table, record, obuf, loop, history, fault>>

\* WebsocketSessionRecd::send_text: lock, then is_output_busy
Lock(t) ==
  LET r == arg[t].rec IN
  /\ pc[t] = "lock"
  /\ IF Freed(r)
     THEN Fails("wild")
     ELSE /\ rmutex[r] = Nobody
          /\ IF ~out[r]
             THEN Return(t) /\ UNCHANGED rmutex
             ELSE /\ rmutex' = [rmutex EXCEPT ![r] = t]
                  /\ Goto(t, IF obuf[r].busy THEN "enqueue" ELSE "store")
          /\ UNCHANGED <<server, table, out, subscribed, queue, obuf, loop, history, fault>>

Enqueue(t) ==
  LET r == arg[t].rec IN
  /\ pc[t] = "enqueue"
  /\ IF Freed(r)
     THEN Fails("wild")
     ELSE /\ queue' = [queue EXCEPT ![r] = Append(@, arg[t].m)]
          /\ accepted' = [accepted EXCEPT ![r] = @ \cup {arg[t].m}]
          /\ rmutex' = [rmutex EXCEPT ![r] = Nobody]
          /\ Return(t)
          /\ UNCHANGED <<server, table, out, subscribed, obuf, loop, wire, fault>>

\* prepare_outbound_message, and the end of the lock
Store(t) ==
  LET r == arg[t].rec IN
  /\ pc[t] = "store"
  /\ IF Freed(r)
     THEN Fails("wild")
     ELSE /\ obuf' = [obuf EXCEPT ![r].busy = TRUE, ![r].text = arg[t].m]
          /\ accepted' = [accepted EXCEPT ![r] = @ \cup {arg[t].m}]
          /\ rmutex' = [rmutex EXCEPT ![r] = Nobody]
          /\ Goto(t, "wake")
          /\ UNCHANGED <<server, table, out, subscribed, queue, loop, wire, fault>>

\* lws_cancel_service, through output_buf_, which the lock no longer protects
Wake(t) ==
  LET r == arg[t].rec IN
  /\ pc[t] = "wake"
  /\ IF Freed(r) \/ ~out[r]
     THEN Fails("wild")
     ELSE /\ cancelled' = TRUE
          /\ Return(t)
          /\ UNCHANGED <<server, table, record, obuf, lpc, at, history, fault>>

-----------------------------------------------------------------------------
(* WebserverImplWsThread::run and the callbacks it makes. lws_service returns    *)
(* after an event, and the loop tests interrupt_flag_.                           *)

AfterEvent == IF interrupt_flag_ THEN "destroy" ELSE "service"

CreateContext_serves_first ==
  /\ lpc = "create"
  /\ lws_cx_' = TRUE
  /\ lpc' = "service"
  /\ next_session_id_' = 1
  /\ UNCHANGED <<state_, interrupt_flag_, thread_ptr_, mutex_, session_v_, free_session_id_v_,
                 conn, sid, record, obuf, app, at, cancelled, history, fault>>

\* lws_create_context may fail: run returns and state_ keeps its value
CreateContext ==
  /\ lpc = "create"
  /\ \/ /\ lws_cx_' = TRUE
        /\ lpc' = AfterEvent
        /\ next_session_id_' = 1
     \/ /\ lpc' = "ended"
        /\ UNCHANGED <<lws_cx_, next_session_id_>>
  /\ UNCHANGED <<state_, interrupt_flag_, thread_ptr_, mutex_, session_v_, free_session_id_v_,
                 conn, sid, record, obuf, app, at, cancelled, history, fault>>

\* lws_service reports an error
ServiceFails ==
  /\ lpc = "service"
  /\ lpc' = "destroy"
  /\ UNCHANGED <<server, table, record, obuf, app, at, cancelled, history, fault>>

Open_recycles_record(c) ==
  LET id == next_session_id_
      size == IF Len(session_v_) < id THEN id ELSE Len(session_v_)
      old == IF id <= Len(session_v_) THEN session_v_[id] ELSE None
      free == free_session_id_v_ IN
  /\ lpc = "service" /\ conn[c] = "new" /\ Within(calls, sends, Opened + 1)
  /\ \A d \in 1 .. c - 1: conn[d] # "new"
  /\ sid' = [sid EXCEPT ![c] = id]
  /\ conn' = [conn EXCEPT ![c] = "open"]
  /\ session_v_' = [i \in 1 .. size |-> IF i = id THEN c
                                        ELSE IF i <= Len(session_v_) THEN session_v_[i] ELSE None]
  /\ out' = [out EXCEPT ![c] = TRUE]
  /\ queue' = [d \in Conns |-> IF d = c /\ old # None THEN queue[old]
                               ELSE IF d = old THEN <<>> ELSE queue[d]]
  /\ obuf' = [obuf EXCEPT ![c].writeable = TRUE]
  /\ IF free = <<>>
     THEN next_session_id_' = size + 1 /\ UNCHANGED free_session_id_v_
     ELSE next_session_id_' = Last(free) /\ free_session_id_v_' = Front(free)
  /\ lpc' = AfterEvent
  /\ UNCHANGED <<server, rmutex, subscribed, app, at, cancelled, history, fault>>

\* WS_SERVER_BIND_PROTOCOL, then ESTABLISHED: notify_ws_session_open. The record that
\* had the id is destroyed, and its outbound_q_ with it, be its connection closed or
\* not; what it subscribed to is not told, and goes on sending to the id
Open(c) ==
  LET id == next_session_id_
      size == IF Len(session_v_) < id THEN id ELSE Len(session_v_)
      old == IF id <= Len(session_v_) THEN session_v_[id] ELSE None
      free == free_session_id_v_ IN
  /\ lpc = "service" /\ conn[c] = "new" /\ Within(calls, sends, Opened + 1)
  /\ \A d \in 1 .. c - 1: conn[d] # "new"
  /\ sid' = [sid EXCEPT ![c] = id]
  /\ conn' = [conn EXCEPT ![c] = "open"]
  /\ session_v_' = [i \in 1 .. size |-> IF i = id THEN c
                                        ELSE IF i <= Len(session_v_) THEN session_v_[i] ELSE None]
  /\ out' = [out EXCEPT ![c] = TRUE]
  /\ queue' = [d \in Conns |-> IF d = old THEN <<>> ELSE queue[d]]
  /\ obuf' = [obuf EXCEPT ![c].writeable = TRUE]
  /\ IF free = <<>>
     THEN next_session_id_' = size + 1 /\ UNCHANGED free_session_id_v_
     ELSE next_session_id_' = Last(free) /\ free_session_id_v_' = Front(free)
  /\ lpc' = AfterEvent
  /\ UNCHANGED <<server, rmutex, subscribed, app, at, cancelled, history, fault>>

Close_keeps_output(c) ==
  LET r == session_v_[sid[c]] IN
  /\ lpc \in {"service", "destroy"} /\ conn[c] = "open" /\ rmutex[r] = Nobody
  /\ subscribed' = [subscribed EXCEPT ![r] = FALSE]
  /\ free_session_id_v_' = Append(free_session_id_v_, sid[c])
  /\ conn' = [conn EXCEPT ![c] = "closed"]
  /\ obuf' = [obuf EXCEPT ![c] = NoBuffer]
  /\ accepted' = [accepted EXCEPT ![c] = {}] /\ wire' = [wire EXCEPT ![c] = <<>>]
  /\ lpc' = IF lpc = "service" THEN AfterEvent ELSE lpc
  /\ UNCHANGED <<server, session_v_, next_session_id_, sid, rmutex, out, queue, app, at,
                 cancelled, fault>>

\* CLOSED: notify_ws_session_close, unsubscribe_all, delete of the output buffer
Close(c) ==
  LET r == session_v_[sid[c]] IN
  /\ lpc \in {"service", "destroy"} /\ conn[c] = "open" /\ rmutex[r] = Nobody
  /\ out' = [out EXCEPT ![r] = FALSE]
  /\ subscribed' = [subscribed EXCEPT ![r] = FALSE]
  /\ free_session_id_v_' = Append(free_session_id_v_, sid[c])
  /\ conn' = [conn EXCEPT ![c] = "closed"]
  /\ obuf' = [obuf EXCEPT ![c] = NoBuffer]
  /\ accepted' = [accepted EXCEPT ![c] = {}] /\ wire' = [wire EXCEPT ![c] = <<>>]
  /\ lpc' = IF lpc = "service" THEN AfterEvent ELSE lpc
  /\ UNCHANGED <<server, session_v_, next_session_id_, sid, rmutex, queue, app, at,
                 cancelled, fault>>

\* RECEIVE: perform_ws_cmd, subscribe_endpoint
Receive(c) ==
  LET r == session_v_[sid[c]] IN
  /\ lpc = "service" /\ conn[c] = "open" /\ rmutex[r] = Nobody
  /\ subscribed' = [subscribed EXCEPT ![r] = TRUE]
  /\ lpc' = AfterEvent
  /\ UNCHANGED <<server, table, rmutex, out, queue, obuf, app, at, cancelled, history, fault>>

\* lws_write_aux: lws_write takes the message, whole or to finish it later
WriteAux(c) ==
  /\ wire' = [wire EXCEPT ![c] = Append(@, obuf[c].text)]
  /\ \/ obuf' = [obuf EXCEPT ![c].writeable = FALSE]
     \/ obuf' = [obuf EXCEPT ![c].writeable = TRUE, ![c].busy = FALSE]

\* SERVER_WRITEABLE: the rest of a message went out, or the buffer has one to send
Writeable(c) ==
  /\ lpc = "service" /\ conn[c] = "open"
  /\ \/ /\ ~obuf[c].writeable
        /\ obuf' = [obuf EXCEPT ![c].writeable = TRUE, ![c].busy = FALSE]
        /\ UNCHANGED wire
     \/ /\ obuf[c].writeable /\ obuf[c].busy
        /\ WriteAux(c)
  /\ lpc' = AfterEvent
  /\ UNCHANGED <<server, table, record, app, at, cancelled, accepted, fault>>

\* EVENT_WAIT_CANCELLED: lws_write_pending_traffic goes through session_v_
Cancelled ==
  /\ lpc = "service" /\ cancelled
  /\ cancelled' = FALSE
  /\ lpc' = "pending" /\ at' = 1
  /\ UNCHANGED <<server, table, record, obuf, app, history, fault>>

\* lws_write_pending, for the record at this place
Pending ==
  /\ lpc = "pending"
  /\ IF at > Len(session_v_)
     THEN lpc' = AfterEvent /\ at' = 0 /\ UNCHANGED <<obuf, wire>>
     ELSE LET r == session_v_[at] IN
          IF r # None /\ out[r] /\ obuf[r].writeable /\ obuf[r].busy
          THEN WriteAux(r) /\ lpc' = "queue" /\ UNCHANGED at
          ELSE at' = at + 1 /\ UNCHANGED <<lpc, obuf, wire>>
  /\ UNCHANGED <<server, table, record, app, cancelled, accepted, fault>>

\* outbound_q_.empty(), without the lock
PendingQueue ==
  /\ lpc = "queue"
  /\ lpc' = IF queue[session_v_[at]] = <<>> THEN "pending" ELSE "dequeue"
  /\ UNCHANGED <<server, table, record, obuf, app, at, cancelled, history, fault>>

PendingDequeue_one_message ==
  LET r == session_v_[at] IN
  /\ lpc = "dequeue" /\ rmutex[r] = Nobody
  /\ obuf' = [obuf EXCEPT ![r].busy = TRUE, ![r].text = Head(queue[r])]
  /\ queue' = [queue EXCEPT ![r] = Tail(@)]
  /\ lpc' = "pending" /\ at' = at + 1
  /\ UNCHANGED <<server, table, rmutex, out, subscribed, app, cancelled, history, fault>>

\* store_message asserts that the message before was sent
PendingDequeue ==
  LET r == session_v_[at] IN
  /\ lpc = "dequeue" /\ rmutex[r] = Nobody
  /\ IF obuf[r].busy
     THEN Fails("assert")
     ELSE /\ obuf' = [obuf EXCEPT ![r].busy = TRUE, ![r].text = Head(queue[r])]
          /\ queue' = [queue EXCEPT ![r] = Tail(@)]
          /\ lpc' = "pending"
          /\ UNCHANGED <<server, table, rmutex, out, subscribed, app, at, cancelled,
                         history, fault>>

DestroyContext_keeps_pointer ==
  /\ lpc = "destroy" /\ \A c \in Conns: conn[c] # "open"
  /\ cancelled' = FALSE
  /\ lpc' = "stopping"
  /\ UNCHANGED <<server, table, record, obuf, app, at, history, fault>>

\* lws_context_destroy closes every connection first
DestroyContext ==
  /\ lpc = "destroy" /\ \A c \in Conns: conn[c] # "open"
  /\ lws_cx_' = FALSE
  /\ cancelled' = FALSE
  /\ lpc' = "stopping"
  /\ UNCHANGED <<state_, interrupt_flag_, thread_ptr_, mutex_, table, record, obuf, app, at,
                 history, fault>>

Stopped_no_notify ==
  /\ lpc = "stopping" /\ mutex_ = Nobody
  /\ state_' = "stopped"
  /\ lpc' = "ended"
  /\ UNCHANGED <<interrupt_flag_, lws_cx_, thread_ptr_, mutex_, table, record, obuf, app,
                 at, cancelled, history, fault>>

\* state_, and notify_all
Stopped ==
  /\ lpc = "stopping" /\ mutex_ = Nobody
  /\ state_' = "stopped"
  /\ pc' = [t \in App |-> IF pc[t] = "waiting" THEN "join" ELSE pc[t]]
  /\ lpc' = "ended"
  /\ UNCHANGED <<interrupt_flag_, lws_cx_, thread_ptr_, mutex_, table, record, obuf, arg, calls, sends,
                 at, cancelled, history, fault>>

-----------------------------------------------------------------------------
NewCall(t) == CallStart(t) \/ CallInterrupt(t) \/ CallStop(t) \/ CallJoin(t) \/ CallSend(t)
InterruptStep(t) == IntFlag(t) \/ IntTest(t) \/ IntCancel(t) \/ IntState(t)
JoinStep(t) == Join(t) \/ JoinThread(t) \/ Joined(t)
SendStep(t) == Get(t) \/ Lock(t) \/ Enqueue(t) \/ Store(t) \/ Wake(t)
AppStep(t) == StartThread(t) \/ InterruptStep(t) \/ Stop(t) \/ JoinStep(t) \/ SendStep(t)

\* what the event loop thread does next by itself
LoopStep ==
  \/ CreateContext \/ Cancelled \/ Pending \/ PendingQueue \/ PendingDequeue
  \/ DestroyContext \/ Stopped
\* what the clients and the network make it do
ClientStep == ServiceFails \/ \E c \in Conns: Open(c) \/ Close(c) \/ Receive(c) \/ Writeable(c)

Next ==
  /\ fault = "none"
  /\ \/ \E t \in App: NewCall(t) \/ AppStep(t)
     \/ LoopStep
     \/ ClientStep

(* Threads that can run do; destroying a context closes the connections it has. *)
Fairness ==
  /\ \A t \in App: WF_vars(fault = "none" /\ AppStep(t))
  /\ WF_vars(fault = "none" /\ LoopStep)
  /\ \A c \in Conns: WF_vars(fault = "none" /\ lpc = "destroy" /\ Close(c))

Spec == Init /\ [][Next]_vars
FairSpec == Spec /\ Fairness

-----------------------------------------------------------------------------
(* Properties. *)

Labels == {"idle", "start_thread", "int_flag", "int_test", "int_cancel", "int_state",
           "stop", "join", "join_thread", "joining", "waiting", "get", "lock",
           "enqueue", "store", "wake"}

\* The types of the state of the server, of its session table, of its threads.
TypeOK ==
  /\ state_ \in {"stopped", "running", "stop_requested"}
  /\ interrupt_flag_ \in BOOLEAN /\ lws_cx_ \in BOOLEAN
  /\ thread_ptr_ \in Nat /\ calls \in Nat /\ next_session_id_ \in Nat
  /\ mutex_ \in App \cup {Nobody}
  /\ session_v_ \in Seq(Conns \cup {None}) /\ free_session_id_v_ \in Seq(Nat)
  /\ conn \in [Conns -> {"new", "open", "closed"}]
  /\ sid \in [Conns -> Nat] /\ out \in [Conns -> BOOLEAN]
  /\ pc \in [App -> Labels]
  /\ lpc \in {"none", "create", "service", "pending", "queue", "dequeue", "destroy",
              "stopping", "ended"}

\* The messages the buffer of a session holds and has not given to lws_write.
Staged(c) == IF obuf[c].busy /\ obuf[c].writeable THEN <<obuf[c].text>> ELSE <<>>

\* However senders and the event loop interleave, and however lws_write cuts a
\* message, a session has every message it took exactly once: given to lws_write,
\* staged in its output buffer, or in its outbound queue (send_text,
\* lws_write_pending, lws_write_completion). A session whose id was given to another
\* one while it was open lost the queue with its record (notify_ws_session_open);
\* it too has no message twice, and none that it did not take.
NothingLost ==
  \A c \in {d \in Conns: conn[d] = "open"}:
    LET held == wire[c] \o Staged(c) \o queue[c] IN
    /\ ToSet(held) \subseteq accepted[c]
    /\ Len(held) = Cardinality(ToSet(held))
    /\ ~Freed(c) => ToSet(held) = accepted[c]

\* A session record the table still has points to an output buffer only while
\* its connection is open: unsubscribe_all comes before the buffer is deleted, so
\* that the event loop, which goes through every record, finds no deleted buffer.
OutputIsLive ==
  \A i \in DOMAIN session_v_:
    session_v_[i] # None /\ out[session_v_[i]] => conn[session_v_[i]] = "open"

\* When the server says it is stopped, there is no context, no session that could
\* be written to, and no run thread that will touch either (run publishes the
\* state last; join_webserver relies on it).
StoppedIsQuiet ==
  state_ = "stopped" =>
    /\ ~lws_cx_ /\ \A c \in Conns: conn[c] # "open"
    /\ lpc \in {"none", "ended"}

\* No thread sleeps in join_webserver while the server is stopped: run publishes
\* the state and notifies under the lock the sleeper tested the state with.
NoSleepWhenStopped == state_ = "stopped" => \A t \in App: pc[t] # "waiting"

\* A call of join_webserver that returns leaves no run thread behind (the server
\* may be destroyed next).
JoinEndsThread ==
  [][\A t \in App: pc[t] \in {"join_thread", "joining"} /\ pc'[t] = "idle" => lpc' = "none"]_vars

\* The event loop, which goes through the table, comes to the buffer of this session.
Visited(c) == ~Freed(c) /\ out[c]

\* A message staged by a sender or by the event loop gets to lws_write: the wake-up
\* that follows a store is never lost (send_text, lws_write_pending). Two things end
\* this: the connection closes; or its id is given to another session, whose record
\* takes its place in the table or whose end, by that id, takes its buffer from it.
StagedIsWritten ==
  \A c \in Conns:
    Staged(c) # <<>> ~> \/ Staged(c) = <<>>
                        \/ conn[c] = "open" /\ ~Visited(c)
                        \/ fault # "none"

\* An interrupted server leaves the service loop and destroys its context, also
\* when the interrupt comes before the context exists or as the loop goes to
\* sleep (interrupt_stop_webserver sets the flag, then wakes the loop).
InterruptEndsService ==
  (interrupt_flag_ /\ lws_cx_) ~> (~lws_cx_ \/ fault # "none")

=============================================================================
