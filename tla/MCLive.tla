-------------------------------- MODULE MCLive --------------------------------
(* The two components that promise something will happen, in one run: part says     *)
(* which one moves, and the other stays at an initial state, where nothing that     *)
(* fairness speaks of is enabled. The web server comes twice: with the calls of     *)
(* all threads, and with those of one that starts it again after it failed.         *)
EXTENDS Webserver, Simulator

VARIABLE part
liveVars == <<part, vars, simVars>>

WebBudgets == {<<4, 1, 1>>, <<2, 2, 1>>, <<1, 4, 1>>, <<1, 2, 2>>, <<3, 0, 2>>, <<2, 1, 2>>, <<1, 1, 3>>}
\* start, join, start; a connection that closes in the first life of the server frees
\* the id that the second life gives to two connections; one message more than is staged
RestartBudget == <<3, 2, 3>>
BudgetsMC == WebBudgets \cup {RestartBudget}
FeedsMC == [s \in 1 .. 4 |-> CASE s = 1 -> {2, 4} [] s = 2 -> {} [] s = 3 -> {3} [] s = 4 -> {2}]

Restarter == CHOOSE t \in App: TRUE

Keeps(b) == calls <= b[1] /\ sends <= b[2] /\ Opened <= b[3]

\* In the part restart one thread calls, and does not interrupt the server; messages are
\* sent once a second client connected. What bounds new calls and connections leaves
\* those under way alone, and fairness with them.
OnlyRestarts ==
  /\ Keeps(RestartBudget) /\ ~interrupt_flag_ /\ (sends > 0 => Opened > 1)
  /\ \A t \in App: pc[t] # "stop" /\ (t # Restarter => pc[t] = "idle")

MCInit == part \in {"web", "restart", "sim"} /\ Init /\ SimInit

MCNext ==
  \/ part = "web" /\ Next /\ (\E b \in WebBudgets: Keeps(b))' /\ UNCHANGED <<part, simVars>>
  \/ part = "restart" /\ Next /\ OnlyRestarts' /\ UNCHANGED <<part, simVars>>
  \/ part = "sim" /\ SimNext /\ UNCHANGED <<part, vars>>

MCSpec == MCInit /\ [][MCNext]_liveVars /\ Fairness /\ SimFairness
=============================================================================
