------------------------------- MODULE NCNode --------------------------------
(***************************************************************************)
(* The nodes.  Each runs two threads that share quit, node_mutex and the   *)
(* network client: "main" (nc_run) registers, fetches data, computes and   *)
(* sends results; "beat" (nc_send_heartbeat) reports to the server every   *)
(* heartbeat_timeout seconds.  Both talk to the server through             *)
(* nc_send_msg_return_answer: lock, connect, send, receive, close, unlock. *)
(*                                                                         *)
(* The user's NCNodeDataProcessor is the parameter nc_process_data.        *)
(***************************************************************************)
EXTENDS NCNetwork, Naturals, FiniteSets

CONSTANTS MaxErrors,            \* max_error_count
          ErrorMod,             \* 2^8, the range of the uint8_t error counters
          nc_process_data(_),   \* the result for some data, never an exception
          NodeFaults            \* which of NodeFaultKind may happen

NodeFaultKind == {"crash",      \* a node process dies
                  "break",      \* a connection breaks before its answer arrives
                  "down"}       \* the server process ends, whatever its state

ASSUME ErrorsAssumption == /\ MaxErrors \in Nat \ {0}
                           /\ ErrorMod \in Nat
                           /\ MaxErrors < ErrorMod
ASSUME NodeFaultsAssumption == NodeFaults \subseteq NodeFaultKind
ASSUME ProcessDataAssumption == \A d \in Data : nc_process_data(d) \in Data

VARIABLES conn,          \* the connections, shared with the server
          node_quit,     \* std::atomic_bool quit of each node
          node_mutex,    \* who holds node_mutex: "free" or a thread
          thread_pc,     \* where each thread of each node is
          run_state,     \* run_state in nc_run
          error_counter, \* the local error_counter of each thread
          socket,        \* the socket a thread has open: {} or one connection
          result,        \* the answer a thread has received and not yet handled
          new_data       \* the result nc_run has computed

Thread == {"main", "beat"}

nodeState == <<node_quit, node_mutex, thread_pc, run_state, error_counter,
               socket, result, new_data>>
nodeVars == <<conn, nodeState>>

ThreadPC == {"loop",      \* at the top of the while loop; the heartbeat thread sleeps there
             "connect", "send", "receive",   \* inside nc_send_msg_return_answer
             "handle",    \* has an answer
             "join",      \* nc_run waits for the heartbeat thread
             "ended", "crashed"}

NCRunState == {"Init", "NeedData", "HasData"}

NodeInit ==
  /\ node_quit = [n \in Node |-> FALSE]
  /\ node_mutex = [n \in Node |-> "free"]
  /\ thread_pc = [n \in Node |-> [t \in Thread |-> "loop"]]
  /\ run_state = [n \in Node |-> "Init"]
  /\ error_counter = [n \in Node |-> [t \in Thread |-> 0]]
  /\ socket = [n \in Node |-> [t \in Thread |-> {}]]
  /\ result = [n \in Node |-> [t \in Thread |-> {}]]
  /\ new_data = [n \in Node |-> NoData]

Goto(n, t, pc) == thread_pc' = [thread_pc EXCEPT ![n][t] = pc]

\* Mutant of the next definition: a counter wide enough never to wrap.
CountErrorWide(n, t) == error_counter' = [error_counter EXCEPT ![n][t] = @ + 1]

\* error_counter++ on a uint8_t
CountError(n, t) == error_counter' = [error_counter EXCEPT ![n][t] = (@ + 1) % ErrorMod]

\* What the program says to the server in its present state.
RequestMessage(n, t) ==
  LET type == IF t = "beat" THEN "Heartbeat"
              ELSE CASE run_state[n] = "Init" -> "Init"
                     [] run_state[n] = "NeedData" -> "NodeNeedsMoreData"
                     [] run_state[n] = "HasData" -> "NewResultFromNode"
  IN  [msg_type |-> type, node_id |-> n,
       data |-> IF type = "NewResultFromNode" THEN new_data[n] ELSE NoData]

-----------------------------------------------------------------------------
(* nc_send_msg_return_answer, for thread t of node n *)

\* Mutant of the next definition: no lock_guard.
ConnectUnlocked(n, t, c) ==
  /\ thread_pc[n][t] = "connect"
  /\ conn[c] = NoConnection
  /\ node_mutex' = [node_mutex EXCEPT ![n] = t]
  /\ conn' = [conn EXCEPT ![c] = Connected]
  /\ socket' = [socket EXCEPT ![n][t] = {c}]
  /\ Goto(n, t, "send")
  /\ UNCHANGED <<node_quit, run_state, error_counter, result, new_data>>

\* Take node_mutex and connect.
nc_connect(n, t, c) ==
  /\ thread_pc[n][t] = "connect"
  /\ node_mutex[n] = "free"
  /\ conn[c] = NoConnection
  /\ node_mutex' = [node_mutex EXCEPT ![n] = t]
  /\ conn' = [conn EXCEPT ![c] = Connected]
  /\ socket' = [socket EXCEPT ![n][t] = {c}]
  /\ Goto(n, t, "send")
  /\ UNCHANGED <<node_quit, run_state, error_counter, result, new_data>>

\* The exception leaves through the lock_guard and is caught by the thread's
\* loop, which counts it and goes round again.
nc_connectThrows(n, t) ==
  /\ thread_pc[n][t] = "connect"
  /\ node_mutex[n] = "free"
  /\ CountError(n, t)
  /\ Goto(n, t, "loop")
  /\ UNCHANGED <<conn, node_quit, node_mutex, run_state, socket, result, new_data>>

nc_send_data(n, t) ==
  /\ thread_pc[n][t] = "send"
  /\ \E c \in socket[n][t] : conn' = [conn EXCEPT ![c].request = {RequestMessage(n, t)}]
  /\ Goto(n, t, "receive")
  /\ UNCHANGED <<node_quit, node_mutex, run_state, error_counter, socket, result, new_data>>

\* The socket and the lock_guard go out of scope.
Hangup(n, t) ==
  /\ \E c \in socket[n][t] : conn' = [conn EXCEPT ![c] = CloseClient(@)]
  /\ socket' = [socket EXCEPT ![n][t] = {}]
  /\ node_mutex' = [node_mutex EXCEPT ![n] = "free"]

nc_receive_data(n, t) ==
  /\ thread_pc[n][t] = "receive"
  /\ \E c \in socket[n][t] : /\ conn[c].answer # {}
                             /\ result' = [result EXCEPT ![n][t] = conn[c].answer]
  /\ Hangup(n, t)
  /\ Goto(n, t, "handle")
  /\ UNCHANGED <<node_quit, run_state, error_counter, new_data>>

\* Mutant of the next definition: the exception path forgets to close the socket.
ThrowsLeakingSocket(n, t) ==
  /\ thread_pc[n][t] \in {"send", "receive"}
  /\ socket' = [socket EXCEPT ![n][t] = {}]
  /\ node_mutex' = [node_mutex EXCEPT ![n] = "free"]
  /\ CountError(n, t)
  /\ Goto(n, t, "loop")
  /\ UNCHANGED <<conn, node_quit, run_state, result, new_data>>

\* connect, send or receive throws in the middle of the exchange: the caller
\* counts the error and tries again.
ExchangeThrows(n, t) ==
  /\ thread_pc[n][t] \in {"send", "receive"}
  /\ Hangup(n, t)
  /\ CountError(n, t)
  /\ Goto(n, t, "loop")
  /\ UNCHANGED <<node_quit, run_state, result, new_data>>

\* The server has closed its end without an answer.
ServerHungUp(n, t) ==
  /\ \E c \in socket[n][t] : conn[c].server = "closed" /\ conn[c].answer = {}
  /\ ExchangeThrows(n, t)

ConnectionBreaks(n, t) ==
  /\ "break" \in NodeFaults
  /\ ExchangeThrows(n, t)

-----------------------------------------------------------------------------
(* nc_run *)

TooManyErrors(n, t) == error_counter[n][t] >= MaxErrors

\* Mutants of the next definition: one error more than allowed, any number of errors.
MainLoopOneMore(n) ==
  /\ thread_pc[n]["main"] = "loop"
  /\ IF node_quit[n] \/ error_counter[n]["main"] > MaxErrors
     THEN /\ node_quit' = [node_quit EXCEPT ![n] = TRUE]
          /\ Goto(n, "main", "join")
     ELSE Goto(n, "main", "connect") /\ UNCHANGED node_quit
  /\ UNCHANGED <<conn, node_mutex, run_state, error_counter, socket, result, new_data>>
MainLoopUnlimited(n) ==
  /\ thread_pc[n]["main"] = "loop"
  /\ Goto(n, "main", IF node_quit[n] THEN "join" ELSE "connect")
  /\ UNCHANGED <<conn, node_quit, node_mutex, run_state, error_counter, socket, result, new_data>>

MainLoop(n) ==
  /\ thread_pc[n]["main"] = "loop"
  /\ IF node_quit[n] \/ TooManyErrors(n, "main")
     THEN /\ node_quit' = [node_quit EXCEPT ![n] = TRUE]
          /\ Goto(n, "main", "join")
     ELSE /\ Goto(n, "main", "connect")
          /\ UNCHANGED node_quit
  /\ UNCHANGED <<conn, node_mutex, run_state, error_counter, socket, result, new_data>>

\* Mutants of the next definition: an error makes the node ask for new data, and
\* the buffer of the first result is sent for every later row as well.
HandleForgetsResult(n) ==
  /\ thread_pc[n]["main"] = "handle"
  /\ \E r \in result[n]["main"] :
       /\ run_state' = [run_state EXCEPT ![n] =
                          IF r.msg_type = "NewDataFromServer" THEN "HasData" ELSE "NeedData"]
       /\ new_data' = [new_data EXCEPT ![n] = IF r.msg_type = "NewDataFromServer"
                                              THEN nc_process_data(r.data) ELSE @]
       /\ node_quit' = [node_quit EXCEPT ![n] = @ \/ r.msg_type = "Quit"]
  /\ result' = [result EXCEPT ![n]["main"] = {}]
  /\ Goto(n, "main", "loop")
  /\ UNCHANGED <<conn, node_mutex, error_counter, socket>>
HandleKeepsFirstResult(n) ==
  /\ thread_pc[n]["main"] = "handle"
  /\ \E r \in result[n]["main"] :
       /\ run_state' = [run_state EXCEPT ![n] =
                          IF r.msg_type = "NewDataFromServer" THEN "HasData" ELSE "NeedData"]
       /\ new_data' = [new_data EXCEPT ![n] = IF @ = NoData /\ r.msg_type = "NewDataFromServer"
                                              THEN nc_process_data(r.data) ELSE @]
       /\ node_quit' = [node_quit EXCEPT ![n] = @ \/ r.msg_type = "Quit"]
  /\ result' = [result EXCEPT ![n]["main"] = {}]
  /\ Goto(n, "main", "loop")
  /\ UNCHANGED <<conn, node_mutex, error_counter, socket>>

\* The switch over the answer; new data is processed before the loop goes on.
HandleAnswer(n) ==
  /\ thread_pc[n]["main"] = "handle"
  /\ \E r \in result[n]["main"] :
       CASE r.msg_type = "InitOK" ->
              /\ run_state' = [run_state EXCEPT ![n] = "NeedData"]
              /\ UNCHANGED <<node_quit, error_counter, new_data>>
         [] r.msg_type = "NewDataFromServer" ->
              /\ new_data' = [new_data EXCEPT ![n] = nc_process_data(r.data)]
              /\ run_state' = [run_state EXCEPT ![n] = "HasData"]
              /\ UNCHANGED <<node_quit, error_counter>>
         [] r.msg_type = "ResultOK" ->
              /\ run_state' = [run_state EXCEPT ![n] = "NeedData"]
              /\ UNCHANGED <<node_quit, error_counter, new_data>>
         [] r.msg_type = "Quit" ->
              /\ node_quit' = [node_quit EXCEPT ![n] = TRUE]
              /\ UNCHANGED <<run_state, error_counter, new_data>>
         [] OTHER ->
              /\ CountError(n, "main")
              /\ UNCHANGED <<node_quit, run_state, new_data>>
  /\ result' = [result EXCEPT ![n]["main"] = {}]
  /\ Goto(n, "main", "loop")
  /\ UNCHANGED <<conn, node_mutex, socket>>

\* heartbeat_thread.join(), and nc_run returns.
JoinHeartbeat(n) ==
  /\ thread_pc[n]["main"] = "join"
  /\ thread_pc[n]["beat"] = "ended"
  /\ Goto(n, "main", "ended")
  /\ UNCHANGED <<conn, node_quit, node_mutex, run_state, error_counter, socket, result, new_data>>

-----------------------------------------------------------------------------
(* nc_send_heartbeat *)

\* Mutant of the next definition: while (true).
BeatLoopForEver(n) ==
  /\ thread_pc[n]["beat"] = "loop"
  /\ Goto(n, "beat", "connect")
  /\ UNCHANGED <<conn, node_quit, node_mutex, run_state, error_counter, socket, result, new_data>>

BeatLoop(n) ==
  /\ thread_pc[n]["beat"] = "loop"
  /\ Goto(n, "beat", IF node_quit[n] THEN "ended" ELSE "connect")
  /\ UNCHANGED <<conn, node_quit, node_mutex, run_state, error_counter, socket, result, new_data>>

\* Mutant of the next definition: the heartbeat thread makes nc_run register again.
BeatRegistersAgain(n) ==
  /\ thread_pc[n]["beat"] = "handle"
  /\ \E r \in result[n]["beat"] :
       /\ run_state' = [run_state EXCEPT ![n] = IF r.msg_type = "InvalidNodeID" THEN "Init" ELSE @]
       /\ node_quit' = [node_quit EXCEPT ![n] = @ \/ r.msg_type = "Quit"]
  /\ result' = [result EXCEPT ![n]["beat"] = {}]
  /\ Goto(n, "beat", "loop")
  /\ UNCHANGED <<conn, node_mutex, error_counter, socket, new_data>>

\* The error limit is looked at here only, after an answer of any kind: an
\* exception goes straight back to the top of the loop.
HandleBeatAnswer(n) ==
  /\ thread_pc[n]["beat"] = "handle"
  /\ \E r \in result[n]["beat"] :
       /\ IF r.msg_type \in {"HeartbeatOK", "Quit"} THEN UNCHANGED error_counter
                                                     ELSE CountError(n, "beat")
       /\ node_quit' = [node_quit EXCEPT ![n] =
                          @ \/ r.msg_type = "Quit" \/ error_counter'[n]["beat"] >= MaxErrors]
  /\ result' = [result EXCEPT ![n]["beat"] = {}]
  /\ Goto(n, "beat", "loop")
  /\ UNCHANGED <<conn, node_mutex, run_state, socket, new_data>>

-----------------------------------------------------------------------------
\* The node process dies: its kernel closes whatever socket is open.
Crash(n) ==
  /\ "crash" \in NodeFaults
  /\ thread_pc[n]["main"] \notin {"ended", "crashed"}
  /\ thread_pc' = [thread_pc EXCEPT ![n] = [t \in Thread |-> "crashed"]]
  /\ conn' = [c \in Conn |-> IF c \in socket[n]["main"] \cup socket[n]["beat"]
                             THEN CloseClient(conn[c]) ELSE conn[c]]
  /\ socket' = [socket EXCEPT ![n] = [t \in Thread |-> {}]]
  /\ node_mutex' = [node_mutex EXCEPT ![n] = "free"]
  /\ result' = [result EXCEPT ![n] = [t \in Thread |-> {}]]
  /\ UNCHANGED <<node_quit, run_state, error_counter, new_data>>

\* listening: whether there is a server to connect to.
nc_send_msg_return_answer(n, t, listening) ==
  \/ listening /\ \E c \in Conn : nc_connect(n, t, c)
  \/ ~listening /\ nc_connectThrows(n, t)
  \/ nc_send_data(n, t) \/ nc_receive_data(n, t) \/ ServerHungUp(n, t)

nc_run(n) == MainLoop(n) \/ HandleAnswer(n) \/ JoinHeartbeat(n)
nc_send_heartbeat(n) == BeatLoop(n) \/ HandleBeatAnswer(n)
=============================================================================
