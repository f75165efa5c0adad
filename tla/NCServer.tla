------------------------------ MODULE NCServer -------------------------------
(***************************************************************************)
(* The server: nc_run accepts connections and starts one thread per        *)
(* connection, nc_handle_node answers the one request of its connection,   *)
(* nc_check_heartbeat looks for nodes that fell silent.  A step of a       *)
(* thread is what it does between two points where another thread can see  *)
(* or disturb it; a lock_guard block is one step, except the loop of       *)
(* nc_check_heartbeat, which calls the user's nc_node_timeout.             *)
(*                                                                         *)
(* The user's NCServerDataProcessor is a parameter.  Its callbacks are     *)
(* single steps here: the library calls all but nc_node_timeout without    *)
(* holding server_mutex, so locking is the user's own business.            *)
(***************************************************************************)
EXTENDS NCNetwork, Naturals, Sequences, FiniteSets

CONSTANTS MaxThreads,                \* max_thread_count in nc_run
          Faults,                    \* which of FaultKind may happen
          ProcessorState,            \* the states of the data processor
          NewProcessor,              \* the one the program starts with
          nc_is_job_done(_),         \* processor
          nc_node_timeout(_, _),     \* processor, node: the processor after the call
          nc_get_new_data(_, _),     \* processor, node: possible [processor, data]
          nc_process_result(_, _, _) \* processor, node, data: the processor after the call

FaultKind == {"accept",   \* nc_accept throws asio::system_error
              "client"}   \* a node closes its connection early (it crashed)

ASSUME MaxThreadsAssumption == MaxThreads \in Nat \ {0}
ASSUME FaultsAssumption == Faults \subseteq FaultKind
ASSUME ProcessorAssumption ==
  /\ NewProcessor \in ProcessorState
  /\ \A p \in ProcessorState : nc_is_job_done(p) \in BOOLEAN
  /\ \A p \in ProcessorState : \A n \in Node :
       /\ nc_node_timeout(p, n) \in ProcessorState
       /\ nc_get_new_data(p, n) \subseteq [processor : ProcessorState, data : Data]
       /\ \A d \in Data \cup {NoData} : nc_process_result(p, n, d) \in ProcessorState

VARIABLES conn,            \* the connections, shared with the nodes
          quit,            \* std::atomic_bool quit
          all_nodes,       \* per node: not registered, or how old its node_time is
          processor,       \* the data processor object
          saved,           \* what nc_save_data wrote: {} or one processor state
          main_pc,         \* where nc_run is
          client_threads,  \* the queue of threads nc_run has to join, oldest first
          handler,         \* where the thread serving each connection is
          reply,           \* its msg_to_node, once computed
          heartbeat_pc,    \* where nc_check_heartbeat is
          unchecked        \* the nodes its loop over all_nodes has still to visit

processVars == <<main_pc, client_threads>>
beatVars == <<heartbeat_pc, unchecked>>
handlerVars == <<handler, reply>>
vars == <<conn, quit, all_nodes, processor, saved, processVars, handlerVars, beatVars>>

\* A thread of the queue that has ended but is not joined yet.
Ended == "ended"
ASSUME EndedAssumption == Ended \notin Conn

MainPC == {"loop", "accept", "joinOldest", "save", "joinHeartbeat", "joinClients",
           "returned", "terminated"}
HandlerPC == {"none", "receive", "done", "register", "valid",
              "update", "getData", "process", "send"}
\* A node_time is "fresh" until more than heartbeat_timeout seconds have passed.
NodeTime == {"absent", "fresh", "stale"}

Message(type, data) == [msg_type |-> type, data |-> data]
Known(n) == all_nodes[n] # "absent"
Listening == main_pc \notin {"returned", "terminated"}
Running == {c \in Conn : handler[c] # "none"}

\* nc_check_heartbeat holds server_mutex for its whole loop over all_nodes.
ServerMutexFree == heartbeat_pc # "check"

Init ==
  /\ conn = [c \in Conn |-> NoConnection]
  /\ quit = FALSE
  /\ all_nodes = [n \in Node |-> "absent"]
  /\ processor = NewProcessor
  /\ saved = {}
  /\ main_pc = "loop"
  /\ client_threads = <<>>
  /\ handler = [c \in Conn |-> "none"]
  /\ reply = [c \in Conn |-> {}]
  /\ heartbeat_pc = "sleep"
  /\ unchecked = {}

-----------------------------------------------------------------------------
(* nc_run *)

\* Mutants of the next definition: while (true), and no while at all.
CheckQuitNever ==
  /\ main_pc = "loop"
  /\ main_pc' = "accept"
  /\ UNCHANGED <<conn, quit, all_nodes, processor, saved, client_threads, handlerVars, beatVars>>
CheckQuitAlways ==
  /\ main_pc = "loop"
  /\ main_pc' = "save"
  /\ UNCHANGED <<conn, quit, all_nodes, processor, saved, client_threads, handlerVars, beatVars>>

CheckQuit ==
  /\ main_pc = "loop"
  /\ main_pc' = IF quit THEN "save" ELSE "accept"
  /\ UNCHANGED <<conn, quit, all_nodes, processor, saved, client_threads, handlerVars, beatVars>>

\* Mutant of the next definition: off by one in client_threads.size() > max_thread_count.
AcceptOneMore(c) ==
  /\ main_pc = "accept"
  /\ conn[c].server = "queued"
  /\ conn' = [conn EXCEPT ![c].server = "open"]
  /\ handler' = [handler EXCEPT ![c] = "receive"]
  /\ client_threads' = Append(client_threads, c)
  /\ main_pc' = IF Len(client_threads') > MaxThreads + 1 THEN "joinOldest" ELSE "loop"
  /\ UNCHANGED <<quit, all_nodes, processor, saved, reply, beatVars>>

nc_accept(c) ==
  /\ main_pc = "accept"
  /\ conn[c].server = "queued"
  /\ conn' = [conn EXCEPT ![c].server = "open"]
  /\ handler' = [handler EXCEPT ![c] = "receive"]
  /\ client_threads' = Append(client_threads, c)
  /\ main_pc' = IF Len(client_threads') > MaxThreads THEN "joinOldest" ELSE "loop"
  /\ UNCHANGED <<quit, all_nodes, processor, saved, reply, beatVars>>

nc_acceptThrows ==
  /\ "accept" \in Faults
  /\ main_pc = "accept"
  /\ quit' = TRUE
  /\ main_pc' = "loop"
  /\ UNCHANGED <<conn, all_nodes, processor, saved, client_threads, handlerVars, beatVars>>

\* Mutant of the next definition: pop() without join().
PopOldest ==
  /\ main_pc = "joinOldest"
  /\ client_threads' = Tail(client_threads)
  /\ main_pc' = "loop"
  /\ UNCHANGED <<conn, quit, all_nodes, processor, saved, handlerVars, beatVars>>

\* client_threads.front().join() blocks until the oldest thread has ended.
JoinOldest ==
  /\ main_pc = "joinOldest"
  /\ Head(client_threads) = Ended
  /\ client_threads' = Tail(client_threads)
  /\ main_pc' = "loop"
  /\ UNCHANGED <<conn, quit, all_nodes, processor, saved, handlerVars, beatVars>>

nc_save_data ==
  /\ main_pc = "save"
  /\ saved' = {processor}
  /\ main_pc' = "joinHeartbeat"
  /\ UNCHANGED <<conn, quit, all_nodes, processor, client_threads, handlerVars, beatVars>>

\* Mutant of the next definition: detach() instead of join().
DetachHeartbeat ==
  /\ main_pc = "joinHeartbeat"
  /\ main_pc' = "joinClients"
  /\ UNCHANGED <<conn, quit, all_nodes, processor, saved, client_threads, handlerVars, beatVars>>

JoinHeartbeat ==
  /\ main_pc = "joinHeartbeat"
  /\ heartbeat_pc = "ended"
  /\ main_pc' = "joinClients"
  /\ UNCHANGED <<conn, quit, all_nodes, processor, saved, client_threads, handlerVars, beatVars>>

JoinClient ==
  /\ main_pc = "joinClients"
  /\ client_threads # <<>>
  /\ Head(client_threads) = Ended
  /\ client_threads' = Tail(client_threads)
  /\ UNCHANGED <<conn, quit, all_nodes, processor, saved, main_pc, handlerVars, beatVars>>

\* nc_run returns and the program ends; connections still queued are reset.
Return ==
  /\ main_pc = "joinClients"
  /\ client_threads = <<>>
  /\ main_pc' = "returned"
  /\ conn' = CloseAll(conn)
  /\ UNCHANGED <<quit, all_nodes, processor, saved, client_threads, handlerVars, beatVars>>

Main == \/ CheckQuit \/ nc_acceptThrows \/ JoinOldest \/ nc_save_data
        \/ JoinHeartbeat \/ JoinClient \/ Return
        \/ \E c \in Conn : nc_accept(c)

-----------------------------------------------------------------------------
(* nc_handle_node: the thread that serves connection c *)

\* The request the thread of c has read.
NodeMessage(c) == conn[c].request

Goto(c, pc) == handler' = [handler EXCEPT ![c] = pc]

\* The answer is computed; what is left is to send it.
Answer(c, message) ==
  /\ Goto(c, "send")
  /\ reply' = [reply EXCEPT ![c] = {message}]

\* The request has arrived; the first thing done with it is to look at quit.
nc_receive_data(c) ==
  /\ handler[c] = "receive"
  /\ NodeMessage(c) # {}
  /\ IF quit THEN Answer(c, Message("Quit", NoData))
             ELSE Goto(c, "done") /\ UNCHANGED reply
  /\ UNCHANGED <<conn, quit, all_nodes, processor, saved, processVars, beatVars>>

\* The node is gone before it sent anything: nc_receive_data throws, nothing in
\* the thread catches, std::terminate ends the process.
Terminate ==
  /\ main_pc' = "terminated"
  /\ conn' = CloseAll(conn)
  /\ client_threads' = <<>>
  /\ handler' = [c \in Conn |-> "none"]
  /\ reply' = [c \in Conn |-> {}]
  /\ heartbeat_pc' = "ended"
  /\ unchecked' = {}
  /\ UNCHANGED <<quit, all_nodes, processor, saved>>

nc_receive_dataThrows(c) ==
  /\ handler[c] = "receive"
  /\ NodeMessage(c) = {}
  /\ conn[c].client = "closed"
  /\ Terminate

\* Mutant of the next definition: the job is not asked.
QuitAtOnce(c) ==
  /\ handler[c] = "done"
  /\ quit' = TRUE
  /\ Answer(c, Message("Quit", NoData))
  /\ UNCHANGED <<conn, all_nodes, processor, saved, processVars, beatVars>>

AnswerIfJobDone(c) ==
  /\ handler[c] = "done"
  /\ nc_is_job_done(processor)
  /\ quit' = TRUE
  /\ Answer(c, Message("Quit", NoData))
  /\ UNCHANGED <<conn, all_nodes, processor, saved, processVars, beatVars>>

\* Mutant of the next definition: heartbeats are taken from anyone.
DispatchUnchecked(c) ==
  /\ handler[c] = "done"
  /\ ~ nc_is_job_done(processor)
  /\ \E m \in NodeMessage(c) :
       CASE m.msg_type = "Init" -> Goto(c, "register") /\ UNCHANGED reply
         [] m.msg_type = "Undefined" -> Answer(c, Message("UnknownError", NoData))
         [] m.msg_type = "Heartbeat" -> Goto(c, "update") /\ UNCHANGED reply
         [] OTHER -> Goto(c, "valid") /\ UNCHANGED reply
  /\ UNCHANGED <<conn, quit, all_nodes, processor, saved, processVars, beatVars>>

\* The switch over the message type, up to the first call that takes a lock.
Dispatch(c) ==
  /\ handler[c] = "done"
  /\ ~ nc_is_job_done(processor)
  /\ \E m \in NodeMessage(c) :
       CASE m.msg_type = "Init" -> Goto(c, "register") /\ UNCHANGED reply
         [] m.msg_type = "Undefined" -> Answer(c, Message("UnknownError", NoData))
         [] OTHER -> Goto(c, "valid") /\ UNCHANGED reply
  /\ UNCHANGED <<conn, quit, all_nodes, processor, saved, processVars, beatVars>>

\* An entry that exists keeps its old node_time.
nc_register_new_node(c) ==
  /\ handler[c] = "register"
  /\ ServerMutexFree
  /\ \E m \in NodeMessage(c) :
       all_nodes' = [all_nodes EXCEPT ![m.node_id] = IF @ = "absent" THEN "fresh" ELSE @]
  /\ Answer(c, Message("InitOK", NoData))
  /\ UNCHANGED <<conn, quit, processor, saved, processVars, beatVars>>

\* The lock is given up again before the caller acts on the result.
nc_valid_node_id(c) ==
  /\ handler[c] = "valid"
  /\ ServerMutexFree
  /\ \E m \in NodeMessage(c) :
       \/ ~ Known(m.node_id) /\ Answer(c, Message("InvalidNodeID", NoData))
       \/ /\ Known(m.node_id)
          /\ UNCHANGED reply
          /\ \/ m.msg_type = "Heartbeat" /\ Goto(c, "update")
             \/ m.msg_type = "NodeNeedsMoreData" /\ Goto(c, "getData")
             \/ m.msg_type = "NewResultFromNode" /\ Goto(c, "process")
  /\ UNCHANGED <<conn, quit, all_nodes, processor, saved, processVars, beatVars>>

\* Only a heartbeat gets here: requests for data and results leave node_time alone.
nc_update_node_time(c) ==
  /\ handler[c] = "update"
  /\ ServerMutexFree
  /\ \E m \in NodeMessage(c) : all_nodes' = [all_nodes EXCEPT ![m.node_id] = "fresh"]
  /\ Answer(c, Message("HeartbeatOK", NoData))
  /\ UNCHANGED <<conn, quit, processor, saved, processVars, beatVars>>

SendNewData(c) ==
  /\ handler[c] = "getData"
  /\ \E m \in NodeMessage(c) : \E o \in nc_get_new_data(processor, m.node_id) :
       /\ processor' = o.processor
       /\ Answer(c, Message("NewDataFromServer", o.data))
  /\ UNCHANGED <<conn, quit, all_nodes, saved, processVars, beatVars>>

\* Mutant of the next definition: the answer of another case.
TakeResultAsHeartbeat(c) ==
  /\ handler[c] = "process"
  /\ \E m \in NodeMessage(c) : processor' = nc_process_result(processor, m.node_id, m.data)
  /\ Answer(c, Message("HeartbeatOK", NoData))
  /\ UNCHANGED <<conn, quit, all_nodes, saved, processVars, beatVars>>

TakeResult(c) ==
  /\ handler[c] = "process"
  /\ \E m \in NodeMessage(c) : processor' = nc_process_result(processor, m.node_id, m.data)
  /\ Answer(c, Message("ResultOK", NoData))
  /\ UNCHANGED <<conn, quit, all_nodes, saved, processVars, beatVars>>

\* The answer goes out and the thread ends; its socket is destroyed with it.  If
\* the node has closed its side, the answer is lost.
nc_send_data(c) ==
  /\ handler[c] = "send"
  /\ conn' = [conn EXCEPT ![c] =
                CloseServer(IF @.client = "open" THEN [@ EXCEPT !.answer = reply[c]] ELSE @)]
  /\ handler' = [handler EXCEPT ![c] = "none"]
  /\ reply' = [reply EXCEPT ![c] = {}]
  /\ client_threads' = [i \in DOMAIN client_threads |->
                          IF client_threads[i] = c THEN Ended ELSE client_threads[i]]
  /\ UNCHANGED <<quit, all_nodes, processor, saved, main_pc, beatVars>>

\* The second of the two writes may already see that the node is gone.
nc_send_dataThrows(c) ==
  /\ handler[c] = "send"
  /\ conn[c].client = "closed"
  /\ Terminate

nc_handle_node(c) ==
  \/ nc_receive_data(c) \/ nc_receive_dataThrows(c)
  \/ AnswerIfJobDone(c) \/ Dispatch(c)
  \/ nc_register_new_node(c) \/ nc_valid_node_id(c) \/ nc_update_node_time(c)
  \/ SendNewData(c) \/ TakeResult(c)
  \/ nc_send_data(c) \/ nc_send_dataThrows(c)

-----------------------------------------------------------------------------
(* nc_check_heartbeat *)

\* Mutant of the next definition: server_mutex stays locked.
NeverUnlock == heartbeat_pc' = IF quit THEN "ended" ELSE "check"

\* The top of the while loop follows the end of its body at once.
NextBeat == heartbeat_pc' = IF quit THEN "ended" ELSE "sleep"

\* Mutant of the next definition: the loop runs over the map's values.
WakeOverTimes ==
  /\ heartbeat_pc = "sleep"
  /\ ~quit /\ heartbeat_pc' = "check" /\ unchecked' = {all_nodes[n] : n \in Node}
  /\ UNCHANGED <<conn, quit, all_nodes, processor, saved, processVars, handlerVars>>

Wake ==
  /\ heartbeat_pc = "sleep"
  /\ LET registered == {n \in Node : Known(n)}
     IN  \/ quit /\ heartbeat_pc' = "ended" /\ UNCHANGED unchecked
         \/ ~quit /\ registered # {} /\ heartbeat_pc' = "check" /\ unchecked' = registered
         \/ ~quit /\ registered = {} /\ UNCHANGED beatVars
  /\ UNCHANGED <<conn, quit, all_nodes, processor, saved, processVars, handlerVars>>

\* Mutant of the next definition: no node ever times out.
CheckNodeOnly(n) ==
  /\ heartbeat_pc = "check"
  /\ n \in unchecked
  /\ unchecked' = unchecked \ {n}
  /\ IF unchecked' = {} THEN NextBeat ELSE UNCHANGED heartbeat_pc
  /\ UNCHANGED <<conn, quit, all_nodes, processor, saved, processVars, handlerVars>>

\* A node stays in all_nodes, so it times out again in every later round.
CheckNode(n) ==
  /\ heartbeat_pc = "check"
  /\ n \in unchecked
  /\ unchecked' = unchecked \ {n}
  /\ processor' = IF all_nodes[n] = "stale" THEN nc_node_timeout(processor, n) ELSE processor
  /\ IF unchecked' = {} THEN NextBeat ELSE UNCHANGED heartbeat_pc
  /\ UNCHANGED <<conn, quit, all_nodes, saved, processVars, handlerVars>>

nc_check_heartbeat == Wake \/ \E n \in Node : CheckNode(n)

\* Time passes: more than heartbeat_timeout seconds since the node's node_time.
\* nc_check_heartbeat reads the clock once, before its loop.
Expire(n) ==
  /\ Listening
  /\ ServerMutexFree
  /\ all_nodes[n] = "fresh"
  /\ all_nodes' = [all_nodes EXCEPT ![n] = "stale"]
  /\ UNCHANGED <<conn, quit, processor, saved, processVars, handlerVars, beatVars>>

ServerNext == \/ Main
              \/ \E c \in Conn : nc_handle_node(c)
              \/ nc_check_heartbeat
              \/ \E n \in Node : Expire(n)

-----------------------------------------------------------------------------
(* The nodes, as far as the server can tell: anyone may connect, send any   *)
(* request, wait for the answer and close.  NCNode says what nodes do.      *)

serverVars == <<quit, all_nodes, processor, saved, processVars, handlerVars, beatVars>>

ClientConnect(c) ==
  /\ Listening
  /\ conn[c] = NoConnection
  /\ conn' = [conn EXCEPT ![c] = Connected]
  /\ UNCHANGED serverVars

\* A result and only a result comes with data.
Request == {m \in NCDecodedMessageFromNode :
              (m.data = NoData) <=> (m.msg_type # "NewResultFromNode")}

ClientSend(c) ==
  /\ conn[c].client = "open"
  /\ conn[c].request = {}
  /\ \E m \in Request : conn' = [conn EXCEPT ![c].request = {m}]
  /\ UNCHANGED serverVars

\* The node has its answer or sees that there will be none.
ClientReceive(c) ==
  /\ conn[c].client = "open"
  /\ conn[c].answer # {} \/ conn[c].server = "closed"
  /\ conn' = [conn EXCEPT ![c] = CloseClient(@)]
  /\ UNCHANGED serverVars

ClientCrash(c) ==
  /\ "client" \in Faults
  /\ conn[c].client = "open"
  /\ conn' = [conn EXCEPT ![c] = CloseClient(@)]
  /\ UNCHANGED serverVars

ClientNext == \E c \in Conn : \/ ClientConnect(c) \/ ClientSend(c)
                              \/ ClientReceive(c) \/ ClientCrash(c)

Next == ServerNext \/ ClientNext

Spec == Init /\ [][Next]_vars

\* Threads keep running and nodes finish what they began.  nc_accept takes the
\* kernel's queue in order, so no connection is passed over for ever; the
\* mutex is free for a whole heartbeat_timeout between two rounds of
\* nc_check_heartbeat, so no handler misses it for ever.
Fairness ==
  /\ WF_vars(CheckQuit) /\ WF_vars(JoinOldest) /\ WF_vars(nc_save_data)
  /\ WF_vars(JoinHeartbeat) /\ WF_vars(JoinClient) /\ WF_vars(Return)
  /\ WF_vars(nc_check_heartbeat)
  /\ \A c \in Conn : /\ SF_vars(nc_accept(c))
                     /\ SF_vars(nc_handle_node(c))
                     /\ WF_vars(ClientSend(c))
                     /\ WF_vars(ClientReceive(c))

FairSpec == Spec /\ Fairness

-----------------------------------------------------------------------------
(* Properties *)

TypeOK ==
  /\ conn \in [Conn -> Connection]
  /\ quit \in BOOLEAN
  /\ all_nodes \in [Node -> NodeTime]
  /\ processor \in ProcessorState
  /\ saved \in Optional(ProcessorState)
  /\ main_pc \in MainPC
  /\ client_threads \in Seq(Conn \cup {Ended})
  /\ handler \in [Conn -> HandlerPC]
  /\ reply \in [Conn -> Optional(NCDecodedMessageFromServer)]
  /\ heartbeat_pc \in {"sleep", "check", "ended"}
  /\ unchecked \in SUBSET Node

\* nc_run returns only when every thread that uses the server object has ended:
\* after it the caller may destroy the object (nc_server.cpp:149-158).
ThreadsJoined == main_pc = "returned" => Running = {} /\ heartbeat_pc = "ended"

\* nc_run waits before it takes one more connection than max_thread_count: no
\* more than that and the newest are served at the same time, and no more
\* threads than that have ended and still keep their resources.
ThreadBound == /\ Cardinality(Running) <= MaxThreads + 1
               /\ Len(client_threads) <= MaxThreads + 1

\* A thread serves exactly the connections nc_run accepted and did not close,
\* and nc_run still has the thread of each of them to join.
ServedConnections ==
  \A c \in Conn : /\ handler[c] # "none" <=> conn[c].server = "open"
                  /\ handler[c] # "none" => \E i \in DOMAIN client_threads : client_threads[i] = c

\* The node id is checked in one critical section and used in later ones: no
\* work is handed out to, no result taken from and no heartbeat acknowledged
\* to a node that is not registered at that very moment.
KnownNodesOnly ==
  \A c \in Conn :
    \/ handler[c] \in {"update", "getData", "process"}
    \/ \E r \in reply[c] : r.msg_type \in {"HeartbeatOK", "NewDataFromServer", "ResultOK"}
    => \E m \in NodeMessage(c) : Known(m.node_id)

\* As long as nc_accept works, the server gives up only when the job is done,
\* and threads still at work after that do not undo it.
QuitMeansDone == quit /\ "accept" \notin Faults => nc_is_job_done(processor)

\* Every request is answered, or its node learns that the server is gone.
RequestsAnswered ==
  \A c \in Conn : conn[c].client = "open" /\ conn[c].request # {}
                  ~> conn[c].answer # {} \/ conn[c].server = "closed"

\* Once the server has decided to quit, one more connection is enough to make
\* it save the data and return; no thread waits for another for ever.
QuitsWhenContacted ==
  quit /\ (\E c \in Conn : conn[c].server = "queued") ~> main_pc \in {"returned", "terminated"}
=============================================================================
