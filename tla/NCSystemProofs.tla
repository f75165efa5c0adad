--------------------------- MODULE NCSystemProofs ----------------------------
(***************************************************************************)
(* The whole program, for any number of rows, nodes and connections, any   *)
(* limit on threads and errors.  The proof is put together from those of   *)
(* the parts: every step of the system is a step of NCServer, of NCNodeEnv *)
(* and of MandelServer or leaves their variables alone, so that what was   *)
(* proved of each part holds of the whole.                                 *)
(*                                                                         *)
(* As in NCSystem, a callback of the data processor is one step, so what   *)
(* is said of rows and images is said of callbacks that do not overlap.    *)
(***************************************************************************)
EXTENDS NCSystem, TLAPS

\* A node that closes a connection early, because it crashed or the connection
\* broke, is what NCServer calls the fault "client".
SP == INSTANCE NCServerProofs
        WITH Data <- Payload, ProcessorState <- Processor,
             Faults <- ServerFaults \cup {"client"}
NP == INSTANCE NCNodeProofs
        WITH Data <- Payload, listening <- Srv!Listening, known <- {n \in Node : Srv!Known(n)}
JP == INSTANCE MandelServerProofs
        WITH saved <- {p.mandel_image : p \in saved},
             timeout <- {}, looked_up <- {}, overlapped <- FALSE

-----------------------------------------------------------------------------
(* The inductive invariant that ties the parts together *)

\* What was proved of the parts.
Parts == /\ SP!TypeOK /\ SP!SomethingToJoin /\ SP!JoinInv /\ SP!KnownInv
         /\ NP!TypeOK /\ NP!WorkInv /\ NP!OneExchangePerNode /\ NP!SocketsMatchConnections
         /\ NP!AnswersInv /\ NP!ExchangeInv

\* A thread of a node sends one request on a new connection.
SendInv ==
  \A n \in Node : \A t \in NP!Thread : thread_pc[n][t] = "send" =>
    \A c \in socket[n][t] : conn[c].request = {}

\* There is a result to send when one is sent.
DataInv == \A n \in Node : run_state[n] = "HasData" => new_data[n] \in LinePayload

\* The thread serving c is where the request of c makes it go, and what it is
\* about to send is an answer the node expects.
StageFits(c) ==
  handler[c] \notin {"none", "receive"} =>
    \E m \in conn[c].request :
      /\ handler[c] = "register" => m.msg_type = "Init"
      /\ handler[c] = "valid" => m.msg_type \notin {"Init", "Undefined"}
      /\ handler[c] = "update" => m.msg_type = "Heartbeat"
      /\ handler[c] = "getData" => m.msg_type = "NodeNeedsMoreData"
      /\ handler[c] = "process" => m.msg_type = "NewResultFromNode"
      /\ handler[c] = "send" => \E r \in NP!AnswersTo(m) : reply[c] = {r}
StageInv == \A c \in Conn : StageFits(c) /\ (handler[c] # "send" => reply[c] = {})

\* nc_run saves once, and only after quit.
SaveInv == /\ main_pc \notin {"loop", "accept", "joinOldest", "terminated"} => quit
           /\ main_pc \in {"loop", "accept", "joinOldest", "save"} => saved = {}

\* No thread outlives std::terminate.
EndInv == main_pc = "terminated" => \A c \in Conn : handler[c] = "none"

\* The job is done and stays done, or nc_accept has thrown.
Finished == gave_up \/ nc_is_job_done(processor)
GiveUpInv == gave_up \in BOOLEAN /\ (quit => Finished)

SystemInv == Parts /\ SendInv /\ DataInv /\ StageInv /\ SaveInv /\ EndInv /\ GiveUpInv

-----------------------------------------------------------------------------
(* Where the rows are *)

Active(n) == JP!Claimed[n]

\* The answers on their way to nc_run of n.
Pending(n) == result[n]["main"]
              \cup UNION {conn[c].answer \cup reply[c] : c \in socket[n]["main"]}

\* Every connection a node has is its own, and the request on it says what nc_run
\* is at.
RequestOf(c, n, t) ==
  \A m \in conn[c].request :
    /\ m.node_id = n
    /\ m.msg_type = "Heartbeat" <=> t = "beat"
    /\ m.msg_type = "NewResultFromNode" => m.data = new_data[n]
RequestsInv ==
  /\ \A n \in Node : \A t \in NP!Thread : \A c \in socket[n][t] : RequestOf(c, n, t)
  /\ \A c \in Conn : conn[c].answer # {} => conn[c].server = "closed" /\ conn[c].request # {}
  /\ \A n \in Node : \A t \in NP!Thread : result[n][t] # {} => thread_pc[n][t] = "handle"

\* A request for work or with a result is that of a thread that waits for its
\* answer, unless the node is dead; it is the only one of its node either way.
IsWork(m) == m.msg_type \in {"NodeNeedsMoreData", "NewResultFromNode"}
WaitInv ==
  /\ \A c \in Conn : \A m \in conn[c].request :
       IsWork(m) => c \in socket[m.node_id]["main"] \/ thread_pc[m.node_id]["main"] = "crashed"
  /\ \A c, d \in Conn : \A m \in conn[c].request, k \in conn[d].request :
       IsWork(m) /\ IsWork(k) /\ m.node_id = k.node_id => c = d

\* A live node either has the line of its active row or is about to learn of it.
WorkFits(n) ==
  \/ Active(n) = NoRow
  \/ thread_pc[n]["main"] = "crashed"
  \/ /\ run_state[n] = "HasData" /\ new_data[n] = Line(Active(n))
     /\ \A r \in Pending(n) : r.msg_type # "ResultOK"
  \/ /\ run_state[n] = "NeedData"
     /\ \E r \in Pending(n) : r.msg_type = "NewDataFromServer" /\ r.data = RowData(Active(n))

\* A request the server has still to deal with comes from a node with no active
\* row, or brings the line of it.
FlightFits(c) ==
  handler[c] # "send" /\ conn[c].server # "closed" =>
    \A m \in conn[c].request : IsWork(m) =>
      \/ Active(m.node_id) = NoRow
      \/ m.msg_type = "NewResultFromNode" /\ m.data = Line(Active(m.node_id))

TrackInv == /\ RequestsInv /\ WaitInv
            /\ Srv!Listening => \A n \in Node : WorkFits(n)
            /\ Srv!Listening => \A c \in Conn : FlightFits(c)
            /\ RowsOwned /\ RowsHoldTheirLines

-----------------------------------------------------------------------------
(* Why nodes quit *)

\* A node has decided to quit because the job is done or the server gave up, or
\* one of its threads has too many errors and is not going to make more.
GivenUp(n, t) == error_counter[n][t] >= MaxErrors /\ thread_pc[n][t] \in {"loop", "join", "ended", "crashed"}
SaysQuit(answers) == \E r \in answers : r.msg_type = "Quit"
QuitInv ==
  /\ \A n \in Node : node_quit[n] => Finished \/ \E t \in NP!Thread : GivenUp(n, t)
  /\ \A c \in Conn : SaysQuit(reply[c]) \/ SaysQuit(conn[c].answer) => Finished
  /\ \A n \in Node : \A t \in NP!Thread : SaysQuit(result[n][t]) => Finished
-----------------------------------------------------------------------------
(* The parts and their assumptions *)

LEMMA ProcessorFacts ==
  /\ NewProcessor \in Processor
  /\ \A p \in Processor : \A n \in Node :
       /\ nc_node_timeout(p, n) \in Processor
       /\ nc_get_new_data(p, n) \subseteq [processor : Processor, data : Payload]
       /\ \A d : nc_process_result(p, n, d) \in Processor
<1>1. NewProcessor \in Processor
  BY DEF NewProcessor, Processor, JobStatus, Blank, NoRow
<1>. SUFFICES ASSUME NEW p \in Processor, NEW n \in Node
              PROVE  /\ nc_node_timeout(p, n) \in Processor
                     /\ nc_get_new_data(p, n) \subseteq [processor : Processor, data : Payload]
                     /\ \A d : nc_process_result(p, n, d) \in Processor
  BY <1>1
<1>2. nc_node_timeout(p, n) \in Processor
  BY DEF nc_node_timeout, Processor, JobStatus
<1>3. nc_get_new_data(p, n) \subseteq [processor : Processor, data : Payload]
  <2>. DEFINE pool == {i \in Row : p.mandel_job[i] = "UnProcessed"}
              first == {i \in pool : \A j \in pool : i <= j}
              Given(i) == [processor |-> Assigned(p, n, i), data |-> RowData(i)]
  <2>1. \A i \in Row : Given(i) \in [processor : Processor, data : Payload]
    BY DEF Assigned, Processor, JobStatus, Payload, RowPayload
  <2>2. [processor |-> p, data |-> NoMoreRows] \in [processor : Processor, data : Payload]
    BY DEF Payload, RowPayload
  <2>3. first \subseteq Row
    OBVIOUS
  <2>4. nc_get_new_data(p, n) = IF pool = {} THEN {[processor |-> p, data |-> NoMoreRows]}
                                ELSE {Given(i) : i \in first}
    BY DEF nc_get_new_data
  <2>. HIDE DEF first, pool, Given
  <2>. QED BY <2>1, <2>2, <2>3, <2>4
<1>4. ASSUME NEW d PROVE nc_process_result(p, n, d) \in Processor
  <2>1. CASE ~Mapped(p, n) \/ p.mandel_job[p.node_map[n]] # "Processing"
    BY <2>1 DEF nc_process_result
  <2>2. CASE Mapped(p, n) /\ p.mandel_job[p.node_map[n]] = "Processing"
    <3>1. p.node_map[n] \in Row
      BY <2>2 DEF Mapped, Processor
    <3>2. d \in LinePayload \ {EmptyLine} => d.line \in Row
      BY DEF LinePayload, EmptyLine, Line
    <3>. QED BY <2>2, <3>1, <3>2 DEF nc_process_result, Processor, JobStatus
  <2>. QED BY <2>1, <2>2
<1>. QED BY <1>2, <1>3, <1>4

\* A node answers any data with a line.
LEMMA LineFacts == \A d : nc_process_data(d) \in LinePayload
<1>. SUFFICES ASSUME NEW d PROVE nc_process_data(d) \in LinePayload
  OBVIOUS
<1>1. CASE d \in {RowData(i) : i \in Row}
  BY <1>1 DEF nc_process_data, LinePayload, RowData
<1>2. CASE d \notin {RowData(i) : i \in Row}
  BY <1>2 DEF nc_process_data, LinePayload
<1>. QED BY <1>1, <1>2

\* The parts are used as they were proved to work.
LEMMA Assumptions ==
  /\ SP!MaxThreadsAssumption /\ SP!FaultsAssumption /\ SP!ProcessorAssumption
  /\ SP!EndedAssumption /\ SP!NoDataAssumption
  /\ NP!ErrorsAssumption /\ NP!NodeFaultsAssumption /\ NP!ProcessDataAssumption
  /\ NP!NoDataAssumption
<1>1. SP!ProcessorAssumption
  <2>1. \A p \in Processor : nc_is_job_done(p) \in BOOLEAN
    BY DEF nc_is_job_done
  <2>. QED BY <2>1, ProcessorFacts DEF SP!ProcessorAssumption
<1>2. NP!ProcessDataAssumption
  BY LineFacts DEF NP!ProcessDataAssumption, Payload
<1>. QED BY <1>1, <1>2, ServerAssumption, ServerFaultsAssumption, NodesAssumption, NoDataAssumption
         DEF SP!MaxThreadsAssumption, SP!FaultsAssumption, SP!FaultKind, SP!EndedAssumption, SP!Ended,
             Srv!Ended, SP!NoDataAssumption, NP!ErrorsAssumption, NP!NodeFaultsAssumption,
             NP!NodeFaultKind, Nd!NodeFaultKind, NP!NoDataAssumption

-----------------------------------------------------------------------------
(* The steps of the system are steps of the parts *)

ServerStep == \/ SP!Main \/ SP!nc_check_heartbeat
              \/ \E c \in Conn : SP!nc_handle_node(c)
              \/ \E n \in Node : SP!Expire(n)

\* What a node does, with the guard NCSystem has in each place.
NodeStep(n, t) ==
  \/ \E c \in Conn : Srv!Listening /\ NP!nc_connect(n, t, c)
  \/ ~Srv!Listening /\ NP!nc_connectThrows(n, t)
  \/ NP!nc_send_data(n, t)
  \/ NP!nc_receive_data(n, t)
  \/ /\ NP!ExchangeThrows(n, t)
     /\ "break" \in NodeFaults \/ \E c \in socket[n][t] : conn[c].server = "closed" /\ conn[c].answer = {}
  \/ NP!MainLoop(n) \/ NP!HandleAnswer(n) \/ NP!JoinHeartbeat(n)
  \/ NP!BeatLoop(n) \/ NP!HandleBeatAnswer(n) \/ NP!Crash(n)
NodesStep == \E n \in Node : \E t \in NP!Thread : NodeStep(n, t)

LEMMA SameMain == Srv!Main => SP!Main
BY DEF Srv!Main, SP!Main, Srv!CheckQuit, SP!CheckQuit, Srv!nc_acceptThrows, SP!nc_acceptThrows,
       Srv!JoinOldest, SP!JoinOldest, Srv!nc_save_data, SP!nc_save_data,
       Srv!JoinHeartbeat, SP!JoinHeartbeat, Srv!JoinClient, SP!JoinClient,
       Srv!Return, SP!Return, Srv!nc_accept, SP!nc_accept,
       Srv!handlerVars, SP!handlerVars, Srv!beatVars, SP!beatVars, Srv!Ended, SP!Ended,
       Srv!CloseAll, SP!CloseAll, Srv!CloseServer, SP!CloseServer,
       Srv!NoConnection, SP!NoConnection

LEMMA SameHeartbeat ==
  /\ Srv!nc_check_heartbeat => SP!nc_check_heartbeat
  /\ \A n \in Node : Srv!Expire(n) => SP!Expire(n)
<1>1. Srv!nc_check_heartbeat => SP!nc_check_heartbeat
  BY DEF Srv!nc_check_heartbeat, SP!nc_check_heartbeat, Srv!Wake, SP!Wake,
         Srv!CheckNode, SP!CheckNode, Srv!NextBeat, SP!NextBeat, Srv!Known, SP!Known,
         Srv!processVars, SP!processVars, Srv!handlerVars, SP!handlerVars,
         Srv!beatVars, SP!beatVars
<1>2. \A n \in Node : Srv!Expire(n) => SP!Expire(n)
  BY DEF Srv!Expire, SP!Expire, Srv!Listening, SP!Listening, Srv!ServerMutexFree,
         SP!ServerMutexFree, Srv!processVars, SP!processVars, Srv!handlerVars, SP!handlerVars,
         Srv!beatVars, SP!beatVars
<1>. QED BY <1>1, <1>2

LEMMA SameHandler ==
  ASSUME NEW c \in Conn, Srv!nc_handle_node(c) PROVE SP!nc_handle_node(c)
BY DEF Srv!nc_handle_node, SP!nc_handle_node, Srv!nc_receive_data, SP!nc_receive_data,
       Srv!nc_receive_dataThrows, SP!nc_receive_dataThrows, Srv!AnswerIfJobDone,
       SP!AnswerIfJobDone, Srv!Dispatch, SP!Dispatch, Srv!nc_register_new_node,
       SP!nc_register_new_node, Srv!nc_valid_node_id, SP!nc_valid_node_id,
       Srv!nc_update_node_time, SP!nc_update_node_time, Srv!SendNewData, SP!SendNewData,
       Srv!TakeResult, SP!TakeResult, Srv!nc_send_data, SP!nc_send_data,
       Srv!nc_send_dataThrows, SP!nc_send_dataThrows, Srv!NodeMessage, SP!NodeMessage,
       Srv!Goto, SP!Goto, Srv!Answer, SP!Answer, Srv!Message, SP!Message,
       Srv!Terminate, SP!Terminate, Srv!CloseAll, SP!CloseAll, Srv!CloseServer, SP!CloseServer,
       Srv!NoConnection, SP!NoConnection, Srv!Ended, SP!Ended, Srv!ServerMutexFree,
       SP!ServerMutexFree, Srv!Known, SP!Known, Srv!processVars, SP!processVars,
       Srv!handlerVars, SP!handlerVars, Srv!beatVars, SP!beatVars

LEMMA SameNode ==
  ASSUME NEW n \in Node, NEW t \in NP!Thread,
         NodeThread(n, t) \/ Nd!Crash(n) \/ Nd!ConnectionBreaks(n, t)
  PROVE  NodeStep(n, t)
<1>. USE DEF Nd!Goto, NP!Goto, Nd!CountError, NP!CountError, Nd!Hangup, NP!Hangup,
             Nd!CloseClient, NP!CloseClient, Nd!NoConnection, NP!NoConnection,
             Nd!Connected, NP!Connected
<1>1. Nd!nc_run(n) => NodeStep(n, t)
  BY DEF NodeStep, Nd!nc_run, Nd!MainLoop, NP!MainLoop, Nd!HandleAnswer, NP!HandleAnswer,
         Nd!JoinHeartbeat, NP!JoinHeartbeat, Nd!TooManyErrors, NP!TooManyErrors
<1>2. Nd!nc_send_heartbeat(n) => NodeStep(n, t)
  BY DEF NodeStep, Nd!nc_send_heartbeat, Nd!BeatLoop, NP!BeatLoop, Nd!HandleBeatAnswer,
         NP!HandleBeatAnswer
<1>3. Nd!ExchangeThrows(n, t) => NP!ExchangeThrows(n, t)
  BY DEF Nd!ExchangeThrows, NP!ExchangeThrows
<1>4. Nd!nc_send_msg_return_answer(n, t, Srv!Listening) => NodeStep(n, t)
  BY <1>3 DEF NodeStep, Nd!nc_send_msg_return_answer, Nd!nc_connect, NP!nc_connect,
              Nd!nc_connectThrows, NP!nc_connectThrows, Nd!nc_send_data, NP!nc_send_data,
              Nd!RequestMessage, NP!RequestMessage, Nd!nc_receive_data, NP!nc_receive_data,
              Nd!ServerHungUp
<1>5. Nd!Crash(n) => NodeStep(n, t)
  BY DEF NodeStep, Nd!Crash, NP!Crash, Nd!Thread, NP!Thread
<1>6. Nd!ConnectionBreaks(n, t) => NodeStep(n, t)
  BY <1>3 DEF NodeStep, Nd!ConnectionBreaks
<1>. QED BY <1>1, <1>2, <1>4, <1>5, <1>6 DEF NodeThread

LEMMA Steps ==
  ASSUME Next
  PROVE  \/ ServerStep /\ UNCHANGED nodeState
         \/ NodesStep /\ UNCHANGED serverState
<1>1. CASE Server
  <2>1. SP!nc_check_heartbeat \/ (\E c \in Conn : SP!nc_handle_node(c)) \/ SP!Main => ServerStep
    BY DEF ServerStep
  <2>. QED BY <1>1, <2>1, SameMain, SameHeartbeat, SameHandler DEF Server
<1>2. ASSUME NEW n \in Node, Expire(n) PROVE ServerStep /\ UNCHANGED nodeState
  BY <1>2, SameHeartbeat DEF Expire, ServerStep
<1>3. ASSUME NEW n \in Node, NEW t \in Nd!Thread, NodeThread(n, t) \/ Fault(n)
      PROVE  NodesStep /\ UNCHANGED serverState
  <2>1. Nd!Thread = NP!Thread
    BY DEF Nd!Thread, NP!Thread
  <2>2. \E s \in NP!Thread : NodeStep(n, s)
    BY <1>3, <2>1, SameNode DEF Fault
  <2>. QED BY <1>3, <2>2 DEF NodesStep, NodeThread, Fault
<1>. QED
  <2>1. "main" \in Nd!Thread
    BY DEF Nd!Thread
  <2>. QED BY <1>1, <1>2, <1>3, <2>1 DEF Next

\* The server gives up when nc_accept throws, and then only.
LEMMA GivesUp ==
  ASSUME [Next]_vars
  PROVE  \/ gave_up' = (gave_up \/ (SP!nc_acceptThrows /\ ~quit))
         \/ UNCHANGED <<gave_up, quit>>
<1>1. CASE Server
  <2>1. Srv!nc_acceptThrows => SP!nc_acceptThrows
    BY DEF Srv!nc_acceptThrows, SP!nc_acceptThrows, Srv!handlerVars, SP!handlerVars, Srv!beatVars, SP!beatVars
  <2>2. SP!nc_acceptThrows => Srv!nc_acceptThrows
    BY ServerFaultsAssumption
       DEF Srv!nc_acceptThrows, SP!nc_acceptThrows, Srv!handlerVars, SP!handlerVars, Srv!beatVars, SP!beatVars
  <2>. QED BY <1>1, <2>1, <2>2 DEF Server
<1>2. CASE UNCHANGED <<gave_up, quit>>
  BY <1>2
<1>3. ASSUME NEW n \in Node, Expire(n) PROVE UNCHANGED <<gave_up, quit>>
  BY <1>3 DEF Expire, Srv!Expire
<1>. QED BY <1>1, <1>2, <1>3 DEF Next, NodeThread, Fault, serverState, vars

-----------------------------------------------------------------------------
(* What the nodes do, as the server sees it *)

\* A node's step changes one connection at most, the way NCServer expects.
ClientStep == \E c \in Conn : \/ SP!ClientConnect(c) \/ SP!ClientSend(c)
                              \/ SP!ClientReceive(c) \/ SP!ClientCrash(c)

\* A connection a thread has a socket of is open.
LEMMA SocketOpen ==
  ASSUME SystemInv, NEW n \in Node, NEW t \in NP!Thread, NEW c \in socket[n][t]
  PROVE  c \in Conn /\ socket[n][t] = {c} /\ conn[c].client = "open"
<1>1. c \in Conn /\ socket[n][t] = {c}
  BY DEF SystemInv, Parts, NP!TypeOK, NP!Optional
<1>. QED BY <1>1 DEF SystemInv, Parts, NP!SocketsMatchConnections

\* Only one thread of a node has a socket.
LEMMA OneSocket ==
  ASSUME SystemInv, NEW n \in Node
  PROVE  \/ socket[n]["main"] \cup socket[n]["beat"] = {}
         \/ \E t \in NP!Thread, c \in Conn : /\ c \in socket[n][t]
                                             /\ socket[n]["main"] \cup socket[n]["beat"] = {c}
<1>1. socket[n]["main"] = {} \/ socket[n]["beat"] = {}
  BY DEF SystemInv, Parts, NP!OneExchangePerNode, NP!Thread
<1>2. "main" \in NP!Thread /\ "beat" \in NP!Thread
  BY DEF NP!Thread
<1>3. ASSUME NEW t \in NP!Thread, NEW c \in socket[n][t] PROVE c \in Conn /\ socket[n][t] = {c}
  BY SocketOpen
<1>. QED BY <1>1, <1>2, <1>3

LEMMA RequestIsRequest ==
  ASSUME SystemInv, NEW n \in Node, NEW t \in NP!Thread
  PROVE  NP!RequestMessage(n, t) \in SP!Request
<1>1. run_state[n] \in {"Init", "NeedData", "HasData"}
  BY DEF SystemInv, Parts, NP!TypeOK, NP!NCRunState
<1>2. run_state[n] = "HasData" => new_data[n] \in Payload /\ new_data[n] # NoData
  BY NoDataAssumption DEF SystemInv, DataInv, Payload
<1>. QED BY <1>1, <1>2 DEF NP!RequestMessage, SP!Request, SP!NCDecodedMessageFromNode,
                           SP!NCNodeMessageType, NP!Thread

LEMMA HangupSeen ==
  ASSUME SystemInv, UNCHANGED serverState, NEW n \in Node, NEW t \in NP!Thread, NP!Hangup(n, t)
  PROVE  ClientStep
<1>1. PICK c \in socket[n][t] : conn' = [conn EXCEPT ![c] = NP!CloseClient(@)]
  BY DEF NP!Hangup
<1>2. c \in Conn /\ conn[c].client = "open"
  BY SocketOpen
<1>3. SP!ClientCrash(c)
  BY <1>1, <1>2 DEF SP!ClientCrash, SP!serverVars, SP!processVars, SP!handlerVars, SP!beatVars, serverState,
                    SP!CloseClient, NP!CloseClient, SP!NoConnection, NP!NoConnection
<1>. QED BY <1>2, <1>3 DEF ClientStep

LEMMA ClientView ==
  ASSUME SystemInv, UNCHANGED serverState, NEW n \in Node, NEW t \in NP!Thread, NodeStep(n, t)
  PROVE  ClientStep \/ UNCHANGED conn
<1>. USE DEF SP!serverVars, SP!processVars, SP!handlerVars, SP!beatVars, serverState
<1>1. ASSUME NEW c \in Conn, Srv!Listening, NP!nc_connect(n, t, c) PROVE ClientStep
  <2>1. SP!ClientConnect(c)
    BY <1>1 DEF NP!nc_connect, SP!ClientConnect, Srv!Listening, SP!Listening,
                SP!NoConnection, NP!NoConnection, SP!Connected, NP!Connected
  <2>. QED BY <2>1 DEF ClientStep
<1>2. CASE NP!nc_send_data(n, t)
  <2>1. PICK c \in socket[n][t] : conn' = [conn EXCEPT ![c].request = {NP!RequestMessage(n, t)}]
    BY <1>2 DEF NP!nc_send_data
  <2>2. c \in Conn /\ conn[c].client = "open"
    BY SocketOpen
  <2>3. conn[c].request = {}
    BY <1>2 DEF SystemInv, SendInv, NP!nc_send_data
  <2>4. SP!ClientSend(c)
    BY <2>1, <2>2, <2>3, RequestIsRequest DEF SP!ClientSend
  <2>. QED BY <2>2, <2>4 DEF ClientStep
<1>3. CASE NP!nc_receive_data(n, t) \/ NP!ExchangeThrows(n, t)
  BY <1>3, HangupSeen DEF NP!nc_receive_data, NP!ExchangeThrows
<1>4. CASE NP!Crash(n)
  <2>1. CASE socket[n]["main"] \cup socket[n]["beat"] = {}
    <3>1. conn' = [c \in Conn |-> conn[c]]
      BY <1>4, <2>1 DEF NP!Crash
    <3>. QED BY <3>1 DEF SystemInv, Parts, NP!TypeOK
  <2>2. ASSUME NEW s \in NP!Thread, NEW c \in Conn, c \in socket[n][s],
               socket[n]["main"] \cup socket[n]["beat"] = {c}
        PROVE  ClientStep
    <3>1. conn' = [conn EXCEPT ![c] = NP!CloseClient(@)]
      BY <1>4, <2>2 DEF NP!Crash, SystemInv, Parts, NP!TypeOK
    <3>2. conn[c].client = "open"
      BY <2>2, SocketOpen
    <3>3. SP!ClientCrash(c)
      BY <3>1, <3>2 DEF SP!ClientCrash, SP!CloseClient, NP!CloseClient, SP!NoConnection, NP!NoConnection
    <3>. QED BY <3>3 DEF ClientStep
  <2>. QED BY <2>1, <2>2, OneSocket
<1>5. CASE NP!nc_connectThrows(n, t) \/ NP!MainLoop(n) \/ NP!HandleAnswer(n) \/ NP!JoinHeartbeat(n)
           \/ NP!BeatLoop(n) \/ NP!HandleBeatAnswer(n)
  BY <1>5 DEF NP!nc_connectThrows, NP!MainLoop, NP!HandleAnswer, NP!JoinHeartbeat,
              NP!BeatLoop, NP!HandleBeatAnswer
<1>. QED BY <1>1, <1>2, <1>3, <1>4, <1>5 DEF NodeStep

LEMMA NodesSeen ==
  ASSUME SystemInv, NodesStep, UNCHANGED serverState PROVE ClientStep \/ UNCHANGED conn
BY ClientView DEF NodesStep

LEMMA ServerView ==
  ASSUME SystemInv, [Next]_vars PROVE [SP!Next]_(SP!vars)
<1>1. CASE ServerStep
  BY <1>1 DEF ServerStep, SP!Next, SP!ServerNext
<1>2. CASE UNCHANGED serverState /\ (ClientStep \/ UNCHANGED conn)
  BY <1>2 DEF ClientStep, SP!Next, SP!ClientNext, SP!vars, serverState, SP!processVars,
              SP!handlerVars, SP!beatVars
<1>3. CASE UNCHANGED vars
  BY <1>2, <1>3 DEF vars
<1>. QED BY <1>1, <1>2, <1>3, Steps, NodesSeen

-----------------------------------------------------------------------------
(* What the server does, as the nodes see it *)

\* Who is registered, as NCNodeEnv has it.
Registered == {n \in Node : Srv!Known(n)}

\* A thread that serves a connection serves an open one, of a server that is
\* there.
LEMMA Serving ==
  ASSUME SystemInv, NEW c \in Conn, handler[c] # "none"
  PROVE  /\ conn[c].server = "open" /\ conn[c] \in NP!Connection
         /\ Srv!Listening
<1>1. conn[c].server = "open" /\ conn[c] \in NP!Connection
  BY DEF SystemInv, Parts, SP!JoinInv, SP!ServedConnections, NP!TypeOK
<1>2. main_pc # "terminated"
  BY DEF SystemInv, EndInv
<1>3. main_pc # "returned"
  BY DEF SystemInv, Parts, SP!JoinInv, SP!ServedConnections
<1>. QED BY <1>1, <1>2, <1>3 DEF Srv!Listening

\* The one request of a connection.
LEMMA OneRequest ==
  ASSUME SystemInv, NEW c \in Conn, NEW m \in conn[c].request
  PROVE  conn[c].request = {m} /\ m \in NP!NCDecodedMessageFromNode /\ m.node_id \in Node
BY DEF SystemInv, Parts, NP!TypeOK, NP!Connection, NP!Optional, NP!NCDecodedMessageFromNode

\* A thread that may act for the node of its request acts for a registered one.
LEMMA ActsForKnown ==
  ASSUME SystemInv, NEW c \in Conn, handler[c] \in {"update", "getData", "process"},
         NEW m \in conn[c].request
  PROVE  Srv!Known(m.node_id)
BY OneRequest DEF SystemInv, Parts, SP!KnownInv, SP!Privileged, SP!NodeMessage, SP!Known, Srv!Known

LEMMA EndSeen ==
  ASSUME SystemInv, NEW c \in Conn, handler[c] # "none", SP!Terminate, UNCHANGED nodeState
  PROVE  NP!ServerEnds
<1>1. Srv!Listening /\ ~Srv!Listening'
  BY Serving DEF SP!Terminate, Srv!Listening
<1>2. UNCHANGED Registered
  BY DEF SP!Terminate, Registered, Srv!Known
<1>. QED BY <1>1, <1>2 DEF NP!ServerEnds, SP!Terminate, Registered, NP!nodeState, nodeState,
            SP!CloseAll, NP!CloseAll, SP!CloseServer, NP!CloseServer, SP!NoConnection, NP!NoConnection

LEMMA HandlerView ==
  ASSUME SystemInv, NEW c \in Conn, SP!nc_handle_node(c), UNCHANGED nodeState
  PROVE  [NP!Next]_(NP!vars)
<1>. DEFINE Still == UNCHANGED <<conn, Srv!Listening, Registered>>
<1>1. Still => UNCHANGED NP!vars
  BY DEF NP!vars, NP!nodeVars, NP!nodeState, nodeState, NP!serverState, Registered
<1>2. CASE SP!nc_receive_data(c) \/ SP!AnswerIfJobDone(c) \/ SP!Dispatch(c) \/ SP!nc_valid_node_id(c)
           \/ SP!SendNewData(c) \/ SP!TakeResult(c)
  <2>1. UNCHANGED <<conn, main_pc, all_nodes>>
    BY <1>2 DEF SP!nc_receive_data, SP!AnswerIfJobDone, SP!Dispatch, SP!nc_valid_node_id,
                SP!SendNewData, SP!TakeResult, SP!processVars
  <2>2. Still
    BY <2>1 DEF Registered, Srv!Known, Srv!Listening
  <2>. QED BY <1>1, <2>2
<1>3. CASE SP!nc_receive_dataThrows(c) \/ SP!nc_send_dataThrows(c)
  <2>1. handler[c] # "none" /\ SP!Terminate
    BY <1>3 DEF SP!nc_receive_dataThrows, SP!nc_send_dataThrows
  <2>. QED BY <2>1, EndSeen DEF NP!Next
<1>4. CASE SP!nc_register_new_node(c)
  <2>1. PICK m \in conn[c].request :
          all_nodes' = [all_nodes EXCEPT ![m.node_id] = IF @ = "absent" THEN "fresh" ELSE @]
    BY <1>4 DEF SP!nc_register_new_node, SP!NodeMessage
  <2>2. m.msg_type = "Init" /\ m.node_id \in Node
    BY <1>4, OneRequest DEF SP!nc_register_new_node, SystemInv, StageInv, StageFits
  <2>3. conn[c].server = "open"
    BY <1>4, Serving DEF SP!nc_register_new_node
  <2>4. Registered' = Registered \cup {m.node_id}
    BY <2>1, <2>2 DEF Registered, Srv!Known, SystemInv, Parts, SP!TypeOK, SP!NodeTime
  <2>5. UNCHANGED <<conn, main_pc>>
    BY <1>4 DEF SP!nc_register_new_node, SP!processVars
  <2>6. NP!ServerRegisters(c)
    BY <2>2, <2>3, <2>4, <2>5 DEF NP!ServerRegisters, NP!nodeVars, NP!nodeState, nodeState,
                                  Registered, Srv!Listening
  <2>. QED BY <2>6 DEF NP!Next
<1>5. CASE SP!nc_update_node_time(c)
  <2>1. PICK m \in conn[c].request : all_nodes' = [all_nodes EXCEPT ![m.node_id] = "fresh"]
    BY <1>5 DEF SP!nc_update_node_time, SP!NodeMessage
  <2>2. m.node_id \in Node /\ Srv!Known(m.node_id)
    BY <1>5, OneRequest, ActsForKnown DEF SP!nc_update_node_time
  <2>3. Registered' = Registered
    BY <2>1, <2>2 DEF Registered, Srv!Known, SystemInv, Parts, SP!TypeOK
  <2>4. UNCHANGED <<conn, main_pc>>
    BY <1>5 DEF SP!nc_update_node_time, SP!processVars
  <2>. QED BY <1>1, <2>3, <2>4 DEF Srv!Listening
<1>6. CASE SP!nc_send_data(c)
  <2>1. PICK m \in conn[c].request : \E r \in NP!AnswersTo(m) : reply[c] = {r}
    BY <1>6 DEF SP!nc_send_data, SystemInv, StageInv, StageFits
  <2>2. conn[c].server = "open"
    BY <1>6, Serving DEF SP!nc_send_data
  <2>3. PICK r \in NP!AnswersTo(m) : reply[c] = {r}
    BY <2>1
  <2>4. conn' = [conn EXCEPT ![c] =
                   NP!CloseServer(IF @.client = "open" THEN [@ EXCEPT !.answer = {r}] ELSE @)]
    BY <1>6, <2>3 DEF SP!nc_send_data, SP!CloseServer, NP!CloseServer, SP!NoConnection, NP!NoConnection
  <2>5. UNCHANGED <<main_pc, all_nodes>>
    BY <1>6 DEF SP!nc_send_data
  <2>6. NP!ServerAnswers(c)
    BY <2>2, <2>4, <2>5 DEF NP!ServerAnswers, NP!nodeState, nodeState,
            NP!serverState, Srv!Listening, Srv!Known
  <2>. QED BY <2>6 DEF NP!Next
<1>. QED BY <1>2, <1>3, <1>4, <1>5, <1>6 DEF SP!nc_handle_node

LEMMA MainView ==
  ASSUME SystemInv, SP!Main, UNCHANGED nodeState
  PROVE  [NP!Next]_(NP!vars)
<1>1. CASE \E c \in Conn : SP!nc_accept(c)
  <2>1. PICK c \in Conn : SP!nc_accept(c)
    BY <1>1
  <2>2. Srv!Listening /\ Srv!Listening'
    BY <2>1 DEF SP!nc_accept, Srv!Listening
  <2>3. NP!ServerAccepts(c)
    BY <2>1, <2>2 DEF SP!nc_accept, NP!ServerAccepts, NP!nodeState, nodeState, NP!serverState, Srv!Known
  <2>. QED BY <2>3 DEF NP!Next
<1>2. CASE SP!Return
  <2>1. Srv!Listening /\ ~Srv!Listening'
    BY <1>2 DEF SP!Return, Srv!Listening
  <2>2. NP!ServerEnds
    BY <1>2, <2>1 DEF SP!Return, NP!ServerEnds, Srv!Known, NP!nodeState, nodeState,
         SP!CloseAll, NP!CloseAll, SP!CloseServer, NP!CloseServer, SP!NoConnection, NP!NoConnection
  <2>. QED BY <2>2 DEF NP!Next
<1>3. CASE \/ SP!CheckQuit \/ SP!nc_acceptThrows \/ SP!JoinOldest \/ SP!nc_save_data
           \/ SP!JoinHeartbeat \/ SP!JoinClient
  <2>1. UNCHANGED <<conn, all_nodes>> /\ Srv!Listening /\ Srv!Listening'
    BY <1>3 DEF SP!CheckQuit, SP!nc_acceptThrows, SP!JoinOldest, SP!nc_save_data, SP!JoinHeartbeat, SP!JoinClient, Srv!Listening
  <2>. QED BY <2>1 DEF NP!vars, NP!nodeVars, NP!nodeState, nodeState, NP!serverState, Srv!Known
<1>. QED BY <1>1, <1>2, <1>3 DEF SP!Main

LEMMA NodeSteps ==
  ASSUME NodesStep, UNCHANGED serverState PROVE NP!Next
<1>1. PICK n \in Node, t \in NP!Thread : NodeStep(n, t)
  BY DEF NodesStep
<1>2. UNCHANGED NP!serverState
  BY DEF serverState, NP!serverState, Srv!Listening, Srv!Known
<1>3. CASE NP!ExchangeThrows(n, t)
           /\ (\/ "break" \in NodeFaults
               \/ \E c \in socket[n][t] : conn[c].server = "closed" /\ conn[c].answer = {})
  <2>1. NP!ServerHungUp(n, t) \/ NP!ConnectionBreaks(n, t)
    BY <1>3 DEF NP!ServerHungUp, NP!ConnectionBreaks
  <2>. QED BY <1>2, <2>1 DEF NP!Next, NP!NodeFault, NP!MainThread, NP!BeatThread,
                             NP!nc_send_msg_return_answer, NP!Thread
<1>. QED BY <1>1, <1>2, <1>3 DEF NodeStep, NP!Next, NP!NodeFault, NP!MainThread, NP!BeatThread,
            NP!nc_send_msg_return_answer, NP!nc_run, NP!nc_send_heartbeat, NP!Thread

LEMMA NodeView ==
  ASSUME SystemInv, [Next]_vars PROVE [NP!Next]_(NP!vars)
<1>1. CASE ServerStep /\ UNCHANGED nodeState
  <2>1. ASSUME SP!nc_check_heartbeat \/ \E n \in Node : SP!Expire(n) PROVE [NP!Next]_(NP!vars)
    <3>1. UNCHANGED <<conn, main_pc>>
      BY <2>1 DEF SP!nc_check_heartbeat, SP!Wake, SP!CheckNode, SP!Expire, SP!processVars
    <3>2. Registered' = Registered
      BY <2>1 DEF SP!nc_check_heartbeat, SP!Wake, SP!CheckNode, SP!Expire, Registered, Srv!Known,
                  SystemInv, Parts, SP!TypeOK
    <3>. QED BY <1>1, <3>1, <3>2 DEF NP!vars, NP!nodeVars, NP!nodeState, nodeState, NP!serverState,
                                     Srv!Listening, Registered
  <2>. QED BY <1>1, <2>1, MainView, HandlerView DEF ServerStep
<1>2. CASE NodesStep /\ UNCHANGED serverState
  BY <1>2, NodeSteps
<1>3. CASE UNCHANGED vars
  BY <1>3 DEF vars, serverState, nodeState, NP!vars, NP!nodeVars, NP!nodeState, NP!serverState,
              Srv!Listening, Srv!Known
<1>. QED BY <1>1, <1>2, <1>3, Steps

-----------------------------------------------------------------------------
(* The invariant that ties the parts together is kept *)

\* The processor of the proofs of MandelServer is the one of the system.
LEMMA SameJob ==
  /\ JP!Row = Row /\ JP!NoRow = NoRow
  /\ JP!Processor = Processor /\ JP!NewProcessor = NewProcessor /\ JP!LinePayload = LinePayload
  /\ \A p : JP!nc_is_job_done(p) <=> nc_is_job_done(p)
  /\ \A p, n : /\ JP!nc_node_timeout(p, n) = nc_node_timeout(p, n)
               /\ JP!nc_get_new_data(p, n) = nc_get_new_data(p, n)
               /\ \A d : JP!nc_process_result(p, n, d) = nc_process_result(p, n, d)
<1>. USE DEF JP!Row, Row, JP!NoRow, NoRow, JP!Blank, Blank
<1>1. JP!Processor = Processor /\ JP!NewProcessor = NewProcessor
  BY DEF JP!Processor, Processor, JP!JobStatus, JobStatus, JP!NewProcessor, NewProcessor
<1>2. JP!LinePayload = LinePayload /\ JP!EmptyLine = EmptyLine
  BY DEF JP!LinePayload, LinePayload, JP!EmptyLine, EmptyLine, JP!Line, Line
<1>3. \A p : JP!nc_is_job_done(p) <=> nc_is_job_done(p)
  BY DEF JP!nc_is_job_done, nc_is_job_done
<1>4. \A p, n : JP!nc_node_timeout(p, n) = nc_node_timeout(p, n)
  BY DEF JP!nc_node_timeout, nc_node_timeout
<1>5. \A p, n : JP!nc_get_new_data(p, n) = nc_get_new_data(p, n)
  BY DEF JP!nc_get_new_data, nc_get_new_data, JP!Assigned, Assigned, JP!RowData, RowData,
         JP!NoMoreRows, NoMoreRows
<1>6. \A p, n, d : JP!nc_process_result(p, n, d) = nc_process_result(p, n, d)
  BY <1>2 DEF JP!nc_process_result, nc_process_result, JP!Mapped, Mapped
<1>. QED BY <1>1, <1>2, <1>3, <1>4, <1>5, <1>6

\* A finished job is not taken back: NCServerProofs asks that of the user's
\* processor, MandelServerProofs shows it.
LEMMA DoneStays == SP!DoneStays
<1>1. \A p \in JP!Processor : JP!nc_is_job_done(p) =>
        \A n \in Node :
          /\ JP!nc_is_job_done(JP!nc_node_timeout(p, n))
          /\ \A o \in JP!nc_get_new_data(p, n) : JP!nc_is_job_done(o.processor)
          /\ \A d : JP!nc_is_job_done(JP!nc_process_result(p, n, d))
  BY HeightAssumption, JP!JobStaysDone
<1>. QED BY <1>1, SameJob DEF SP!DoneStays

LEMMA PartsBegin == ASSUME Init PROVE SP!Init /\ NP!Init /\ JP!Init
<1>1. SP!Init
  BY DEF Init, Srv!Init, SP!Init, Srv!NoConnection, SP!NoConnection
<1>2. NP!Init
  <2>1. Srv!Listening /\ {n \in Node : Srv!Known(n)} = {}
    BY DEF Init, Srv!Init, Srv!Listening, Srv!Known
  <2>. QED BY <2>1 DEF Init, Srv!Init, Nd!NodeInit, NP!Init, NP!NodeInit, Srv!NoConnection,
                       NP!NoConnection, Nd!Thread, NP!Thread
<1>3. JP!Init
  BY SameJob DEF Init, Srv!Init, JP!Init
<1>. QED BY <1>1, <1>2, <1>3

LEMMA SystemBegin == ASSUME Init PROVE SystemInv
<1>1. SP!Init /\ NP!Init
  BY PartsBegin
<1>2. Parts
  BY <1>1, Assumptions, SP!TypeInductive, SP!JoinInductive, SP!KnownInductive,
     NP!TypeInductive, NP!ExchangeInductive, NP!SocketsInductive, NP!AnswersInductive DEF Parts
<1>3. SendInv /\ DataInv
  BY <1>1 DEF NP!Init, NP!NodeInit, SendInv, DataInv
<1>4. StageInv /\ SaveInv /\ EndInv
  BY <1>1 DEF SP!Init, StageInv, StageFits, SaveInv, EndInv
<1>5. GiveUpInv
  BY DEF Init, Srv!Init, GiveUpInv
<1>. QED BY <1>2, <1>3, <1>4, <1>5 DEF SystemInv

LEMMA PartsKept == ASSUME SystemInv, [Next]_vars PROVE Parts'
<1>1. [SP!Next]_(SP!vars)
  BY ServerView
<1>2. [NP!Next]_(NP!vars)
  BY NodeView
<1>3. Parts
  BY DEF SystemInv
<1>4. SP!TypeOK' /\ SP!SomethingToJoin'
  BY <1>1, <1>3, Assumptions, SP!TypeInductive DEF Parts
<1>5. SP!JoinInv' /\ SP!KnownInv'
  BY <1>1, <1>3, Assumptions, SP!JoinInductive, SP!KnownInductive DEF Parts
<1>7. NP!TypeOK' /\ NP!WorkInv' /\ NP!OneExchangePerNode'
  BY <1>2, <1>3, Assumptions, NP!TypeInductive, NP!ExchangeInductive DEF Parts
<1>8. NP!SocketsMatchConnections' /\ NP!AnswersInv' /\ NP!ExchangeInv'
  BY <1>2, <1>3, Assumptions, NP!SocketsInductive, NP!AnswersInductive DEF Parts
<1>. QED BY <1>4, <1>5, <1>7, <1>8 DEF Parts

\* What a server step does to the nodes' connections.
LEMMA ServerLeavesRequests ==
  ASSUME SystemInv, ServerStep, UNCHANGED nodeState
  PROVE  \A c \in Conn : conn'[c].request = conn[c].request \/ conn'[c].request = {}
<1>. USE DEF SP!CloseServer, SP!NoConnection, SystemInv, Parts, SP!TypeOK, SP!Connection
<1>1. CASE UNCHANGED conn
  BY <1>1
<1>2. CASE conn' = SP!CloseAll(conn)
  BY <1>2 DEF SP!CloseAll
<1>3. CASE \E c \in Conn : SP!nc_accept(c) \/ SP!nc_send_data(c)
  BY <1>3 DEF SP!nc_accept, SP!nc_send_data
<1>4. SP!Main => UNCHANGED conn \/ conn' = SP!CloseAll(conn) \/ \E c \in Conn : SP!nc_accept(c)
  BY DEF SP!Main, SP!CheckQuit, SP!nc_acceptThrows, SP!JoinOldest, SP!nc_save_data,
         SP!JoinHeartbeat, SP!JoinClient, SP!Return
<1>5. ASSUME NEW c \in Conn, SP!nc_handle_node(c)
      PROVE  UNCHANGED conn \/ conn' = SP!CloseAll(conn) \/ SP!nc_send_data(c)
  BY <1>5 DEF SP!nc_handle_node, SP!nc_receive_data, SP!nc_receive_dataThrows, SP!AnswerIfJobDone,
              SP!Dispatch, SP!nc_register_new_node, SP!nc_valid_node_id, SP!nc_update_node_time,
              SP!SendNewData, SP!TakeResult, SP!nc_send_dataThrows, SP!Terminate
<1>6. SP!nc_check_heartbeat \/ (\E n \in Node : SP!Expire(n)) => UNCHANGED conn
  BY DEF SP!nc_check_heartbeat, SP!Wake, SP!CheckNode, SP!Expire
<1>. QED BY <1>1, <1>2, <1>3, <1>4, <1>5, <1>6 DEF ServerStep

\* What a node's step does to the connections of others, and to its own.
LEMMA HangupLeaves ==
  ASSUME SystemInv, NEW n \in Node, NEW t \in NP!Thread, NP!Hangup(n, t)
  PROVE  /\ \A c \in Conn : conn'[c].request = conn[c].request \/ conn'[c].request = {}
         /\ \A m \in Node : \A s \in NP!Thread : socket'[m][s] \subseteq socket[m][s]
<1>1. PICK c \in socket[n][t] : conn' = [conn EXCEPT ![c] = NP!CloseClient(@)]
  BY DEF NP!Hangup
<1>2. c \in Conn
  BY SocketOpen
<1>. QED BY <1>1, <1>2 DEF NP!Hangup, NP!CloseClient, NP!NoConnection,
                           SystemInv, Parts, NP!TypeOK, NP!Connection

LEMMA SendKept == ASSUME SystemInv, [Next]_vars PROVE SendInv'
<1>0. NP!TypeOK /\ NP!OneExchangePerNode /\ NP!SocketsMatchConnections /\ SendInv
  BY DEF SystemInv, Parts
<1>1. ASSUME \A c \in Conn : conn'[c].request = conn[c].request \/ conn'[c].request = {},
             \A n \in Node : \A t \in NP!Thread : socket'[n][t] \subseteq socket[n][t],
             \A n \in Node : \A t \in NP!Thread : thread_pc'[n][t] = "send" => thread_pc[n][t] = "send"
      PROVE  SendInv'
  <2>1. \A n \in Node : \A t \in NP!Thread : socket[n][t] \subseteq Conn
    BY <1>0 DEF NP!TypeOK, NP!Optional
  <2>. QED BY <1>0, <1>1, <2>1 DEF SendInv
<1>2. CASE ServerStep /\ UNCHANGED nodeState
  BY <1>1, <1>2, ServerLeavesRequests DEF nodeState
<1>3. ASSUME NEW n \in Node, NEW t \in NP!Thread, NodeStep(n, t), UNCHANGED serverState PROVE SendInv'
  <2>1. ASSUME NEW c \in Conn, NP!nc_connect(n, t, c) PROVE SendInv'
    <3>1. /\ conn' = [conn EXCEPT ![c] = NP!Connected] /\ socket' = [socket EXCEPT ![n][t] = {c}]
          /\ thread_pc' = [thread_pc EXCEPT ![n][t] = "send"]
      BY <2>1 DEF NP!nc_connect, NP!Goto
    <3>2. conn'[c].request = {} /\ \A d \in Conn \ {c} : conn'[d] = conn[d]
      BY <1>0, <3>1 DEF NP!TypeOK, NP!Connected
    <3>3. \A m \in Node : \A s \in NP!Thread : socket[m][s] \subseteq Conn
      BY <1>0 DEF NP!TypeOK, NP!Optional
    <3>4. ASSUME NEW m \in Node, NEW s \in NP!Thread, thread_pc'[m][s] = "send", NEW d \in socket'[m][s]
          PROVE  conn'[d].request = {}
      <4>1. CASE m = n /\ s = t
        BY <1>0, <3>1, <3>2, <3>4, <4>1 DEF NP!TypeOK
      <4>2. CASE ~(m = n /\ s = t)
        <5>1. socket'[m][s] = socket[m][s] /\ thread_pc'[m][s] = thread_pc[m][s]
          BY <1>0, <3>1, <4>2 DEF NP!TypeOK
        <5>2. conn[d].request = {} /\ d \in Conn
          BY <1>0, <3>3, <3>4, <5>1 DEF SendInv
        <5>. QED BY <3>2, <5>2
      <4>. QED BY <4>1, <4>2
    <3>. QED BY <3>4 DEF SendInv
  <2>2. CASE NP!nc_send_data(n, t)
    <3>1. PICK c \in socket[n][t] : conn' = [conn EXCEPT ![c].request = {NP!RequestMessage(n, t)}]
      BY <2>2 DEF NP!nc_send_data
    <3>2. c \in Conn
      BY SocketOpen
    <3>3. socket' = socket /\ thread_pc' = [thread_pc EXCEPT ![n][t] = "receive"]
      BY <2>2 DEF NP!nc_send_data, NP!Goto
    <3>4. ASSUME NEW m \in Node, NEW s \in NP!Thread, thread_pc'[m][s] = "send", NEW d \in socket'[m][s]
          PROVE  conn'[d].request = {}
      <4>1. ~(m = n /\ s = t) /\ thread_pc[m][s] = "send"
        BY <1>0, <3>3, <3>4 DEF NP!TypeOK
      <4>2. d # c
        BY <1>0, <3>1, <3>3, <3>4, <4>1 DEF NP!SocketsMatchConnections
      <4>3. d \in Conn
        BY <3>3, <3>4, SocketOpen
      <4>. QED BY <1>0, <3>1, <3>3, <3>4, <4>1, <4>2, <4>3 DEF SendInv, NP!TypeOK
    <3>. QED BY <3>4 DEF SendInv
  <2>3. CASE NP!nc_receive_data(n, t) \/ NP!ExchangeThrows(n, t)
    <3>1. NP!Hangup(n, t)
      BY <2>3 DEF NP!nc_receive_data, NP!ExchangeThrows
    <3>0. PICK pc \in {"handle", "loop"} : thread_pc' = [thread_pc EXCEPT ![n][t] = pc]
      BY <2>3 DEF NP!nc_receive_data, NP!ExchangeThrows, NP!Goto
    <3>2. \A m \in Node : \A s \in NP!Thread : thread_pc'[m][s] = "send" => thread_pc[m][s] = "send"
      BY <1>0, <3>0 DEF NP!TypeOK
    <3>. QED BY <1>1, <3>1, <3>2, HangupLeaves
  <2>4. CASE NP!Crash(n)
    <3>1. \A c \in Conn : conn'[c].request = conn[c].request \/ conn'[c].request = {}
      BY <2>4 DEF NP!Crash, NP!CloseClient, NP!NoConnection
    <3>2. \A m \in Node : \A s \in NP!Thread :
             /\ socket'[m][s] \subseteq socket[m][s]
             /\ thread_pc'[m][s] = "send" => thread_pc[m][s] = "send"
      BY <1>0, <2>4 DEF NP!Crash, NP!TypeOK
    <3>. QED BY <1>1, <3>1, <3>2
  <2>5. CASE NP!nc_connectThrows(n, t) \/ NP!MainLoop(n) \/ NP!HandleAnswer(n) \/ NP!JoinHeartbeat(n)
             \/ NP!BeatLoop(n) \/ NP!HandleBeatAnswer(n)
    <3>1. UNCHANGED <<conn, socket>>
      BY <2>5 DEF NP!nc_connectThrows, NP!MainLoop, NP!HandleAnswer, NP!JoinHeartbeat,
                  NP!BeatLoop, NP!HandleBeatAnswer
    <3>2. \A m \in Node : \A s \in NP!Thread : thread_pc'[m][s] = "send" => thread_pc[m][s] = "send"
      BY <1>0, <2>5 DEF NP!nc_connectThrows, NP!MainLoop, NP!HandleAnswer, NP!JoinHeartbeat,
                  NP!BeatLoop, NP!HandleBeatAnswer, NP!Goto, NP!TypeOK, NP!Thread
    <3>. QED BY <1>1, <3>1, <3>2
  <2>. QED BY <1>3, <2>1, <2>2, <2>3, <2>4, <2>5 DEF NodeStep
<1>4. CASE UNCHANGED vars
  BY <1>1, <1>4 DEF vars, nodeState
<1>. QED BY <1>2, <1>3, <1>4, Steps DEF NodesStep

LEMMA DataKept == ASSUME SystemInv, [Next]_vars PROVE DataInv'
<1>0. NP!TypeOK /\ DataInv
  BY DEF SystemInv, Parts
<1>1. CASE UNCHANGED <<run_state, new_data>>
  BY <1>0, <1>1 DEF DataInv
<1>2. ASSUME NEW n \in Node, NP!HandleAnswer(n) PROVE DataInv'
  <2>1. PICK r : \/ UNCHANGED <<run_state, new_data>>
                 \/ run_state' = [run_state EXCEPT ![n] = "NeedData"] /\ UNCHANGED new_data
                 \/ /\ new_data' = [new_data EXCEPT ![n] = nc_process_data(r.data)]
                    /\ run_state' = [run_state EXCEPT ![n] = "HasData"]
    BY <1>2 DEF NP!HandleAnswer
  <2>2. nc_process_data(r.data) \in LinePayload
    BY LineFacts
  <2>. QED BY <1>0, <2>1, <2>2 DEF DataInv, NP!TypeOK
<1>3. ASSUME NEW n \in Node, NEW t \in NP!Thread, NodeStep(n, t) PROVE DataInv'
  BY <1>1, <1>2, <1>3
  DEF NodeStep, NP!nc_connect, NP!nc_connectThrows, NP!nc_send_data, NP!nc_receive_data, NP!ExchangeThrows,
      NP!MainLoop, NP!JoinHeartbeat, NP!BeatLoop, NP!HandleBeatAnswer, NP!Crash
<1>. QED BY <1>1, <1>3, Steps DEF NodesStep, vars, nodeState

\* nc_run goes one way, and a thread starts only while nc_run accepts.
LEMMA MainKept == ASSUME SystemInv, [Next]_vars PROVE SaveInv' /\ EndInv'
<1>0. SaveInv /\ EndInv
  BY DEF SystemInv
<1>. DEFINE Still == UNCHANGED <<main_pc, saved>> /\ (quit => quit')
<1>1. ASSUME Still, \A c \in Conn : handler[c] = "none" => handler'[c] = "none" PROVE SaveInv' /\ EndInv'
  BY <1>0, <1>1 DEF SaveInv, EndInv
<1>2. ASSUME SP!Terminate PROVE SaveInv' /\ EndInv'
  BY <1>2 DEF SP!Terminate, SaveInv, EndInv
<1>3. CASE SP!Main
  BY <1>0, <1>3 DEF SP!Main, SP!CheckQuit, SP!nc_acceptThrows, SP!JoinOldest, SP!nc_save_data, SP!JoinHeartbeat,
                    SP!JoinClient, SP!Return, SP!nc_accept, SaveInv, EndInv
<1>4. ASSUME NEW c \in Conn, SP!nc_handle_node(c) PROVE SaveInv' /\ EndInv'
  <2>0. handler \in [Conn -> SP!HandlerPC]
    BY DEF SystemInv, Parts, SP!TypeOK
  <2>1. CASE SP!nc_receive_dataThrows(c) \/ SP!nc_send_dataThrows(c)
    BY <1>2, <2>1 DEF SP!nc_receive_dataThrows, SP!nc_send_dataThrows
  <2>2. CASE ~(SP!nc_receive_dataThrows(c) \/ SP!nc_send_dataThrows(c))
    <3>1. /\ Still /\ handler[c] # "none"
          /\ \E pc : handler' = [handler EXCEPT ![c] = pc]
      BY <1>4, <2>2 DEF SP!nc_handle_node, SP!nc_receive_data, SP!AnswerIfJobDone, SP!Dispatch,
           SP!nc_register_new_node, SP!nc_valid_node_id, SP!nc_update_node_time, SP!SendNewData,
           SP!TakeResult, SP!nc_send_data, SP!Answer, SP!Goto, SP!processVars
    <3>2. \A d \in Conn : handler[d] = "none" => handler'[d] = "none"
      BY <2>0, <3>1
    <3>. QED BY <1>1, <3>1, <3>2
  <2>. QED BY <2>1, <2>2
<1>5. CASE SP!nc_check_heartbeat \/ \E n \in Node : SP!Expire(n)
  BY <1>1, <1>5 DEF SP!nc_check_heartbeat, SP!Wake, SP!CheckNode, SP!Expire, SP!processVars, SP!handlerVars
<1>6. CASE UNCHANGED serverState
  BY <1>1, <1>6 DEF serverState
<1>. QED BY <1>3, <1>4, <1>5, <1>6, Steps DEF ServerStep, vars

\* More registered nodes, more answers.
LEMMA AnswersGrow ==
  ASSUME NEW m, NEW r \in NP!AnswersTo(m), Registered \subseteq Registered'
  PROVE  r \in NP!AnswersTo(m)'
BY DEF NP!AnswersTo, Registered

\* The answers of nc_handle_node.
LEMMA AnswerIsExpected ==
  ASSUME NEW m \in NP!NCDecodedMessageFromNode
  PROVE  /\ [msg_type |-> "Quit", data |-> NoData] \in NP!AnswersTo(m)
         /\ m.msg_type = "Undefined" => [msg_type |-> "UnknownError", data |-> NoData] \in NP!AnswersTo(m)
         /\ m.msg_type \notin {"Init", "Undefined"} =>
              [msg_type |-> "InvalidNodeID", data |-> NoData] \in NP!AnswersTo(m)
         /\ m.node_id \in Registered =>
              /\ m.msg_type = "Init" => [msg_type |-> "InitOK", data |-> NoData] \in NP!AnswersTo(m)
              /\ m.msg_type = "Heartbeat" => [msg_type |-> "HeartbeatOK", data |-> NoData] \in NP!AnswersTo(m)
              /\ m.msg_type = "NewResultFromNode"
                     => [msg_type |-> "ResultOK", data |-> NoData] \in NP!AnswersTo(m)
              /\ m.msg_type = "NodeNeedsMoreData" =>
                   \A d \in Payload : [msg_type |-> "NewDataFromServer", data |-> d] \in NP!AnswersTo(m)
BY DEF NP!AnswersTo, Registered

\* A step of the server never forgets a node.
LEMMA RegisteredGrow == ASSUME SystemInv, [Next]_vars PROVE Registered \subseteq Registered'
<1>1. CASE ServerStep
  BY <1>1 DEF ServerStep, SP!Main, SP!CheckQuit, SP!nc_acceptThrows, SP!JoinOldest, SP!nc_save_data,
     SP!JoinHeartbeat, SP!JoinClient, SP!Return, SP!nc_accept, SP!nc_check_heartbeat, SP!Wake,
     SP!CheckNode, SP!Expire, SP!nc_handle_node, SP!nc_receive_data, SP!nc_receive_dataThrows,
     SP!AnswerIfJobDone, SP!Dispatch, SP!nc_register_new_node, SP!nc_valid_node_id,
     SP!nc_update_node_time, SP!SendNewData, SP!TakeResult, SP!nc_send_data,
     SP!nc_send_dataThrows, SP!Terminate, Registered, Srv!Known, SystemInv, Parts, SP!TypeOK, SP!NodeTime
<1>2. CASE UNCHANGED all_nodes
  BY <1>2 DEF Registered, Srv!Known
<1>. QED BY <1>1, <1>2, Steps DEF serverState, vars

\* A step of the thread that serves c, before it sends.
Works(c) == \/ SP!nc_receive_data(c) \/ SP!AnswerIfJobDone(c) \/ SP!Dispatch(c)
            \/ SP!nc_register_new_node(c) \/ SP!nc_valid_node_id(c) \/ SP!nc_update_node_time(c)
            \/ SP!SendNewData(c) \/ SP!TakeResult(c)
LEMMA WorkLeaves ==
  ASSUME NEW c \in Conn, Works(c)
  PROVE  /\ UNCHANGED conn
         /\ handler[c] \notin {"none", "send"}
         /\ \E pc : handler' = [handler EXCEPT ![c] = pc]
         /\ UNCHANGED reply \/ \E r : reply' = [reply EXCEPT ![c] = r]
BY DEF Works, SP!nc_receive_data, SP!AnswerIfJobDone, SP!Dispatch, SP!nc_register_new_node,
       SP!nc_valid_node_id, SP!nc_update_node_time, SP!SendNewData, SP!TakeResult, SP!Answer, SP!Goto

LEMMA StageStep ==
  ASSUME SystemInv, NEW c \in Conn, Works(c), Registered \subseteq Registered'
  PROVE  StageFits(c)' /\ (handler'[c] # "send" => reply'[c] = {})
<1>. UNCHANGED conn
  BY WorkLeaves
<1>0. handler \in [Conn -> SP!HandlerPC] /\ reply \in [Conn -> SP!Optional(SP!NCDecodedMessageFromServer)]
  BY DEF SystemInv, Parts, SP!TypeOK
<1>. DEFINE Stays(pc) == handler' = [handler EXCEPT ![c] = pc] /\ UNCHANGED reply
            Says(r) == /\ handler' = [handler EXCEPT ![c] = "send"]
                       /\ reply' = [reply EXCEPT ![c] = {r}]
<1>1. ASSUME NEW m \in conn[c].request, NEW r \in NP!AnswersTo(m)', Says(r)
      PROVE  StageFits(c)' /\ (handler'[c] # "send" => reply'[c] = {})
  BY <1>0, <1>1 DEF StageFits
<1>2. ASSUME NEW m \in conn[c].request, NEW r \in NP!AnswersTo(m), Says(r)
      PROVE  StageFits(c)' /\ (handler'[c] # "send" => reply'[c] = {})
  BY <1>1, <1>2, AnswersGrow
<1>3. ASSUME NEW m \in conn[c].request, handler[c] # "send",
             \/ Stays("done")
             \/ m.msg_type = "Init" /\ Stays("register")
             \/ m.msg_type \notin {"Init", "Undefined"} /\ Stays("valid")
             \/ m.msg_type = "Heartbeat" /\ Stays("update")
             \/ m.msg_type = "NodeNeedsMoreData" /\ Stays("getData")
             \/ m.msg_type = "NewResultFromNode" /\ Stays("process")
      PROVE  StageFits(c)' /\ (handler'[c] # "send" => reply'[c] = {})
  <2>1. reply[c] = {}
    BY <1>3 DEF SystemInv, StageInv
  <2>. QED BY <1>0, <1>3, <2>1 DEF StageFits
<1>4. ASSUME handler[c] \notin {"none", "receive"}
      PROVE  \E m \in conn[c].request :
               /\ handler[c] = "register" => m.msg_type = "Init"
               /\ handler[c] = "valid" => m.msg_type \notin {"Init", "Undefined"}
               /\ handler[c] = "update" => m.msg_type = "Heartbeat"
               /\ handler[c] = "getData" => m.msg_type = "NodeNeedsMoreData"
               /\ handler[c] = "process" => m.msg_type = "NewResultFromNode"
  BY <1>4 DEF SystemInv, StageInv, StageFits
<1>. HIDE DEF Stays, Says
<1>5. \A m \in conn[c].request : conn[c].request = {m}
                                 /\ m \in NP!NCDecodedMessageFromNode /\ m.node_id \in Node
  BY OneRequest
<1>6. ASSUME NEW r, SP!Answer(c, r) PROVE Says(r)
  BY <1>6 DEF SP!Answer, SP!Goto, Says
<1>7. ASSUME NEW pc, SP!Goto(c, pc), UNCHANGED reply PROVE Stays(pc)
  BY <1>7 DEF SP!Goto, Stays
<1>8. CASE SP!nc_receive_data(c)
  <2>1. PICK m \in conn[c].request : TRUE
    BY <1>8 DEF SP!nc_receive_data, SP!NodeMessage
  <2>2. [msg_type |-> "Quit", data |-> NoData] \in NP!AnswersTo(m)
    BY <1>5, AnswerIsExpected
  <2>3. Says([msg_type |-> "Quit", data |-> NoData]) \/ Stays("done")
    BY <1>6, <1>7, <1>8 DEF SP!nc_receive_data, SP!Message
  <2>. QED BY <1>2, <1>3, <1>8, <2>2, <2>3 DEF SP!nc_receive_data
<1>9. CASE SP!AnswerIfJobDone(c)
  <2>1. PICK m \in conn[c].request : TRUE
    BY <1>4, <1>9 DEF SP!AnswerIfJobDone
  <2>2. [msg_type |-> "Quit", data |-> NoData] \in NP!AnswersTo(m)
    BY <1>5, AnswerIsExpected
  <2>3. Says([msg_type |-> "Quit", data |-> NoData])
    BY <1>6, <1>9 DEF SP!AnswerIfJobDone, SP!Message
  <2>. QED BY <1>2, <2>2, <2>3
<1>10. CASE SP!Dispatch(c)
  <2>1. PICK m \in conn[c].request :
          CASE m.msg_type = "Init" -> SP!Goto(c, "register") /\ UNCHANGED reply
            [] m.msg_type = "Undefined" -> SP!Answer(c, SP!Message("UnknownError", NoData))
            [] OTHER -> SP!Goto(c, "valid") /\ UNCHANGED reply
    BY <1>10 DEF SP!Dispatch, SP!NodeMessage
  <2>2. \/ m.msg_type = "Init" /\ Stays("register")
        \/ m.msg_type = "Undefined" /\ Says([msg_type |-> "UnknownError", data |-> NoData])
        \/ m.msg_type \notin {"Init", "Undefined"} /\ Stays("valid")
    BY <1>6, <1>7, <2>1 DEF SP!Message
  <2>3. m.msg_type = "Undefined" => [msg_type |-> "UnknownError", data |-> NoData] \in NP!AnswersTo(m)
    BY <1>5, AnswerIsExpected
  <2>. QED BY <1>2, <1>3, <1>10, <2>2, <2>3 DEF SP!Dispatch
<1>11. CASE SP!nc_register_new_node(c)
  <2>1. PICK m \in conn[c].request :
          all_nodes' = [all_nodes EXCEPT ![m.node_id] = IF @ = "absent" THEN "fresh" ELSE @]
    BY <1>11 DEF SP!nc_register_new_node, SP!NodeMessage
  <2>2. m.msg_type = "Init" /\ m.node_id \in Registered'
    BY <1>4, <1>5, <1>11, <2>1 DEF SP!nc_register_new_node, Registered, Srv!Known,
                                    SystemInv, Parts, SP!TypeOK
  <2>3. [msg_type |-> "InitOK", data |-> NoData] \in NP!AnswersTo(m)'
    BY <2>2 DEF NP!AnswersTo, Registered
  <2>4. Says([msg_type |-> "InitOK", data |-> NoData])
    BY <1>6, <1>11 DEF SP!nc_register_new_node, SP!Message
  <2>. QED BY <1>1, <2>3, <2>4
<1>12. CASE SP!nc_valid_node_id(c)
  <2>1. PICK m \in conn[c].request :
          \/ SP!Answer(c, SP!Message("InvalidNodeID", NoData))
          \/ UNCHANGED reply /\ m.msg_type = "Heartbeat" /\ SP!Goto(c, "update")
          \/ UNCHANGED reply /\ m.msg_type = "NodeNeedsMoreData" /\ SP!Goto(c, "getData")
          \/ UNCHANGED reply /\ m.msg_type = "NewResultFromNode" /\ SP!Goto(c, "process")
    BY <1>12 DEF SP!nc_valid_node_id, SP!NodeMessage
  <2>2. m.msg_type \notin {"Init", "Undefined"}
    BY <1>4, <1>5, <1>12 DEF SP!nc_valid_node_id
  <2>3. [msg_type |-> "InvalidNodeID", data |-> NoData] \in NP!AnswersTo(m)
    BY <1>5, <2>2, AnswerIsExpected
  <2>4. \/ Says([msg_type |-> "InvalidNodeID", data |-> NoData])
        \/ m.msg_type = "Heartbeat" /\ Stays("update")
        \/ m.msg_type = "NodeNeedsMoreData" /\ Stays("getData")
        \/ m.msg_type = "NewResultFromNode" /\ Stays("process")
    BY <1>6, <1>7, <2>1 DEF SP!Message
  <2>. QED BY <1>2, <1>3, <1>12, <2>3, <2>4 DEF SP!nc_valid_node_id
<1>13. CASE SP!nc_update_node_time(c) \/ SP!SendNewData(c) \/ SP!TakeResult(c)
  <2>1. handler[c] \in {"update", "getData", "process"}
    BY <1>13 DEF SP!nc_update_node_time, SP!SendNewData, SP!TakeResult
  <2>2. PICK m \in conn[c].request :
               /\ handler[c] = "update" => m.msg_type = "Heartbeat"
               /\ handler[c] = "getData" => m.msg_type = "NodeNeedsMoreData"
               /\ handler[c] = "process" => m.msg_type = "NewResultFromNode"
    BY <1>4, <2>1
  <2>3. m \in NP!NCDecodedMessageFromNode /\ m.node_id \in Registered
    BY <1>5, <2>1, ActsForKnown DEF Registered
  <2>4. CASE SP!nc_update_node_time(c)
    <3>1. Says([msg_type |-> "HeartbeatOK", data |-> NoData]) /\ m.msg_type = "Heartbeat"
      BY <1>6, <2>2, <2>4 DEF SP!nc_update_node_time, SP!Message
    <3>. QED BY <1>2, <2>3, <3>1, AnswerIsExpected
  <2>5. CASE SP!SendNewData(c)
    <3>1. PICK k \in conn[c].request : \E o \in nc_get_new_data(processor, k.node_id) :
             SP!Answer(c, SP!Message("NewDataFromServer", o.data))
      BY <2>5 DEF SP!SendNewData, SP!NodeMessage
    <3>2. PICK o \in nc_get_new_data(processor, k.node_id) :
             SP!Answer(c, SP!Message("NewDataFromServer", o.data))
      BY <3>1
    <3>3. processor \in Processor /\ k.node_id \in Node
      BY <1>5 DEF SystemInv, Parts, SP!TypeOK
    <3>4. o.data \in Payload
      BY <3>2, <3>3, ProcessorFacts
    <3>5. Says([msg_type |-> "NewDataFromServer", data |-> o.data]) /\ m.msg_type = "NodeNeedsMoreData"
      BY <1>6, <2>2, <2>5, <3>2 DEF SP!SendNewData, SP!Message
    <3>. QED BY <1>2, <2>3, <3>4, <3>5, AnswerIsExpected
  <2>6. CASE SP!TakeResult(c)
    <3>1. Says([msg_type |-> "ResultOK", data |-> NoData]) /\ m.msg_type = "NewResultFromNode"
      BY <1>6, <2>2, <2>6 DEF SP!TakeResult, SP!Message
    <3>. QED BY <1>2, <2>3, <3>1, AnswerIsExpected
  <2>. QED BY <1>13, <2>4, <2>5, <2>6
<1>. QED BY <1>8, <1>9, <1>10, <1>11, <1>12, <1>13 DEF Works

\* A thread that does nothing, and whose request stays.
LEMMA StageStays ==
  ASSUME SystemInv, Registered \subseteq Registered', NEW c \in Conn,
         handler'[c] = handler[c], reply'[c] = reply[c],
         handler[c] \in {"none", "receive"} \/ conn'[c].request = conn[c].request
  PROVE  StageFits(c)' /\ (handler'[c] # "send" => reply'[c] = {})
<1>1. StageFits(c) /\ (handler[c] # "send" => reply[c] = {})
  BY DEF SystemInv, StageInv
<1>2. CASE handler[c] \in {"none", "receive"}
  BY <1>1, <1>2 DEF StageFits
<1>3. CASE handler[c] \notin {"none", "receive"}
  <2>1. PICK m \in conn[c].request :
      /\ handler[c] = "register" => m.msg_type = "Init"
      /\ handler[c] = "valid" => m.msg_type \notin {"Init", "Undefined"}
      /\ handler[c] = "update" => m.msg_type = "Heartbeat"
      /\ handler[c] = "getData" => m.msg_type = "NodeNeedsMoreData"
      /\ handler[c] = "process" => m.msg_type = "NewResultFromNode"
      /\ handler[c] = "send" => \E r \in NP!AnswersTo(m) : reply[c] = {r}
    BY <1>1, <1>3 DEF StageFits
  <2>2. m \in conn'[c].request
    BY <1>3
  <2>3. handler'[c] = "send" => \E r \in NP!AnswersTo(m)' : reply'[c] = {r}
    BY <2>1, AnswersGrow
  <2>. QED BY <1>1, <2>1, <2>2, <2>3 DEF StageFits
<1>. QED BY <1>2, <1>3

LEMMA StageKept == ASSUME SystemInv, [Next]_vars PROVE StageInv'
<1>0. /\ handler \in [Conn -> SP!HandlerPC] /\ reply \in [Conn -> SP!Optional(SP!NCDecodedMessageFromServer)]
      /\ conn \in [Conn -> SP!Connection]
      /\ Registered \subseteq Registered'
  BY RegisteredGrow DEF SystemInv, Parts, SP!TypeOK
<1>. DEFINE Fits(c) == StageFits(c)' /\ (handler'[c] # "send" => reply'[c] = {})
<1>. SUFFICES ASSUME NEW c \in Conn PROVE Fits(c)
  BY DEF StageInv
<1>1. CASE UNCHANGED <<conn, handler, reply>>
  BY <1>0, <1>1, StageStays
<1>2. CASE SP!Terminate
  BY <1>2 DEF SP!Terminate, StageFits
<1>3. ASSUME NEW d \in Conn, Works(d) PROVE Fits(c)
  <2>1. d # c => UNCHANGED <<conn, handler[c], reply[c]>>
    BY <1>0, <1>3, WorkLeaves
  <2>. QED BY <1>0, <1>3, <2>1, StageStays, StageStep
<1>4. ASSUME NEW d \in Conn, SP!nc_send_data(d) PROVE Fits(c)
  <2>1. handler'[d] = "none" /\ reply'[d] = {}
    BY <1>0, <1>4 DEF SP!nc_send_data
  <2>2. c # d => UNCHANGED <<conn[c], handler[c], reply[c]>>
    BY <1>0, <1>4 DEF SP!nc_send_data
  <2>. QED BY <1>0, <2>1, <2>2, StageStays DEF StageFits
<1>5. ASSUME NEW d \in Conn, SP!nc_accept(d) PROVE Fits(c)
  <2>1. handler'[d] = "receive" /\ UNCHANGED reply
    BY <1>0, <1>5 DEF SP!nc_accept
  <2>2. handler[d] = "none"
    BY <1>5 DEF SP!nc_accept, SystemInv, Parts, SP!JoinInv, SP!ServedConnections
  <2>3. reply[d] = {}
    BY <2>2 DEF SystemInv, StageInv
  <2>4. c # d => UNCHANGED <<conn[c], handler[c], reply[c]>>
    BY <1>0, <1>5 DEF SP!nc_accept
  <2>. QED BY <1>0, <2>1, <2>3, <2>4, StageStays DEF StageFits
<1>6. CASE SP!Return
  <2>1. handler[c] = "none"
    BY <1>6 DEF SP!Return, SystemInv, Parts, SP!JoinInv, SP!ServedConnections
  <2>. QED BY <1>0, <1>6, <2>1, StageStays DEF SP!Return, SP!handlerVars
<1>7. CASE ServerStep
  <2>1. SP!Main => \/ UNCHANGED <<conn, handler, reply>>
                   \/ SP!Return
                   \/ \E d \in Conn : SP!nc_accept(d)
    BY <1>7 DEF SP!Main, SP!CheckQuit, SP!nc_acceptThrows, SP!JoinOldest, SP!nc_save_data, SP!JoinHeartbeat,
                SP!JoinClient, SP!handlerVars
  <2>2. ASSUME NEW d \in Conn, SP!nc_handle_node(d)
        PROVE  Works(d) \/ SP!nc_send_data(d) \/ SP!Terminate
    BY <2>2 DEF SP!nc_handle_node, Works, SP!nc_receive_dataThrows, SP!nc_send_dataThrows
  <2>3. SP!nc_check_heartbeat \/ (\E n \in Node : SP!Expire(n)) => UNCHANGED <<conn, handler, reply>>
    BY DEF SP!nc_check_heartbeat, SP!Wake, SP!CheckNode, SP!Expire, SP!handlerVars
  <2>. QED BY <1>1, <1>2, <1>3, <1>4, <1>5, <1>6, <1>7, <2>1, <2>2, <2>3 DEF ServerStep
<1>8. CASE ClientStep
  <2>1. PICK d \in Conn : SP!ClientConnect(d) \/ SP!ClientSend(d) \/ SP!ClientReceive(d) \/ SP!ClientCrash(d)
    BY <1>8 DEF ClientStep
  <2>2. UNCHANGED <<handler, reply>>
    BY <2>1 DEF SP!ClientConnect, SP!ClientSend, SP!ClientReceive, SP!ClientCrash,
                  SP!serverVars, SP!handlerVars
  <2>3. \A e \in Conn \ {d} : conn'[e] = conn[e]
    BY <1>0, <2>1 DEF SP!ClientConnect, SP!ClientSend, SP!ClientReceive, SP!ClientCrash
  <2>4. handler[d] \in {"none", "receive"} \/ conn'[d].request = conn[d].request
    <3>1. CASE SP!ClientConnect(d)
      BY <3>1 DEF SP!ClientConnect, SP!NoConnection, SystemInv, Parts, SP!JoinInv, SP!ServedConnections
    <3>2. CASE SP!ClientSend(d)
      BY <3>2 DEF SP!ClientSend, SystemInv, StageInv, StageFits
    <3>3. CASE SP!ClientReceive(d) \/ SP!ClientCrash(d)
      <4>1. handler[d] # "none" => conn[d].server = "open"
        BY DEF SystemInv, Parts, SP!JoinInv, SP!ServedConnections
      <4>2. conn' = [conn EXCEPT ![d] = SP!CloseClient(@)]
        BY <3>3 DEF SP!ClientReceive, SP!ClientCrash
      <4>. QED BY <1>0, <4>1, <4>2 DEF SP!CloseClient, SP!Connection
    <3>. QED BY <2>1, <3>1, <3>2, <3>3
  <2>. QED BY <1>0, <2>2, <2>3, <2>4, StageStays
<1>9. CASE UNCHANGED serverState /\ UNCHANGED conn
  BY <1>1, <1>9 DEF serverState
<1>. QED BY <1>7, <1>8, <1>9, Steps, NodesSeen DEF vars

\* What each step does to the processor.
LEMMA ProcessorStep ==
  ASSUME SystemInv, [Next]_vars
  PROVE  \/ UNCHANGED <<processor, saved>>
         \/ UNCHANGED <<saved, quit>> /\ \E c \in Conn : \E m \in conn[c].request :
              \/ SP!SendNewData(c) /\ \E o \in nc_get_new_data(processor, m.node_id) :
                     processor' = o.processor /\ SP!Answer(c, SP!Message("NewDataFromServer", o.data))
              \/ SP!TakeResult(c) /\ processor' = nc_process_result(processor, m.node_id, m.data)
         \/ UNCHANGED <<saved, quit>> /\ \E n \in Node :
              SP!CheckNode(n) /\ all_nodes[n] = "stale" /\ processor' = nc_node_timeout(processor, n)
         \/ SP!nc_save_data
<1>1. SP!Main => UNCHANGED <<processor, saved>> \/ SP!nc_save_data
  BY DEF SP!Main, SP!CheckQuit, SP!nc_acceptThrows, SP!JoinOldest, SP!JoinHeartbeat, SP!JoinClient,
         SP!Return, SP!nc_accept
<1>2. ASSUME NEW c \in Conn, SP!nc_handle_node(c)
      PROVE  \/ UNCHANGED <<processor, saved>>
             \/ UNCHANGED <<saved, quit>> /\ \E m \in conn[c].request :
                  \/ SP!SendNewData(c) /\ \E o \in nc_get_new_data(processor, m.node_id) :
                         processor' = o.processor /\ SP!Answer(c, SP!Message("NewDataFromServer", o.data))
                  \/ SP!TakeResult(c) /\ processor' = nc_process_result(processor, m.node_id, m.data)
  <2>1. CASE SP!SendNewData(c)
    BY <2>1 DEF SP!SendNewData, SP!NodeMessage
  <2>2. CASE SP!TakeResult(c)
    BY <2>2 DEF SP!TakeResult, SP!NodeMessage
  <2>3. CASE ~SP!SendNewData(c) /\ ~SP!TakeResult(c)
    BY <1>2, <2>3 DEF SP!nc_handle_node, SP!nc_receive_data, SP!nc_receive_dataThrows,
       SP!AnswerIfJobDone, SP!Dispatch, SP!nc_register_new_node, SP!nc_valid_node_id,
       SP!nc_update_node_time, SP!nc_send_data, SP!nc_send_dataThrows, SP!Terminate
  <2>. QED BY <2>1, <2>2, <2>3
<1>3. SP!nc_check_heartbeat \/ (\E n \in Node : SP!Expire(n)) =>
        \/ UNCHANGED <<processor, saved>>
        \/ UNCHANGED <<saved, quit>> /\ \E n \in Node :
              SP!CheckNode(n) /\ all_nodes[n] = "stale" /\ processor' = nc_node_timeout(processor, n)
  BY DEF SP!nc_check_heartbeat, SP!Wake, SP!CheckNode, SP!Expire
<1>4. UNCHANGED serverState => UNCHANGED <<processor, saved>>
  BY DEF serverState
<1>. QED BY <1>1, <1>2, <1>3, <1>4, Steps DEF ServerStep, vars

LEMMA JobStays ==
  ASSUME SystemInv, [Next]_vars, nc_is_job_done(processor) PROVE nc_is_job_done(processor')
<1>1. processor \in Processor
  BY DEF SystemInv, Parts, SP!TypeOK
<1>2. \A n \in Node : /\ nc_is_job_done(nc_node_timeout(processor, n))
                      /\ \A o \in nc_get_new_data(processor, n) : nc_is_job_done(o.processor)
  BY <1>1, DoneStays DEF SP!DoneStays
<1>3. \A n \in Node : \A m \in NP!NCDecodedMessageFromNode :
         nc_is_job_done(nc_process_result(processor, n, m.data))
  BY <1>1, DoneStays DEF SP!DoneStays, NP!NCDecodedMessageFromNode
<1>4. \A c \in Conn : \A m \in conn[c].request : m.node_id \in Node /\ m \in NP!NCDecodedMessageFromNode
  BY OneRequest
<1>5. SP!nc_save_data => processor' = processor
  BY DEF SP!nc_save_data
<1>. QED BY <1>2, <1>3, <1>4, <1>5, ProcessorStep

\* What sets quit.
LEMMA QuitSet ==
  ASSUME SystemInv, [Next]_vars
  PROVE  \/ UNCHANGED quit
         \/ SP!nc_acceptThrows
         \/ /\ nc_is_job_done(processor) /\ quit' = TRUE
            /\ UNCHANGED <<processor, saved>> /\ ~SP!nc_acceptThrows
<1>1. SP!Main => UNCHANGED quit \/ SP!nc_acceptThrows
  BY DEF SP!Main, SP!CheckQuit, SP!JoinOldest, SP!nc_save_data, SP!JoinHeartbeat, SP!JoinClient,
         SP!Return, SP!nc_accept
<1>2. ASSUME NEW c \in Conn, SP!nc_handle_node(c)
      PROVE  \/ UNCHANGED quit
             \/ SP!AnswerIfJobDone(c)
  BY <1>2 DEF SP!nc_handle_node, SP!nc_receive_data, SP!nc_receive_dataThrows, SP!Dispatch,
     SP!nc_register_new_node, SP!nc_valid_node_id, SP!nc_update_node_time, SP!SendNewData, SP!TakeResult,
     SP!nc_send_data, SP!nc_send_dataThrows, SP!Terminate
<1>3. ASSUME NEW c \in Conn, SP!AnswerIfJobDone(c)
      PROVE  /\ nc_is_job_done(processor) /\ quit' = TRUE
             /\ UNCHANGED <<processor, saved>> /\ ~SP!nc_acceptThrows
  BY <1>3 DEF SP!AnswerIfJobDone, SP!nc_acceptThrows, SP!processVars
<1>4. SP!nc_check_heartbeat \/ (\E n \in Node : SP!Expire(n)) => UNCHANGED quit
  BY DEF SP!nc_check_heartbeat, SP!Wake, SP!CheckNode, SP!Expire
<1>5. UNCHANGED serverState => UNCHANGED quit
  BY DEF serverState
<1>. QED BY <1>1, <1>2, <1>3, <1>4, <1>5, Steps DEF ServerStep, vars

LEMMA FinishedStays == ASSUME SystemInv, [Next]_vars, Finished PROVE Finished'
<1>1. nc_is_job_done(processor) => nc_is_job_done(processor')
  BY JobStays
<1>2. gave_up => gave_up'
  BY GivesUp
<1>. QED BY <1>1, <1>2 DEF Finished

LEMMA GiveUpKept == ASSUME SystemInv, [Next]_vars PROVE GiveUpInv'
<1>1. gave_up \in BOOLEAN /\ quit \in BOOLEAN /\ (quit => Finished)
  BY DEF SystemInv, GiveUpInv, Parts, SP!TypeOK
<1>2. gave_up' \in BOOLEAN
  BY <1>1, GivesUp
<1>3. ASSUME quit' PROVE Finished'
  <2>1. CASE quit
    BY <1>1, <2>1, FinishedStays
  <2>2. CASE ~quit /\ SP!nc_acceptThrows
    <3>1. gave_up'
      BY <1>3, <2>2, GivesUp
    <3>. QED BY <3>1 DEF Finished
  <2>3. CASE nc_is_job_done(processor)
    BY <2>3, FinishedStays DEF Finished
  <2>. QED BY <1>1, <1>3, <2>1, <2>2, <2>3, QuitSet
<1>. QED BY <1>2, <1>3 DEF GiveUpInv

LEMMA SystemKept == ASSUME SystemInv, [Next]_vars PROVE SystemInv'
BY PartsKept, SendKept, DataKept, StageKept, MainKept, GiveUpKept DEF SystemInv

LEMMA SystemInvariant == Spec => []SystemInv
BY SystemBegin, SystemKept, PTL DEF Spec

-----------------------------------------------------------------------------
(* What the parts promise, the whole keeps *)

\* The server of the system is the server of NCServer: what is proved of it for
\* any clients holds with real nodes.
LEMMA RunsServer == Spec => SP!Spec
BY PartsBegin, ServerView, SystemInvariant, PTL DEF Spec, SP!Spec

LEMMA RunsNodes == Spec => NP!Spec
BY PartsBegin, NodeView, SystemInvariant, PTL DEF Spec, NP!Spec

\* NCNodeEnv twice: the one of the proofs and the one KeepsContract speaks of.
LEMMA SameContract ==
  /\ NP!Init => Contract!Init
  /\ [NP!Next]_(NP!vars) => [Contract!Next]_(Contract!vars)
<1>. USE DEF NP!Goto, Contract!Goto, NP!CountError, Contract!CountError, NP!Hangup, Contract!Hangup,
             NP!CloseClient, Contract!CloseClient, NP!NoConnection, Contract!NoConnection,
             NP!Connected, Contract!Connected, NP!Thread, Contract!Thread,
             NP!serverState, Contract!serverState, NP!nodeState, Contract!nodeState,
             NP!nodeVars, Contract!nodeVars
<1>1. NP!Init => Contract!Init
  BY DEF NP!Init, Contract!Init, NP!NodeInit, Contract!NodeInit
<1>2. \A n \in Node : NP!nc_run(n) => Contract!nc_run(n)
  BY DEF NP!nc_run, Contract!nc_run, NP!MainLoop, Contract!MainLoop, NP!HandleAnswer,
         Contract!HandleAnswer, NP!JoinHeartbeat, Contract!JoinHeartbeat,
         NP!TooManyErrors, Contract!TooManyErrors
<1>3. \A n \in Node : NP!nc_send_heartbeat(n) => Contract!nc_send_heartbeat(n)
  BY DEF NP!nc_send_heartbeat, Contract!nc_send_heartbeat, NP!BeatLoop, Contract!BeatLoop,
         NP!HandleBeatAnswer, Contract!HandleBeatAnswer
<1>4. ASSUME NEW n \in Node, NEW t \in NP!Thread
      PROVE  /\ NP!nc_send_msg_return_answer(n, t, Srv!Listening)
                  => Contract!nc_send_msg_return_answer(n, t, Srv!Listening)
             /\ NP!ConnectionBreaks(n, t) => Contract!ConnectionBreaks(n, t)
  <2>1. \A c \in Conn : NP!nc_connect(n, t, c) => Contract!nc_connect(n, t, c)
    BY DEF NP!nc_connect, Contract!nc_connect
  <2>2. NP!nc_connectThrows(n, t) => Contract!nc_connectThrows(n, t)
    BY DEF NP!nc_connectThrows, Contract!nc_connectThrows
  <2>3. NP!nc_send_data(n, t) => Contract!nc_send_data(n, t)
    BY DEF NP!nc_send_data, Contract!nc_send_data, NP!RequestMessage, Contract!RequestMessage
  <2>4. NP!nc_receive_data(n, t) => Contract!nc_receive_data(n, t)
    BY DEF NP!nc_receive_data, Contract!nc_receive_data
  <2>5. NP!ExchangeThrows(n, t) => Contract!ExchangeThrows(n, t)
    BY DEF NP!ExchangeThrows, Contract!ExchangeThrows
  <2>. QED BY <2>1, <2>2, <2>3, <2>4, <2>5 DEF NP!nc_send_msg_return_answer,
       Contract!nc_send_msg_return_answer, NP!ServerHungUp, Contract!ServerHungUp,
       NP!ConnectionBreaks, Contract!ConnectionBreaks
<1>5. \A n \in Node : NP!Crash(n) => Contract!Crash(n)
  BY DEF NP!Crash, Contract!Crash
<1>6. \A n \in Node : /\ NP!MainThread(n) => Contract!MainThread(n)
                      /\ NP!BeatThread(n) => Contract!BeatThread(n)
                      /\ NP!NodeFault(n) => Contract!NodeFault(n)
  BY <1>2, <1>3, <1>4, <1>5 DEF NP!MainThread, Contract!MainThread, NP!BeatThread,
     Contract!BeatThread, NP!NodeFault, Contract!NodeFault
<1>7. ASSUME NEW c \in Conn
      PROVE  /\ NP!ServerAccepts(c) => Contract!ServerAccepts(c)
             /\ NP!ServerRegisters(c) => Contract!ServerRegisters(c)
             /\ NP!ServerAnswers(c) => Contract!ServerAnswers(c)
  <2>1. \A m : NP!AnswersTo(m) = Contract!AnswersTo(m)
    BY DEF NP!AnswersTo, Contract!AnswersTo
  <2>. QED BY <2>1 DEF NP!ServerAccepts, Contract!ServerAccepts, NP!ServerRegisters,
       Contract!ServerRegisters, NP!ServerAnswers, Contract!ServerAnswers,
       NP!CloseServer, Contract!CloseServer
<1>8. /\ NP!ServerEnds => Contract!ServerEnds
      /\ NP!ServerRestarts => Contract!ServerRestarts
  BY DEF NP!ServerEnds, Contract!ServerEnds, NP!ServerRestarts, Contract!ServerRestarts,
         NP!CloseAll, Contract!CloseAll, NP!CloseServer, Contract!CloseServer
<1>9. NP!Next => Contract!Next
  BY <1>6, <1>7, <1>8 DEF NP!Next, Contract!Next
<1>10. UNCHANGED NP!vars => UNCHANGED Contract!vars
  BY DEF NP!vars, Contract!vars
<1>. QED BY <1>1, <1>9, <1>10

\* The server keeps the contract NCNodeEnv has with the nodes: every request is
\* answered by one of the answers the nodes are ready for, on its own connection,
\* by a server that has accepted it, or all connections are closed
\* (nc_server.cpp:204-255).
THEOREM ContractKept == Spec => KeepsContract
BY RunsNodes, SameContract, PTL DEF NP!Spec, KeepsContract, Contract!Spec

-----------------------------------------------------------------------------
(* The job *)

\* A result of the wrong size and anything else that is no line have the same
\* effect on the processor.
LEMMA ResultCounts ==
  ASSUME NEW n \in Node, NEW d, processor' = nc_process_result(processor, n, d),
         UNCHANGED <<saved, quit, gave_up>>
  PROVE  \E line \in JP!LinePayload : JP!ProcessResult(n, line)
<1>1. ASSUME NEW line \in LinePayload, processor' = nc_process_result(processor, n, line)
      PROVE  line \in JP!LinePayload /\ JP!ProcessResult(n, line)
  BY <1>1, SameJob DEF JP!ProcessResult, JP!Callback, JP!Overlap, JP!caller
<1>2. CASE d \in LinePayload
  BY <1>1, <1>2
<1>3. CASE d \notin LinePayload
  <2>1. EmptyLine \in LinePayload
    BY DEF LinePayload
  <2>2. nc_process_result(processor, n, d) = nc_process_result(processor, n, EmptyLine)
    BY <1>3 DEF nc_process_result
  <2>. QED BY <1>1, <2>1, <2>2
<1>. QED BY <1>2, <1>3

LEMMA JobView == ASSUME SystemInv, [Next]_vars PROVE [JP!Next]_(JP!vars)
<1>. USE DEF JP!caller, JP!processorVars
<1>0. gave_up \in BOOLEAN /\ quit \in BOOLEAN
  BY DEF SystemInv, GiveUpInv, Parts, SP!TypeOK
<1>1. ~SP!nc_acceptThrows => UNCHANGED gave_up
  BY <1>0, GivesUp
<1>2. CASE UNCHANGED <<processor, saved, quit, gave_up>>
  BY <1>2 DEF JP!vars
<1>3. CASE SP!nc_acceptThrows
  <2>1. saved = {} /\ quit' = TRUE /\ UNCHANGED <<processor, saved>>
    BY <1>3 DEF SP!nc_acceptThrows, SystemInv, SaveInv
  <2>2. gave_up' = (gave_up \/ ~quit)
    BY <1>0, <1>3, <2>1, GivesUp
  <2>3. JP!AcceptFails
    BY <2>1, <2>2 DEF JP!AcceptFails
  <2>. QED BY <2>3 DEF JP!Next
<1>4. CASE nc_is_job_done(processor) /\ quit' = TRUE /\ UNCHANGED <<processor, saved, gave_up>>
  <2>1. JP!JobFoundDone
    BY <1>4, SameJob DEF JP!JobFoundDone
  <2>. QED BY <2>1 DEF JP!Next
<1>5. ASSUME UNCHANGED <<saved, quit, gave_up>>, NEW c \in Conn, NEW m \in conn[c].request,
             \/ \E o \in nc_get_new_data(processor, m.node_id) : processor' = o.processor
             \/ processor' = nc_process_result(processor, m.node_id, m.data)
      PROVE  JP!Next
  <2>1. m.node_id \in Node
    BY OneRequest
  <2>2. CASE \E o \in nc_get_new_data(processor, m.node_id) : processor' = o.processor
    <3>1. JP!GetNewData(m.node_id)
      BY <1>5, <2>2, SameJob DEF JP!GetNewData, JP!Callback, JP!Overlap
    <3>. QED BY <2>1, <3>1 DEF JP!Next
  <2>3. CASE processor' = nc_process_result(processor, m.node_id, m.data)
    <3>1. \E line \in JP!LinePayload : JP!ProcessResult(m.node_id, line)
      BY <1>5, <2>1, <2>3, ResultCounts
    <3>. QED BY <2>1, <3>1 DEF JP!Next
  <2>. QED BY <1>5, <2>2, <2>3
<1>6. ASSUME UNCHANGED <<saved, quit, gave_up>>, NEW n \in Node, processor' = nc_node_timeout(processor, n)
      PROVE  JP!Next
  <2>1. JP!NodeTimeout(n)
    BY <1>6, SameJob DEF JP!NodeTimeout
  <2>. QED BY <2>1 DEF JP!Next
<1>7. CASE SP!nc_save_data
  <2>1. quit /\ saved = {} /\ saved' = {processor} /\ UNCHANGED <<processor, quit>>
    BY <1>7 DEF SP!nc_save_data, SystemInv, SaveInv
  <2>2. UNCHANGED gave_up
    BY <1>1, <1>7 DEF SP!nc_save_data, SP!nc_acceptThrows
  <2>3. {p.mandel_image : p \in saved} = {} /\ {p.mandel_image : p \in saved'} = {processor.mandel_image}
    BY <2>1
  <2>4. JP!SaveData
    BY <2>1, <2>2, <2>3 DEF JP!SaveData
  <2>. QED BY <2>4 DEF JP!Next
<1>. QED BY <1>1, <1>2, <1>3, <1>4, <1>5, <1>6, <1>7, ProcessorStep, QuitSet

LEMMA RunsJob == Spec => JP!Spec
BY PartsBegin, JobView, SystemInvariant, PTL DEF Spec, JP!Spec

LEMMA SameBoard ==
  /\ JP!Board!Init => Job!Board!Init
  /\ JP!Board!Next \/ UNCHANGED JP!Board!board => Job!Board!Next \/ UNCHANGED Job!Board!board
<1>1. /\ JP!Claimed = Job!Claimed /\ JP!DoneRows = Job!DoneRows /\ JP!Published = Job!Published
      /\ JP!Row = Job!Row /\ JP!NoRow = Job!NoRow
  BY DEF JP!Claimed, Job!Claimed, JP!DoneRows, Job!DoneRows, JP!Mapped, Job!Mapped,
         JP!NoRow, Job!NoRow, JP!Row, Job!Row, JP!BeingErased, Job!BeingErased,
         JP!Published, Job!Published
<1>2. JP!Claimed' = Job!Claimed' /\ JP!DoneRows' = Job!DoneRows' /\ JP!Published' = Job!Published'
  BY DEF JP!Claimed, Job!Claimed, JP!DoneRows, Job!DoneRows, JP!Mapped, Job!Mapped,
         JP!NoRow, Job!NoRow, JP!Row, Job!Row, JP!BeingErased, Job!BeingErased,
         JP!Published, Job!Published
<1>3. JP!Board!Init => Job!Board!Init
  BY <1>1 DEF JP!Board!Init, Job!Board!Init
<1>4. JP!Board!Next => Job!Board!Next
  BY <1>1, <1>2 DEF JP!Board!Next, Job!Board!Next, JP!Board!Release, Job!Board!Release,
     JP!Board!Complete, Job!Board!Complete, JP!Board!Claim, Job!Board!Claim,
     JP!Board!Publish, Job!Board!Publish, JP!Board!GiveUp, Job!Board!GiveUp
<1>5. UNCHANGED JP!Board!board => UNCHANGED Job!Board!board
  BY <1>1, <1>2 DEF JP!Board!board, Job!Board!board
<1>. QED BY <1>3, <1>4, <1>5

\* The rows are handed out, taken back and completed as JobBoard promises, by
\* the processor driven by the real server and real nodes with their crashes,
\* timeouts and repeated results, as long as its callbacks do not overlap (each
\* is one step of NCSystem).  What is published is the whole, unless nc_accept
\* threw: then the server gives up and publishes the result so far
\* (mandel_server.cpp, nc_server.cpp:131-147).
THEOREM RefinesJobBoard == Spec => ImplementsJobBoard
<1>1. JP!Spec => JP!ImplementsJobBoard
  BY HeightAssumption, JP!RefinesJobBoard
<1>2. JP!ImplementsJobBoard => Job!Board!Spec
  <2>1. JP!Board!Init => Job!Board!Init
    BY SameBoard
  <2>2. [JP!Board!Next \/ FALSE]_(JP!Board!board) => [Job!Board!Next]_(Job!Board!board)
    BY SameBoard
  <2>. QED BY <2>1, <2>2, PTL DEF JP!ImplementsJobBoard, Job!Board!Spec
<1>. QED BY <1>1, <1>2, RunsJob, PTL DEF ImplementsJobBoard

\* What the parts were shown to keep against any clients, any server and any
\* caller they keep here, where those are the other parts: the server joins its
\* threads, bounds them and acts for registered nodes only, nodes bound their
\* errors, act on the answers to their own requests and keep a result until it is
\* acknowledged, and callbacks that do not overlap leave a row that is done as
\* it is.
THEOREM PartsKeepTheirPromises ==
  Spec => /\ [](SP!ThreadsJoined /\ SP!ThreadBound /\ SP!ServedConnections)
          /\ [](SP!KnownNodesOnly /\ SP!QuitMeansDone)
          /\ [](NP!OneExchangePerNode /\ NP!SocketsMatchConnections)
          /\ [](NP!AnswersMatchRequests /\ NP!MainErrorsBounded)
          /\ NP!ResultKeptUntilAcknowledged
          /\ JP!DoneIsFinal
<1>1. SP!Spec => [](SP!ThreadsJoined /\ SP!ThreadBound /\ SP!ServedConnections)
  BY Assumptions, SP!AllJoined, SP!ThreadsBounded, SP!ThreadsServe, PTL
<1>2. SP!Spec => [](SP!KnownNodesOnly /\ SP!QuitMeansDone)
  BY Assumptions, DoneStays, SP!OnlyKnownNodes, SP!QuitsWhenDone, PTL
<1>3. NP!Spec => [](NP!OneExchangePerNode /\ NP!SocketsMatchConnections)
  BY Assumptions, NP!OneExchange, NP!SocketsMatch, PTL
<1>4. NP!Spec => [](NP!AnswersMatchRequests /\ NP!MainErrorsBounded)
  BY Assumptions, NP!AnswersMatch, NP!ErrorsBounded, PTL
<1>5. NP!Spec => NP!ResultKeptUntilAcknowledged
  BY Assumptions, NP!ResultKept
<1>6. JP!Spec => JP!DoneIsFinal
  BY HeightAssumption, JP!DoneRowsFinal
<1>. QED BY <1>1, <1>2, <1>3, <1>4, <1>5, <1>6, RunsServer, RunsNodes, RunsJob

-----------------------------------------------------------------------------
(* Why nodes quit *)

\* The server says Quit only when the job is done or nc_accept has thrown.
LEMMA QuitSaid ==
  ASSUME SystemInv, QuitInv, NEW c \in Conn, SP!nc_handle_node(c), NEW d \in Conn,
         SaysQuit(reply'[d]) \/ SaysQuit(conn'[d].answer)
  PROVE  Finished
<1>0. /\ handler \in [Conn -> SP!HandlerPC] /\ reply \in [Conn -> SP!Optional(SP!NCDecodedMessageFromServer)]
      /\ conn \in [Conn -> SP!Connection]
  BY DEF SystemInv, Parts, SP!TypeOK
<1>1. CASE SaysQuit(reply[d]) \/ SaysQuit(conn[d].answer)
  BY <1>1 DEF QuitInv
<1>2. ASSUME UNCHANGED conn, NEW type, type # "Quit", NEW data,
             UNCHANGED reply \/ reply' = [reply EXCEPT ![c] = {[msg_type |-> type, data |-> data]}]
      PROVE  Finished
  <2>1. \A r \in reply'[d] : r \in reply[d] \/ r.msg_type = type
    BY <1>0, <1>2
  <2>2. \A r \in conn'[d].answer : r \in conn[d].answer
    BY <1>2
  <2>. QED BY <1>1, <1>2, <2>1, <2>2 DEF SaysQuit
<1>3. CASE SP!nc_receive_data(c)
  <2>1. CASE quit
    BY <2>1 DEF SystemInv, GiveUpInv
  <2>2. CASE ~quit
    BY <1>1, <1>3, <2>2 DEF SP!nc_receive_data
  <2>. QED BY <2>1, <2>2
<1>4. CASE SP!AnswerIfJobDone(c)
  BY <1>4 DEF SP!AnswerIfJobDone, Finished
<1>5. CASE SP!Dispatch(c) \/ SP!nc_valid_node_id(c)
  <2>1. UNCHANGED conn /\ (UNCHANGED reply \/ \E type \in {"UnknownError", "InvalidNodeID"} :
           reply' = [reply EXCEPT ![c] = {[msg_type |-> type, data |-> NoData]}])
    BY <1>5 DEF SP!Dispatch, SP!nc_valid_node_id, SP!Answer, SP!Message
  <2>. QED BY <1>2, <2>1
<1>6. CASE SP!nc_register_new_node(c) \/ SP!nc_update_node_time(c) \/ SP!TakeResult(c)
  <2>1. UNCHANGED conn /\ \E type \in {"InitOK", "HeartbeatOK", "ResultOK"} :
           reply' = [reply EXCEPT ![c] = {[msg_type |-> type, data |-> NoData]}]
    BY <1>6 DEF SP!nc_register_new_node, SP!nc_update_node_time, SP!TakeResult, SP!Answer, SP!Message
  <2>. QED BY <1>2, <2>1
<1>7. CASE SP!SendNewData(c)
  <2>1. UNCHANGED conn /\ \E data :
           reply' = [reply EXCEPT ![c] = {[msg_type |-> "NewDataFromServer", data |-> data]}]
    BY <1>7 DEF SP!SendNewData, SP!Answer, SP!Message
  <2>. QED BY <1>2, <2>1
<1>8. CASE SP!nc_send_data(c)
  <2>1. /\ conn' = [conn EXCEPT ![c] =
                      SP!CloseServer(IF @.client = "open" THEN [@ EXCEPT !.answer = reply[c]] ELSE @)]
        /\ reply' = [reply EXCEPT ![c] = {}]
    BY <1>8 DEF SP!nc_send_data
  <2>2. \/ conn'[d].answer = conn[d].answer
        \/ conn'[d].answer = {}
        \/ d = c /\ conn'[d].answer = reply[c]
    BY <1>0, <2>1 DEF SP!CloseServer, SP!NoConnection, SP!Connection
  <2>3. reply'[d] = reply[d] \/ reply'[d] = {}
    BY <1>0, <2>1
  <2>. QED BY <1>1, <2>2, <2>3 DEF SaysQuit
<1>9. CASE SP!Terminate
  <2>1. reply'[d] = {} /\ (conn'[d].answer = conn[d].answer \/ conn'[d].answer = {})
    BY <1>9 DEF SP!Terminate, SP!CloseAll, SP!CloseServer, SP!NoConnection
  <2>. QED BY <1>1, <2>1 DEF SaysQuit
<1>. QED BY <1>3, <1>4, <1>5, <1>6, <1>7, <1>8, <1>9
         DEF SP!nc_handle_node, SP!nc_receive_dataThrows, SP!nc_send_dataThrows

\* No other step puts an answer on a connection.
LEMMA AnswersStay ==
  ASSUME SystemInv, [Next]_vars, NEW d \in Conn
  PROVE  \/ \E c \in Conn : SP!nc_handle_node(c)
         \/ UNCHANGED reply /\ (conn'[d].answer = conn[d].answer \/ conn'[d].answer = {})
<1>0. conn \in [Conn -> SP!Connection]
  BY DEF SystemInv, Parts, SP!TypeOK
<1>1. CASE SP!Main
  <2>1. UNCHANGED reply
    BY <1>1 DEF SP!Main, SP!CheckQuit, SP!nc_acceptThrows, SP!JoinOldest, SP!nc_save_data,
       SP!JoinHeartbeat, SP!JoinClient, SP!Return, SP!nc_accept, SP!handlerVars
  <2>2. \/ UNCHANGED conn
        \/ conn' = SP!CloseAll(conn)
        \/ \E c \in Conn : conn' = [conn EXCEPT ![c].server = "open"]
    BY <1>1 DEF SP!Main, SP!CheckQuit, SP!nc_acceptThrows, SP!JoinOldest, SP!nc_save_data,
       SP!JoinHeartbeat, SP!JoinClient, SP!Return, SP!nc_accept
  <2>. QED BY <1>0, <2>1, <2>2 DEF SP!CloseAll, SP!CloseServer, SP!NoConnection, SP!Connection
<1>2. CASE SP!nc_check_heartbeat \/ \E n \in Node : SP!Expire(n)
  BY <1>2 DEF SP!nc_check_heartbeat, SP!Wake, SP!CheckNode, SP!Expire, SP!handlerVars
<1>3. CASE UNCHANGED serverState /\ ClientStep
  BY <1>0, <1>3 DEF serverState, ClientStep, SP!ClientConnect, SP!ClientSend, SP!ClientReceive,
     SP!ClientCrash, SP!Connected, SP!CloseClient, SP!NoConnection, SP!Connection
<1>4. CASE UNCHANGED serverState /\ UNCHANGED conn
  BY <1>4 DEF serverState
<1>. QED BY <1>1, <1>2, <1>3, <1>4, Steps, NodesSeen DEF ServerStep, vars

\* What a node's step makes of its wish to quit.
LEMMA NodeQuits ==
  ASSUME SystemInv, QuitInv, NEW n \in Node, NEW t \in NP!Thread, NodeStep(n, t),
         NEW m \in Node, node_quit'[m]
  PROVE  Finished \/ \E s \in NP!Thread : GivenUp(m, s)'
<1>0. /\ node_quit \in [Node -> BOOLEAN] /\ thread_pc \in [Node -> [NP!Thread -> NP!ThreadPC]]
      /\ error_counter \in [Node -> [NP!Thread -> 0 .. ErrorMod - 1]]
      /\ "main" \in NP!Thread /\ "beat" \in NP!Thread
  BY DEF SystemInv, Parts, NP!TypeOK, NP!Thread
<1>1. ASSUME node_quit[m], NEW s \in NP!Thread, GivenUp(m, s), UNCHANGED error_counter[m][s],
             thread_pc'[m][s] \in {"loop", "join", "ended", "crashed"}
      PROVE  \E r \in NP!Thread : GivenUp(m, r)'
  BY <1>1 DEF GivenUp
<1>2. node_quit[m] => Finished \/ \E s \in NP!Thread : GivenUp(m, s)
  BY DEF QuitInv
<1>3. CASE NP!MainLoop(n)
  <2>1. CASE NP!TooManyErrors(n, "main") /\ m = n
    <3>1. GivenUp(n, "main")'
      BY <1>0, <1>3, <2>1 DEF NP!MainLoop, NP!TooManyErrors, NP!Goto, GivenUp
    <3>. QED BY <1>0, <2>1, <3>1
  <2>2. CASE ~(NP!TooManyErrors(n, "main") /\ m = n)
    <3>1. node_quit[m]
      BY <1>0, <1>3, <2>2 DEF NP!MainLoop
    <3>2. \A s \in NP!Thread : GivenUp(m, s) =>
            UNCHANGED error_counter[m][s] /\ thread_pc'[m][s] \in {"loop", "join", "ended", "crashed"}
      BY <1>0, <1>3, <3>1 DEF NP!MainLoop, NP!Goto, GivenUp
    <3>. QED BY <1>1, <1>2, <3>1, <3>2
  <2>. QED BY <2>1, <2>2
<1>4. CASE NP!HandleAnswer(n)
  <2>1. PICK r \in result[n]["main"] :
           UNCHANGED node_quit \/ (r.msg_type = "Quit" /\ node_quit' = [node_quit EXCEPT ![n] = TRUE])
    BY <1>4 DEF NP!HandleAnswer
  <2>2. CASE r.msg_type = "Quit"
    BY <1>0, <2>1, <2>2 DEF QuitInv, SaysQuit
  <2>3. CASE r.msg_type # "Quit"
    <3>1. node_quit[m]
      BY <2>1, <2>3
    <3>2. \A s \in NP!Thread : GivenUp(m, s) => ~(m = n /\ s = "main")
      BY <1>4 DEF NP!HandleAnswer, GivenUp
    <3>3. /\ UNCHANGED error_counter \/ error_counter' =
                 [error_counter EXCEPT ![n]["main"] = (@ + 1) % ErrorMod]
          /\ thread_pc' = [thread_pc EXCEPT ![n]["main"] = "loop"]
      BY <1>4 DEF NP!HandleAnswer, NP!CountError, NP!Goto
    <3>4. \A s \in NP!Thread : GivenUp(m, s) =>
            UNCHANGED error_counter[m][s] /\ thread_pc'[m][s] \in {"loop", "join", "ended", "crashed"}
      BY <1>0, <3>2, <3>3 DEF GivenUp
    <3>. QED BY <1>1, <1>2, <3>1, <3>4
  <2>. QED BY <2>2, <2>3
<1>5. CASE NP!HandleBeatAnswer(n)
  <2>1. PICK r \in result[n]["beat"] :
           node_quit' = [node_quit EXCEPT ![n] =
                           @ \/ r.msg_type = "Quit" \/ error_counter'[n]["beat"] >= MaxErrors]
    BY <1>5 DEF NP!HandleBeatAnswer
  <2>2. thread_pc' = [thread_pc EXCEPT ![n]["beat"] = "loop"]
    BY <1>5 DEF NP!HandleBeatAnswer, NP!Goto
  <2>3. CASE m = n /\ r.msg_type = "Quit"
    BY <1>0, <2>3 DEF QuitInv, SaysQuit
  <2>4. CASE m = n /\ error_counter'[n]["beat"] >= MaxErrors
    BY <1>0, <2>2, <2>4 DEF GivenUp
  <2>5. CASE m # n \/ node_quit[n]
    <3>1. node_quit[m]
      BY <1>0, <2>1, <2>5
    <3>2. \A s \in NP!Thread : GivenUp(m, s) => ~(m = n /\ s = "beat")
      BY <1>5 DEF NP!HandleBeatAnswer, GivenUp
    <3>3. UNCHANGED error_counter \/ error_counter' =
                 [error_counter EXCEPT ![n]["beat"] = (@ + 1) % ErrorMod]
      BY <1>5 DEF NP!HandleBeatAnswer, NP!CountError
    <3>4. \A s \in NP!Thread : GivenUp(m, s) =>
            UNCHANGED error_counter[m][s] /\ thread_pc'[m][s] \in {"loop", "join", "ended", "crashed"}
      BY <1>0, <2>2, <3>2, <3>3 DEF GivenUp
    <3>. QED BY <1>1, <1>2, <3>1, <3>4
  <2>. QED BY <1>0, <2>1, <2>3, <2>4, <2>5
<1>6. CASE NP!BeatLoop(n)
  <2>1. node_quit[m]
    BY <1>6 DEF NP!BeatLoop
  <2>2. \A s \in NP!Thread : GivenUp(m, s) =>
          UNCHANGED error_counter[m][s] /\ thread_pc'[m][s] \in {"loop", "join", "ended", "crashed"}
    BY <1>0, <1>6, <2>1 DEF NP!BeatLoop, NP!Goto, GivenUp
  <2>. QED BY <1>1, <1>2, <2>1, <2>2
<1>7. CASE NP!Crash(n)
  <2>1. node_quit[m]
    BY <1>7 DEF NP!Crash
  <2>2. \A s \in NP!Thread : GivenUp(m, s) =>
          UNCHANGED error_counter[m][s] /\ thread_pc'[m][s] \in {"loop", "join", "ended", "crashed"}
    BY <1>0, <1>7 DEF NP!Crash, GivenUp
  <2>. QED BY <1>1, <1>2, <2>1, <2>2
<1>8. CASE NP!JoinHeartbeat(n)
  <2>1. node_quit[m]
    BY <1>8 DEF NP!JoinHeartbeat
  <2>2. \A s \in NP!Thread : GivenUp(m, s) =>
          UNCHANGED error_counter[m][s] /\ thread_pc'[m][s] \in {"loop", "join", "ended", "crashed"}
    BY <1>0, <1>8 DEF NP!JoinHeartbeat, NP!Goto, GivenUp
  <2>. QED BY <1>1, <1>2, <2>1, <2>2
<1>9. CASE \/ \E c \in Conn : NP!nc_connect(n, t, c)
           \/ NP!nc_connectThrows(n, t) \/ NP!nc_send_data(n, t) \/ NP!nc_receive_data(n, t)
           \/ NP!ExchangeThrows(n, t)
  <2>1. UNCHANGED node_quit /\ thread_pc[n][t] \in {"connect", "send", "receive"}
    BY <1>9 DEF NP!nc_connect, NP!nc_connectThrows, NP!nc_send_data, NP!nc_receive_data, NP!ExchangeThrows
  <2>2. /\ UNCHANGED error_counter \/ error_counter' = [error_counter EXCEPT ![n][t] = (@ + 1) % ErrorMod]
        /\ \E pc : thread_pc' = [thread_pc EXCEPT ![n][t] = pc]
    BY <1>9 DEF NP!nc_connect, NP!nc_connectThrows, NP!nc_send_data, NP!nc_receive_data,
                NP!ExchangeThrows, NP!CountError, NP!Goto
  <2>3. \A s \in NP!Thread : GivenUp(m, s) =>
          UNCHANGED error_counter[m][s] /\ thread_pc'[m][s] \in {"loop", "join", "ended", "crashed"}
    BY <1>0, <2>1, <2>2 DEF GivenUp
  <2>. QED BY <1>1, <1>2, <2>1, <2>3
<1>. QED BY <1>3, <1>4, <1>5, <1>6, <1>7, <1>8, <1>9 DEF NodeStep

\* The answer a thread holds is one it took from its connection.
LEMMA ResultsTaken ==
  ASSUME SystemInv, NEW n \in Node, NEW t \in NP!Thread, NodeStep(n, t),
         NEW m \in Node, NEW s \in NP!Thread
  PROVE  \/ result'[m][s] = result[m][s] \/ result'[m][s] = {}
         \/ /\ NP!nc_receive_data(n, t) /\ m = n /\ s = t
            /\ \E c \in socket[n][t] : result'[m][s] = conn[c].answer
<1>0. result \in [Node -> [NP!Thread -> NP!Optional(NP!NCDecodedMessageFromServer)]]
  BY DEF SystemInv, Parts, NP!TypeOK
<1>1. CASE NP!nc_receive_data(n, t)
  <2>1. PICK c \in socket[n][t] : result' = [result EXCEPT ![n][t] = conn[c].answer]
    BY <1>1 DEF NP!nc_receive_data
  <2>2. CASE m = n /\ s = t
    <3>1. result'[m][s] = conn[c].answer
      BY <1>0, <2>1, <2>2
    <3>. QED BY <1>1, <2>2, <3>1
  <2>3. CASE ~(m = n /\ s = t)
    BY <1>0, <2>1, <2>3
  <2>. QED BY <2>2, <2>3
<1>2. CASE NP!HandleAnswer(n) \/ NP!HandleBeatAnswer(n) \/ NP!Crash(n)
  BY <1>0, <1>2 DEF NP!HandleAnswer, NP!HandleBeatAnswer, NP!Crash
<1>3. CASE UNCHANGED result
  BY <1>3
<1>. QED BY <1>1, <1>2, <1>3 DEF NodeStep, NP!nc_connect, NP!nc_connectThrows, NP!nc_send_data,
            NP!ExchangeThrows, NP!MainLoop, NP!JoinHeartbeat, NP!BeatLoop

LEMMA QuitKept == ASSUME SystemInv, QuitInv, [Next]_vars PROVE QuitInv'
<1>1. Finished => Finished'
  BY FinishedStays
<1>2. ASSUME NEW c \in Conn, SaysQuit(reply'[c]) \/ SaysQuit(conn'[c].answer)
      PROVE  Finished
  <2>1. CASE \E d \in Conn : SP!nc_handle_node(d)
    BY <1>2, <2>1, QuitSaid
  <2>2. CASE UNCHANGED reply /\ (conn'[c].answer = conn[c].answer \/ conn'[c].answer = {})
    BY <1>2, <2>2 DEF QuitInv, SaysQuit
  <2>. QED BY <2>1, <2>2, AnswersStay
<1>3. CASE UNCHANGED nodeState
  BY <1>1, <1>2, <1>3 DEF QuitInv, GivenUp, nodeState
<1>4. ASSUME NEW n \in Node, NEW t \in NP!Thread, NodeStep(n, t) PROVE QuitInv'
  <2>1. \A m \in Node : node_quit'[m] => Finished \/ \E s \in NP!Thread : GivenUp(m, s)'
    BY <1>4, NodeQuits
  <2>2. ASSUME NEW m \in Node, NEW s \in NP!Thread, SaysQuit(result'[m][s])
        PROVE  Finished
    <3>1. SaysQuit(result[m][s]) \/ \E c \in socket[n][t] : SaysQuit(conn[c].answer)
      BY <1>4, <2>2, ResultsTaken DEF SaysQuit
    <3>2. socket[n][t] \subseteq Conn
      BY SocketOpen
    <3>. QED BY <3>1, <3>2 DEF QuitInv
  <2>. QED BY <1>1, <1>2, <2>1, <2>2 DEF QuitInv
<1>. QED BY <1>3, <1>4, Steps DEF NodesStep, vars

\* A node that quits and has not given up on errors quits because the job is
\* done or because the server gave up when nc_accept threw, after which it says
\* Quit with rows open (nc_server.cpp:131-133, 211): nothing else sends, sees or
\* sets quit too early (nc_node.cpp:119-268, nc_server.cpp:211-218), although
\* nodes crash and connections break.
THEOREM QuitOnlyWhenDone == Spec => []NodesQuitWhenDone
<1>1. Init => QuitInv
  BY DEF Init, Srv!Init, Nd!NodeInit, Srv!NoConnection, Nd!Thread, NP!Thread, QuitInv, SaysQuit
<1>2. SystemInv /\ QuitInv => NodesQuitWhenDone
  <2>1. Nd!Thread = NP!Thread
    BY DEF Nd!Thread, NP!Thread
  <2>2. NP!TypeOK => \A n \in Node : \A t \in NP!Thread : error_counter[n][t] \in Nat
    BY NodesAssumption DEF NP!TypeOK
  <2>. QED BY <2>1, <2>2, NodesAssumption DEF SystemInv, Parts, QuitInv, GivenUp, Finished, NodesQuitWhenDone
<1>. QED BY <1>1, <1>2, SystemInvariant, QuitKept, PTL DEF Spec

-----------------------------------------------------------------------------
(* What the callbacks do to the rows the nodes are active on *)

LEMMA ActiveStays == ASSUME UNCHANGED processor, NEW n \in Node PROVE Active(n)' = Active(n)
BY DEF Active, JP!Claimed, JP!BeingErased, JP!Mapped

\* A node is active on the row it is entered for, while that is processed.
LEMMA ActiveRow ==
  ASSUME processor \in Processor, NEW n \in Node
  PROVE  /\ Active(n) \in Row \cup {NoRow}
         /\ Active(n) # NoRow <=> processor.node_map[n] # NoRow
                                  /\ processor.mandel_job[processor.node_map[n]] = "Processing"
         /\ Active(n) # NoRow => processor.node_map[n] = Active(n)
BY DEF Active, JP!Claimed, JP!BeingErased, JP!Mapped, JP!NoRow, NoRow, Processor

Owners == /\ \A n, m \in Node :
               processor.node_map[n] # NoRow /\ processor.node_map[n] = processor.node_map[m] => n = m
          /\ \A n \in Node : processor.node_map[n] # NoRow
                             => processor.mandel_job[processor.node_map[n]] # "UnProcessed"

LEMMA TimeoutRows ==
  ASSUME processor \in Processor, Owners, NEW n \in Node, processor' = nc_node_timeout(processor, n),
         RowsOwned, RowsHoldTheirLines
  PROVE  /\ \A m \in Node : Active(m)' = IF m = n THEN NoRow ELSE Active(m)
         /\ RowsOwned' /\ RowsHoldTheirLines'
<1>1. /\ processor'.node_map = [processor.node_map EXCEPT ![n] = NoRow]
      /\ processor'.mandel_image = processor.mandel_image
      /\ processor'.mandel_job = [i \in Row |->
           IF i = processor.node_map[n] /\ processor.mandel_job[i] = "Processing"
           THEN "UnProcessed" ELSE processor.mandel_job[i]]
  BY DEF nc_node_timeout
<1>2. NoRow \notin Row
  BY HeightAssumption DEF NoRow, Row
<1>3. processor.node_map \in [Node -> Row \cup {NoRow}] /\ processor.mandel_job \in [Row -> JobStatus]
  BY DEF Processor
<1>4. ASSUME NEW m \in Node PROVE Active(m)' = IF m = n THEN NoRow ELSE Active(m)
  <2>1. processor'.node_map[m] = IF m = n THEN NoRow ELSE processor.node_map[m]
    BY <1>1, <1>3
  <2>2. m # n /\ processor.node_map[m] \in Row
          => processor'.mandel_job[processor.node_map[m]] = processor.mandel_job[processor.node_map[m]]
    BY <1>1, <1>2, <1>3 DEF Owners
  <2>. QED BY <1>2, <1>3, <2>1, <2>2 DEF Active, JP!Claimed, JP!BeingErased, JP!Mapped, JP!NoRow, NoRow
<1>5. RowsOwned'
  <2>. SUFFICES ASSUME NEW i \in Row, processor'.mandel_job[i] = "Processing"
                PROVE  \E m \in Node : processor'.node_map[m] = i
    BY DEF RowsOwned
  <2>1. i # processor.node_map[n] /\ processor.mandel_job[i] = "Processing"
    BY <1>1, <1>3 DEF JobStatus
  <2>2. PICK m \in Node : processor.node_map[m] = i
    BY <2>1 DEF RowsOwned
  <2>. QED BY <1>1, <1>3, <2>1, <2>2
<1>6. RowsHoldTheirLines'
  BY <1>1, <1>3 DEF RowsHoldTheirLines
<1>. QED BY <1>4, <1>5, <1>6

LEMMA NewDataRows ==
  ASSUME processor \in Processor, Owners, NEW n \in Node, Active(n) = NoRow,
         NEW o \in nc_get_new_data(processor, n), processor' = o.processor,
         RowsOwned, RowsHoldTheirLines
  PROVE  /\ \/ UNCHANGED processor
            \/ \E i \in Row : /\ o.data = RowData(i)
                              /\ \A m \in Node : Active(m)' = IF m = n THEN i ELSE Active(m)
         /\ RowsOwned' /\ RowsHoldTheirLines'
<1>. DEFINE pool == {i \in Row : processor.mandel_job[i] = "UnProcessed"}
            first == {i \in pool : \A j \in pool : i <= j}
            Given(i) == [processor |-> Assigned(processor, n, i), data |-> RowData(i)]
<1>1. CASE pool = {}
  <2>1. nc_get_new_data(processor, n) = {[processor |-> processor, data |-> NoMoreRows]}
    BY <1>1 DEF nc_get_new_data
  <2>2. UNCHANGED processor
    BY <2>1
  <2>. QED BY <2>2 DEF RowsOwned, RowsHoldTheirLines
<1>2. CASE pool # {}
  <2>1. nc_get_new_data(processor, n) = {Given(i) : i \in first}
    BY <1>2 DEF nc_get_new_data
  <2>2. PICK i \in first : o = Given(i)
    BY <2>1
  <2>3. i \in Row /\ processor.mandel_job[i] = "UnProcessed" /\ o.data = RowData(i)
    BY <2>2
  <2>4. /\ processor'.node_map = [processor.node_map EXCEPT ![n] = i]
        /\ processor'.mandel_image = processor.mandel_image
        /\ processor'.mandel_job = [processor.mandel_job EXCEPT ![i] = "Processing"]
    BY <2>2 DEF Assigned
  <2>. HIDE DEF pool, first, Given
  <2>5. NoRow \notin Row
    BY HeightAssumption DEF NoRow, Row
  <2>6. processor.node_map \in [Node -> Row \cup {NoRow}] /\ processor.mandel_job \in [Row -> JobStatus]
    BY DEF Processor
  <2>7. \A m \in Node : processor.node_map[m] # i
    BY <2>3, <2>5 DEF Owners
  <2>8. ASSUME NEW m \in Node PROVE Active(m)' = IF m = n THEN i ELSE Active(m)
    <3>1. processor'.node_map[m] = IF m = n THEN i ELSE processor.node_map[m]
      BY <2>4, <2>6
    <3>2. \A j \in Row : processor'.mandel_job[j] = IF j = i THEN "Processing" ELSE processor.mandel_job[j]
      BY <2>4, <2>6
    <3>. QED BY <2>3, <2>5, <2>6, <2>7, <3>1, <3>2 DEF Active, JP!Claimed, JP!BeingErased, JP!Mapped, JP!NoRow, NoRow
  <2>9. RowsOwned'
    <3>. SUFFICES ASSUME NEW j \in Row, processor'.mandel_job[j] = "Processing"
                  PROVE  \E m \in Node : processor'.node_map[m] = j
      BY DEF RowsOwned
    <3>1. CASE j = i
      BY <2>4, <2>6, <3>1
    <3>2. CASE j # i
      <4>1. processor.mandel_job[j] = "Processing"
        BY <2>3, <2>4, <2>6, <3>2
      <4>2. PICK m \in Node : processor.node_map[m] = j
        BY <4>1 DEF RowsOwned
      <4>3. m # n
        BY <2>5, <4>1, <4>2, ActiveRow
      <4>. QED BY <2>4, <2>6, <4>2, <4>3
    <3>. QED BY <3>1, <3>2
  <2>10. RowsHoldTheirLines'
    BY <2>3, <2>4, <2>6 DEF RowsHoldTheirLines
  <2>. QED BY <2>3, <2>8, <2>9, <2>10
<1>. QED BY <1>1, <1>2

LEMMA ResultRows ==
  ASSUME processor \in Processor, Owners, NEW n \in Node, NEW d,
         Active(n) = NoRow \/ d = Line(Active(n)),
         processor' = nc_process_result(processor, n, d), RowsOwned, RowsHoldTheirLines
  PROVE  /\ \A m \in Node : Active(m)' = IF m = n THEN NoRow ELSE Active(m)
         /\ RowsOwned' /\ RowsHoldTheirLines'
<1>1. CASE Active(n) = NoRow
  <2>1. processor' = processor
    BY <1>1, ActiveRow DEF nc_process_result, Mapped
  <2>. QED BY <1>1, <2>1, ActiveStays DEF RowsOwned, RowsHoldTheirLines
<1>2. CASE Active(n) # NoRow
  <2>. DEFINE i == Active(n)
  <2>1. i \in Row /\ processor.node_map[n] = i /\ processor.mandel_job[i] = "Processing"
    BY <1>2, ActiveRow
  <2>2. NoRow \notin Row
    BY HeightAssumption DEF NoRow, Row
  <2>3. Line(i) \in LinePayload \ {EmptyLine} /\ Line(i).line = i
    BY <2>1, <2>2 DEF LinePayload, EmptyLine, Line, NoRow
  <2>4. /\ processor'.node_map = processor.node_map
        /\ processor'.mandel_image = [processor.mandel_image EXCEPT ![i] = i]
        /\ processor'.mandel_job = [processor.mandel_job EXCEPT ![i] = "Done"]
    BY <1>2, <2>1, <2>3 DEF nc_process_result, Mapped
  <2>. HIDE DEF i
  <2>5. /\ processor.node_map \in [Node -> Row \cup {NoRow}] /\ processor.mandel_job \in [Row -> JobStatus]
        /\ processor.mandel_image \in [Row -> Row \cup {Blank}]
    BY DEF Processor
  <2>6. ASSUME NEW m \in Node PROVE Active(m)' = IF m = n THEN NoRow ELSE Active(m)
    <3>1. m # n => processor.node_map[m] # i
      BY <2>1, <2>2 DEF Owners
    <3>2. \A j \in Row : processor'.mandel_job[j] = IF j = i THEN "Done" ELSE processor.mandel_job[j]
      BY <2>4, <2>5
    <3>. QED BY <2>1, <2>2, <2>4, <2>5, <3>1, <3>2 DEF Active, JP!Claimed, JP!BeingErased, JP!Mapped, JP!NoRow, NoRow
  <2>7. RowsOwned'
    BY <2>1, <2>4, <2>5 DEF RowsOwned
  <2>8. RowsHoldTheirLines'
    BY <2>1, <2>4, <2>5 DEF RowsHoldTheirLines
  <2>. QED BY <2>6, <2>7, <2>8
<1>. QED BY <1>1, <1>2

-----------------------------------------------------------------------------
(* Requests and their answers *)

\* What the server's steps change.
LEMMA ServerKinds ==
  ASSUME ServerStep
  PROVE  \/ UNCHANGED <<conn, handler, reply>>
         \/ /\ SP!Return \/ SP!Terminate
            /\ ~Srv!Listening' /\ UNCHANGED processor
         \/ \E c \in Conn : SP!nc_accept(c) \/ Works(c) \/ SP!nc_send_data(c)
<1>1. CASE SP!Main
  BY <1>1 DEF SP!Main, SP!CheckQuit, SP!nc_acceptThrows, SP!JoinOldest, SP!nc_save_data,
     SP!JoinHeartbeat, SP!JoinClient, SP!Return, SP!handlerVars, Srv!Listening
<1>2. ASSUME NEW c \in Conn, SP!nc_handle_node(c)
      PROVE  \/ Works(c) \/ SP!nc_send_data(c)
             \/ SP!Terminate /\ ~Srv!Listening' /\ UNCHANGED processor
  BY <1>2 DEF SP!nc_handle_node, Works, SP!nc_receive_dataThrows, SP!nc_send_dataThrows,
              SP!Terminate, Srv!Listening
<1>3. CASE SP!nc_check_heartbeat \/ \E n \in Node : SP!Expire(n)
  BY <1>3 DEF SP!nc_check_heartbeat, SP!Wake, SP!CheckNode, SP!Expire, SP!handlerVars
<1>. QED BY <1>1, <1>2, <1>3 DEF ServerStep

LEMMA RequestsServed ==
  ASSUME SystemInv, RequestsInv, WaitInv, ServerStep, UNCHANGED nodeState
  PROVE  RequestsInv' /\ WaitInv'
<1>0. conn \in [Conn -> SP!Connection]
  BY DEF SystemInv, Parts, SP!TypeOK
<1>1. \A c \in Conn : conn'[c].request \subseteq conn[c].request
  BY ServerLeavesRequests
<1>2. \A n \in Node : \A t \in NP!Thread : socket[n][t] \subseteq Conn
  BY SocketOpen
<1>3. ASSUME NEW c \in Conn, conn'[c].answer # {}
      PROVE  conn'[c].server = "closed" /\ conn'[c].request # {}
  <2>1. CASE UNCHANGED conn
    BY <1>3, <2>1 DEF RequestsInv
  <2>2. CASE conn' = SP!CloseAll(conn)
    BY <1>0, <1>3, <2>2 DEF SP!CloseAll, SP!CloseServer, SP!NoConnection, RequestsInv, SP!Connection
  <2>3. ASSUME NEW d \in Conn, SP!nc_accept(d) PROVE conn'[c].server = "closed" /\ conn'[c].request # {}
    <3>1. conn[d].answer = {}
      BY <2>3 DEF SP!nc_accept, RequestsInv
    <3>. QED BY <1>0, <1>3, <2>3, <3>1 DEF SP!nc_accept, RequestsInv, SP!Connection
  <2>4. ASSUME NEW d \in Conn, SP!nc_send_data(d) PROVE conn'[c].server = "closed" /\ conn'[c].request # {}
    <3>1. conn[d].request # {}
      BY <2>4 DEF SP!nc_send_data, SystemInv, StageInv, StageFits
    <3>2. conn' = [conn EXCEPT ![d] =
                     SP!CloseServer(IF @.client = "open" THEN [@ EXCEPT !.answer = reply[d]] ELSE @)]
      BY <2>4 DEF SP!nc_send_data
    <3>3. c = d => conn'[c].server = "closed" /\ (conn'[c].request = conn[c].request \/ conn'[c].answer = {})
      BY <1>0, <3>2 DEF SP!CloseServer, SP!NoConnection, SP!Connection
    <3>4. c # d => conn'[c] = conn[c]
      BY <1>0, <3>2
    <3>. QED BY <1>3, <3>1, <3>3, <3>4 DEF RequestsInv
  <2>5. Works(c) => UNCHANGED conn
    BY WorkLeaves
  <2>. QED BY <2>1, <2>2, <2>3, <2>4, ServerKinds, WorkLeaves DEF SP!Return, SP!Terminate
<1>4. RequestsInv'
  <2>1. \A n \in Node : \A t \in NP!Thread : \A c \in socket'[n][t] : RequestOf(c, n, t)'
    BY <1>1, <1>2 DEF RequestsInv, RequestOf, nodeState
  <2>2. \A n \in Node : \A t \in NP!Thread : result'[n][t] # {} => thread_pc'[n][t] = "handle"
    BY DEF RequestsInv, nodeState
  <2>. QED BY <1>3, <2>1, <2>2 DEF RequestsInv
<1>5. WaitInv'
  <2>1. UNCHANGED <<socket, thread_pc>>
    BY DEF nodeState
  <2>. QED BY <1>1, <2>1 DEF WaitInv
<1>. QED BY <1>4, <1>5

\* A connection breaks while nc_run waits on it for the answer to a request for
\* work or to a result, which the server may still be about to take.
WorkBreaks ==
  \E n \in Node : /\ run_state[n] # "Init" /\ thread_pc[n]["main"] = "receive"
                  /\ Nd!ConnectionBreaks(n, "main") /\ ~Nd!ServerHungUp(n, "main")

\* What the nodes' steps change.
Exchanges(n, t) ==
  \/ \E c \in Conn : NP!nc_connect(n, t, c)
  \/ NP!nc_send_data(n, t)
  \/ NP!nc_receive_data(n, t)
  \/ NP!ExchangeThrows(n, t) /\ \E c \in socket[n][t] : conn[c].server = "closed" /\ conn[c].answer = {}
Ponders(n, t) ==
  \/ NP!nc_connectThrows(n, t) /\ ~Srv!Listening
  \/ NP!MainLoop(n) \/ NP!HandleAnswer(n) \/ NP!JoinHeartbeat(n)
  \/ NP!BeatLoop(n) \/ NP!HandleBeatAnswer(n)

\* Any other connection that breaks: of the heartbeat thread, of a node that
\* registers, or before the request is sent.
Breaks(n, t) == /\ "break" \in NodeFaults
                /\ NP!ExchangeThrows(n, t)
                /\ t = "beat" \/ run_state[n] = "Init" \/ thread_pc[n][t] = "send"

LEMMA NothingBreaks == ASSUME "break" \notin NodeFaults PROVE ~WorkBreaks
BY DEF WorkBreaks, Nd!ConnectionBreaks

LEMMA NodeKinds ==
  ASSUME ~WorkBreaks, NEW n \in Node, NEW t \in NP!Thread, NodeStep(n, t)
  PROVE  Exchanges(n, t) \/ Ponders(n, t) \/ NP!Crash(n) \/ Breaks(n, t)
<1>1. ASSUME NP!ExchangeThrows(n, t), "break" \in NodeFaults PROVE Exchanges(n, t) \/ Breaks(n, t)
  <2>1. Nd!ExchangeThrows(n, t)
    BY <1>1 DEF Nd!ExchangeThrows, NP!ExchangeThrows, Nd!Goto, NP!Goto, Nd!CountError, NP!CountError,
       Nd!Hangup, NP!Hangup, Nd!CloseClient, NP!CloseClient, Nd!NoConnection, NP!NoConnection
  <2>2. t \in {"main", "beat"} /\ thread_pc[n][t] \in {"send", "receive"}
    BY <1>1 DEF NP!ExchangeThrows, NP!Thread
  <2>3. CASE ~Breaks(n, t)
    <3>1. t = "main" /\ run_state[n] # "Init" /\ thread_pc[n]["main"] = "receive"
      BY <1>1, <2>2, <2>3 DEF Breaks
    <3>2. Nd!ServerHungUp(n, "main")
      BY <1>1, <2>1, <3>1 DEF WorkBreaks, Nd!ConnectionBreaks
    <3>. QED BY <1>1, <3>1, <3>2 DEF Nd!ServerHungUp, Exchanges
  <2>. QED BY <2>3
<1>. QED BY <1>1 DEF NodeStep, Exchanges, Ponders

LEMMA NodeTypes ==
  ASSUME SystemInv
  PROVE  /\ conn \in [Conn -> NP!Connection]
         /\ thread_pc \in [Node -> [NP!Thread -> NP!ThreadPC]]
         /\ socket \in [Node -> [NP!Thread -> NP!Optional(Conn)]]
         /\ result \in [Node -> [NP!Thread -> NP!Optional(NP!NCDecodedMessageFromServer)]]
         /\ run_state \in [Node -> NP!NCRunState]
         /\ new_data \in [Node -> Payload \cup {NoData}]
         /\ "main" \in NP!Thread /\ "beat" \in NP!Thread
         /\ \A n \in Node : \A t \in NP!Thread : socket[n][t] \subseteq Conn
BY SocketOpen DEF SystemInv, Parts, NP!TypeOK, NP!Thread

\* The thread t of n took the answer of c, if there is one, and hung up.
HungUp(n, t, c, pc) ==
  /\ socket[n][t] = {c} /\ conn[c].server = "closed"
  /\ thread_pc[n][t] \in {"send", "receive"}
  /\ conn[c].answer # {} => pc = "handle"
  /\ conn' = [conn EXCEPT ![c] = NP!NoConnection]
  /\ socket' = [socket EXCEPT ![n][t] = {}]
  /\ thread_pc' = [thread_pc EXCEPT ![n][t] = pc]
  /\ result' = [result EXCEPT ![n][t] = conn[c].answer]
  /\ UNCHANGED <<run_state, new_data>>

\* A node hangs up when the server has, and the connection is no more.
LEMMA HangsUpLast ==
  ASSUME SystemInv, RequestsInv, NEW n \in Node, NEW t \in NP!Thread,
         \/ NP!nc_receive_data(n, t)
         \/ NP!ExchangeThrows(n, t)
             /\ \E c \in socket[n][t] : conn[c].server = "closed" /\ conn[c].answer = {}
  PROVE  \E c \in Conn, pc \in {"handle", "loop"} : HungUp(n, t, c, pc)
<1>1. NP!Hangup(n, t)
  BY DEF NP!nc_receive_data, NP!ExchangeThrows
<1>2. PICK c \in socket[n][t] : conn' = [conn EXCEPT ![c] = NP!CloseClient(@)]
  BY <1>1 DEF NP!Hangup
<1>3. c \in Conn /\ socket[n][t] = {c}
  BY SocketOpen
<1>4. socket' = [socket EXCEPT ![n][t] = {}]
  BY <1>1 DEF NP!Hangup
<1>5. conn[c].server = "closed"
  BY <1>3 DEF NP!nc_receive_data, RequestsInv
<1>6. conn' = [conn EXCEPT ![c] = NP!NoConnection]
  BY <1>2, <1>3, <1>5, NodeTypes DEF NP!CloseClient
<1>7. CASE NP!nc_receive_data(n, t)
  <2>1. /\ result' = [result EXCEPT ![n][t] = conn[c].answer]
        /\ thread_pc[n][t] = "receive" /\ thread_pc' = [thread_pc EXCEPT ![n][t] = "handle"]
        /\ UNCHANGED <<run_state, new_data>>
    BY <1>3, <1>7 DEF NP!nc_receive_data, NP!Goto
  <2>. QED BY <1>3, <1>4, <1>5, <1>6, <2>1 DEF HungUp
<1>8. CASE NP!ExchangeThrows(n, t) /\ conn[c].answer = {}
  <2>1. /\ UNCHANGED <<result, run_state, new_data>>
        /\ thread_pc[n][t] \in {"send", "receive"} /\ thread_pc' = [thread_pc EXCEPT ![n][t] = "loop"]
    BY <1>8 DEF NP!ExchangeThrows, NP!Goto
  <2>2. result[n][t] = {}
    BY <2>1 DEF RequestsInv
  <2>3. result' = [result EXCEPT ![n][t] = conn[c].answer]
    BY <1>8, <2>1, <2>2, NodeTypes
  <2>. QED BY <1>3, <1>4, <1>5, <1>6, <1>8, <2>1, <2>3 DEF HungUp
<1>. QED BY <1>3, <1>7, <1>8

LEMMA RequestsAfterConnect ==
  ASSUME SystemInv, RequestsInv, WaitInv, NEW n \in Node, NEW t \in NP!Thread, NEW c \in Conn,
         NP!nc_connect(n, t, c)
  PROVE  RequestsInv' /\ WaitInv'
<1>1. /\ conn[c] = NP!NoConnection /\ conn' = [conn EXCEPT ![c] = NP!Connected]
      /\ socket' = [socket EXCEPT ![n][t] = {c}] /\ thread_pc' = [thread_pc EXCEPT ![n][t] = "send"]
      /\ thread_pc[n][t] = "connect" /\ UNCHANGED <<result, new_data>>
  BY DEF NP!nc_connect, NP!Goto
<1>2. socket[n][t] = {}
  BY <1>1 DEF SystemInv, Parts, NP!OneExchangePerNode
<1>3. conn'[c].request = {} /\ conn'[c].answer = {} /\ \A d \in Conn \ {c} : conn'[d] = conn[d]
  BY <1>1, NodeTypes DEF NP!Connected
<1>4. /\ socket'[n][t] = {c} /\ thread_pc'[n][t] = "send"
      /\ \A m \in Node : \A s \in NP!Thread : ~(m = n /\ s = t) =>
            socket'[m][s] = socket[m][s] /\ thread_pc'[m][s] = thread_pc[m][s]
  BY <1>1, NodeTypes
<1>5. result[n][t] = {}
  BY <1>1 DEF RequestsInv
<1>6. \A m \in Node : \A s \in NP!Thread : \A d \in socket'[m][s] : RequestOf(d, m, s)'
  BY <1>1, <1>3, <1>4, NodeTypes DEF RequestsInv, RequestOf
<1>7. /\ \A d \in Conn : conn'[d].answer # {} => conn'[d].server = "closed" /\ conn'[d].request # {}
      /\ \A m \in Node : \A s \in NP!Thread : result'[m][s] # {} => thread_pc'[m][s] = "handle"
  BY <1>1, <1>3, <1>4, <1>5 DEF RequestsInv
<1>8. \A d \in Conn : conn'[d].request \subseteq conn[d].request
  BY <1>3
<1>9. \A d \in Conn : \A m \in conn[d].request : m.node_id \in Node
  BY OneRequest
<1>10. \A m \in Node : /\ socket[m]["main"] \subseteq socket'[m]["main"]
                       /\ thread_pc[m]["main"] = "crashed" => thread_pc'[m]["main"] = "crashed"
  BY <1>1, <1>2, <1>4, NodeTypes
<1>11. WaitInv'
  BY <1>8, <1>9, <1>10 DEF WaitInv
<1>. QED BY <1>6, <1>7, <1>11 DEF RequestsInv

LEMMA RequestsAfterSend ==
  ASSUME SystemInv, RequestsInv, WaitInv, NEW n \in Node, NEW t \in NP!Thread, NP!nc_send_data(n, t)
  PROVE  RequestsInv' /\ WaitInv'
<1>. DEFINE k == NP!RequestMessage(n, t)
<1>1. PICK c \in socket[n][t] : conn' = [conn EXCEPT ![c].request = {k}]
  BY DEF NP!nc_send_data
<1>2. c \in Conn /\ socket[n][t] = {c} /\ conn[c].request = {}
  BY SocketOpen DEF NP!nc_send_data, SystemInv, SendInv
<1>3. /\ thread_pc[n][t] = "send" /\ thread_pc' = [thread_pc EXCEPT ![n][t] = "receive"]
      /\ UNCHANGED <<socket, result, new_data, run_state>>
  BY DEF NP!nc_send_data, NP!Goto
<1>4. /\ k.node_id = n
      /\ (k.msg_type = "Heartbeat") <=> (t = "beat")
      /\ k.msg_type = "NewResultFromNode" => k.data = new_data[n]
  <2>1. run_state[n] \in {"Init", "NeedData", "HasData"} /\ t \in {"main", "beat"}
    BY NodeTypes DEF NP!NCRunState, NP!Thread
  <2>. QED BY <2>1 DEF NP!RequestMessage
<1>. HIDE DEF k
<1>5. /\ conn'[c].request = {k} /\ conn'[c].answer = conn[c].answer
      /\ \A d \in Conn \ {c} : conn'[d] = conn[d]
  BY <1>1, <1>2, NodeTypes DEF NP!Connection
<1>6. conn[c].answer = {}
  BY <1>2 DEF RequestsInv
<1>7. \A m \in Node : \A s \in NP!Thread : c \in socket[m][s] => m = n /\ s = t
  BY <1>2 DEF SystemInv, Parts, NP!SocketsMatchConnections
<1>8. ASSUME NEW m \in Node, NEW s \in NP!Thread, NEW d \in socket'[m][s] PROVE RequestOf(d, m, s)'
  <2>1. d \in socket[m][s] /\ d \in Conn /\ RequestOf(d, m, s)
    BY <1>3, <1>8, NodeTypes DEF RequestsInv
  <2>2. CASE d = c
    BY <1>3, <1>4, <1>5, <1>7, <2>1, <2>2 DEF RequestOf
  <2>3. CASE d # c
    BY <1>3, <1>5, <2>1, <2>3 DEF RequestOf
  <2>. QED BY <2>2, <2>3
<1>9. /\ thread_pc'[n][t] = "receive"
      /\ \A m \in Node : \A s \in NP!Thread : ~(m = n /\ s = t) => thread_pc'[m][s] = thread_pc[m][s]
  BY <1>3, NodeTypes
<1>10. \A d \in Conn : conn'[d].answer # {} => conn'[d].server = "closed" /\ conn'[d].request # {}
  BY <1>5, <1>6 DEF RequestsInv
<1>11. \A m \in Node : \A s \in NP!Thread : result'[m][s] # {} => thread_pc'[m][s] = "handle"
  BY <1>3, <1>9 DEF RequestsInv
<1>12. \A d \in Conn : \A m \in conn[d].request : m.node_id \in Node
  BY OneRequest
<1>13. \A m \in Node : thread_pc[m]["main"] = "crashed" => thread_pc'[m]["main"] = "crashed"
  BY <1>3, <1>9, NodeTypes
<1>14. IsWork(k) => t = "main"
  BY <1>4 DEF IsWork, NP!Thread
<1>15. \A d \in Conn : \A m \in conn'[d].request :
         IsWork(m) => d \in socket'[m.node_id]["main"] \/ thread_pc'[m.node_id]["main"] = "crashed"
  BY <1>2, <1>3, <1>4, <1>5, <1>12, <1>13, <1>14 DEF WaitInv
\* A second request for work would have come from the same socket.
<1>16. ASSUME IsWork(k), NEW d \in Conn, d # c, NEW m \in conn'[d].request, IsWork(m), m.node_id = n
       PROVE  FALSE
  <2>1. d \in socket[n]["main"] \/ thread_pc[n]["main"] = "crashed"
    BY <1>5, <1>16 DEF WaitInv
  <2>. QED BY <1>2, <1>3, <1>14, <1>16, <2>1
<1>17. \A d, e \in Conn : \A m \in conn'[d].request, l \in conn'[e].request :
         IsWork(m) /\ IsWork(l) /\ m.node_id = l.node_id => d = e
  <2>. SUFFICES ASSUME NEW d \in Conn, NEW e \in Conn, NEW m \in conn'[d].request, NEW l \in conn'[e].request,
                       IsWork(m), IsWork(l), m.node_id = l.node_id, d # e
                PROVE  FALSE
    OBVIOUS
  <2>1. CASE d = c
    BY <1>4, <1>5, <1>16, <2>1
  <2>2. CASE e = c
    BY <1>4, <1>5, <1>16, <2>2
  <2>3. CASE d # c /\ e # c
    BY <1>5, <2>3 DEF WaitInv
  <2>. QED BY <2>1, <2>2, <2>3
<1>. QED BY <1>8, <1>10, <1>11, <1>15, <1>17 DEF RequestsInv, WaitInv

LEMMA RequestsAfterHangup ==
  ASSUME SystemInv, RequestsInv, WaitInv, NEW n \in Node, NEW t \in NP!Thread,
         \/ NP!nc_receive_data(n, t)
         \/ NP!ExchangeThrows(n, t)
             /\ \E c \in socket[n][t] : conn[c].server = "closed" /\ conn[c].answer = {}
  PROVE  RequestsInv' /\ WaitInv'
<1>0. PICK c \in Conn, pc \in {"handle", "loop"} : HungUp(n, t, c, pc)
  BY HangsUpLast
<1>1. /\ socket[n][t] = {c} /\ conn[c].server = "closed"
      /\ thread_pc[n][t] \in {"send", "receive"}
      /\ conn[c].answer # {} => pc = "handle"
      /\ conn' = [conn EXCEPT ![c] = NP!NoConnection]
      /\ socket' = [socket EXCEPT ![n][t] = {}]
      /\ thread_pc' = [thread_pc EXCEPT ![n][t] = pc]
      /\ result' = [result EXCEPT ![n][t] = conn[c].answer]
      /\ UNCHANGED <<run_state, new_data>>
  BY <1>0 DEF HungUp
<1>2. conn'[c].request = {} /\ conn'[c].answer = {} /\ \A d \in Conn \ {c} : conn'[d] = conn[d]
  BY <1>1, NodeTypes DEF NP!NoConnection
<1>3. /\ socket'[n][t] = {} /\ thread_pc'[n][t] = pc /\ result'[n][t] = conn[c].answer
      /\ \A m \in Node : \A s \in NP!Thread : ~(m = n /\ s = t) =>
            socket'[m][s] = socket[m][s] /\ thread_pc'[m][s] = thread_pc[m][s] /\ result'[m][s] = result[m][s]
  BY <1>1, NodeTypes
<1>4. \A m \in Node : \A s \in NP!Thread : \A d \in socket'[m][s] : RequestOf(d, m, s)'
  BY <1>1, <1>2, <1>3, NodeTypes DEF RequestsInv, RequestOf
<1>5. \A d \in Conn : conn'[d].answer # {} => conn'[d].server = "closed" /\ conn'[d].request # {}
  BY <1>2 DEF RequestsInv
<1>6. \A m \in Node : \A s \in NP!Thread : result'[m][s] # {} => thread_pc'[m][s] = "handle"
  BY <1>1, <1>3 DEF RequestsInv
<1>7. \A d \in Conn : \A m \in conn[d].request : m.node_id \in Node
  BY OneRequest
<1>8. \A m \in Node : /\ \A d \in Conn \ {c} : d \in socket[m]["main"] => d \in socket'[m]["main"]
                      /\ thread_pc[m]["main"] = "crashed" => thread_pc'[m]["main"] = "crashed"
  BY <1>1, <1>3, NodeTypes
<1>9. WaitInv'
  BY <1>2, <1>7, <1>8 DEF WaitInv
<1>. QED BY <1>4, <1>5, <1>6, <1>9 DEF RequestsInv

\* The client's end of c closes in the middle of an exchange that is not work.
Broken(n, t, c) ==
  /\ socket[n][t] = {c}
  /\ thread_pc[n][t] \in {"send", "receive"}
  /\ \A m \in conn[c].request : ~IsWork(m)
  /\ conn' = [conn EXCEPT ![c] = NP!CloseClient(@)]
  /\ socket' = [socket EXCEPT ![n][t] = {}]
  /\ thread_pc' = [thread_pc EXCEPT ![n][t] = "loop"]
  /\ UNCHANGED <<result, run_state, new_data>>

LEMMA BreaksQuietly ==
  ASSUME SystemInv, RequestsInv, NEW n \in Node, NEW t \in NP!Thread, Breaks(n, t)
  PROVE  \E c \in Conn : Broken(n, t, c)
<1>1. /\ thread_pc[n][t] \in {"send", "receive"} /\ thread_pc' = [thread_pc EXCEPT ![n][t] = "loop"]
      /\ UNCHANGED <<result, run_state, new_data>>
      /\ NP!Hangup(n, t)
  BY DEF Breaks, NP!ExchangeThrows, NP!Goto
<1>2. PICK c \in socket[n][t] : conn' = [conn EXCEPT ![c] = NP!CloseClient(@)]
  BY <1>1 DEF NP!Hangup
<1>3. c \in Conn /\ socket[n][t] = {c}
  BY SocketOpen
<1>4. socket' = [socket EXCEPT ![n][t] = {}]
  BY <1>1 DEF NP!Hangup
<1>5. ASSUME NEW m \in conn[c].request PROVE ~IsWork(m)
  <2>1. CASE t = "beat"
    BY <2>1 DEF RequestsInv, RequestOf, IsWork
  <2>2. CASE thread_pc[n][t] = "send"
    BY <2>2 DEF SystemInv, SendInv
  <2>3. CASE t = "main" /\ run_state[n] = "Init"
    BY <2>3 DEF SystemInv, Parts, NP!ExchangeInv, NP!ExchangeFits, NP!ConnectionFits, NP!RequestFits, IsWork
  <2>. QED BY <2>1, <2>2, <2>3 DEF Breaks, NP!Thread
<1>. QED BY <1>1, <1>2, <1>3, <1>4, <1>5 DEF Broken

\* What closing the client's end does to any connection.
LEMMA ClientCloses ==
  ASSUME NEW k \in NP!Connection
  PROVE  /\ NP!CloseClient(k).request \subseteq k.request
         /\ NP!CloseClient(k).server # "closed" => k.server # "closed"
         /\ NP!CloseClient(k).answer # {} => /\ NP!CloseClient(k).answer = k.answer
                                             /\ NP!CloseClient(k).request = k.request
                                             /\ NP!CloseClient(k).server = k.server
<1>1. CASE k.server = "closed"
  BY <1>1 DEF NP!CloseClient, NP!NoConnection
<1>2. CASE k.server # "closed"
  BY <1>2 DEF NP!CloseClient, NP!Connection
<1>. QED BY <1>1, <1>2

LEMMA RequestsAfterBreak ==
  ASSUME SystemInv, RequestsInv, WaitInv, NEW n \in Node, NEW t \in NP!Thread, Breaks(n, t)
  PROVE  RequestsInv' /\ WaitInv'
<1>0. PICK c \in Conn : Broken(n, t, c)
  BY BreaksQuietly
<1>1. /\ socket[n][t] = {c} /\ thread_pc[n][t] \in {"send", "receive"}
      /\ \A m \in conn[c].request : ~IsWork(m)
      /\ conn' = [conn EXCEPT ![c] = NP!CloseClient(@)]
      /\ socket' = [socket EXCEPT ![n][t] = {}] /\ thread_pc' = [thread_pc EXCEPT ![n][t] = "loop"]
      /\ UNCHANGED <<result, new_data>>
  BY <1>0 DEF Broken
<1>2. /\ conn[c] \in NP!Connection /\ conn'[c] = NP!CloseClient(conn[c])
      /\ \A d \in Conn \ {c} : conn'[d] = conn[d]
  BY <1>1, NodeTypes
<1>3. \A d \in Conn : /\ conn'[d].request \subseteq conn[d].request
                      /\ conn'[d].answer # {} => /\ conn'[d].answer = conn[d].answer
                                                 /\ conn'[d].request = conn[d].request
                                                 /\ conn'[d].server = conn[d].server
  BY <1>2, ClientCloses
<1>4. /\ socket'[n][t] = {} /\ thread_pc'[n][t] = "loop"
      /\ \A m \in Node : \A s \in NP!Thread : ~(m = n /\ s = t) =>
            socket'[m][s] = socket[m][s] /\ thread_pc'[m][s] = thread_pc[m][s]
  BY <1>1, NodeTypes
<1>5. ASSUME NEW m \in Node, NEW s \in NP!Thread, NEW d \in socket'[m][s] PROVE RequestOf(d, m, s)'
  <2>1. d \in socket[m][s] /\ d \in Conn
    BY <1>4, <1>5, NodeTypes
  <2>2. RequestOf(d, m, s) /\ conn'[d].request \subseteq conn[d].request
    BY <1>3, <2>1 DEF RequestsInv
  <2>. QED BY <1>1, <2>2 DEF RequestOf
<1>6. \A d \in Conn : conn'[d].answer # {} => conn'[d].server = "closed" /\ conn'[d].request # {}
  BY <1>3 DEF RequestsInv
<1>7. \A m \in Node : \A s \in NP!Thread : result'[m][s] # {} => thread_pc'[m][s] = "handle"
  <2>1. result[n][t] = {}
    BY <1>1 DEF RequestsInv
  <2>. QED BY <1>1, <1>4, <2>1 DEF RequestsInv
<1>8. \A d \in Conn : \A m \in conn[d].request : m.node_id \in Node
  BY OneRequest
<1>9. \A m \in Node : /\ \A d \in Conn \ {c} : d \in socket[m]["main"] => d \in socket'[m]["main"]
                      /\ thread_pc[m]["main"] = "crashed" => thread_pc'[m]["main"] = "crashed"
  BY <1>1, <1>4, NodeTypes
<1>10. \A d \in Conn : \A m \in conn'[d].request : m \in conn[d].request /\ (IsWork(m) => d # c)
  BY <1>1, <1>3
<1>11. WaitInv'
  BY <1>8, <1>9, <1>10 DEF WaitInv
<1>. QED BY <1>5, <1>6, <1>7, <1>11 DEF RequestsInv

LEMMA RequestsAfterPondering ==
  ASSUME SystemInv, RequestsInv, WaitInv, NEW n \in Node, NEW t \in NP!Thread, Ponders(n, t)
  PROVE  RequestsInv' /\ WaitInv'
<1>1. UNCHANGED <<conn, socket>>
  BY DEF Ponders, NP!nc_connectThrows, NP!MainLoop, NP!HandleAnswer, NP!JoinHeartbeat,
         NP!BeatLoop, NP!HandleBeatAnswer
\* Each of these steps is one of the loop, or handles an answer.
<1>. DEFINE Moves(s) ==
       /\ \/ result' = [result EXCEPT ![n][s] = {}]
          \/ thread_pc[n][s] # "handle" /\ UNCHANGED result
       /\ thread_pc[n][s] # "crashed"
       /\ \E pc : thread_pc' = [thread_pc EXCEPT ![n][s] = pc]
       /\ \/ UNCHANGED new_data
          \/ s = "main" /\ thread_pc[n]["main"] = "handle" /\ \E d : new_data' = [new_data EXCEPT ![n] = d]
<1>2. \E s \in NP!Thread : Moves(s)
  <2>1. NP!nc_connectThrows(n, t) => Moves(t)
    BY DEF NP!nc_connectThrows, NP!Goto
  <2>2. NP!MainLoop(n) \/ NP!JoinHeartbeat(n) => Moves("main")
    BY DEF NP!MainLoop, NP!JoinHeartbeat, NP!Goto
  <2>3. ASSUME NP!HandleAnswer(n) PROVE Moves("main")
    <3>1. UNCHANGED new_data \/ \E d : new_data' = [new_data EXCEPT ![n] = d]
      BY <2>3 DEF NP!HandleAnswer
    <3>. QED BY <2>3, <3>1 DEF NP!HandleAnswer, NP!Goto
  <2>4. NP!BeatLoop(n) => Moves("beat")
    BY DEF NP!BeatLoop, NP!Goto
  <2>5. NP!HandleBeatAnswer(n) => Moves("beat")
    BY DEF NP!HandleBeatAnswer, NP!Goto
  <2>. HIDE DEF Moves
  <2>. QED BY <2>1, <2>2, <2>3, <2>4, <2>5, NodeTypes DEF Ponders
<1>2a. PICK s \in NP!Thread : Moves(s)
  BY <1>2
<1>3. \A m \in Node : \A u \in NP!Thread : result'[m][u] # {} => thread_pc'[m][u] = "handle"
  <2>. SUFFICES ASSUME NEW m \in Node, NEW u \in NP!Thread, result'[m][u] # {}
                PROVE  thread_pc'[m][u] = "handle"
    OBVIOUS
  <2>1. result[m][u] # {} /\ ~(m = n /\ u = s)
    BY <1>2a, NodeTypes DEF RequestsInv
  <2>2. thread_pc[m][u] = "handle"
    BY <2>1 DEF RequestsInv
  <2>. QED BY <1>2a, <2>1, <2>2, NodeTypes
<1>4. \A m \in Node : thread_pc[m]["main"] = "crashed" => thread_pc'[m]["main"] = "crashed"
  BY <1>2a, NodeTypes
<1>5. ASSUME NEW m \in Node PROVE UNCHANGED new_data[m] \/ socket[m]["main"] = {}
  <2>1. thread_pc[m]["main"] = "handle" => socket[m]["main"] = {}
    BY NodeTypes DEF SystemInv, Parts, NP!OneExchangePerNode
  <2>. QED BY <1>2a, <2>1, NodeTypes
<1>6. ASSUME NEW m \in Node, NEW u \in NP!Thread, NEW d \in socket[m][u] PROVE RequestOf(d, m, u)'
  <2>1. RequestOf(d, m, u)
    BY <1>6 DEF RequestsInv
  <2>2. u = "main" => UNCHANGED new_data[m]
    BY <1>5, <1>6
  <2>. QED BY <1>1, <2>1, <2>2 DEF RequestOf, NP!Thread
<1>7. \A d \in Conn : \A m \in conn[d].request : m.node_id \in Node
  BY OneRequest
<1>. QED BY <1>1, <1>3, <1>4, <1>6, <1>7 DEF RequestsInv, WaitInv

LEMMA RequestsAfterCrash ==
  ASSUME SystemInv, RequestsInv, WaitInv, NEW n \in Node, NP!Crash(n)
  PROVE  RequestsInv' /\ WaitInv'
<1>1. \A d \in Conn : conn'[d] = conn[d] \/ conn'[d] = NP!NoConnection
                           \/ conn'[d] = [conn[d] EXCEPT !.client = "closed"]
  BY DEF NP!Crash, NP!CloseClient
<1>2. ASSUME NEW d \in Conn
      PROVE  /\ conn'[d].request \subseteq conn[d].request
             /\ conn'[d].answer # {} => /\ conn'[d].answer = conn[d].answer
                                        /\ conn'[d].request = conn[d].request
                                        /\ conn'[d].server = conn[d].server
  <2>1. conn[d] \in NP!Connection
    BY NodeTypes
  <2>2. CASE conn'[d] = conn[d]
    BY <2>2
  <2>3. CASE conn'[d] = NP!NoConnection
    BY <2>3 DEF NP!NoConnection
  <2>4. CASE conn'[d] = [conn[d] EXCEPT !.client = "closed"]
    BY <2>1, <2>4 DEF NP!Connection
  <2>. QED BY <1>1, <2>2, <2>3, <2>4
<1>3. \A m \in Node : \A s \in NP!Thread :
         /\ m = n => socket'[m][s] = {} /\ result'[m][s] = {} /\ thread_pc'[m][s] = "crashed"
         /\ m # n => socket'[m][s] = socket[m][s] /\ result'[m][s] = result[m][s]
                     /\ thread_pc'[m][s] = thread_pc[m][s]
  BY NodeTypes DEF NP!Crash
<1>4. UNCHANGED new_data
  BY DEF NP!Crash
<1>5. ASSUME NEW m \in Node, NEW s \in NP!Thread, NEW d \in socket'[m][s] PROVE RequestOf(d, m, s)'
  <2>1. d \in socket[m][s] /\ d \in Conn
    BY <1>3, <1>5, NodeTypes
  <2>2. RequestOf(d, m, s) /\ conn'[d].request \subseteq conn[d].request
    BY <1>2, <2>1 DEF RequestsInv
  <2>. QED BY <1>4, <2>2 DEF RequestOf
<1>6. \A d \in Conn : conn'[d].answer # {} => conn'[d].server = "closed" /\ conn'[d].request # {}
  BY <1>2 DEF RequestsInv
<1>7. \A m \in Node : \A s \in NP!Thread : result'[m][s] # {} => thread_pc'[m][s] = "handle"
  BY <1>3 DEF RequestsInv
<1>8. \A d \in Conn : \A m \in conn[d].request : m.node_id \in Node
  BY OneRequest
<1>9. WaitInv'
  BY <1>2, <1>3, <1>8, NodeTypes DEF WaitInv
<1>. QED BY <1>5, <1>6, <1>7, <1>9 DEF RequestsInv

LEMMA RequestsKept ==
  ASSUME SystemInv, RequestsInv, WaitInv, [Next]_vars, [~WorkBreaks]_vars
  PROVE  RequestsInv' /\ WaitInv'
<1>1. CASE ServerStep /\ UNCHANGED nodeState
  BY <1>1, RequestsServed
<1>2. ASSUME ~WorkBreaks, NEW n \in Node, NEW t \in NP!Thread, NodeStep(n, t)
      PROVE  RequestsInv' /\ WaitInv'
  BY <1>2, NodeKinds, RequestsAfterConnect, RequestsAfterSend, RequestsAfterHangup,
     RequestsAfterPondering, RequestsAfterCrash, RequestsAfterBreak DEF Exchanges
<1>3. CASE UNCHANGED vars
  BY <1>3 DEF vars, nodeState, RequestsInv, RequestOf, WaitInv
<1>. QED BY <1>1, <1>2, <1>3, Steps DEF NodesStep

-----------------------------------------------------------------------------
(* The rows through a step of the system *)

\* An answer that is pending is held by nc_run, waits in its connection or is
\* about to be sent there.
LEMMA PendingIs ==
  /\ \A n, r : r \in Pending(n) <=>
       \/ r \in result[n]["main"]
       \/ \E c \in socket[n]["main"] : r \in conn[c].answer \/ r \in reply[c]
  /\ \A n, r : r \in Pending(n)' <=>
       \/ r \in result'[n]["main"]
       \/ \E c \in socket'[n]["main"] : r \in conn'[c].answer \/ r \in reply'[c]
BY DEF Pending

LEMMA PendingStays ==
  ASSUME NEW n \in Node,
         result'[n]["main"] = result[n]["main"], socket'[n]["main"] = socket[n]["main"],
         \A c \in socket[n]["main"] :
           \A r : r \in conn'[c].answer \/ r \in reply'[c] <=> r \in conn[c].answer \/ r \in reply[c]
  PROVE  Pending(n)' = Pending(n)
<1>1. \A r : r \in Pending(n)' <=> r \in Pending(n)
  BY PendingIs
<1>. QED BY <1>1

\* A node that does nothing, while no acknowledgement comes nearer.
LEMMA WorkStays ==
  ASSUME NEW n \in Node, WorkFits(n), Active(n)' = Active(n),
         thread_pc[n]["main"] = "crashed" => thread_pc'[n]["main"] = "crashed",
         run_state'[n] = run_state[n], new_data'[n] = new_data[n],
         Pending(n) \subseteq Pending(n)',
         \A r \in Pending(n)' : r \in Pending(n) \/ r.msg_type # "ResultOK"
  PROVE  WorkFits(n)'
<1>. HIDE DEF Active, Pending
<1>. QED BY DEF WorkFits

\* A node that has lost its row.
LEMMA WorkLost == ASSUME NEW n \in Node, Active(n)' = NoRow PROVE WorkFits(n)'
BY DEF WorkFits

\* A connection on which nothing new is asked, while no node gets a row.
LEMMA FlightStays ==
  ASSUME SystemInv, NEW c \in Conn, FlightFits(c),
         handler'[c] # "send" /\ conn'[c].server # "closed"
           => handler[c] # "send" /\ conn[c].server # "closed",
         conn'[c].request \subseteq conn[c].request,
         \A m \in conn[c].request : IsWork(m) =>
           Active(m.node_id)' = Active(m.node_id) \/ Active(m.node_id)' = NoRow
  PROVE  FlightFits(c)'
<1>. SUFFICES ASSUME handler'[c] # "send" /\ conn'[c].server # "closed",
                     NEW m \in conn'[c].request, IsWork(m)
              PROVE  \/ Active(m.node_id)' = NoRow
                     \/ m.msg_type = "NewResultFromNode" /\ m.data = Line(Active(m.node_id)')
  BY DEF FlightFits
<1>1. m \in conn[c].request
  OBVIOUS
<1>2. \/ Active(m.node_id) = NoRow
      \/ m.msg_type = "NewResultFromNode" /\ m.data = Line(Active(m.node_id))
  BY <1>1 DEF FlightFits
<1>. QED BY <1>1, <1>2

\* The connection of nc_run of n is used by nobody else.
LEMMA OwnSocket ==
  ASSUME SystemInv, RequestsInv, NEW c \in Conn, NEW m \in conn[c].request,
         NEW n \in Node, c \in socket[n]["main"]
  PROVE  m.node_id = n
BY NodeTypes DEF RequestsInv, RequestOf

Tracks == /\ \A n \in Node : WorkFits(n)'
          /\ \A c \in Conn : FlightFits(c)'

\* Nothing listens again after the server has ended.
LEMMA ListeningBack == ASSUME SystemInv, [Next]_vars, Srv!Listening' PROVE Srv!Listening
<1>1. CASE SP!Main
  BY <1>1 DEF SP!Main, SP!CheckQuit, SP!nc_acceptThrows, SP!JoinOldest, SP!nc_save_data, SP!JoinHeartbeat, SP!JoinClient,
              SP!Return, SP!nc_accept, Srv!Listening
<1>2. ASSUME NEW c \in Conn, SP!nc_handle_node(c) PROVE Srv!Listening
  <2>1. CASE SP!Terminate
    BY <2>1 DEF SP!Terminate, Srv!Listening
  <2>2. CASE ~SP!Terminate
    BY <1>2, <2>2 DEF SP!nc_handle_node, SP!nc_receive_data, SP!nc_receive_dataThrows, SP!AnswerIfJobDone,
       SP!Dispatch, SP!nc_register_new_node, SP!nc_valid_node_id, SP!nc_update_node_time, SP!SendNewData,
       SP!TakeResult, SP!nc_send_data, SP!nc_send_dataThrows, SP!processVars, Srv!Listening
  <2>. QED BY <2>1, <2>2
<1>3. CASE SP!nc_check_heartbeat \/ \E n \in Node : SP!Expire(n)
  BY <1>3 DEF SP!nc_check_heartbeat, SP!Wake, SP!CheckNode, SP!Expire, SP!processVars, Srv!Listening
<1>4. CASE UNCHANGED serverState
  BY <1>4 DEF serverState, Srv!Listening
<1>. QED BY <1>1, <1>2, <1>3, <1>4, Steps DEF ServerStep, vars

\* The callbacks of a step of the server that serves no connection.
LEMMA QuietServer ==
  ASSUME SystemInv, ServerStep, UNCHANGED <<conn, handler, reply>>
  PROVE  UNCHANGED processor \/ \E n \in Node : processor' = nc_node_timeout(processor, n)
<1>1. CASE SP!Main
  BY <1>1 DEF SP!Main, SP!CheckQuit, SP!nc_acceptThrows, SP!JoinOldest, SP!nc_save_data,
     SP!JoinHeartbeat, SP!JoinClient, SP!Return, SP!nc_accept
<1>2. ASSUME NEW c \in Conn, SP!nc_handle_node(c) PROVE UNCHANGED processor
  <2>0. handler \in [Conn -> SP!HandlerPC]
    BY DEF SystemInv, Parts, SP!TypeOK
  <2>1. ~SP!SendNewData(c) /\ ~SP!TakeResult(c)
    BY <2>0 DEF SP!SendNewData, SP!TakeResult, SP!Answer, SP!Goto
  <2>. QED BY <1>2, <2>1 DEF SP!nc_handle_node, SP!nc_receive_data, SP!nc_receive_dataThrows,
       SP!AnswerIfJobDone, SP!Dispatch, SP!nc_register_new_node, SP!nc_valid_node_id,
       SP!nc_update_node_time, SP!nc_send_data, SP!nc_send_dataThrows, SP!Terminate
<1>3. CASE SP!nc_check_heartbeat \/ \E n \in Node : SP!Expire(n)
  BY <1>3 DEF SP!nc_check_heartbeat, SP!Wake, SP!CheckNode, SP!Expire
<1>. QED BY <1>1, <1>2, <1>3 DEF ServerStep

\* The steps of a thread that call neither nc_get_new_data nor nc_process_result.
LEMMA PlainWork ==
  ASSUME SystemInv, NEW c \in Conn, Works(c), ~SP!SendNewData(c), ~SP!TakeResult(c)
  PROVE  /\ UNCHANGED processor
         /\ reply[c] = {}
         /\ UNCHANGED reply \/ \E r : r.msg_type # "ResultOK" /\ reply' = [reply EXCEPT ![c] = {r}]
<1>1. reply[c] = {}
  BY WorkLeaves DEF SystemInv, StageInv
<1>2. CASE SP!nc_receive_data(c) \/ SP!Dispatch(c)
  BY <1>1, <1>2 DEF SP!nc_receive_data, SP!Dispatch, SP!Answer, SP!Message
<1>3. CASE SP!AnswerIfJobDone(c) \/ SP!nc_register_new_node(c) \/ SP!nc_update_node_time(c)
  BY <1>1, <1>3 DEF SP!AnswerIfJobDone, SP!nc_register_new_node, SP!nc_update_node_time, SP!Answer, SP!Message
<1>4. CASE SP!nc_valid_node_id(c)
  BY <1>1, <1>4 DEF SP!nc_valid_node_id, SP!Answer, SP!Message
<1>. QED BY <1>2, <1>3, <1>4 DEF Works

\* Rows, and what the nodes know of them, through a step of the server.
LEMMA TrackTimeout ==
  ASSUME SystemInv, TrackInv, Owners, UNCHANGED <<conn, handler, reply>>, UNCHANGED nodeState,
         Srv!Listening, NEW n \in Node, processor' = nc_node_timeout(processor, n)
  PROVE  Tracks
<1>1. \A m \in Node : Active(m)' = IF m = n THEN NoRow ELSE Active(m)
  BY TimeoutRows DEF SystemInv, Parts, SP!TypeOK, TrackInv
<1>2. ASSUME NEW m \in Node PROVE WorkFits(m)'
  <2>1. Pending(m)' = Pending(m)
    BY PendingStays DEF nodeState
  <2>2. WorkFits(m) /\ UNCHANGED <<thread_pc, run_state, new_data>>
    BY DEF TrackInv, nodeState
  <2>. QED BY <1>1, <2>1, <2>2, WorkStays, WorkLost
<1>3. ASSUME NEW c \in Conn PROVE FlightFits(c)'
  <2>1. FlightFits(c)
    BY DEF TrackInv
  <2>. QED BY <1>1, <2>1, FlightStays, OneRequest
<1>. QED BY <1>2, <1>3 DEF Tracks

\* Nothing happens to the rows, the nodes or the requests.
LEMMA TrackQuiet ==
  ASSUME SystemInv, TrackInv, UNCHANGED <<conn, handler, reply, processor>>,
         UNCHANGED nodeState, Srv!Listening
  PROVE  Tracks
<1>1. ASSUME NEW m \in Node PROVE WorkFits(m)'
  <2>1. Pending(m)' = Pending(m)
    BY PendingStays DEF nodeState
  <2>2. WorkFits(m) /\ UNCHANGED <<thread_pc, run_state, new_data>>
    BY DEF TrackInv, nodeState
  <2>. QED BY <2>1, <2>2, WorkStays, ActiveStays
<1>2. ASSUME NEW c \in Conn PROVE FlightFits(c)'
  <2>1. FlightFits(c)
    BY DEF TrackInv
  <2>. QED BY <2>1, FlightStays, ActiveStays, OneRequest
<1>. QED BY <1>1, <1>2 DEF Tracks

LEMMA TrackAccept ==
  ASSUME SystemInv, TrackInv, UNCHANGED nodeState, Srv!Listening, NEW c \in Conn, SP!nc_accept(c)
  PROVE  Tracks
<1>0. handler \in [Conn -> SP!HandlerPC]
  BY DEF SystemInv, Parts, SP!TypeOK
<1>1. /\ conn' = [conn EXCEPT ![c].server = "open"] /\ conn[c].server = "queued"
      /\ handler' = [handler EXCEPT ![c] = "receive"] /\ UNCHANGED <<reply, processor>>
  BY DEF SP!nc_accept
<1>2. \A d \in Conn : conn'[d].answer = conn[d].answer /\ conn'[d].request = conn[d].request
  BY <1>1, NodeTypes DEF NP!Connection
<1>3. handler[c] = "none"
  BY <1>1 DEF SystemInv, Parts, SP!JoinInv, SP!ServedConnections
<1>4. ASSUME NEW m \in Node PROVE WorkFits(m)'
  <2>1. Pending(m)' = Pending(m)
    BY <1>1, <1>2, PendingStays, NodeTypes DEF nodeState
  <2>2. WorkFits(m) /\ UNCHANGED <<thread_pc, run_state, new_data>>
    BY DEF TrackInv, nodeState
  <2>. QED BY <1>1, <2>1, <2>2, WorkStays, ActiveStays
<1>5. ASSUME NEW d \in Conn PROVE FlightFits(d)'
  <2>1. FlightFits(d)
    BY DEF TrackInv
  <2>2. handler'[d] # "send" /\ conn'[d].server # "closed" => handler[d] # "send" /\ conn[d].server # "closed"
    BY <1>0, <1>1, <1>3, NodeTypes
  <2>. QED BY <1>1, <1>2, <2>1, <2>2, FlightStays, ActiveStays, OneRequest
<1>. QED BY <1>4, <1>5 DEF Tracks

LEMMA TrackPlainWork ==
  ASSUME SystemInv, TrackInv, UNCHANGED nodeState, Srv!Listening,
         NEW c \in Conn, Works(c), ~SP!SendNewData(c), ~SP!TakeResult(c)
  PROVE  Tracks
<1>0. /\ handler \in [Conn -> SP!HandlerPC]
      /\ reply \in [Conn -> SP!Optional(SP!NCDecodedMessageFromServer)]
  BY DEF SystemInv, Parts, SP!TypeOK
<1>1. /\ UNCHANGED <<conn, processor>> /\ reply[c] = {} /\ handler[c] # "send"
      /\ UNCHANGED reply \/ \E r : r.msg_type # "ResultOK" /\ reply' = [reply EXCEPT ![c] = {r}]
      /\ \E pc : handler' = [handler EXCEPT ![c] = pc]
  BY WorkLeaves, PlainWork
<1>2. \A d \in Conn : \A r : /\ r \in reply[d] => r \in reply'[d]
                             /\ r \in reply'[d] => r \in reply[d] \/ r.msg_type # "ResultOK"
  BY <1>0, <1>1
<1>3. ASSUME NEW m \in Node PROVE WorkFits(m)'
  <2>1. UNCHANGED <<result, socket, thread_pc, run_state, new_data>> /\ WorkFits(m)
    BY DEF TrackInv, nodeState
  <2>2. socket[m]["main"] \subseteq Conn
    BY NodeTypes
  <2>3. /\ Pending(m) \subseteq Pending(m)'
        /\ \A r \in Pending(m)' : r \in Pending(m) \/ r.msg_type # "ResultOK"
    BY <1>1, <1>2, <2>1, <2>2, PendingIs
  <2>. QED BY <1>1, <2>1, <2>3, WorkStays, ActiveStays
<1>4. ASSUME NEW d \in Conn PROVE FlightFits(d)'
  <2>1. FlightFits(d)
    BY DEF TrackInv
  <2>2. handler'[d] # "send" => handler[d] # "send"
    BY <1>0, <1>1
  <2>. QED BY <1>1, <2>1, <2>2, FlightStays, ActiveStays, OneRequest
<1>. QED BY <1>3, <1>4 DEF Tracks

\* A row is handed out only to a node that has none and waits for one.
LEMMA TrackNewData ==
  ASSUME SystemInv, TrackInv, Owners, UNCHANGED nodeState, NEW c \in Conn, SP!SendNewData(c)
  PROVE  Tracks /\ RowsOwned' /\ RowsHoldTheirLines'
<1>0. /\ handler \in [Conn -> SP!HandlerPC] /\ processor \in Processor
      /\ reply \in [Conn -> SP!Optional(SP!NCDecodedMessageFromServer)]
  BY DEF SystemInv, Parts, SP!TypeOK
<1>1. PICK m \in conn[c].request : \E o \in nc_get_new_data(processor, m.node_id) :
         /\ processor' = o.processor
         /\ SP!Answer(c, SP!Message("NewDataFromServer", o.data))
  BY DEF SP!SendNewData, SP!NodeMessage
<1>. DEFINE n == m.node_id
<1>2. PICK o \in nc_get_new_data(processor, n) :
         /\ processor' = o.processor
         /\ SP!Answer(c, SP!Message("NewDataFromServer", o.data))
  BY <1>1
<1>3. /\ handler' = [handler EXCEPT ![c] = "send"]
      /\ reply' = [reply EXCEPT ![c] = {[msg_type |-> "NewDataFromServer", data |-> o.data]}]
  BY <1>2 DEF SP!Answer, SP!Goto, SP!Message
<1>4. handler[c] = "getData" /\ UNCHANGED conn
  BY DEF SP!SendNewData
<1>5. n \in Node /\ conn[c].request = {m}
  BY OneRequest
<1>6. m.msg_type = "NodeNeedsMoreData"
  BY <1>4, <1>5 DEF SystemInv, StageInv, StageFits
<1>7. IsWork(m) /\ conn[c].server = "open" /\ Srv!Listening
  BY <1>4, <1>6, Serving DEF IsWork
<1>8. Active(n) = NoRow
  BY <1>4, <1>6, <1>7 DEF TrackInv, FlightFits
<1>. HIDE DEF n
<1>9. /\ \/ UNCHANGED processor
         \/ \E i \in Row : /\ o.data = RowData(i)
                           /\ \A k \in Node : Active(k)' = IF k = n THEN i ELSE Active(k)
      /\ RowsOwned' /\ RowsHoldTheirLines'
  BY <1>0, <1>2, <1>5, <1>8, NewDataRows DEF TrackInv
<1>10. \A k \in Node \ {n} : Active(k)' = Active(k)
  BY <1>9, ActiveStays
<1>11. UNCHANGED <<result, socket, thread_pc, run_state, new_data>>
  BY DEF nodeState
<1>12. ASSUME NEW k \in Node, k # n PROVE WorkFits(k)'
  <2>1. c \notin socket[k]["main"]
    BY <1>12, OwnSocket DEF TrackInv, n
  <2>2. \A d \in socket[k]["main"] : reply'[d] = reply[d]
    BY <1>0, <1>3, <2>1, NodeTypes
  <2>3. Pending(k)' = Pending(k)
    BY <1>4, <1>11, <2>2, PendingStays
  <2>4. WorkFits(k)
    BY <1>7 DEF TrackInv
  <2>. QED BY <1>10, <1>11, <1>12, <2>3, <2>4, WorkStays
<1>13. WorkFits(n)'
  <2>1. CASE UNCHANGED processor
    BY <1>5, <1>8, <2>1, ActiveStays, WorkLost
  <2>2. CASE thread_pc[n]["main"] = "crashed"
    BY <1>11, <2>2 DEF WorkFits
  <2>3. ASSUME thread_pc[n]["main"] # "crashed", NEW i \in Row, o.data = RowData(i), Active(n)' = i
        PROVE  WorkFits(n)'
    <3>1. c \in socket[n]["main"]
      BY <1>7, <2>3 DEF TrackInv, WaitInv, n
    <3>2. run_state[n] = "NeedData"
      BY <1>5, <1>6, <3>1 DEF SystemInv, Parts, NP!ExchangeInv, NP!ExchangeFits,
                               NP!ConnectionFits, NP!RequestFits
    <3>. DEFINE r == [msg_type |-> "NewDataFromServer", data |-> o.data]
    <3>3. r \in reply'[c]
      BY <1>0, <1>3
    <3>4. r \in Pending(n)'
      BY <1>11, <3>1, <3>3, PendingIs
    <3>5. r.msg_type = "NewDataFromServer" /\ r.data = RowData(Active(n)')
      BY <2>3
    <3>. HIDE DEF r
    <3>. QED BY <1>11, <3>2, <3>4, <3>5 DEF WorkFits
  <2>. QED BY <1>5, <1>9, <2>1, <2>2, <2>3
<1>14. ASSUME NEW d \in Conn PROVE FlightFits(d)'
  <2>1. CASE d = c
    BY <1>0, <1>3, <2>1 DEF FlightFits
  <2>2. CASE d # c
    <3>1. FlightFits(d)
      BY <1>7 DEF TrackInv
    <3>2. \A k \in conn[d].request : IsWork(k) => k.node_id \in Node /\ k.node_id # n
      BY <1>7, <2>2, OneRequest DEF TrackInv, WaitInv, n
    <3>3. handler'[d] = handler[d]
      BY <1>0, <1>3, <2>2
    <3>. QED BY <1>4, <1>10, <3>1, <3>2, <3>3, FlightStays
  <2>. QED BY <2>1, <2>2
<1>. QED BY <1>9, <1>12, <1>13, <1>14 DEF Tracks

\* A result that is taken is the line of the row its node is active on.
LEMMA TrackResult ==
  ASSUME SystemInv, TrackInv, Owners, UNCHANGED nodeState, NEW c \in Conn, SP!TakeResult(c)
  PROVE  Tracks /\ RowsOwned' /\ RowsHoldTheirLines'
<1>0. /\ handler \in [Conn -> SP!HandlerPC] /\ processor \in Processor
      /\ reply \in [Conn -> SP!Optional(SP!NCDecodedMessageFromServer)]
  BY DEF SystemInv, Parts, SP!TypeOK
<1>1. PICK m \in conn[c].request : processor' = nc_process_result(processor, m.node_id, m.data)
  BY DEF SP!TakeResult, SP!NodeMessage
<1>. DEFINE n == m.node_id
<1>2. /\ handler' = [handler EXCEPT ![c] = "send"]
      /\ \E r : reply' = [reply EXCEPT ![c] = {r}]
      /\ handler[c] = "process" /\ UNCHANGED conn
  BY DEF SP!TakeResult, SP!Answer, SP!Goto
<1>3. n \in Node /\ conn[c].request = {m}
  BY OneRequest
<1>4. m.msg_type = "NewResultFromNode"
  BY <1>2, <1>3 DEF SystemInv, StageInv, StageFits
<1>5. IsWork(m) /\ conn[c].server = "open" /\ Srv!Listening
  BY <1>2, <1>4, Serving DEF IsWork
<1>6. Active(n) = NoRow \/ m.data = Line(Active(n))
  BY <1>2, <1>5 DEF TrackInv, FlightFits
<1>7. /\ \A k \in Node : Active(k)' = IF k = n THEN NoRow ELSE Active(k)
      /\ RowsOwned' /\ RowsHoldTheirLines'
  BY <1>0, <1>1, <1>3, <1>6, ResultRows DEF TrackInv
<1>. HIDE DEF n
<1>8. UNCHANGED <<result, socket, thread_pc, run_state, new_data>>
  BY DEF nodeState
<1>9. ASSUME NEW k \in Node, k # n PROVE WorkFits(k)'
  <2>1. c \notin socket[k]["main"]
    BY <1>9, OwnSocket DEF TrackInv, n
  <2>2. \A d \in socket[k]["main"] : reply'[d] = reply[d]
    BY <1>0, <1>2, <2>1, NodeTypes
  <2>3. Pending(k)' = Pending(k)
    BY <1>2, <1>8, <2>2, PendingStays
  <2>4. WorkFits(k)
    BY <1>5 DEF TrackInv
  <2>. QED BY <1>7, <1>8, <1>9, <2>3, <2>4, WorkStays
<1>10. WorkFits(n)'
  BY <1>3, <1>7, WorkLost DEF n
<1>11. ASSUME NEW d \in Conn PROVE FlightFits(d)'
  <2>1. FlightFits(d)
    BY <1>5 DEF TrackInv
  <2>2. handler'[d] # "send" => handler[d] # "send"
    BY <1>0, <1>2
  <2>. QED BY <1>2, <1>7, <2>1, <2>2, FlightStays, OneRequest
<1>. QED BY <1>7, <1>9, <1>10, <1>11 DEF Tracks

LEMMA TrackAnswer ==
  ASSUME SystemInv, TrackInv, UNCHANGED nodeState, Srv!Listening, NEW c \in Conn, SP!nc_send_data(c)
  PROVE  Tracks
<1>0. /\ handler \in [Conn -> SP!HandlerPC]
      /\ reply \in [Conn -> SP!Optional(SP!NCDecodedMessageFromServer)]
  BY DEF SystemInv, Parts, SP!TypeOK
<1>1. /\ handler' = [handler EXCEPT ![c] = "none"] /\ reply' = [reply EXCEPT ![c] = {}]
      /\ handler[c] = "send" /\ UNCHANGED processor
      /\ conn' = [conn EXCEPT ![c] =
                    SP!CloseServer(IF @.client = "open" THEN [@ EXCEPT !.answer = reply[c]] ELSE @)]
  BY DEF SP!nc_send_data
<1>2. conn[c].server = "open" /\ conn[c] \in NP!Connection
  BY <1>1, Serving
<1>3. conn[c].answer = {}
  BY <1>2 DEF TrackInv, RequestsInv
<1>4. \A d \in Conn \ {c} : conn'[d] = conn[d] /\ reply'[d] = reply[d] /\ handler'[d] = handler[d]
  BY <1>0, <1>1, NodeTypes
<1>5. /\ conn'[c].server = "closed" /\ reply'[c] = {}
      /\ conn[c].client = "open" => conn'[c].answer = reply[c]
  BY <1>0, <1>1, <1>2, NodeTypes DEF SP!CloseServer, SP!NoConnection, NP!Connection
<1>6. ASSUME NEW m \in Node PROVE WorkFits(m)'
  <2>1. \A d \in socket[m]["main"] : d \in Conn /\ conn[d].client = "open"
    BY SocketOpen, NodeTypes
  <2>2. Pending(m)' = Pending(m)
    BY <1>3, <1>4, <1>5, <2>1, PendingStays DEF nodeState
  <2>3. WorkFits(m) /\ UNCHANGED <<thread_pc, run_state, new_data>>
    BY DEF TrackInv, nodeState
  <2>. QED BY <1>1, <2>2, <2>3, WorkStays, ActiveStays
<1>7. ASSUME NEW d \in Conn PROVE FlightFits(d)'
  <2>1. CASE d = c
    BY <1>5, <2>1 DEF FlightFits
  <2>2. CASE d # c
    <3>1. FlightFits(d)
      BY DEF TrackInv
    <3>. QED BY <1>1, <1>4, <2>2, <3>1, FlightStays, ActiveStays, OneRequest
  <2>. QED BY <2>1, <2>2
<1>. QED BY <1>6, <1>7 DEF Tracks

LEMMA TrackServer ==
  ASSUME SystemInv, TrackInv, Owners, ServerStep, UNCHANGED nodeState,
         Srv!Listening' => Srv!Listening
  PROVE  RowsOwned' /\ RowsHoldTheirLines' /\ (Srv!Listening' => Tracks)
<1>1. ASSUME UNCHANGED processor PROVE RowsOwned' /\ RowsHoldTheirLines'
  BY <1>1 DEF TrackInv, RowsOwned, RowsHoldTheirLines
<1>2. CASE UNCHANGED <<conn, handler, reply>>
  <2>1. CASE UNCHANGED processor
    BY <1>1, <1>2, <2>1, TrackQuiet
  <2>2. ASSUME NEW n \in Node, processor' = nc_node_timeout(processor, n)
        PROVE  RowsOwned' /\ RowsHoldTheirLines' /\ (Srv!Listening' => Tracks)
    <3>1. RowsOwned' /\ RowsHoldTheirLines'
      BY <2>2, TimeoutRows DEF SystemInv, Parts, SP!TypeOK, TrackInv
    <3>. QED BY <1>2, <2>2, <3>1, TrackTimeout
  <2>. QED BY <1>2, <2>1, <2>2, QuietServer
<1>3. CASE ~Srv!Listening' /\ UNCHANGED processor
  BY <1>1, <1>3
<1>4. ASSUME NEW c \in Conn, SP!nc_accept(c) \/ SP!nc_send_data(c)
      PROVE  RowsOwned' /\ RowsHoldTheirLines' /\ (Srv!Listening' => Tracks)
  <2>1. UNCHANGED processor
    BY <1>4 DEF SP!nc_accept, SP!nc_send_data
  <2>. QED BY <1>1, <1>4, <2>1, TrackAccept, TrackAnswer
<1>5. ASSUME NEW c \in Conn, Works(c)
      PROVE  RowsOwned' /\ RowsHoldTheirLines' /\ (Srv!Listening' => Tracks)
  <2>1. CASE SP!SendNewData(c) \/ SP!TakeResult(c)
    BY <2>1, TrackNewData, TrackResult
  <2>2. CASE ~SP!SendNewData(c) /\ ~SP!TakeResult(c)
    <3>1. UNCHANGED processor
      BY <1>5, <2>2, PlainWork
    <3>. QED BY <1>1, <1>5, <2>2, <3>1, TrackPlainWork
  <2>. QED BY <2>1, <2>2
<1>. QED BY <1>2, <1>3, <1>4, <1>5, ServerKinds

\* Rows, and what the nodes know of them, through a step of a node.  The server
\* and its rows stand still.
LEMMA TrackNode ==
  ASSUME SystemInv, UNCHANGED serverState
  PROVE  /\ UNCHANGED <<processor, handler, reply>>
         /\ \A n \in Node : Active(n)' = Active(n)
         /\ handler \in [Conn -> SP!HandlerPC]
         /\ \A c \in Conn : conn[c].server # "open" \/ conn[c].request = {} => reply[c] = {}
<1>1. UNCHANGED <<processor, handler, reply>>
  BY DEF serverState
<1>2. ASSUME NEW c \in Conn, conn[c].server # "open" \/ conn[c].request = {} PROVE reply[c] = {}
  <2>1. handler[c] \in {"none", "receive"}
    BY <1>2 DEF SystemInv, Parts, SP!JoinInv, SP!ServedConnections, StageInv, StageFits
  <2>. QED BY <2>1 DEF SystemInv, StageInv
<1>3. handler \in [Conn -> SP!HandlerPC]
  BY DEF SystemInv, Parts, SP!TypeOK
<1>. QED BY <1>1, <1>2, <1>3, ActiveStays

LEMMA TrackConnect ==
  ASSUME SystemInv, TrackInv, UNCHANGED serverState, Srv!Listening,
         NEW n \in Node, NEW t \in NP!Thread, NEW c \in Conn, NP!nc_connect(n, t, c)
  PROVE  Tracks
<1>1. /\ conn[c] = NP!NoConnection /\ conn' = [conn EXCEPT ![c] = NP!Connected]
      /\ socket' = [socket EXCEPT ![n][t] = {c}] /\ thread_pc' = [thread_pc EXCEPT ![n][t] = "send"]
      /\ thread_pc[n][t] = "connect" /\ UNCHANGED <<result, new_data, run_state>>
  BY DEF NP!nc_connect, NP!Goto
<1>2. socket[n][t] = {}
  BY <1>1 DEF SystemInv, Parts, NP!OneExchangePerNode
<1>3. /\ conn'[c].request = {} /\ conn'[c].answer = {} /\ conn[c].answer = {}
      /\ reply[c] = {} /\ reply'[c] = {}
      /\ \A d \in Conn \ {c} : conn'[d] = conn[d]
  <2>1. conn[c].answer = {} /\ conn[c].request = {}
    BY <1>1 DEF NP!NoConnection
  <2>2. conn'[c] = NP!Connected /\ \A d \in Conn \ {c} : conn'[d] = conn[d]
    BY <1>1, NodeTypes
  <2>3. reply[c] = {} /\ reply'[c] = {}
    BY <2>1, TrackNode
  <2>. QED BY <2>1, <2>2, <2>3 DEF NP!Connected
<1>4. /\ socket'[n][t] = {c} /\ thread_pc'[n][t] = "send"
      /\ \A m \in Node : \A s \in NP!Thread : ~(m = n /\ s = t) =>
            socket'[m][s] = socket[m][s] /\ thread_pc'[m][s] = thread_pc[m][s]
  BY <1>1, NodeTypes
<1>5. ASSUME NEW m \in Node PROVE WorkFits(m)'
  <2>1. UNCHANGED reply /\ "main" \in NP!Thread
    BY TrackNode, NodeTypes
  <2>2. socket[m]["main"] \subseteq Conn
    BY NodeTypes
  <2>3. \A r : r \in Pending(m)' <=> r \in Pending(m)
    <3>1. CASE m = n /\ t = "main"
      <4>1. \A r : r \in Pending(m) <=> r \in result[m]["main"]
        BY <1>2, <3>1, PendingIs
      <4>2. \A r : r \in Pending(m)' <=> r \in result[m]["main"]
        BY <1>1, <1>3, <1>4, <3>1, PendingIs
      <4>. QED BY <4>1, <4>2
    <3>2. CASE ~(m = n /\ t = "main")
      <4>1. socket'[m]["main"] = socket[m]["main"]
        BY <1>4, <2>1, <3>2
      <4>2. \A d \in Conn : conn'[d].answer = conn[d].answer
        BY <1>3
      <4>. QED BY <1>1, <2>1, <2>2, <4>1, <4>2, PendingIs
    <3>. QED BY <3>1, <3>2
  <2>4. WorkFits(m)
    BY DEF TrackInv
  <2>5. thread_pc[m]["main"] = "crashed" => thread_pc'[m]["main"] = "crashed"
    BY <1>1, <1>4, <2>1
  <2>. QED BY <1>1, <2>3, <2>4, <2>5, WorkStays, TrackNode
<1>6. ASSUME NEW d \in Conn PROVE FlightFits(d)'
  <2>1. CASE d = c
    BY <1>3, <2>1 DEF FlightFits
  <2>2. CASE d # c
    <3>1. FlightFits(d)
      BY DEF TrackInv
    <3>. QED BY <1>3, <2>2, <3>1, FlightStays, TrackNode, OneRequest
  <2>. QED BY <2>1, <2>2
<1>. QED BY <1>5, <1>6 DEF Tracks

\* nc_run asks for work only when it has no row, and sends the line of its row.
LEMMA TrackSend ==
  ASSUME SystemInv, TrackInv, UNCHANGED serverState, Srv!Listening,
         NEW n \in Node, NEW t \in NP!Thread, NP!nc_send_data(n, t)
  PROVE  Tracks
<1>. DEFINE k == NP!RequestMessage(n, t)
<1>1. PICK c \in socket[n][t] : conn' = [conn EXCEPT ![c].request = {k}]
  BY DEF NP!nc_send_data
<1>2. c \in Conn /\ socket[n][t] = {c} /\ conn[c].request = {}
  BY SocketOpen DEF NP!nc_send_data, SystemInv, SendInv
<1>3. /\ thread_pc[n][t] = "send" /\ thread_pc' = [thread_pc EXCEPT ![n][t] = "receive"]
      /\ UNCHANGED <<socket, result, new_data, run_state>>
  BY DEF NP!nc_send_data, NP!Goto
<1>4. /\ k.node_id = n
      /\ IsWork(k) => t = "main" /\ run_state[n] \in {"NeedData", "HasData"}
      /\ IsWork(k) /\ run_state[n] = "HasData" => k.msg_type = "NewResultFromNode" /\ k.data = new_data[n]
  <2>1. run_state[n] \in {"Init", "NeedData", "HasData"} /\ t \in {"main", "beat"}
    BY NodeTypes DEF NP!NCRunState, NP!Thread
  <2>. QED BY <2>1 DEF NP!RequestMessage, IsWork
<1>. HIDE DEF k
<1>5. /\ conn'[c].request = {k} /\ conn'[c].answer = conn[c].answer
      /\ \A d \in Conn \ {c} : conn'[d] = conn[d]
  BY <1>1, <1>2, NodeTypes DEF NP!Connection
<1>6. conn[c].answer = {} /\ reply[c] = {} /\ result[n][t] = {}
  BY <1>2, <1>3, TrackNode DEF TrackInv, RequestsInv
<1>7. ASSUME NEW m \in Node PROVE WorkFits(m)'
  <2>1. thread_pc[m]["main"] = "crashed" => thread_pc'[m]["main"] = "crashed"
    BY <1>3, NodeTypes
  <2>2. \A d \in socket[m]["main"] : conn'[d].answer = conn[d].answer
    BY <1>5, NodeTypes
  <2>3. Pending(m)' = Pending(m)
    BY <1>3, <2>2, PendingStays, TrackNode
  <2>4. WorkFits(m)
    BY DEF TrackInv
  <2>. QED BY <1>3, <2>1, <2>3, <2>4, WorkStays, TrackNode
<1>8. ASSUME NEW d \in Conn PROVE FlightFits(d)'
  <2>1. CASE d = c
    <3>1. CASE ~IsWork(k)
      BY <1>5, <2>1, <3>1 DEF FlightFits
    <3>2. CASE IsWork(k)
      <4>1. t = "main" /\ thread_pc[n]["main"] = "send"
        BY <1>3, <1>4, <3>2
      <4>2. \A r : r \notin Pending(n)
        BY <1>2, <1>6, <4>1, PendingIs
      <4>3. Active(n) = NoRow \/ (run_state[n] = "HasData" /\ new_data[n] = Line(Active(n)))
        BY <4>1, <4>2 DEF TrackInv, WorkFits
      <4>4. Active(n)' = NoRow \/ (k.msg_type = "NewResultFromNode" /\ k.data = Line(Active(n)'))
        BY <1>4, <3>2, <4>3, TrackNode
      <4>. QED BY <1>4, <1>5, <2>1, <4>4 DEF FlightFits
    <3>. QED BY <3>1, <3>2
  <2>2. CASE d # c
    <3>1. FlightFits(d)
      BY DEF TrackInv
    <3>. QED BY <1>5, <2>2, <3>1, FlightStays, TrackNode, OneRequest
  <2>. QED BY <2>1, <2>2
<1>. QED BY <1>7, <1>8 DEF Tracks

LEMMA TrackHangup ==
  ASSUME SystemInv, TrackInv, UNCHANGED serverState, Srv!Listening, NEW n \in Node, NEW t \in NP!Thread,
         \/ NP!nc_receive_data(n, t)
         \/ NP!ExchangeThrows(n, t)
             /\ \E c \in socket[n][t] : conn[c].server = "closed" /\ conn[c].answer = {}
  PROVE  Tracks
<1>0. PICK c \in Conn, pc \in {"handle", "loop"} : HungUp(n, t, c, pc)
  BY HangsUpLast DEF TrackInv
<1>1. /\ socket[n][t] = {c} /\ conn[c].server = "closed"
      /\ thread_pc[n][t] \in {"send", "receive"}
      /\ conn[c].answer # {} => pc = "handle"
      /\ conn' = [conn EXCEPT ![c] = NP!NoConnection]
      /\ socket' = [socket EXCEPT ![n][t] = {}]
      /\ thread_pc' = [thread_pc EXCEPT ![n][t] = pc]
      /\ result' = [result EXCEPT ![n][t] = conn[c].answer]
      /\ UNCHANGED <<run_state, new_data>>
  BY <1>0 DEF HungUp
<1>2. /\ conn'[c].request = {} /\ conn'[c].server = "closed" /\ \A d \in Conn \ {c} : conn'[d] = conn[d]
      /\ reply[c] = {} /\ result[n][t] = {}
  BY <1>1, NodeTypes, TrackNode DEF NP!NoConnection, TrackInv, RequestsInv
<1>3. /\ socket'[n][t] = {} /\ result'[n][t] = conn[c].answer
      /\ \A m \in Node : \A s \in NP!Thread : ~(m = n /\ s = t) =>
            socket'[m][s] = socket[m][s] /\ thread_pc'[m][s] = thread_pc[m][s] /\ result'[m][s] = result[m][s]
  BY <1>1, NodeTypes
<1>4. \A m \in Node : \A s \in NP!Thread : c \in socket[m][s] => m = n /\ s = t
  BY <1>1 DEF SystemInv, Parts, NP!SocketsMatchConnections
<1>5. ASSUME NEW m \in Node PROVE WorkFits(m)'
  <2>1. UNCHANGED reply /\ "main" \in NP!Thread
    BY TrackNode, NodeTypes
  <2>2. \A r : r \in Pending(m)' <=> r \in Pending(m)
    <3>1. CASE m = n /\ t = "main"
      <4>1. \A r : r \in Pending(m) <=> r \in conn[c].answer
        BY <1>1, <1>2, <3>1, PendingIs
      <4>2. \A r : r \in Pending(m)' <=> r \in conn[c].answer
        BY <1>3, <3>1, PendingIs
      <4>. QED BY <4>1, <4>2
    <3>2. CASE ~(m = n /\ t = "main")
      <4>1. socket'[m]["main"] = socket[m]["main"] /\ result'[m]["main"] = result[m]["main"]
        BY <1>3, <2>1, <3>2
      <4>2. \A d \in socket[m]["main"] : conn'[d] = conn[d]
        BY <1>2, <1>4, <2>1, <3>2, NodeTypes
      <4>. QED BY <2>1, <4>1, <4>2, PendingIs
    <3>. QED BY <3>1, <3>2
  <2>3. WorkFits(m)
    BY DEF TrackInv
  <2>4. thread_pc[m]["main"] = "crashed" => thread_pc'[m]["main"] = "crashed"
    BY <1>1, <1>3, <2>1
  <2>. QED BY <1>1, <2>2, <2>3, <2>4, WorkStays, TrackNode
<1>6. ASSUME NEW d \in Conn PROVE FlightFits(d)'
  <2>1. FlightFits(d)
    BY DEF TrackInv
  <2>2. conn'[d].request \subseteq conn[d].request
        /\ (conn'[d].server # "closed" => conn[d].server # "closed")
    BY <1>2
  <2>. QED BY <2>1, <2>2, FlightStays, TrackNode, OneRequest
<1>. QED BY <1>5, <1>6 DEF Tracks

\* nc_run takes the one answer it has.  It computes the line of the row it is
\* told of, and gives its line up only when the row is done.
LEMMA TrackHandle ==
  ASSUME SystemInv, TrackInv, UNCHANGED serverState, Srv!Listening, NEW n \in Node, NP!HandleAnswer(n)
  PROVE  Tracks
<1>1. /\ thread_pc[n]["main"] = "handle" /\ UNCHANGED <<conn, socket>>
      /\ result' = [result EXCEPT ![n]["main"] = {}]
      /\ thread_pc' = [thread_pc EXCEPT ![n]["main"] = "loop"]
  BY DEF NP!HandleAnswer, NP!Goto
<1>2. PICK r \in result[n]["main"] :
       CASE r.msg_type = "InitOK" ->
              run_state' = [run_state EXCEPT ![n] = "NeedData"] /\ UNCHANGED new_data
         [] r.msg_type = "NewDataFromServer" ->
              /\ new_data' = [new_data EXCEPT ![n] = nc_process_data(r.data)]
              /\ run_state' = [run_state EXCEPT ![n] = "HasData"]
         [] r.msg_type = "ResultOK" ->
              run_state' = [run_state EXCEPT ![n] = "NeedData"] /\ UNCHANGED new_data
         [] r.msg_type = "Quit" -> UNCHANGED <<run_state, new_data>>
         [] OTHER -> UNCHANGED <<run_state, new_data>>
  <2>1. PICK r \in result[n]["main"] :
       CASE r.msg_type = "InitOK" ->
              /\ run_state' = [run_state EXCEPT ![n] = "NeedData"]
              /\ UNCHANGED <<node_quit, error_counter, new_data>>
         [] r.msg_type = "NewDataFromServer" ->
              /\ new_data' = [new_data EXCEPT ![n] = nc_process_data(r.data)]
              /\ run_state' = [run_state EXCEPT ![n] = "HasData"]
              /\ UNCHANGED <<node_quit, error_counter>>
         [] r.msg_type = "ResultOK" ->
              /\ run_state' = [run_state EXCEPT ![n] = "NeedData"]
              /\ UNCHANGED <<node_quit, error_counter, new_data>>
         [] r.msg_type = "Quit" ->
              /\ node_quit' = [node_quit EXCEPT ![n] = TRUE]
              /\ UNCHANGED <<run_state, error_counter, new_data>>
         [] OTHER ->
              /\ NP!CountError(n, "main")
              /\ UNCHANGED <<node_quit, run_state, new_data>>
    BY DEF NP!HandleAnswer
  <2>. QED BY <2>1
<1>3. \A s \in result[n]["main"] : s = r
  BY NodeTypes DEF NP!Optional
<1>4. socket[n]["main"] = {}
  <2>1. NP!OneExchangePerNode
    BY DEF SystemInv, Parts
  <2>2. "main" \in NP!Thread
    BY NodeTypes
  <2>. QED BY <1>1, <2>1, <2>2 DEF NP!OneExchangePerNode
<1>5. \A s : /\ s \in Pending(n) <=> s = r
             /\ s \notin Pending(n)'
  <2>1. result'[n]["main"] = {} /\ socket'[n]["main"] = {}
    BY <1>1, <1>4, NodeTypes
  <2>. QED BY <1>2, <1>3, <1>4, <2>1, PendingIs
<1>6. NP!AnswerFits(r, run_state[n])
  BY <1>2 DEF SystemInv, Parts, NP!AnswersInv
<1>7. \A m \in Node \ {n} : run_state'[m] = run_state[m] /\ new_data'[m] = new_data[m]
  BY <1>2, NodeTypes
<1>8. ASSUME Active(n) # NoRow
      PROVE  run_state'[n] = "HasData" /\ new_data'[n] = Line(Active(n))
  <2>1. \/ run_state[n] = "HasData" /\ new_data[n] = Line(Active(n)) /\ r.msg_type # "ResultOK"
        \/ run_state[n] = "NeedData" /\ r.msg_type = "NewDataFromServer" /\ r.data = RowData(Active(n))
    BY <1>1, <1>5, <1>8 DEF TrackInv, WorkFits
  <2>2. CASE run_state[n] = "HasData" /\ new_data[n] = Line(Active(n)) /\ r.msg_type # "ResultOK"
    <3>1. r.msg_type \notin {"InitOK", "NewDataFromServer", "ResultOK"}
      BY <1>6, <2>2 DEF NP!AnswerFits
    <3>. QED BY <1>2, <2>2, <3>1
  <2>3. CASE run_state[n] = "NeedData" /\ r.msg_type = "NewDataFromServer" /\ r.data = RowData(Active(n))
    <3>1. Active(n) \in Row
      BY <1>8, ActiveRow DEF SystemInv, Parts, SP!TypeOK
    <3>2. nc_process_data(RowData(Active(n))) = Line(Active(n))
      <4>1. RowData(Active(n)).row = Active(n)
        BY DEF RowData
      <4>2. RowData(Active(n)) \in {RowData(i) : i \in Row}
        BY <3>1
      <4>. QED BY <4>1, <4>2 DEF nc_process_data
    <3>3. new_data'[n] = nc_process_data(r.data) /\ run_state'[n] = "HasData"
      BY <1>2, <2>3, NodeTypes
    <3>. QED BY <2>3, <3>2, <3>3
  <2>. QED BY <2>1, <2>2, <2>3
<1>9. WorkFits(n)'
  <2>1. CASE Active(n) = NoRow
    BY <2>1, WorkLost, TrackNode
  <2>2. CASE Active(n) # NoRow
    <3>1. run_state'[n] = "HasData" /\ new_data'[n] = Line(Active(n)')
      BY <1>8, <2>2, TrackNode
    <3>. QED BY <1>5, <3>1 DEF WorkFits
  <2>. QED BY <2>1, <2>2
<1>10. ASSUME NEW m \in Node, m # n PROVE WorkFits(m)'
  <2>1. result'[m]["main"] = result[m]["main"] /\ thread_pc'[m]["main"] = thread_pc[m]["main"]
    BY <1>1, <1>10, NodeTypes
  <2>2. Pending(m)' = Pending(m)
    BY <1>1, <2>1, PendingStays, TrackNode
  <2>3. WorkFits(m)
    BY DEF TrackInv
  <2>. QED BY <1>7, <1>10, <2>1, <2>2, <2>3, WorkStays, TrackNode
<1>11. ASSUME NEW d \in Conn PROVE FlightFits(d)'
  <2>1. FlightFits(d)
    BY DEF TrackInv
  <2>. QED BY <1>1, <2>1, FlightStays, TrackNode, OneRequest
<1>. QED BY <1>9, <1>10, <1>11 DEF Tracks

LEMMA TrackPonder ==
  ASSUME SystemInv, TrackInv, UNCHANGED serverState, Srv!Listening, NEW n \in Node, NEW t \in NP!Thread,
         \/ NP!nc_connectThrows(n, t) \/ NP!MainLoop(n) \/ NP!JoinHeartbeat(n)
         \/ NP!BeatLoop(n) \/ NP!HandleBeatAnswer(n)
  PROVE  Tracks
<1>1. /\ UNCHANGED <<conn, socket, run_state, new_data>>
      /\ \A m \in Node : result'[m]["main"] = result[m]["main"]
  <2>1. CASE NP!HandleBeatAnswer(n)
    <3>1. UNCHANGED <<conn, socket, run_state, new_data>> /\ result' = [result EXCEPT ![n]["beat"] = {}]
      BY <2>1 DEF NP!HandleBeatAnswer
    <3>. QED BY <3>1, NodeTypes
  <2>2. CASE ~NP!HandleBeatAnswer(n)
    <3>1. UNCHANGED <<conn, socket, run_state, new_data, result>>
      BY <2>2 DEF NP!nc_connectThrows, NP!MainLoop, NP!JoinHeartbeat, NP!BeatLoop
    <3>. QED BY <3>1
  <2>. QED BY <2>1, <2>2
<1>2. \E s \in NP!Thread : thread_pc[n][s] # "crashed" /\ \E pc : thread_pc' = [thread_pc EXCEPT ![n][s] = pc]
  <2>1. NP!nc_connectThrows(n, t)
          => thread_pc[n][t] # "crashed" /\ \E pc : thread_pc' = [thread_pc EXCEPT ![n][t] = pc]
    BY DEF NP!nc_connectThrows, NP!Goto
  <2>2. NP!MainLoop(n) \/ NP!JoinHeartbeat(n)
          => thread_pc[n]["main"] # "crashed" /\ \E pc : thread_pc' = [thread_pc EXCEPT ![n]["main"] = pc]
    BY DEF NP!MainLoop, NP!JoinHeartbeat, NP!Goto
  <2>3. NP!BeatLoop(n) \/ NP!HandleBeatAnswer(n)
          => thread_pc[n]["beat"] # "crashed" /\ \E pc : thread_pc' = [thread_pc EXCEPT ![n]["beat"] = pc]
    BY DEF NP!BeatLoop, NP!HandleBeatAnswer, NP!Goto
  <2>. QED BY <2>1, <2>2, <2>3, NodeTypes
<1>3. \A m \in Node : thread_pc[m]["main"] = "crashed" => thread_pc'[m]["main"] = "crashed"
  BY <1>2, NodeTypes
<1>4. ASSUME NEW m \in Node PROVE WorkFits(m)'
  <2>1. Pending(m)' = Pending(m)
    BY <1>1, PendingStays, TrackNode
  <2>2. WorkFits(m)
    BY DEF TrackInv
  <2>. QED BY <1>1, <1>3, <2>1, <2>2, WorkStays, TrackNode
<1>5. ASSUME NEW d \in Conn PROVE FlightFits(d)'
  <2>1. FlightFits(d)
    BY DEF TrackInv
  <2>. QED BY <1>1, <2>1, FlightStays, TrackNode, OneRequest
<1>. QED BY <1>4, <1>5 DEF Tracks

LEMMA TrackCrash ==
  ASSUME SystemInv, TrackInv, UNCHANGED serverState, Srv!Listening, NEW n \in Node, NP!Crash(n)
  PROVE  Tracks
<1>1. \A m \in Node : /\ m = n => thread_pc'[m]["main"] = "crashed"
                      /\ m # n => /\ socket'[m]["main"] = socket[m]["main"]
                                  /\ result'[m]["main"] = result[m]["main"]
                                  /\ thread_pc'[m]["main"] = thread_pc[m]["main"]
  BY NodeTypes DEF NP!Crash
<1>2. UNCHANGED <<run_state, new_data>>
  BY DEF NP!Crash
<1>3. ASSUME NEW m \in Node PROVE WorkFits(m)'
  <2>1. CASE m = n
    BY <1>1, <2>1 DEF WorkFits
  <2>2. CASE m # n
    <3>1. \A d \in socket[m]["main"] : d \in Conn /\ d \notin socket[n]["main"] /\ d \notin socket[n]["beat"]
      BY <2>2, NodeTypes DEF SystemInv, Parts, NP!SocketsMatchConnections
    <3>2. \A d \in socket[m]["main"] : conn'[d] = conn[d]
      BY <3>1 DEF NP!Crash
    <3>3. Pending(m)' = Pending(m)
      BY <1>1, <2>2, <3>2, PendingStays, TrackNode
    <3>4. WorkFits(m)
      BY DEF TrackInv
    <3>. QED BY <1>1, <1>2, <2>2, <3>3, <3>4, WorkStays, TrackNode
  <2>. QED BY <2>1, <2>2
<1>4. ASSUME NEW d \in Conn PROVE FlightFits(d)'
  <2>1. FlightFits(d) /\ conn[d] \in NP!Connection
    BY NodeTypes DEF TrackInv
  <2>2. conn'[d] = conn[d] \/ conn'[d] = NP!NoConnection \/ conn'[d] = [conn[d] EXCEPT !.client = "closed"]
    BY DEF NP!Crash, NP!CloseClient
  <2>3. conn'[d].request \subseteq conn[d].request
        /\ (conn'[d].server # "closed" => conn[d].server # "closed")
    BY <2>1, <2>2 DEF NP!NoConnection, NP!Connection
  <2>. QED BY <2>1, <2>3, FlightStays, TrackNode, OneRequest
<1>. QED BY <1>3, <1>4 DEF Tracks

\* The exchange that breaks brings no work and no answer to work.
LEMMA TrackBreak ==
  ASSUME SystemInv, TrackInv, UNCHANGED serverState, Srv!Listening,
         NEW n \in Node, NEW t \in NP!Thread, Breaks(n, t)
  PROVE  Tracks
<1>0. PICK c \in Conn : Broken(n, t, c)
  BY BreaksQuietly DEF TrackInv
<1>1. /\ socket[n][t] = {c} /\ thread_pc[n][t] \in {"send", "receive"}
      /\ conn' = [conn EXCEPT ![c] = NP!CloseClient(@)]
      /\ socket' = [socket EXCEPT ![n][t] = {}] /\ thread_pc' = [thread_pc EXCEPT ![n][t] = "loop"]
      /\ UNCHANGED <<result, run_state, new_data>>
  BY <1>0 DEF Broken
<1>2. /\ conn[c] \in NP!Connection /\ conn'[c] = NP!CloseClient(conn[c])
      /\ \A d \in Conn \ {c} : conn'[d] = conn[d]
  BY <1>1, NodeTypes
<1>3. /\ socket'[n][t] = {}
      /\ \A m \in Node : \A s \in NP!Thread : ~(m = n /\ s = t) =>
            socket'[m][s] = socket[m][s] /\ thread_pc'[m][s] = thread_pc[m][s]
  BY <1>1, NodeTypes
<1>4. \A m \in Node : \A s \in NP!Thread : c \in socket[m][s] => m = n /\ s = t
  BY <1>1 DEF SystemInv, Parts, NP!SocketsMatchConnections
<1>5. ASSUME NEW m \in Node, ~(m = n /\ t = "main") PROVE WorkFits(m)'
  <2>1. "main" \in NP!Thread /\ WorkFits(m)
    BY NodeTypes DEF TrackInv
  <2>2. socket'[m]["main"] = socket[m]["main"] /\ thread_pc'[m]["main"] = thread_pc[m]["main"]
    BY <1>3, <1>5, <2>1
  <2>3. \A d \in socket[m]["main"] : conn'[d] = conn[d]
    BY <1>2, <1>4, <1>5, <2>1, NodeTypes
  <2>4. Pending(m)' = Pending(m)
    BY <1>1, <2>2, <2>3, PendingStays, TrackNode
  <2>. QED BY <1>1, <2>1, <2>2, <2>4, WorkStays, TrackNode
<1>6. ASSUME t = "main" PROVE WorkFits(n)'
  <2>1. WorkFits(n) /\ thread_pc[n]["main"] # "crashed"
    BY <1>1, <1>6 DEF TrackInv
  <2>2. CASE Active(n) = NoRow
    BY <2>2, WorkLost, TrackNode
  <2>3. CASE Active(n) # NoRow
    <3>1. run_state[n] # "Init"
      BY <2>1, <2>3 DEF WorkFits
    <3>2. conn[c].request = {} /\ conn[c].answer = {} /\ result[n]["main"] = {}
      <4>1. thread_pc[n]["main"] = "send"
        BY <1>6, <3>1 DEF Breaks
      <4>. QED BY <1>1, <1>6, <4>1, NodeTypes DEF SystemInv, SendInv, TrackInv, RequestsInv
    <3>3. reply[c] = {}
      BY <3>2, TrackNode
    <3>4. \A r : r \notin Pending(n)
      BY <1>1, <1>6, <3>2, <3>3, PendingIs
    <3>5. \A r : r \notin Pending(n)'
      BY <1>1, <1>3, <1>6, <3>2, PendingIs
    <3>6. run_state[n] = "HasData" /\ new_data[n] = Line(Active(n))
      BY <2>1, <2>3, <3>4 DEF WorkFits
    <3>. QED BY <1>1, <2>1, <3>4, <3>5, <3>6, TrackNode DEF WorkFits
  <2>. QED BY <2>2, <2>3
<1>7. ASSUME NEW d \in Conn PROVE FlightFits(d)'
  <2>1. FlightFits(d)
    BY DEF TrackInv
  <2>2. conn'[d].request \subseteq conn[d].request
        /\ (conn'[d].server # "closed" => conn[d].server # "closed")
    BY <1>2, ClientCloses
  <2>. QED BY <2>1, <2>2, FlightStays, TrackNode, OneRequest
<1>. QED BY <1>5, <1>6, <1>7 DEF Tracks

LEMMA TrackKept ==
  ASSUME SystemInv, TrackInv, Owners, [Next]_vars, [~WorkBreaks]_vars
  PROVE  TrackInv'
<1>1. RequestsInv' /\ WaitInv'
  BY RequestsKept DEF TrackInv
<1>2. Srv!Listening' => Srv!Listening
  BY ListeningBack
<1>3. RowsOwned' /\ RowsHoldTheirLines' /\ (Srv!Listening' => Tracks)
  <2>1. CASE ServerStep /\ UNCHANGED nodeState
    BY <1>2, <2>1, TrackServer
  <2>2. ASSUME UNCHANGED serverState PROVE RowsOwned' /\ RowsHoldTheirLines'
    BY <2>2 DEF serverState, TrackInv, RowsOwned, RowsHoldTheirLines
  <2>3. ASSUME ~WorkBreaks, NEW n \in Node, NEW t \in NP!Thread, NodeStep(n, t), UNCHANGED serverState
        PROVE  Srv!Listening' => Tracks
    BY <1>2, <2>3, NodeKinds, TrackConnect, TrackSend, TrackHangup, TrackHandle, TrackPonder, TrackCrash,
       TrackBreak DEF Exchanges, Ponders
  <2>4. CASE UNCHANGED vars
    BY <1>2, <2>2, <2>4, TrackQuiet DEF vars, serverState
  <2>. QED BY <2>1, <2>2, <2>3, <2>4, Steps DEF NodesStep
<1>. QED BY <1>1, <1>3 DEF TrackInv, Tracks

LEMMA RowOwners == Spec => []Owners
<1>1. JP!TypeOK /\ JP!OwnerInv => Owners
  <2>. SUFFICES ASSUME JP!TypeOK, JP!OwnerInv PROVE Owners
    OBVIOUS
  <2>1. \A n \in Node : processor.node_map[n] # NoRow => processor.node_map[n] \in Row
    BY SameJob DEF JP!TypeOK, Processor
  <2>2. \A n \in Node : \A i \in Row : JP!Holds(n, i) <=> processor.node_map[n] = i
    BY DEF JP!Holds, JP!BeingErased
  <2>. QED BY <2>1, <2>2, SameJob DEF JP!OwnerInv, Owners
<1>2. JP!Spec => []JP!OwnerInv
  BY HeightAssumption, JP!OwnersExclusive
<1>3. JP!Spec => []JP!TypeOK
  BY HeightAssumption, JP!TypeCorrect
<1>. QED BY <1>1, <1>2, <1>3, RunsJob, PTL

LEMMA TrackBegin == ASSUME Init PROVE TrackInv
<1>1. SP!Init /\ NP!Init
  BY PartsBegin
<1>2. /\ \A c \in Conn : conn[c] = NP!NoConnection
      /\ \A n \in Node : \A t \in NP!Thread : socket[n][t] = {} /\ result[n][t] = {}
  BY <1>1 DEF NP!Init, NP!NodeInit
<1>3. RequestsInv /\ WaitInv
  BY <1>2 DEF NP!NoConnection, RequestsInv, WaitInv
<1>4. /\ \A i \in Row : processor.mandel_job[i] = "UnProcessed"
      /\ \A n \in Node : processor.node_map[n] = NoRow
  BY <1>1 DEF SP!Init, NewProcessor
<1>5. RowsOwned /\ RowsHoldTheirLines
  BY <1>4 DEF RowsOwned, RowsHoldTheirLines
<1>6. processor \in Processor
  BY <1>1, ProcessorFacts DEF SP!Init
<1>7. ASSUME NEW n \in Node PROVE WorkFits(n)
  <2>1. Active(n) = NoRow
    BY <1>4, <1>6, ActiveRow
  <2>. QED BY <2>1 DEF WorkFits
<1>8. \A c \in Conn : FlightFits(c)
  BY <1>2 DEF NP!NoConnection, FlightFits
<1>. QED BY <1>3, <1>5, <1>7, <1>8 DEF TrackInv

LEMMA TrackInvariant ==
  Spec /\ [][~WorkBreaks]_vars => []TrackInv
<1>1. Init => TrackInv
  BY TrackBegin
<1>2. SystemInv /\ TrackInv /\ Owners /\ [Next]_vars /\ [~WorkBreaks]_vars => TrackInv'
  BY TrackKept
<1>. QED BY <1>1, <1>2, SystemInvariant, RowOwners, PTL DEF Spec

\* As long as callbacks do not overlap (each is one step of NCSystem), a row that
\* is being processed is in node_map of some node, so that its result or its
\* node's timeout moves it on (mandel_server.cpp:69-123), although nodes crash,
\* time out and send results late, and connections break on which a node
\* registers, beats or has not yet sent its request.  The one connection that
\* must not break is that on which a node waits for work or for the
\* acknowledgement of a result, while node and server both go on: then an answer
\* may be lost, the node asks again and its first row is forgotten.  What an
\* nc_node_timeout under way does to a row its node is given meanwhile
\* (mandel_server.cpp:73-80) is left to MandelServerProofs!OwnersKeptByTimeouts.
THEOREM RowsNeverLost ==
  Spec /\ [][~WorkBreaks]_vars => []RowsOwned
<1>1. TrackInv => RowsOwned
  BY DEF TrackInv
<1>. QED BY <1>1, TrackInvariant, PTL

\* As long as callbacks do not overlap (each is one step of NCSystem), every row
\* that is done holds its own line: although a result carries no row index,
\* nc_process_result (mandel_server.cpp:102-123) takes it for the row it was
\* computed from, or for none.  Both hypotheses are needed.  A request for work
\* that outlives its broken connection gives the node a second row, which the
\* result of the first, sent meanwhile on another connection, is then taken for.
\* And a timeout that erases the entry between lines 105 and 106 has the result
\* taken for row 0's (MandelServer).
THEOREM LinesWhereTheyBelong ==
  Spec /\ [][~WorkBreaks]_vars => []RowsHoldTheirLines
<1>1. TrackInv => RowsHoldTheirLines
  BY DEF TrackInv
<1>. QED BY <1>1, TrackInvariant, PTL

LEMMA SavedOnce == ASSUME [Next]_vars PROVE SP!nc_save_data \/ UNCHANGED saved
<1>1. ServerStep => SP!nc_save_data \/ UNCHANGED saved
  BY DEF ServerStep, SP!Main, SP!CheckQuit, SP!nc_acceptThrows, SP!JoinOldest,
   SP!JoinHeartbeat, SP!JoinClient, SP!Return, SP!nc_accept, SP!nc_check_heartbeat, SP!Wake,
   SP!CheckNode, SP!Expire, SP!nc_handle_node, SP!nc_receive_data, SP!nc_receive_dataThrows,
   SP!AnswerIfJobDone, SP!Dispatch, SP!nc_register_new_node, SP!nc_valid_node_id,
   SP!nc_update_node_time, SP!SendNewData, SP!TakeResult, SP!nc_send_data,
   SP!nc_send_dataThrows, SP!Terminate
<1>. QED BY <1>1, Steps DEF serverState, vars

\* The image of a job that is done is not touched.
LEMMA ImageStays ==
  ASSUME SystemInv, [Next]_vars, nc_is_job_done(processor)
  PROVE  processor'.mandel_image = processor.mandel_image
<1>1. processor \in Processor /\ processor' \in Processor
  BY SystemKept DEF SystemInv, Parts, SP!TypeOK
<1>2. \A n \in Node : \A o \in nc_get_new_data(processor, n) : o.processor = processor
  BY DEF nc_get_new_data, nc_is_job_done, Assigned
<1>3. \A n \in Node : \A d : nc_process_result(processor, n, d) = processor
  BY <1>1 DEF nc_process_result, nc_is_job_done, Mapped, Processor
<1>4. \A n \in Node : nc_node_timeout(processor, n).mandel_image = processor.mandel_image
  BY <1>1 DEF nc_node_timeout, Processor
<1>5. \A c \in Conn : \A m \in conn[c].request : m.node_id \in Node
  BY OneRequest
<1>6. SP!nc_save_data => processor' = processor
  BY DEF SP!nc_save_data
<1>. QED BY <1>2, <1>3, <1>4, <1>5, <1>6, ProcessorStep

\* Unless the server gave up because nc_accept threw, nc_run saves
\* (nc_server.cpp:147) when the job is done, and then every row holds its line: the
\* image that is saved is complete, as long as callbacks do not overlap (each is
\* one step of NCSystem).  Otherwise a line that is being copied at the save may be
\* missing in part: MandelThreadsProofs says which.
THEOREM SavedWhole ==
  Spec /\ [][~WorkBreaks]_vars => []SavedImageComplete
<1>1. Init => SavedImageComplete
  BY PartsBegin DEF SP!Init, SavedImageComplete
<1>2. ASSUME SystemInv, TrackInv, SavedImageComplete, [Next]_vars PROVE SavedImageComplete'
  <2>. SUFFICES ASSUME ~gave_up' PROVE \A p \in saved' : \A i \in Row : p.mandel_image[i] = i
    BY DEF SavedImageComplete
  <2>1. ~gave_up
    BY <1>2, GivesUp
  <2>2. CASE UNCHANGED saved
    BY <1>2, <2>1, <2>2 DEF SavedImageComplete
  <2>3. CASE SP!nc_save_data
    <3>1. saved' = {processor} /\ quit
      BY <1>2, <2>3 DEF SP!nc_save_data, SystemInv, SaveInv
    <3>2. nc_is_job_done(processor)
      BY <1>2, <2>1, <3>1 DEF SystemInv, GiveUpInv, Finished
    <3>3. \A i \in Row : processor.mandel_image[i] = i
      BY <1>2, <3>2 DEF TrackInv, RowsHoldTheirLines, nc_is_job_done
    <3>. QED BY <3>1, <3>3
  <2>. QED BY <1>2, <2>2, <2>3, SavedOnce
<1>. QED BY <1>1, <1>2, TrackInvariant, SystemInvariant, PTL DEF Spec

\* Unless the server gave up because nc_accept threw, what nc_run has written
\* (nc_server.cpp:147) is the image of a finished job and what the processor holds
\* from then on, although its client threads may still take results until they
\* are joined (nc_server.cpp:150-158), and whatever nodes crash or connections
\* break: no late result touches a row that is done.  Each callback is one step
\* here; MandelThreadsProofs says what is saved while a thread copies a line.
SavedIsFinal ==
  ~gave_up =>
    \A p \in saved : nc_is_job_done(processor) /\ p.mandel_image = processor.mandel_image

THEOREM SavedForGood == Spec => []SavedIsFinal
<1>1. Init => SavedIsFinal
  BY PartsBegin DEF SP!Init, SavedIsFinal
<1>2. ASSUME SystemInv, SavedIsFinal, [Next]_vars PROVE SavedIsFinal'
  <2>. SUFFICES ASSUME ~gave_up', NEW p \in saved'
                PROVE  nc_is_job_done(processor)' /\ p.mandel_image = processor'.mandel_image
    BY DEF SavedIsFinal
  <2>0. ~gave_up
    BY <1>2, GivesUp
  <2>1. CASE UNCHANGED saved
    <3>1. nc_is_job_done(processor) /\ p.mandel_image = processor.mandel_image
      BY <1>2, <2>0, <2>1 DEF SavedIsFinal
    <3>2. nc_is_job_done(processor)'
      BY <1>2, <3>1, JobStays DEF nc_is_job_done
    <3>3. processor'.mandel_image = processor.mandel_image
      BY <1>2, <3>1, ImageStays
    <3>. QED BY <3>1, <3>2, <3>3
  <2>2. CASE SP!nc_save_data
    <3>1. saved' = {processor} /\ processor' = processor /\ quit
      BY <1>2, <2>2 DEF SP!nc_save_data, SystemInv, SaveInv
    <3>2. nc_is_job_done(processor)
      BY <1>2, <2>0, <3>1 DEF SystemInv, GiveUpInv, Finished
    <3>. QED BY <3>1, <3>2 DEF nc_is_job_done
  <2>. QED BY <1>2, <2>1, <2>2, SavedOnce
<1>. QED BY <1>1, <1>2, SystemInvariant, PTL DEF Spec

-----------------------------------------------------------------------------
(* What the server does not survive *)

\* As long as the server has a connection, so does the node.
OpenInv == \A c \in Conn : conn[c].server # "closed" => conn[c].client = "open"

\* The client's end of a connection closes, because its node crashes or the
\* connection breaks, while the server still has to accept or to serve it.
CutsOff ==
  \E c \in Conn : conn[c].server # "closed" /\ conn[c].client = "open" /\ conn'[c].client = "closed"

\* The server closes no end but its own.
LEMMA ServerCutsOffNone ==
  ASSUME SystemInv, OpenInv, ServerStep PROVE OpenInv' /\ ~CutsOff
<1>0. conn \in [Conn -> SP!Connection]
  BY DEF SystemInv, Parts, SP!TypeOK
<1>1. CASE UNCHANGED conn
  BY <1>1 DEF OpenInv, CutsOff
<1>2. CASE conn' = SP!CloseAll(conn)
  BY <1>0, <1>2 DEF SP!CloseAll, SP!CloseServer, SP!NoConnection, SP!Connection, OpenInv, CutsOff
<1>3. ASSUME NEW c \in Conn, SP!nc_accept(c) PROVE OpenInv' /\ ~CutsOff
  <2>1. conn' = [conn EXCEPT ![c].server = "open"] /\ conn[c].client = "open"
    BY <1>3 DEF SP!nc_accept, OpenInv
  <2>. QED BY <1>0, <2>1 DEF OpenInv, CutsOff, SP!Connection
<1>4. ASSUME NEW c \in Conn, SP!nc_send_data(c) PROVE OpenInv' /\ ~CutsOff
  <2>1. conn' = [conn EXCEPT ![c] =
                   SP!CloseServer(IF @.client = "open" THEN [@ EXCEPT !.answer = reply[c]] ELSE @)]
    BY <1>4 DEF SP!nc_send_data
  <2>2. conn'[c].server = "closed" /\ \A d \in Conn \ {c} : conn'[d] = conn[d]
    BY <1>0, <2>1 DEF SP!CloseServer, SP!NoConnection, SP!Connection
  <2>3. conn[c].client = "open" => conn'[c].client = "open"
    BY <1>0, <2>1 DEF SP!CloseServer, SP!NoConnection, SP!Connection
  <2>. QED BY <2>2, <2>3 DEF OpenInv, CutsOff
<1>5. ASSUME NEW c \in Conn, Works(c) PROVE UNCHANGED conn
  BY <1>5, WorkLeaves
<1>. QED BY <1>1, <1>2, <1>3, <1>4, <1>5, ServerKinds DEF SP!Return, SP!Terminate

LEMMA OpenKept ==
  ASSUME SystemInv, OpenInv, [Next]_vars, [~CutsOff]_vars PROVE OpenInv'
<1>0. conn \in [Conn -> SP!Connection]
  BY DEF SystemInv, Parts, SP!TypeOK
<1>1. CASE UNCHANGED conn
  BY <1>1 DEF OpenInv
<1>2. ASSUME ~CutsOff, NEW c \in Conn,
             SP!ClientConnect(c) \/ SP!ClientSend(c) \/ SP!ClientReceive(c) \/ SP!ClientCrash(c)
      PROVE  OpenInv'
  <2>1. CASE SP!ClientConnect(c)
    <3>1. conn'[c].client = "open" /\ \A d \in Conn \ {c} : conn'[d] = conn[d]
      BY <1>0, <2>1 DEF SP!ClientConnect, SP!Connected
    <3>. QED BY <3>1 DEF OpenInv
  <2>2. CASE SP!ClientSend(c)
    <3>1. \A d \in Conn : conn'[d].server = conn[d].server /\ conn'[d].client = conn[d].client
      BY <1>0, <2>2 DEF SP!ClientSend, SP!Connection
    <3>. QED BY <3>1 DEF OpenInv
  <2>3. CASE SP!ClientReceive(c) \/ SP!ClientCrash(c)
    <3>1. conn[c].client = "open" /\ conn' = [conn EXCEPT ![c] = SP!CloseClient(@)]
      BY <2>3 DEF SP!ClientReceive, SP!ClientCrash
    <3>2. conn'[c].client = "closed" /\ \A d \in Conn \ {c} : conn'[d] = conn[d]
      BY <1>0, <3>1 DEF SP!CloseClient, SP!NoConnection, SP!Connection
    <3>3. conn[c].server = "closed"
      BY <1>2, <3>1, <3>2 DEF CutsOff
    <3>4. conn'[c].server = "closed"
      BY <1>0, <3>1, <3>3 DEF SP!CloseClient, SP!NoConnection
    <3>. QED BY <3>2, <3>4 DEF OpenInv
  <2>. QED BY <1>2, <2>1, <2>2, <2>3
<1>3. CASE NodesStep /\ UNCHANGED serverState /\ ~CutsOff
  BY <1>1, <1>2, <1>3, NodesSeen DEF ClientStep
<1>. QED BY <1>1, <1>3, ServerCutsOffNone, Steps DEF vars

\* std::terminate is reached from an exception of a connection only.
LEMMA SurvivesOpen ==
  ASSUME SystemInv, OpenInv, ServerSurvives, [Next]_vars PROVE ServerSurvives'
<1>2. ASSUME NEW c \in Conn, SP!nc_handle_node(c) PROVE UNCHANGED main_pc
  <2>1. ~SP!nc_receive_dataThrows(c) /\ ~SP!nc_send_dataThrows(c)
    BY Serving DEF SP!nc_receive_dataThrows, SP!nc_send_dataThrows, OpenInv
  <2>. QED BY <1>2, <2>1 DEF SP!nc_handle_node, SP!nc_receive_data, SP!AnswerIfJobDone,
       SP!Dispatch, SP!nc_register_new_node, SP!nc_valid_node_id, SP!nc_update_node_time,
       SP!SendNewData, SP!TakeResult, SP!nc_send_data, SP!processVars
<1>3. CASE SP!Main
  <2>1. SP!CheckQuit \/ SP!nc_acceptThrows \/ SP!JoinOldest \/ SP!nc_save_data \/ SP!JoinHeartbeat
          \/ SP!Return => main_pc' # "terminated"
    BY DEF SP!CheckQuit, SP!nc_acceptThrows, SP!JoinOldest, SP!nc_save_data, SP!JoinHeartbeat, SP!Return
  <2>2. SP!JoinClient => UNCHANGED main_pc
    BY DEF SP!JoinClient
  <2>3. ASSUME NEW c \in Conn, SP!nc_accept(c) PROVE main_pc' # "terminated"
    BY <2>3 DEF SP!nc_accept
  <2>. QED BY <1>3, <2>1, <2>2, <2>3 DEF SP!Main, ServerSurvives
<1>4. CASE UNCHANGED main_pc
  BY <1>4 DEF ServerSurvives
<1>5. SP!nc_check_heartbeat \/ (\E n \in Node : SP!Expire(n)) => UNCHANGED main_pc
  BY DEF SP!nc_check_heartbeat, SP!Wake, SP!CheckNode, SP!Expire, SP!processVars
<1>. QED BY <1>2, <1>3, <1>4, <1>5, Steps DEF ServerStep, serverState, vars

\* What kills the server is a node that leaves its end of a connection before the
\* server has left the other: std::terminate is reached from the exception this
\* causes (nc_server.cpp:206, nc_server.cpp:254) and from nothing else.  A node
\* that crashes between two exchanges, or breaks with an answer unread, leaves
\* the server running, as README.md:38 has it.
THEOREM SurvivesWholeExchanges == Spec /\ [][~CutsOff]_vars => []ServerSurvives
<1>1. Init => OpenInv /\ ServerSurvives
  BY PartsBegin DEF SP!Init, SP!NoConnection, OpenInv, ServerSurvives
<1>2. SystemInv /\ OpenInv /\ ServerSurvives /\ [Next]_vars /\ [~CutsOff]_vars
        => OpenInv' /\ ServerSurvives'
  BY OpenKept, SurvivesOpen
<1>. QED BY <1>1, <1>2, SystemInvariant, PTL DEF Spec

\* Nodes that neither crash nor lose a connection hang up after the server.
LEMMA NobodyCutsOff ==
  ASSUME NodeFaults = {}, SystemInv, RequestsInv, OpenInv, [Next]_vars PROVE [~CutsOff]_vars
<1>0. conn \in [Conn -> SP!Connection]
  BY DEF SystemInv, Parts, SP!TypeOK
<1>1. ASSUME UNCHANGED conn PROVE ~CutsOff
  BY <1>1 DEF CutsOff
<1>2. ASSUME NEW n \in Node, NEW t \in NP!Thread, NodeStep(n, t) PROVE ~CutsOff
  <2>1. ASSUME NEW c \in Conn, NP!nc_connect(n, t, c) PROVE ~CutsOff
    <3>1. conn'[c].client = "open" /\ \A d \in Conn \ {c} : conn'[d] = conn[d]
      BY <1>0, <2>1 DEF NP!nc_connect, NP!Connected
    <3>. QED BY <3>1 DEF CutsOff
  <2>2. CASE NP!nc_send_data(n, t)
    <3>1. PICK c \in socket[n][t] : conn' = [conn EXCEPT ![c].request = {NP!RequestMessage(n, t)}]
      BY <2>2 DEF NP!nc_send_data
    <3>. QED BY <1>0, <3>1 DEF CutsOff, SP!Connection
  <2>3. CASE \/ NP!nc_receive_data(n, t)
             \/ NP!ExchangeThrows(n, t)
                 /\ \E c \in socket[n][t] : conn[c].server = "closed" /\ conn[c].answer = {}
    <3>1. PICK c \in Conn : conn[c].server = "closed" /\ conn' = [conn EXCEPT ![c] = NP!NoConnection]
      BY <2>3, HangsUpLast DEF HungUp
    <3>2. \A d \in Conn \ {c} : conn'[d] = conn[d]
      BY <1>0, <3>1
    <3>. QED BY <3>1, <3>2 DEF CutsOff
  <2>4. CASE Ponders(n, t)
    <3>1. UNCHANGED conn
      BY <2>4 DEF Ponders, NP!nc_connectThrows, NP!MainLoop, NP!HandleAnswer, NP!JoinHeartbeat,
                  NP!BeatLoop, NP!HandleBeatAnswer
    <3>. QED BY <1>1, <3>1
  <2>5. ~NP!Crash(n) /\ ~Breaks(n, t)
    BY DEF NP!Crash, Breaks
  <2>6. Exchanges(n, t) \/ Ponders(n, t)
    BY <1>2, <2>5, NodeKinds, NothingBreaks
  <2>7. CASE Exchanges(n, t)
    BY <2>1, <2>2, <2>3, <2>7 DEF Exchanges
  <2>. QED BY <2>4, <2>6, <2>7
<1>. QED BY <1>2, ServerCutsOffNone, Steps DEF NodesStep

\* Only a fault of a node kills the server (nc_server.cpp:206, nc_server.cpp:254).
THEOREM SurvivesItsOwnNodes ==
  ASSUME NodeFaults = {} PROVE Spec => []ServerSurvives
<1>1. Init => OpenInv /\ ServerSurvives
  BY PartsBegin DEF SP!Init, SP!NoConnection, OpenInv, ServerSurvives
<1>2. ASSUME SystemInv, TrackInv, OpenInv, ServerSurvives, [Next]_vars PROVE OpenInv' /\ ServerSurvives'
  <2>1. [~CutsOff]_vars
    BY <1>2, NobodyCutsOff DEF TrackInv
  <2>. QED BY <1>2, <2>1, OpenKept, SurvivesOpen
<1>3. ~WorkBreaks
  BY NothingBreaks
<1>4. Spec => []TrackInv
  BY <1>3, TrackInvariant, PTL DEF Spec
<1>. QED BY <1>1, <1>2, <1>4, SystemInvariant, PTL DEF Spec
=============================================================================
