--------------------------- MODULE NCServerProofs ----------------------------
(***************************************************************************)
(* NCServer, for every data processor, every set of nodes and connections  *)
(* and every max_thread_count.                                             *)
(***************************************************************************)
EXTENDS NCServer, NCNetworkProofs, SequenceTheorems, FiniteSetTheorems,
        TLAPS

\* Every answer is a message.
LEMMA MessageType ==
  ASSUME NEW type \in NCServerMessageType, NEW data \in Data \cup {NoData}
  PROVE  {Message(type, data)} \in Optional(NCDecodedMessageFromServer)
BY OptionalSingleton DEF Message, NCDecodedMessageFromServer

\* A request is at most one message of a node.
LEMMA RequestType ==
  ASSUME TypeOK, NEW c \in Conn, NEW m \in NodeMessage(c)
  PROVE  m \in NCDecodedMessageFromNode
BY DEF TypeOK, Connection, Optional, NodeMessage

\* Setting one thread's place and answer keeps their types.
LEMMA AnswerType ==
  ASSUME TypeOK, NEW c \in Conn,
         NEW type \in NCServerMessageType, NEW data \in Data \cup {NoData},
         Answer(c, Message(type, data))
  PROVE  /\ handler' \in [Conn -> HandlerPC]
         /\ reply' \in [Conn -> Optional(NCDecodedMessageFromServer)]
BY MessageType DEF TypeOK, Answer, Goto, HandlerPC

\* Marking a thread of the queue as ended keeps its length.
Marked(c) == [i \in DOMAIN client_threads |->
                IF client_threads[i] = c THEN Ended ELSE client_threads[i]]
LEMMA MarkedType ==
  ASSUME TypeOK, NEW c \in Conn
  PROVE  /\ Marked(c) \in Seq(Conn \cup {Ended})
         /\ Len(Marked(c)) = Len(client_threads)
         /\ client_threads # << >> => Marked(c) # << >>
<1>1. client_threads \in Seq(Conn \cup {Ended})
  BY DEF TypeOK
<1>2. DOMAIN client_threads = 1 .. Len(client_threads) /\ Len(client_threads) \in Nat
  BY <1>1
<1>3. \A i \in 1 .. Len(client_threads) : client_threads[i] \in Conn \cup {Ended}
  BY <1>1, <1>2
<1>4. Marked(c) \in [1 .. Len(client_threads) -> Conn \cup {Ended}]
  BY <1>2, <1>3 DEF Marked
<1>. QED BY <1>1, <1>2, <1>4, SeqDef, LenProperties, EmptySeq DEF Marked

\* std::terminate leaves nothing running.
LEMMA TerminateType == ASSUME TypeOK, Terminate PROVE TypeOK'
<1>1. {} \in Optional(NCDecodedMessageFromServer)
  BY DEF Optional
<1>2. << >> \in Seq(Conn \cup {Ended})
  OBVIOUS
<1>. QED BY <1>1, <1>2, CloseAllType DEF TypeOK, Terminate, MainPC, HandlerPC

\* nc_run joins the oldest thread only when there is one; types need it, since
\* there is no first element of an empty queue.
SomethingToJoin == main_pc = "joinOldest" => client_threads # << >>

LEMMA TypeInductive ==
  /\ Init => TypeOK /\ SomethingToJoin
  /\ TypeOK /\ SomethingToJoin /\ [Next]_vars => TypeOK' /\ SomethingToJoin'
<1>1. Init => TypeOK /\ SomethingToJoin
  <2>1. {} \in Optional(ProcessorState) /\ {} \in Optional(NCDecodedMessageFromServer)
    BY DEF Optional
  <2>2. << >> \in Seq(Conn \cup {Ended})
    OBVIOUS
  <2>. SUFFICES ASSUME Init PROVE TypeOK /\ SomethingToJoin
    OBVIOUS
  <2>3. conn \in [Conn -> Connection] /\ all_nodes \in [Node -> NodeTime]
    BY ConnectionTypes DEF Init, NodeTime
  <2>4. processor \in ProcessorState /\ saved \in Optional(ProcessorState)
    BY <2>1, ProcessorAssumption DEF Init
  <2>5. /\ handler \in [Conn -> HandlerPC]
        /\ reply \in [Conn -> Optional(NCDecodedMessageFromServer)]
    BY <2>1 DEF Init, HandlerPC
  <2>6. quit \in BOOLEAN /\ main_pc \in MainPC /\ heartbeat_pc \in {"sleep", "check", "ended"}
    BY DEF Init, MainPC
  <2>7. client_threads \in Seq(Conn \cup {Ended}) /\ unchecked \in SUBSET Node
    BY <2>2 DEF Init
  <2>8. SomethingToJoin
    BY DEF Init, SomethingToJoin
  <2>. QED BY <2>3, <2>4, <2>5, <2>6, <2>7, <2>8 DEF TypeOK
<1>2. ASSUME TypeOK, SomethingToJoin, [Next]_vars PROVE TypeOK' /\ SomethingToJoin'
  <2>. USE <1>2
  <2>1. CASE CheckQuit
    BY <2>1 DEF CheckQuit, MainPC, TypeOK, SomethingToJoin, handlerVars, beatVars
  <2>2. ASSUME NEW c \in Conn, nc_accept(c) PROVE TypeOK' /\ SomethingToJoin'
    <3>1. conn' \in [Conn -> Connection]
      BY <2>2, ConnectionUpdates DEF nc_accept, TypeOK
    <3>2. client_threads' \in Seq(Conn \cup {Ended}) /\ client_threads' # << >>
      BY <2>2, AppendProperties DEF nc_accept, TypeOK
    <3>. QED
      BY <2>2, <3>1, <3>2
      DEF nc_accept, MainPC, HandlerPC, TypeOK, SomethingToJoin, beatVars
  <2>3. CASE nc_acceptThrows
    BY <2>3 DEF nc_acceptThrows, MainPC, TypeOK, SomethingToJoin, handlerVars, beatVars
  <2>4. CASE JoinOldest
    <3>1. client_threads' \in Seq(Conn \cup {Ended})
      BY <2>4, HeadTailProperties DEF JoinOldest, TypeOK, SomethingToJoin
    <3>. QED
      BY <2>4, <3>1 DEF JoinOldest, MainPC, TypeOK, SomethingToJoin, handlerVars, beatVars
  <2>5. CASE nc_save_data
    BY <2>5, OptionalSingleton
    DEF nc_save_data, MainPC, TypeOK, SomethingToJoin, handlerVars, beatVars
  <2>6. CASE JoinHeartbeat
    BY <2>6 DEF JoinHeartbeat, MainPC, TypeOK, SomethingToJoin, handlerVars, beatVars
  <2>7. CASE JoinClient
    <3>1. client_threads' \in Seq(Conn \cup {Ended})
      BY <2>7, HeadTailProperties DEF JoinClient, TypeOK
    <3>. QED
      BY <2>7, <3>1 DEF JoinClient, TypeOK, SomethingToJoin, handlerVars, beatVars
  <2>8. CASE Return
    BY <2>8, CloseAllType DEF Return, MainPC, TypeOK, SomethingToJoin, handlerVars, beatVars
  <2>9. ASSUME NEW c \in Conn, nc_receive_data(c) PROVE TypeOK' /\ SomethingToJoin'
    <3>1. CASE quit
      BY <2>9, <3>1, AnswerType
      DEF nc_receive_data, NCServerMessageType, TypeOK, SomethingToJoin, processVars, beatVars
    <3>2. CASE ~quit
      BY <2>9, <3>2
      DEF nc_receive_data, Goto, HandlerPC, TypeOK, SomethingToJoin, processVars, beatVars
    <3>. QED BY <3>1, <3>2
  <2>10. ASSUME NEW c \in Conn, nc_receive_dataThrows(c) \/ nc_send_dataThrows(c)
         PROVE  TypeOK' /\ SomethingToJoin'
    BY <2>10, TerminateType
    DEF nc_receive_dataThrows, nc_send_dataThrows, Terminate, SomethingToJoin
  <2>11. ASSUME NEW c \in Conn, AnswerIfJobDone(c) PROVE TypeOK' /\ SomethingToJoin'
    BY <2>11, AnswerType
    DEF AnswerIfJobDone, NCServerMessageType, TypeOK, SomethingToJoin, processVars, beatVars
  <2>12. ASSUME NEW c \in Conn, Dispatch(c) PROVE TypeOK' /\ SomethingToJoin'
    <3>1. \/ Answer(c, Message("UnknownError", NoData))
          \/ \E pc \in HandlerPC : Goto(c, pc) /\ UNCHANGED reply
      BY <2>12 DEF Dispatch, HandlerPC
    <3>2. CASE Answer(c, Message("UnknownError", NoData))
      BY <2>12, <3>2, AnswerType
      DEF Dispatch, NCServerMessageType, TypeOK, SomethingToJoin, processVars, beatVars
    <3>3. CASE \E pc \in HandlerPC : Goto(c, pc) /\ UNCHANGED reply
      BY <2>12, <3>3
      DEF Dispatch, Goto, TypeOK, SomethingToJoin, processVars, beatVars
    <3>. QED BY <3>1, <3>2, <3>3
  <2>13. ASSUME NEW c \in Conn, nc_register_new_node(c) PROVE TypeOK' /\ SomethingToJoin'
    <3>1. all_nodes' \in [Node -> NodeTime]
      BY <2>13, RequestType DEF nc_register_new_node, TypeOK, NodeTime
    <3>. QED
      BY <2>13, <3>1, AnswerType
      DEF nc_register_new_node, NCServerMessageType, TypeOK, SomethingToJoin, processVars, beatVars
  <2>14. ASSUME NEW c \in Conn, nc_valid_node_id(c) PROVE TypeOK' /\ SomethingToJoin'
    <3>1. \/ Answer(c, Message("InvalidNodeID", NoData))
          \/ \E pc \in HandlerPC : Goto(c, pc) /\ UNCHANGED reply
      BY <2>14 DEF nc_valid_node_id, HandlerPC
    <3>2. CASE Answer(c, Message("InvalidNodeID", NoData))
      BY <2>14, <3>2, AnswerType
      DEF nc_valid_node_id, NCServerMessageType, TypeOK, SomethingToJoin, processVars, beatVars
    <3>3. CASE \E pc \in HandlerPC : Goto(c, pc) /\ UNCHANGED reply
      BY <2>14, <3>3
      DEF nc_valid_node_id, Goto, TypeOK, SomethingToJoin, processVars, beatVars
    <3>. QED BY <3>1, <3>2, <3>3
  <2>15. ASSUME NEW c \in Conn, nc_update_node_time(c) PROVE TypeOK' /\ SomethingToJoin'
    <3>1. all_nodes' \in [Node -> NodeTime]
      BY <2>15, RequestType DEF nc_update_node_time, TypeOK, NodeTime
    <3>. QED
      BY <2>15, <3>1, AnswerType
      DEF nc_update_node_time, NCServerMessageType, TypeOK, SomethingToJoin, processVars, beatVars
  <2>16. ASSUME NEW c \in Conn, SendNewData(c) PROVE TypeOK' /\ SomethingToJoin'
    <3>0. PICK m \in NodeMessage(c) : \E o \in nc_get_new_data(processor, m.node_id) :
            processor' = o.processor /\ Answer(c, Message("NewDataFromServer", o.data))
      BY <2>16 DEF SendNewData
    <3>1. PICK o \in nc_get_new_data(processor, m.node_id) :
            processor' = o.processor /\ Answer(c, Message("NewDataFromServer", o.data))
      BY <3>0
    <3>2. m.node_id \in Node
      BY RequestType DEF NCDecodedMessageFromNode
    <3>3. o.processor \in ProcessorState /\ o.data \in Data
      BY <3>2, ProcessorAssumption DEF TypeOK
    <3>. QED
      BY <2>16, <3>1, <3>3, AnswerType
      DEF SendNewData, NCServerMessageType, TypeOK, SomethingToJoin, processVars, beatVars
  <2>17. ASSUME NEW c \in Conn, TakeResult(c) PROVE TypeOK' /\ SomethingToJoin'
    <3>1. PICK m \in NodeMessage(c) : processor' = nc_process_result(processor, m.node_id, m.data)
      BY <2>17 DEF TakeResult
    <3>2. m.node_id \in Node /\ m.data \in Data \cup {NoData}
      BY RequestType DEF NCDecodedMessageFromNode
    <3>3. processor' \in ProcessorState
      BY <3>1, <3>2, ProcessorAssumption DEF TypeOK
    <3>. QED
      BY <2>17, <3>3, AnswerType
      DEF TakeResult, NCServerMessageType, TypeOK, SomethingToJoin, processVars, beatVars
  <2>18. ASSUME NEW c \in Conn, nc_send_data(c) PROVE TypeOK' /\ SomethingToJoin'
    <3>1. conn' \in [Conn -> Connection]
      <4>. DEFINE r == IF conn[c].client = "open" THEN [conn[c] EXCEPT !.answer = reply[c]]
                                               ELSE conn[c]
      <4>1. conn[c] \in Connection /\ reply[c] \in Optional(NCDecodedMessageFromServer)
        BY DEF TypeOK
      <4>2. r \in Connection
        BY <4>1, ConnectionUpdates
      <4>3. CloseServer(r) \in Connection
        BY <4>2, ConnectionTypes
      <4>4. conn' = [conn EXCEPT ![c] = CloseServer(r)]
        BY <2>18 DEF nc_send_data
      <4>. QED BY <4>3, <4>4 DEF TypeOK
    <3>2. client_threads' \in Seq(Conn \cup {Ended}) /\ (client_threads # << >> => client_threads' # << >>)
      <4>1. client_threads' = Marked(c)
        BY <2>18 DEF nc_send_data, Marked
      <4>. QED BY <4>1, MarkedType
    <3>3. reply' \in [Conn -> Optional(NCDecodedMessageFromServer)]
      BY <2>18 DEF nc_send_data, TypeOK, Optional
    <3>. QED
      BY <2>18, <3>1, <3>2, <3>3
      DEF nc_send_data, HandlerPC, TypeOK, SomethingToJoin, beatVars
  <2>19. CASE Wake
    BY <2>19 DEF Wake, TypeOK, SomethingToJoin, processVars, handlerVars, beatVars
  <2>20. ASSUME NEW n \in Node, CheckNode(n) PROVE TypeOK' /\ SomethingToJoin'
    <3>1. processor' \in ProcessorState
      BY <2>20, ProcessorAssumption DEF CheckNode, TypeOK
    <3>. QED
      BY <2>20, <3>1 DEF CheckNode, NextBeat, TypeOK, SomethingToJoin, processVars, handlerVars
  <2>21. ASSUME NEW n \in Node, Expire(n) PROVE TypeOK' /\ SomethingToJoin'
    BY <2>21 DEF Expire, NodeTime, TypeOK, SomethingToJoin, processVars, handlerVars, beatVars
  <2>22. CASE ClientNext
    <3>1. conn' \in [Conn -> Connection]
      <4>1. PICK c \in Conn : \/ ClientConnect(c) \/ ClientSend(c)
                              \/ ClientReceive(c) \/ ClientCrash(c)
        BY <2>22 DEF ClientNext
      <4>2. CASE ClientConnect(c)
        BY <4>2, ConnectionTypes DEF ClientConnect, TypeOK
      <4>3. CASE ClientSend(c)
        <5>1. PICK m \in NCDecodedMessageFromNode : conn' = [conn EXCEPT ![c].request = {m}]
          BY <4>3 DEF ClientSend, Request
        <5>2. [conn[c] EXCEPT !.request = {m}] \in Connection
          BY ConnectionUpdates DEF TypeOK
        <5>. QED BY <5>1, <5>2 DEF TypeOK
      <4>4. CASE ClientReceive(c) \/ ClientCrash(c)
        BY <4>4, ConnectionTypes DEF ClientReceive, ClientCrash, TypeOK
      <4>. QED BY <4>1, <4>2, <4>3, <4>4
    <3>2. UNCHANGED serverVars
      BY <2>22 DEF ClientNext, ClientConnect, ClientSend, ClientReceive, ClientCrash
    <3>. QED
      BY <3>1, <3>2 DEF serverVars, TypeOK, SomethingToJoin, processVars, handlerVars, beatVars
  <2>23. CASE UNCHANGED vars
    BY <2>23 DEF vars, TypeOK, SomethingToJoin, processVars, handlerVars, beatVars
  <2>. QED
    BY <2>1, <2>2, <2>3, <2>4, <2>5, <2>6, <2>7, <2>8, <2>9, <2>10, <2>11, <2>12, <2>13,
       <2>14, <2>15, <2>16, <2>17, <2>18, <2>19, <2>20, <2>21, <2>22, <2>23
    DEF Next, ServerNext, Main, nc_handle_node, nc_check_heartbeat
<1>. QED BY <1>1, <1>2

\* Every reachable state has the declared types: in particular nc_run never
\* takes the front of an empty queue of threads (nc_server.cpp:139-142).
THEOREM TypeCorrect == Spec => [](TypeOK /\ SomethingToJoin)
BY TypeInductive, PTL DEF Spec

-----------------------------------------------------------------------------
(* Threads: why nothing runs when nc_run returns.  A thread that serves a    *)
(* connection is in the queue, under its own name; only ended threads leave  *)
(* the queue; and nc_run leaves its last loop when the queue is empty.       *)

JoinInv ==
  /\ ServedConnections
  /\ main_pc = "returned" => client_threads = << >>
  /\ main_pc \in {"joinClients", "returned", "terminated"} => heartbeat_pc = "ended"

\* A step that neither starts, ends nor joins a thread nor touches a socket.
SameThreads ==
  /\ UNCHANGED <<conn, main_pc, client_threads, heartbeat_pc>>
  /\ \A c \in Conn : handler'[c] = "none" <=> handler[c] = "none"

LEMMA SameThreadsKeep == ASSUME JoinInv, SameThreads PROVE JoinInv'
BY DEF JoinInv, SameThreads, ServedConnections

\* An answer keeps the thread of its connection at work.
LEMMA GotoKeeps ==
  ASSUME TypeOK, NEW c \in Conn, handler[c] # "none", NEW pc, pc # "none", Goto(c, pc)
  PROVE  \A d \in Conn : handler'[d] = "none" <=> handler[d] = "none"
BY DEF Goto, TypeOK

\* Joining an ended thread loses no thread that is at work.
LEMMA TailKeeps ==
  ASSUME TypeOK, client_threads # << >>, Head(client_threads) = Ended,
         NEW c \in Conn, NEW i \in DOMAIN client_threads, client_threads[i] = c
  PROVE  \E j \in DOMAIN Tail(client_threads) : Tail(client_threads)[j] = c
<1>1. /\ client_threads \in Seq(Conn \cup {Ended})
      /\ Tail(client_threads) \in Seq(Conn \cup {Ended})
      /\ Len(Tail(client_threads)) = Len(client_threads) - 1
      /\ \A j \in 1 .. Len(Tail(client_threads)) : Tail(client_threads)[j] = client_threads[j + 1]
  BY HeadTailProperties DEF TypeOK
<1>2. /\ DOMAIN client_threads = 1 .. Len(client_threads) /\ Len(client_threads) \in Nat
      /\ DOMAIN Tail(client_threads) = 1 .. Len(Tail(client_threads))
  BY <1>1, LenProperties
<1>3. client_threads[1] = Ended
  BY <1>1
<1>4. i # 1
  BY <1>3, EndedAssumption
<1>5. i - 1 \in DOMAIN Tail(client_threads) /\ Tail(client_threads)[i - 1] = client_threads[(i - 1) + 1]
  BY <1>1, <1>2, <1>4
<1>. QED BY <1>1, <1>2, <1>5

LEMMA JoinKeeps ==
  ASSUME TypeOK, JoinInv, client_threads # << >>, Head(client_threads) = Ended,
         client_threads' = Tail(client_threads),
         UNCHANGED <<conn, handler, heartbeat_pc>>,
         main_pc' = main_pc \/ main_pc' = "loop"
  PROVE  JoinInv'
<1>1. ServedConnections'
  BY TailKeeps DEF JoinInv, ServedConnections
<1>2. main_pc' # "returned"
  BY DEF JoinInv
<1>. QED BY <1>1, <1>2 DEF JoinInv

\* What closing does to the server's socket.
LEMMA CloseFacts ==
  ASSUME NEW r \in Connection
  PROVE  /\ CloseServer(r).server = "closed"
         /\ CloseClient(r).server = r.server
         /\ r.server # "closed" => CloseClient(r).request = r.request
BY DEF Connection, CloseServer, CloseClient, NoConnection

LEMMA JoinInductive ==
  /\ Init => JoinInv
  /\ TypeOK /\ SomethingToJoin /\ JoinInv /\ [Next]_vars => JoinInv'
<1>1. Init => JoinInv
  BY DEF Init, JoinInv, ServedConnections, NoConnection
<1>2. ASSUME TypeOK, SomethingToJoin, JoinInv, [Next]_vars PROVE JoinInv'
  <2>. USE <1>2
  <2>1. CASE CheckQuit
    BY <2>1 DEF CheckQuit, JoinInv, ServedConnections, handlerVars, beatVars
  <2>2. ASSUME NEW c \in Conn, nc_accept(c) PROVE JoinInv'
    <3>1. conn'[c].server = "open" /\ \A d \in Conn \ {c} : conn'[d] = conn[d]
      BY <2>2 DEF nc_accept, TypeOK, Connection
    <3>2. handler'[c] = "receive" /\ \A d \in Conn \ {c} : handler'[d] = handler[d]
      BY <2>2 DEF nc_accept, TypeOK
    <3>3. client_threads \in Seq(Conn \cup {Ended}) /\ client_threads' = Append(client_threads, c)
      BY <2>2 DEF nc_accept, TypeOK
    <3>4. /\ DOMAIN client_threads = 1 .. Len(client_threads) /\ Len(client_threads) \in Nat
          /\ DOMAIN client_threads' = 1 .. Len(client_threads) + 1
          /\ \A i \in 1 .. Len(client_threads) : client_threads'[i] = client_threads[i]
          /\ client_threads'[Len(client_threads) + 1] = c
      BY <3>3, AppendProperties, LenProperties
    <3>5. \E i \in DOMAIN client_threads' : client_threads'[i] = c
      BY <3>4
    <3>6. \A d \in Conn : (\E i \in DOMAIN client_threads : client_threads[i] = d)
                            => \E i \in DOMAIN client_threads' : client_threads'[i] = d
      BY <3>4
    <3>7. ServedConnections'
      BY <3>1, <3>2, <3>5, <3>6 DEF JoinInv, ServedConnections
    <3>8. main_pc' \in {"joinOldest", "loop"}
      BY <2>2 DEF nc_accept
    <3>. QED BY <3>7, <3>8 DEF JoinInv
  <2>3. CASE nc_acceptThrows
    BY <2>3 DEF nc_acceptThrows, JoinInv, ServedConnections, handlerVars, beatVars
  <2>4. CASE JoinOldest
    BY <2>4, JoinKeeps DEF JoinOldest, SomethingToJoin, handlerVars, beatVars
  <2>5. CASE nc_save_data
    BY <2>5 DEF nc_save_data, JoinInv, ServedConnections, handlerVars, beatVars
  <2>6. CASE JoinHeartbeat
    BY <2>6 DEF JoinHeartbeat, JoinInv, ServedConnections, handlerVars, beatVars
  <2>7. CASE JoinClient
    BY <2>7, JoinKeeps DEF JoinClient, handlerVars, beatVars
  <2>8. CASE Return
    <3>1. \A c \in Conn : handler[c] = "none"
      BY <2>8 DEF Return, JoinInv, ServedConnections
    <3>2. \A c \in Conn : conn'[c].server = "closed"
      BY <2>8, CloseFacts DEF Return, CloseAll, TypeOK
    <3>. QED
      BY <2>8, <3>1, <3>2 DEF Return, JoinInv, ServedConnections, handlerVars, beatVars
  <2>9. ASSUME NEW c \in Conn, nc_receive_data(c) PROVE JoinInv'
    BY <2>9, GotoKeeps, SameThreadsKeep
    DEF nc_receive_data, Answer, SameThreads, processVars, beatVars
  <2>10. ASSUME NEW c \in Conn, nc_receive_dataThrows(c) \/ nc_send_dataThrows(c) PROVE JoinInv'
    <3>1. Terminate
      BY <2>10 DEF nc_receive_dataThrows, nc_send_dataThrows
    <3>2. \A d \in Conn : conn'[d].server = "closed"
      BY <3>1, CloseFacts DEF Terminate, CloseAll, TypeOK
    <3>. QED BY <3>1, <3>2 DEF Terminate, JoinInv, ServedConnections
  <2>11. ASSUME NEW c \in Conn, AnswerIfJobDone(c) PROVE JoinInv'
    BY <2>11, GotoKeeps, SameThreadsKeep
    DEF AnswerIfJobDone, Answer, SameThreads, processVars, beatVars
  <2>12. ASSUME NEW c \in Conn, Dispatch(c) PROVE JoinInv'
    <3>1. PICK pc \in HandlerPC \ {"none"} : Goto(c, pc)
      BY <2>12 DEF Dispatch, Answer, HandlerPC
    <3>. QED
      BY <2>12, <3>1, GotoKeeps, SameThreadsKeep
      DEF Dispatch, SameThreads, processVars, beatVars
  <2>13. ASSUME NEW c \in Conn, nc_register_new_node(c) PROVE JoinInv'
    BY <2>13, GotoKeeps, SameThreadsKeep
    DEF nc_register_new_node, Answer, SameThreads, processVars, beatVars
  <2>14. ASSUME NEW c \in Conn, nc_valid_node_id(c) PROVE JoinInv'
    <3>1. PICK pc \in HandlerPC \ {"none"} : Goto(c, pc)
      BY <2>14 DEF nc_valid_node_id, Answer, HandlerPC
    <3>. QED
      BY <2>14, <3>1, GotoKeeps, SameThreadsKeep
      DEF nc_valid_node_id, SameThreads, processVars, beatVars
  <2>15. ASSUME NEW c \in Conn, nc_update_node_time(c) PROVE JoinInv'
    BY <2>15, GotoKeeps, SameThreadsKeep
    DEF nc_update_node_time, Answer, SameThreads, processVars, beatVars
  <2>16. ASSUME NEW c \in Conn, SendNewData(c) PROVE JoinInv'
    BY <2>16, GotoKeeps, SameThreadsKeep
    DEF SendNewData, Answer, SameThreads, processVars, beatVars
  <2>17. ASSUME NEW c \in Conn, TakeResult(c) PROVE JoinInv'
    BY <2>17, GotoKeeps, SameThreadsKeep
    DEF TakeResult, Answer, SameThreads, processVars, beatVars
  <2>18. ASSUME NEW c \in Conn, nc_send_data(c) PROVE JoinInv'
    <3>1. conn'[c].server = "closed" /\ \A d \in Conn \ {c} : conn'[d] = conn[d]
      <4>1. (IF conn[c].client = "open" THEN [conn[c] EXCEPT !.answer = reply[c]] ELSE conn[c])
              \in Connection
        BY ConnectionUpdates DEF TypeOK
      <4>. QED BY <2>18, <4>1, CloseFacts DEF nc_send_data, TypeOK
    <3>2. handler'[c] = "none" /\ \A d \in Conn \ {c} : handler'[d] = handler[d]
      BY <2>18 DEF nc_send_data, TypeOK
    <3>3. \A d \in Conn \ {c} : (\E i \in DOMAIN client_threads : client_threads[i] = d)
                                  => \E i \in DOMAIN client_threads' : client_threads'[i] = d
      BY <2>18 DEF nc_send_data
    <3>4. ServedConnections'
      BY <3>1, <3>2, <3>3 DEF JoinInv, ServedConnections
    <3>5. main_pc # "returned" \/ handler[c] = "none"
      BY DEF JoinInv, ServedConnections
    <3>. QED BY <2>18, <3>4, <3>5 DEF nc_send_data, JoinInv, beatVars
  <2>19. CASE Wake
    BY <2>19 DEF Wake, JoinInv, ServedConnections, processVars, handlerVars, beatVars
  <2>20. ASSUME NEW n \in Node, CheckNode(n) PROVE JoinInv'
    BY <2>20 DEF CheckNode, NextBeat, JoinInv, ServedConnections, processVars, handlerVars
  <2>21. ASSUME NEW n \in Node, Expire(n) PROVE JoinInv'
    BY <2>21 DEF Expire, JoinInv, ServedConnections, processVars, handlerVars, beatVars
  <2>22. CASE ClientNext
    <3>1. \A d \in Conn : conn'[d].server = "open" <=> conn[d].server = "open"
      <4>1. PICK c \in Conn : \/ ClientConnect(c) \/ ClientSend(c)
                              \/ ClientReceive(c) \/ ClientCrash(c)
        BY <2>22 DEF ClientNext
      <4>2. CASE ClientConnect(c)
        BY <4>2 DEF ClientConnect, TypeOK, NoConnection, Connected
      <4>3. CASE ClientSend(c)
        BY <4>3 DEF ClientSend, TypeOK, Connection
      <4>4. CASE ClientReceive(c) \/ ClientCrash(c)
        BY <4>4, CloseFacts DEF ClientReceive, ClientCrash, TypeOK
      <4>. QED BY <4>1, <4>2, <4>3, <4>4
    <3>2. UNCHANGED serverVars
      BY <2>22 DEF ClientNext, ClientConnect, ClientSend, ClientReceive, ClientCrash
    <3>. QED
      BY <3>1, <3>2 DEF serverVars, JoinInv, ServedConnections, processVars, handlerVars, beatVars
  <2>23. CASE UNCHANGED vars
    BY <2>23 DEF vars, JoinInv, ServedConnections, processVars, handlerVars, beatVars
  <2>. QED
    BY <2>1, <2>2, <2>3, <2>4, <2>5, <2>6, <2>7, <2>8, <2>9, <2>10, <2>11, <2>12, <2>13,
       <2>14, <2>15, <2>16, <2>17, <2>18, <2>19, <2>20, <2>21, <2>22, <2>23
    DEF Next, ServerNext, Main, nc_handle_node, nc_check_heartbeat
<1>. QED BY <1>1, <1>2

LEMMA JoinInvariant == Spec => []JoinInv
BY TypeInductive, JoinInductive, PTL DEF Spec

\* Each accepted connection is served by one thread that nc_run has still to
\* join (nc_server.cpp:130-142).
THEOREM ThreadsServe == Spec => []ServedConnections
<1>1. JoinInv => ServedConnections
  BY DEF JoinInv
<1>. QED BY <1>1, JoinInvariant, PTL

\* When nc_run returns, no thread uses the server object any more
\* (nc_server.cpp:149-158).
THEOREM AllJoined == Spec => []ThreadsJoined
<1>1. JoinInv => ThreadsJoined
  BY DEF JoinInv, ThreadsJoined, ServedConnections, Running
<1>. QED BY <1>1, JoinInvariant, PTL

-----------------------------------------------------------------------------
(* Nodes: the check in nc_valid_node_id holds for as long as the thread uses *)
(* it, because no step takes an entry out of all_nodes and the request of a  *)
(* connection stays what it is until its thread has ended.                   *)

Privileged(c) ==
  \/ handler[c] \in {"update", "getData", "process"}
  \/ \E r \in reply[c] : r.msg_type \in {"HeartbeatOK", "NewDataFromServer", "ResultOK"}

KnownInv ==
  /\ \A c \in Conn : Privileged(c) => \E m \in NodeMessage(c) : Known(m.node_id)
  /\ \A c \in Conn : handler[c] = "none" => reply[c] = {}

NodesStay == \A n \in Node : Known(n) => all_nodes'[n] # "absent"

\* A step of the thread of one connection.
LEMMA ThreadStep ==
  ASSUME TypeOK, KnownInv, NodesStay, NEW c \in Conn, UNCHANGED conn,
         \A d \in Conn \ {c} : handler'[d] = handler[d] /\ reply'[d] = reply[d],
         handler'[c] # "none",
         Privileged(c)' => Privileged(c) \/ \E m \in NodeMessage(c) : Known(m.node_id)
  PROVE  KnownInv'
<1>1. \A d \in Conn : \A m \in NodeMessage(d) : m.node_id \in Node
  BY RequestType DEF NCDecodedMessageFromNode
<1>2. \A d \in Conn : Privileged(d)' => \E m \in NodeMessage(d) : Known(m.node_id)
  BY DEF KnownInv, Privileged
<1>. QED BY <1>1, <1>2 DEF KnownInv, NodesStay, NodeMessage, Known

\* A step that leaves threads and nodes alone.
LEMMA QuietStep ==
  ASSUME KnownInv, UNCHANGED <<handler, reply, all_nodes>>,
         \A d \in Conn : conn'[d].request = conn[d].request \/ handler[d] = "none"
                                                            \/ conn[d].request = {}
  PROVE  KnownInv'
<1>1. ASSUME NEW d \in Conn, Privileged(d) PROVE handler[d] # "none" /\ conn[d].request # {}
  BY <1>1 DEF KnownInv, Privileged, NodeMessage
<1>2. \A d \in Conn : Privileged(d)' <=> Privileged(d)
  BY DEF Privileged
<1>. QED BY <1>1, <1>2 DEF KnownInv, NodeMessage, Known

LEMMA AnswerFacts ==
  ASSUME TypeOK, NEW c \in Conn, NEW message, Answer(c, message)
  PROVE  /\ handler'[c] = "send" /\ reply'[c] = {message}
         /\ \A d \in Conn \ {c} : handler'[d] = handler[d] /\ reply'[d] = reply[d]
BY DEF Answer, Goto, TypeOK

LEMMA GotoFacts ==
  ASSUME TypeOK, NEW c \in Conn, NEW pc, Goto(c, pc), UNCHANGED reply
  PROVE  /\ handler'[c] = pc /\ reply'[c] = reply[c]
         /\ \A d \in Conn \ {c} : handler'[d] = handler[d] /\ reply'[d] = reply[d]
BY DEF Goto, TypeOK

LEMMA KnownInductive ==
  /\ Init => KnownInv
  /\ TypeOK /\ JoinInv /\ KnownInv /\ [Next]_vars => KnownInv'
<1>1. Init => KnownInv
  BY DEF Init, KnownInv, Privileged
<1>2. ASSUME TypeOK, JoinInv, KnownInv, [Next]_vars PROVE KnownInv'
  <2>. USE <1>2
  <2>1. CASE CheckQuit
    BY <2>1, QuietStep DEF CheckQuit, handlerVars
  <2>2. ASSUME NEW c \in Conn, nc_accept(c) PROVE KnownInv'
    <3>1. handler[c] = "none" /\ reply[c] = {}
      BY <2>2 DEF nc_accept, JoinInv, ServedConnections, KnownInv
    <3>2. \A d \in Conn : Privileged(d)' => d # c /\ Privileged(d)
      BY <2>2, <3>1 DEF nc_accept, TypeOK, Privileged
    <3>3. \A d \in Conn \ {c} : conn'[d] = conn[d] /\ handler'[d] = handler[d]
      BY <2>2 DEF nc_accept, TypeOK
    <3>4. handler'[c] # "none" /\ reply' = reply /\ all_nodes' = all_nodes
      BY <2>2 DEF nc_accept, TypeOK
    <3>. QED BY <3>2, <3>3, <3>4 DEF KnownInv, NodeMessage, Known
  <2>3. CASE nc_acceptThrows
    BY <2>3, QuietStep DEF nc_acceptThrows, handlerVars
  <2>4. CASE JoinOldest
    BY <2>4, QuietStep DEF JoinOldest, handlerVars
  <2>5. CASE nc_save_data
    BY <2>5, QuietStep DEF nc_save_data, handlerVars
  <2>6. CASE JoinHeartbeat
    BY <2>6, QuietStep DEF JoinHeartbeat, handlerVars
  <2>7. CASE JoinClient
    BY <2>7, QuietStep DEF JoinClient, handlerVars
  <2>8. CASE Return
    <3>1. \A d \in Conn : handler[d] = "none"
      BY <2>8 DEF Return, JoinInv, ServedConnections
    <3>. QED BY <2>8, <3>1, QuietStep DEF Return, handlerVars
  <2>9. ASSUME NEW c \in Conn, nc_receive_data(c) PROVE KnownInv'
    <3>1. CASE quit
      <4>1. Answer(c, Message("Quit", NoData)) /\ UNCHANGED <<conn, all_nodes>>
        BY <2>9, <3>1 DEF nc_receive_data
      <4>. QED BY <4>1, AnswerFacts, ThreadStep DEF NodesStay, Privileged, Message, Known
    <3>2. CASE ~quit
      <4>1. Goto(c, "done") /\ UNCHANGED <<reply, conn, all_nodes>>
        BY <2>9, <3>2 DEF nc_receive_data
      <4>. QED BY <4>1, GotoFacts, ThreadStep DEF NodesStay, Privileged, Known
    <3>. QED BY <3>1, <3>2
  <2>10. ASSUME NEW c \in Conn, nc_receive_dataThrows(c) \/ nc_send_dataThrows(c) PROVE KnownInv'
    BY <2>10 DEF nc_receive_dataThrows, nc_send_dataThrows, Terminate, KnownInv, Privileged
  <2>11. ASSUME NEW c \in Conn, AnswerIfJobDone(c) PROVE KnownInv'
    <3>1. Answer(c, Message("Quit", NoData)) /\ UNCHANGED <<conn, all_nodes>>
      BY <2>11 DEF AnswerIfJobDone
    <3>. QED BY <3>1, AnswerFacts, ThreadStep DEF NodesStay, Privileged, Message, Known
  <2>12. ASSUME NEW c \in Conn, Dispatch(c) PROVE KnownInv'
    <3>1. \/ Answer(c, Message("UnknownError", NoData))
          \/ \E pc \in {"register", "valid"} : Goto(c, pc) /\ UNCHANGED reply
      BY <2>12 DEF Dispatch
    <3>2. UNCHANGED <<conn, all_nodes>>
      BY <2>12 DEF Dispatch
    <3>3. CASE Answer(c, Message("UnknownError", NoData))
      BY <3>2, <3>3, AnswerFacts, ThreadStep DEF NodesStay, Privileged, Message, Known
    <3>4. CASE \E pc \in {"register", "valid"} : Goto(c, pc) /\ UNCHANGED reply
      BY <3>2, <3>4, GotoFacts, ThreadStep DEF NodesStay, Privileged, Known
    <3>. QED BY <3>1, <3>3, <3>4
  <2>13. ASSUME NEW c \in Conn, nc_register_new_node(c) PROVE KnownInv'
    <3>1. NodesStay
      BY <2>13 DEF nc_register_new_node, NodesStay, Known, TypeOK, NodeTime
    <3>2. Answer(c, Message("InitOK", NoData)) /\ UNCHANGED conn
      BY <2>13 DEF nc_register_new_node
    <3>. QED BY <3>1, <3>2, AnswerFacts, ThreadStep DEF Privileged, Message
  <2>14. ASSUME NEW c \in Conn, nc_valid_node_id(c) PROVE KnownInv'
    <3>1. UNCHANGED <<conn, all_nodes>>
      BY <2>14 DEF nc_valid_node_id
    <3>2. CASE Answer(c, Message("InvalidNodeID", NoData))
      BY <3>1, <3>2, AnswerFacts, ThreadStep DEF NodesStay, Privileged, Message, Known
    <3>3. CASE ~ Answer(c, Message("InvalidNodeID", NoData))
      <4>1. \E pc \in {"update", "getData", "process"} : Goto(c, pc) /\ UNCHANGED reply
        BY <2>14, <3>3 DEF nc_valid_node_id
      <4>2. \E m \in NodeMessage(c) : Known(m.node_id)
        BY <2>14, <3>3 DEF nc_valid_node_id
      <4>. QED BY <3>1, <4>1, <4>2, GotoFacts, ThreadStep DEF NodesStay, Known
    <3>. QED BY <3>2, <3>3
  <2>15. ASSUME NEW c \in Conn, nc_update_node_time(c) PROVE KnownInv'
    <3>1. NodesStay
      BY <2>15 DEF nc_update_node_time, NodesStay, Known, TypeOK, NodeTime
    <3>2. Answer(c, Message("HeartbeatOK", NoData)) /\ UNCHANGED conn /\ Privileged(c)
      BY <2>15 DEF nc_update_node_time, Privileged
    <3>. QED BY <3>1, <3>2, AnswerFacts, ThreadStep
  <2>16. ASSUME NEW c \in Conn, SendNewData(c) PROVE KnownInv'
    <3>1. \E data : Answer(c, Message("NewDataFromServer", data))
      BY <2>16 DEF SendNewData
    <3>2. UNCHANGED <<conn, all_nodes>> /\ Privileged(c)
      BY <2>16 DEF SendNewData, Privileged
    <3>. QED BY <3>1, <3>2, AnswerFacts, ThreadStep DEF NodesStay, Known
  <2>17. ASSUME NEW c \in Conn, TakeResult(c) PROVE KnownInv'
    <3>1. Answer(c, Message("ResultOK", NoData)) /\ UNCHANGED <<conn, all_nodes>> /\ Privileged(c)
      BY <2>17 DEF TakeResult, Privileged
    <3>. QED BY <3>1, AnswerFacts, ThreadStep DEF NodesStay, Known
  <2>18. ASSUME NEW c \in Conn, nc_send_data(c) PROVE KnownInv'
    <3>1. /\ handler'[c] = "none" /\ reply'[c] = {}
          /\ \A d \in Conn \ {c} : /\ handler'[d] = handler[d]
                                   /\ reply'[d] = reply[d]
                                   /\ conn'[d] = conn[d]
          /\ all_nodes' = all_nodes
      BY <2>18 DEF nc_send_data, TypeOK
    <3>. QED BY <3>1 DEF KnownInv, Privileged, NodeMessage, Known
  <2>19. CASE Wake
    BY <2>19, QuietStep DEF Wake, handlerVars
  <2>20. ASSUME NEW n \in Node, CheckNode(n) PROVE KnownInv'
    BY <2>20, QuietStep DEF CheckNode, handlerVars
  <2>21. ASSUME NEW n \in Node, Expire(n) PROVE KnownInv'
    <3>1. \A k \in Node : Known(k) => all_nodes'[k] # "absent"
      BY <2>21 DEF Expire, Known, TypeOK
    <3>2. UNCHANGED <<conn, handler, reply>>
      BY <2>21 DEF Expire, handlerVars
    <3>3. \A d \in Conn : \A m \in NodeMessage(d) : m.node_id \in Node
      BY RequestType DEF NCDecodedMessageFromNode
    <3>. QED BY <3>1, <3>2, <3>3 DEF KnownInv, Privileged, NodeMessage, Known
  <2>22. CASE ClientNext
    <3>1. \A d \in Conn : \/ conn'[d].request = conn[d].request
                          \/ handler[d] = "none" \/ conn[d].request = {}
      <4>1. PICK c \in Conn : \/ ClientConnect(c) \/ ClientSend(c)
                              \/ ClientReceive(c) \/ ClientCrash(c)
        BY <2>22 DEF ClientNext
      <4>2. CASE ClientConnect(c)
        BY <4>2 DEF ClientConnect, TypeOK, NoConnection
      <4>3. CASE ClientSend(c)
        BY <4>3 DEF ClientSend, TypeOK
      <4>4. CASE ClientReceive(c) \/ ClientCrash(c)
        <5>1. conn' = [conn EXCEPT ![c] = CloseClient(conn[c])]
          BY <4>4 DEF ClientReceive, ClientCrash
        <5>2. conn[c].server = "closed" => handler[c] = "none"
          BY DEF JoinInv, ServedConnections
        <5>. QED BY <5>1, <5>2, CloseFacts DEF TypeOK
      <4>. QED BY <4>1, <4>2, <4>3, <4>4
    <3>2. UNCHANGED serverVars
      BY <2>22 DEF ClientNext, ClientConnect, ClientSend, ClientReceive, ClientCrash
    <3>. QED BY <3>1, <3>2, QuietStep DEF serverVars, handlerVars
  <2>23. CASE UNCHANGED vars
    BY <2>23, QuietStep DEF vars, handlerVars
  <2>. QED
    BY <2>1, <2>2, <2>3, <2>4, <2>5, <2>6, <2>7, <2>8, <2>9, <2>10, <2>11, <2>12, <2>13,
       <2>14, <2>15, <2>16, <2>17, <2>18, <2>19, <2>20, <2>21, <2>22, <2>23
    DEF Next, ServerNext, Main, nc_handle_node, nc_check_heartbeat
<1>. QED BY <1>1, <1>2

\* Work goes to, and results come from, registered nodes only
\* (nc_server.cpp:223-246), although the check gives up its lock before the use.
THEOREM OnlyKnownNodes == Spec => []KnownNodesOnly
<1>1. KnownInv => KnownNodesOnly
  BY DEF KnownInv, KnownNodesOnly, Privileged
<1>. QED BY <1>1, TypeInductive, JoinInductive, KnownInductive, PTL DEF Spec
-----------------------------------------------------------------------------
(* The number of threads: every thread that runs is in the queue, and        *)
(* nc_run accepts only while the queue has room.                             *)

QueueInv == /\ Len(client_threads) <= MaxThreads + 1
            /\ main_pc # "joinOldest" => Len(client_threads) <= MaxThreads

LEMMA QueueInductive ==
  /\ Init => QueueInv
  /\ TypeOK /\ SomethingToJoin /\ QueueInv /\ [Next]_vars => QueueInv'
<1>1. Init => QueueInv
  BY MaxThreadsAssumption DEF Init, QueueInv
<1>2. ASSUME TypeOK, SomethingToJoin, QueueInv, [Next]_vars PROVE QueueInv'
  <2>. USE <1>2
  <2>1. client_threads \in Seq(Conn \cup {Ended}) /\ Len(client_threads) \in Nat
    BY DEF TypeOK
  <2>2. MaxThreads \in Nat /\ MaxThreads > 0
    BY MaxThreadsAssumption
  <2>3. ASSUME UNCHANGED client_threads, main_pc' = main_pc \/ main_pc # "joinOldest"
        PROVE  QueueInv'
    BY <2>3 DEF QueueInv
  <2>4. ASSUME NEW c \in Conn, nc_accept(c) PROVE QueueInv'
    <3>1. Len(client_threads') = Len(client_threads) + 1
      BY <2>1, <2>4, AppendProperties DEF nc_accept
    <3>2. Len(client_threads) <= MaxThreads
      BY <2>4 DEF nc_accept, QueueInv
    <3>3. main_pc' = IF Len(client_threads') > MaxThreads THEN "joinOldest" ELSE "loop"
      BY <2>4 DEF nc_accept
    <3>. QED BY <2>1, <2>2, <3>1, <3>2, <3>3 DEF QueueInv
  <2>5. ASSUME JoinOldest \/ JoinClient PROVE QueueInv'
    <3>1. client_threads # << >> /\ client_threads' = Tail(client_threads)
      BY <2>5 DEF JoinOldest, JoinClient, SomethingToJoin
    <3>2. Len(client_threads') = Len(client_threads) - 1
      BY <2>1, <3>1, HeadTailProperties
    <3>. QED BY <2>1, <2>2, <3>2 DEF QueueInv
  <2>6. ASSUME Terminate PROVE QueueInv'
    BY <2>2, <2>6 DEF Terminate, QueueInv
  <2>7. ASSUME NEW c \in Conn, nc_send_data(c) PROVE QueueInv'
    <3>1. client_threads' = Marked(c) /\ main_pc' = main_pc
      BY <2>7 DEF nc_send_data, Marked
    <3>. QED BY <3>1, MarkedType DEF QueueInv
  <2>8. ASSUME Main PROVE QueueInv'
    <3>1. CASE CheckQuit \/ nc_acceptThrows \/ nc_save_data \/ JoinHeartbeat \/ Return
      BY <2>3, <3>1 DEF CheckQuit, nc_acceptThrows, nc_save_data, JoinHeartbeat, Return
    <3>. QED BY <2>4, <2>5, <2>8, <3>1 DEF Main
  <2>9. ASSUME NEW c \in Conn, nc_handle_node(c) PROVE QueueInv'
    <3>1. CASE nc_receive_dataThrows(c) \/ nc_send_dataThrows(c)
      BY <2>6, <3>1 DEF nc_receive_dataThrows, nc_send_dataThrows
    <3>2. CASE UNCHANGED processVars
      BY <2>3, <3>2 DEF processVars
    <3>. QED
      BY <2>7, <2>9, <3>1, <3>2
      DEF nc_handle_node, nc_receive_data, AnswerIfJobDone, Dispatch, nc_register_new_node,
          nc_valid_node_id, nc_update_node_time, SendNewData, TakeResult
  <2>10. ASSUME nc_check_heartbeat \/ (\E n \in Node : Expire(n)) \/ ClientNext \/ UNCHANGED vars
         PROVE  UNCHANGED processVars
    BY <2>10 DEF nc_check_heartbeat, Wake, CheckNode, Expire, vars, serverVars,
                 ClientNext, ClientConnect, ClientSend, ClientReceive, ClientCrash
  <2>. QED BY <2>3, <2>8, <2>9, <2>10 DEF Next, ServerNext, processVars
<1>. QED BY <1>1, <1>2

LEMMA IntervalSize ==
  ASSUME NEW n \in Nat PROVE IsFiniteSet(1 .. n) /\ Cardinality(1 .. n) = n
<1>1. /\ IsFiniteSet(1 .. n)
      /\ Cardinality(1 .. n) = IF 1 > n THEN 0 ELSE n - 1 + 1
  BY FS_Interval
<1>. QED BY <1>1

LEMMA RunningInQueue ==
  ASSUME TypeOK, ServedConnections
  PROVE  Cardinality(Running) \in Nat /\ Cardinality(Running) <= Len(client_threads)
<1>. DEFINE places == {i \in 1 .. Len(client_threads) : client_threads[i] \in Running}
            thread == [i \in places |-> client_threads[i]]
<1>1. Len(client_threads) \in Nat /\ DOMAIN client_threads = 1 .. Len(client_threads)
  BY DEF TypeOK
<1>2. thread \in Surjection(places, Running)
  BY <1>1 DEF ServedConnections, Running, Surjection
<1>3. /\ IsFiniteSet(1 .. Len(client_threads))
      /\ Cardinality(1 .. Len(client_threads)) = Len(client_threads)
  BY <1>1, IntervalSize
<1>4. IsFiniteSet(places) /\ Cardinality(places) <= Len(client_threads)
  BY <1>3, FS_Subset
<1>5. IsFiniteSet(Running) /\ Cardinality(Running) <= Cardinality(places)
  BY <1>2, <1>4, FS_Surjection
<1>. QED BY <1>1, <1>4, <1>5, FS_CardinalityType

\* No more than max_thread_count and one connections are served, and no more
\* threads are kept, at any time (nc_server.cpp:130-142).
THEOREM ThreadsBounded == Spec => []ThreadBound
<1>1. TypeOK /\ JoinInv /\ QueueInv => ThreadBound
  <2>. SUFFICES ASSUME TypeOK, JoinInv, QueueInv PROVE ThreadBound
    OBVIOUS
  <2>1. Cardinality(Running) \in Nat /\ Cardinality(Running) <= Len(client_threads)
    BY RunningInQueue DEF JoinInv
  <2>. QED BY <2>1, MaxThreadsAssumption DEF QueueInv, ThreadBound, TypeOK
<1>. QED BY <1>1, TypeInductive, JoinInductive, QueueInductive, PTL DEF Spec

-----------------------------------------------------------------------------
(* Quitting: quit is set by a thread that found the job done, or by          *)
(* nc_acceptThrows; the rest is the data processor's.                        *)

\* A job that is done stays done, whatever threads still at work bring.
DoneStays ==
  \A p \in ProcessorState : nc_is_job_done(p) =>
    \A n \in Node :
      /\ nc_is_job_done(nc_node_timeout(p, n))
      /\ \A o \in nc_get_new_data(p, n) : nc_is_job_done(o.processor)
      /\ \A d \in Data \cup {NoData} : nc_is_job_done(nc_process_result(p, n, d))

LEMMA QuitInductive ==
  /\ Init => QuitMeansDone
  /\ DoneStays /\ TypeOK /\ QuitMeansDone /\ [Next]_vars => QuitMeansDone'
<1>1. Init => QuitMeansDone
  BY DEF Init, QuitMeansDone
<1>2. ASSUME DoneStays, TypeOK, QuitMeansDone, [Next]_vars PROVE QuitMeansDone'
  <2>. USE <1>2
  <2>1. CASE UNCHANGED <<quit, processor>>
    BY <2>1 DEF QuitMeansDone
  <2>2. ASSUME UNCHANGED quit, nc_is_job_done(processor) => nc_is_job_done(processor')
        PROVE  QuitMeansDone'
    BY <2>2 DEF QuitMeansDone
  <2>3. CASE nc_acceptThrows
    BY <2>3 DEF nc_acceptThrows, QuitMeansDone
  <2>4. ASSUME NEW c \in Conn, AnswerIfJobDone(c) PROVE QuitMeansDone'
    BY <2>4 DEF AnswerIfJobDone, QuitMeansDone
  <2>5. ASSUME NEW c \in Conn, SendNewData(c) PROVE QuitMeansDone'
    <3>1. PICK m \in NodeMessage(c) : \E o \in nc_get_new_data(processor, m.node_id) :
                                         processor' = o.processor
      BY <2>5 DEF SendNewData
    <3>2. m.node_id \in Node
      BY RequestType DEF NCDecodedMessageFromNode
    <3>. QED BY <2>2, <2>5, <3>1, <3>2 DEF SendNewData, DoneStays, TypeOK
  <2>6. ASSUME NEW c \in Conn, TakeResult(c) PROVE QuitMeansDone'
    <3>1. PICK m \in NodeMessage(c) : processor' = nc_process_result(processor, m.node_id, m.data)
      BY <2>6 DEF TakeResult
    <3>2. m.node_id \in Node /\ m.data \in Data \cup {NoData}
      BY RequestType DEF NCDecodedMessageFromNode
    <3>. QED BY <2>2, <2>6, <3>1, <3>2 DEF TakeResult, DoneStays, TypeOK
  <2>7. ASSUME NEW n \in Node, CheckNode(n) PROVE QuitMeansDone'
    BY <2>2, <2>7 DEF CheckNode, DoneStays, TypeOK
  <2>8. ASSUME NEW c \in Conn, nc_handle_node(c) PROVE QuitMeansDone'
    <3>1. nc_receive_data(c) \/ nc_receive_dataThrows(c) \/ nc_send_data(c) \/ nc_send_dataThrows(c)
            => QuitMeansDone'
      BY <2>1 DEF nc_receive_data, nc_receive_dataThrows, nc_send_data, nc_send_dataThrows, Terminate
    <3>2. \/ Dispatch(c) \/ nc_register_new_node(c) \/ nc_valid_node_id(c) \/ nc_update_node_time(c)
            => QuitMeansDone'
      BY <2>1 DEF Dispatch, nc_register_new_node, nc_valid_node_id, nc_update_node_time
    <3>. QED BY <2>4, <2>5, <2>6, <2>8, <3>1, <3>2 DEF nc_handle_node
  <2>9. CASE Main
    BY <2>1, <2>3, <2>9
    DEF Main, CheckQuit, nc_accept, JoinOldest, nc_save_data, JoinHeartbeat, JoinClient, Return
  <2>10. CASE Wake \/ (\E n \in Node : Expire(n)) \/ ClientNext \/ UNCHANGED vars
    BY <2>1, <2>10 DEF Wake, Expire, vars, serverVars,
                       ClientNext, ClientConnect, ClientSend, ClientReceive, ClientCrash
  <2>. QED BY <2>7, <2>8, <2>9, <2>10 DEF Next, ServerNext, nc_check_heartbeat
<1>. QED BY <1>1, <1>2

\* The server gives up only a job that is done (nc_server.cpp:211-218), if the
\* user's processor never takes a finished job back.
THEOREM QuitsWhenDone == ASSUME DoneStays PROVE Spec => []QuitMeansDone
<1>1. TypeOK /\ QuitMeansDone /\ [Next]_vars => QuitMeansDone'
  BY DoneStays, QuitInductive
<1>. QED BY <1>1, TypeInductive, QuitInductive, PTL DEF Spec
=============================================================================
