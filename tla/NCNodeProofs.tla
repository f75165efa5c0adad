----------------------------- MODULE NCNodeProofs -----------------------------
(***************************************************************************)
(* The nodes of NCNodeEnv, for any set of nodes and connections, any error *)
(* limit and any nc_process_data.                                          *)
(***************************************************************************)
EXTENDS NCNodeEnv, NCNetworkProofs

\* The steps there are.
LEMMA Steps ==
  ASSUME Next
  PROVE  \/ UNCHANGED serverState /\ \E n \in Node, t \in Thread :
              \/ \E c \in Conn : nc_connect(n, t, c)
              \/ nc_connectThrows(n, t)
              \/ nc_send_data(n, t)
              \/ nc_receive_data(n, t)
              \/ ExchangeThrows(n, t)
         \/ UNCHANGED serverState /\ \E n \in Node :
              \/ MainLoop(n) \/ HandleAnswer(n) \/ JoinHeartbeat(n)
              \/ BeatLoop(n) \/ HandleBeatAnswer(n) \/ Crash(n)
         \/ \E c \in Conn : ServerAccepts(c) \/ ServerRegisters(c) \/ ServerAnswers(c)
         \/ ServerEnds
         \/ ServerRestarts
<1>1. CASE \E n \in Node : MainThread(n) \/ BeatThread(n) \/ NodeFault(n)
  BY <1>1 DEF MainThread, BeatThread, NodeFault, Thread, nc_run, nc_send_heartbeat,
              nc_send_msg_return_answer, ServerHungUp, ConnectionBreaks
<1>. QED BY <1>1 DEF Next

-----------------------------------------------------------------------------
(* Types *)

LEMMA CountType ==
  ASSUME TypeOK, NEW n \in Node, NEW t \in Thread, CountError(n, t)
  PROVE  error_counter' \in [Node -> [Thread -> 0 .. ErrorMod - 1]]
<1>1. error_counter[n][t] \in Nat
  BY DEF TypeOK
<1>2. (error_counter[n][t] + 1) % ErrorMod \in 0 .. ErrorMod - 1
  BY <1>1, ErrorsAssumption
<1>. QED BY <1>2 DEF TypeOK, CountError

LEMMA GotoType ==
  ASSUME TypeOK, NEW n \in Node, NEW t \in Thread, NEW pc \in ThreadPC, Goto(n, t, pc)
  PROVE  thread_pc' \in [Node -> [Thread -> ThreadPC]]
BY DEF TypeOK, Goto

LEMMA HangupTypes ==
  ASSUME TypeOK, NEW n \in Node, NEW t \in Thread, Hangup(n, t)
  PROVE  /\ conn' \in [Conn -> Connection]
         /\ socket' \in [Node -> [Thread -> Optional(Conn)]]
         /\ node_mutex' \in [Node -> Thread \cup {"free"}]
<1>1. {} \in Optional(Conn)
  BY DEF Optional
<1>2. conn' \in [Conn -> Connection]
  <2>1. PICK c \in socket[n][t] : conn' = [conn EXCEPT ![c] = CloseClient(@)]
    BY DEF Hangup
  <2>2. c \in Conn
    BY DEF TypeOK, Optional
  <2>. QED BY <2>1, <2>2, ConnectionTypes DEF TypeOK
<1>. QED BY <1>1, <1>2 DEF TypeOK, Hangup

\* The data of an answer with work is work.
WorkOnly(answers) == \A a \in answers : a.msg_type = "NewDataFromServer" => a.data \in Data
WorkInv == /\ \A c \in Conn : WorkOnly(conn[c].answer)
           /\ \A n \in Node : \A t \in Thread : WorkOnly(result[n][t])

LEMMA AnswerTypes ==
  ASSUME NEW m \in NCDecodedMessageFromNode, NEW a \in AnswersTo(m)
  PROVE  a \in NCDecodedMessageFromServer /\ WorkOnly({a})
<1>. DEFINE ok == CASE m.msg_type = "Init" -> "InitOK"
                    [] m.msg_type = "Heartbeat" -> "HeartbeatOK"
                    [] m.msg_type = "NodeNeedsMoreData" -> "NewDataFromServer"
                    [] m.msg_type = "NewResultFromNode" -> "ResultOK"
                    [] OTHER -> "UnknownError"
<1>1. ok \in {"InitOK", "HeartbeatOK", "NewDataFromServer", "ResultOK", "UnknownError"}
  OBVIOUS
<1>2. \/ \E type \in {"Quit", "InvalidNodeID"} : a = [msg_type |-> type, data |-> NoData]
      \/ \E d \in IF ok = "NewDataFromServer" THEN Data ELSE {NoData} :
           a = [msg_type |-> ok, data |-> d]
  BY DEF AnswersTo
<1>. HIDE DEF ok
<1>. QED BY <1>1, <1>2 DEF NCDecodedMessageFromServer, NCServerMessageType, WorkOnly

LEMMA RequestTypes ==
  ASSUME TypeOK, NEW n \in Node, NEW t \in Thread
  PROVE  RequestMessage(n, t) \in NCDecodedMessageFromNode
<1>1. run_state[n] \in {"Init", "NeedData", "HasData"} /\ new_data[n] \in Data \cup {NoData}
  BY DEF TypeOK, NCRunState
<1>. QED BY <1>1 DEF RequestMessage, NCDecodedMessageFromNode, NCNodeMessageType, Thread

\* The actions in the order of NCNode and NCNodeEnv; each changes a few variables.
\* A thread that has read its answer has none.
LEMMA AnswerRead ==
  ASSUME TypeOK, WorkInv, NEW n \in Node, NEW t \in Thread,
         result' = [result EXCEPT ![n][t] = {}]
  PROVE  /\ result' \in [Node -> [Thread -> Optional(NCDecodedMessageFromServer)]]
         /\ \A m \in Node : \A s \in Thread : WorkOnly(result'[m][s])
<1>1. {} \in Optional(NCDecodedMessageFromServer)
  BY DEF Optional
<1>2. result' \in [Node -> [Thread -> Optional(NCDecodedMessageFromServer)]]
  BY <1>1 DEF TypeOK
<1>3. ASSUME NEW m \in Node, NEW s \in Thread PROVE WorkOnly(result'[m][s])
  <2>1. result'[m][s] = result[m][s] \/ result'[m][s] = {}
    BY DEF TypeOK
  <2>. QED BY <2>1 DEF WorkInv, WorkOnly
<1>. QED BY <1>2, <1>3

LEMMA TypeInductive ==
  /\ Init => TypeOK /\ WorkInv
  /\ TypeOK /\ WorkInv /\ [Next]_vars => TypeOK' /\ WorkInv'
<1>1. Init => TypeOK /\ WorkInv
  <2>1. {} \in Optional(Conn) /\ {} \in Optional(NCDecodedMessageFromServer)
    BY DEF Optional
  <2>2. 0 \in 0 .. ErrorMod - 1
    BY ErrorsAssumption
  <2>. QED
    BY <2>1, <2>2, ConnectionTypes
    DEF Init, NodeInit, NoConnection, TypeOK, WorkInv, WorkOnly, ThreadPC, NCRunState
<1>2. ASSUME TypeOK, WorkInv, [Next]_vars PROVE TypeOK' /\ WorkInv'
  <2>. USE <1>2
  <2>0. \A pc \in {"loop", "connect", "send", "receive", "handle", "join", "ended"} : pc \in ThreadPC
    BY DEF ThreadPC
  <2>1. ASSUME NEW n \in Node, NEW t \in Thread, NEW c \in Conn, nc_connect(n, t, c),
               UNCHANGED serverState
        PROVE  TypeOK' /\ WorkInv'
    <3>1. {c} \in Optional(Conn) /\ conn' \in [Conn -> Connection]
      BY <2>1, OptionalSingleton, ConnectionTypes DEF nc_connect, TypeOK
    <3>2. thread_pc' \in [Node -> [Thread -> ThreadPC]]
      BY <2>0, <2>1, GotoType DEF nc_connect
    <3>3. WorkInv'
      BY <2>1 DEF nc_connect, WorkInv, WorkOnly, Connected, TypeOK
    <3>. QED BY <2>1, <3>1, <3>2, <3>3 DEF nc_connect, TypeOK, serverState
  <2>2. ASSUME NEW n \in Node, NEW t \in Thread, nc_connectThrows(n, t), UNCHANGED serverState
        PROVE  TypeOK' /\ WorkInv'
    BY <2>0, <2>2, CountType, GotoType DEF nc_connectThrows, TypeOK, WorkInv, serverState
  <2>3. ASSUME NEW n \in Node, NEW t \in Thread, nc_send_data(n, t), UNCHANGED serverState
        PROVE  TypeOK' /\ WorkInv'
    <3>1. PICK c \in socket[n][t] : conn' = [conn EXCEPT ![c].request = {RequestMessage(n, t)}]
      BY <2>3 DEF nc_send_data
    <3>2. c \in Conn /\ conn[c] \in Connection
      BY DEF TypeOK, Optional
    <3>3. conn' = [conn EXCEPT ![c] = [@ EXCEPT !.request = {RequestMessage(n, t)}]]
      BY <3>1
    <3>4. conn' \in [Conn -> Connection]
      BY <3>2, <3>3, RequestTypes, ConnectionUpdates DEF TypeOK
    <3>5. \A d \in Conn : conn'[d].answer = conn[d].answer
      BY <3>1, <3>2 DEF TypeOK, Connection
    <3>6. thread_pc' \in [Node -> [Thread -> ThreadPC]]
      BY <2>0, <2>3, GotoType DEF nc_send_data
    <3>. QED
      BY <2>3, <3>4, <3>5, <3>6 DEF nc_send_data, TypeOK, WorkInv, serverState
  <2>4. ASSUME NEW n \in Node, NEW t \in Thread, Hangup(n, t)
        PROVE  \A d \in Conn : WorkOnly(conn'[d].answer)
    <3>1. PICK c \in socket[n][t] : conn' = [conn EXCEPT ![c] = CloseClient(@)]
      BY <2>4 DEF Hangup
    <3>. QED BY <3>1 DEF TypeOK, Connection, WorkInv, WorkOnly, CloseClient, NoConnection
  <2>5. ASSUME NEW n \in Node, NEW t \in Thread, nc_receive_data(n, t), UNCHANGED serverState
        PROVE  TypeOK' /\ WorkInv'
    <3>1. PICK c \in socket[n][t] : result' = [result EXCEPT ![n][t] = conn[c].answer]
      BY <2>5 DEF nc_receive_data
    <3>2. c \in Conn
      BY DEF TypeOK, Optional
    <3>3. result' \in [Node -> [Thread -> Optional(NCDecodedMessageFromServer)]]
      BY <3>1, <3>2 DEF TypeOK, Connection
    <3>4. \A m \in Node : \A s \in Thread : WorkOnly(result'[m][s])
      BY <3>1, <3>2 DEF TypeOK, WorkInv
    <3>5. thread_pc' \in [Node -> [Thread -> ThreadPC]]
      BY <2>0, <2>5, GotoType DEF nc_receive_data
    <3>. QED
      BY <2>4, <2>5, <3>3, <3>4, <3>5, HangupTypes
      DEF nc_receive_data, TypeOK, WorkInv, serverState
  <2>6. ASSUME NEW n \in Node, NEW t \in Thread, ExchangeThrows(n, t), UNCHANGED serverState
        PROVE  TypeOK' /\ WorkInv'
    BY <2>0, <2>4, <2>6, HangupTypes, CountType, GotoType
    DEF ExchangeThrows, TypeOK, WorkInv, serverState
  <2>7. ASSUME NEW n \in Node, MainLoop(n) \/ JoinHeartbeat(n) \/ BeatLoop(n), UNCHANGED serverState
        PROVE  TypeOK' /\ WorkInv'
    <3>1. \E t \in Thread, pc \in ThreadPC : Goto(n, t, pc)
      BY <2>7, <2>0 DEF MainLoop, JoinHeartbeat, BeatLoop, Thread
    <3>2. thread_pc' \in [Node -> [Thread -> ThreadPC]]
      BY <3>1, GotoType
    <3>. QED
      BY <2>7, <3>2 DEF MainLoop, JoinHeartbeat, BeatLoop, TypeOK, WorkInv, serverState
  <2>8. ASSUME NEW n \in Node, HandleAnswer(n), UNCHANGED serverState
        PROVE  TypeOK' /\ WorkInv'
    <3>1. PICK r \in result[n]["main"] :
            \/ run_state' = [run_state EXCEPT ![n] = "NeedData"]
               /\ UNCHANGED <<node_quit, error_counter, new_data>>
            \/ /\ r.msg_type = "NewDataFromServer"
               /\ new_data' = [new_data EXCEPT ![n] = nc_process_data(r.data)]
               /\ run_state' = [run_state EXCEPT ![n] = "HasData"]
               /\ UNCHANGED <<node_quit, error_counter>>
            \/ node_quit' = [node_quit EXCEPT ![n] = TRUE]
               /\ UNCHANGED <<run_state, error_counter, new_data>>
            \/ CountError(n, "main") /\ UNCHANGED <<node_quit, run_state, new_data>>
      BY <2>8 DEF HandleAnswer
    <3>2. r.msg_type = "NewDataFromServer" => nc_process_data(r.data) \in Data
      BY ProcessDataAssumption DEF WorkInv, WorkOnly, Thread
    <3>3. /\ run_state' \in [Node -> NCRunState] /\ new_data' \in [Node -> Data \cup {NoData}]
          /\ node_quit' \in [Node -> BOOLEAN]
          /\ error_counter' \in [Node -> [Thread -> 0 .. ErrorMod - 1]]
      <4>1. run_state' \in [Node -> NCRunState]
        BY <3>1 DEF TypeOK, NCRunState
      <4>2. new_data' \in [Node -> Data \cup {NoData}]
        <5>1. \/ UNCHANGED new_data
              \/ /\ r.msg_type = "NewDataFromServer"
                 /\ new_data' = [new_data EXCEPT ![n] = nc_process_data(r.data)]
          BY <3>1
        <5>. QED BY <3>2, <5>1 DEF TypeOK
      <4>3. node_quit' \in [Node -> BOOLEAN]
        BY <3>1 DEF TypeOK
      <4>4. error_counter' \in [Node -> [Thread -> 0 .. ErrorMod - 1]]
        <5>1. UNCHANGED error_counter \/ CountError(n, "main")
          BY <3>1
        <5>. QED BY <5>1, CountType DEF TypeOK, Thread
      <4>. QED BY <4>1, <4>2, <4>3, <4>4
    <3>4. thread_pc' \in [Node -> [Thread -> ThreadPC]]
      BY <2>0, <2>8, GotoType DEF HandleAnswer, Thread
    <3>5. /\ result' = [result EXCEPT ![n]["main"] = {}]
          /\ UNCHANGED <<conn, node_mutex, socket, listening, known>>
      BY <2>8 DEF HandleAnswer, serverState
    <3>6. /\ result' \in [Node -> [Thread -> Optional(NCDecodedMessageFromServer)]]
          /\ \A m \in Node : \A s \in Thread : WorkOnly(result'[m][s])
      BY <3>5, AnswerRead DEF Thread
    <3>7. WorkInv'
      BY <3>5, <3>6 DEF WorkInv
    <3>. QED BY <3>3, <3>4, <3>5, <3>6, <3>7 DEF TypeOK
  <2>9. ASSUME NEW n \in Node, HandleBeatAnswer(n), UNCHANGED serverState
        PROVE  TypeOK' /\ WorkInv'
    <3>1. error_counter' \in [Node -> [Thread -> 0 .. ErrorMod - 1]]
      BY <2>9, CountType DEF HandleBeatAnswer, TypeOK, Thread
    <3>2. node_quit' \in [Node -> BOOLEAN]
      BY <2>9 DEF HandleBeatAnswer, TypeOK
    <3>3. thread_pc' \in [Node -> [Thread -> ThreadPC]]
      BY <2>0, <2>9, GotoType DEF HandleBeatAnswer, Thread
    <3>4. /\ result' = [result EXCEPT ![n]["beat"] = {}]
          /\ UNCHANGED <<conn, node_mutex, run_state, socket, new_data, listening, known>>
      BY <2>9 DEF HandleBeatAnswer, serverState
    <3>5. /\ result' \in [Node -> [Thread -> Optional(NCDecodedMessageFromServer)]]
          /\ \A m \in Node : \A s \in Thread : WorkOnly(result'[m][s])
      BY <3>4, AnswerRead DEF Thread
    <3>6. WorkInv'
      BY <3>4, <3>5 DEF WorkInv
    <3>. QED BY <3>1, <3>2, <3>3, <3>4, <3>5, <3>6 DEF TypeOK
  <2>10. ASSUME NEW n \in Node, Crash(n), UNCHANGED serverState
         PROVE  TypeOK' /\ WorkInv'
    <3>1. {} \in Optional(Conn) /\ {} \in Optional(NCDecodedMessageFromServer)
      BY DEF Optional
    <3>2. conn' \in [Conn -> Connection]
      BY <2>10, ConnectionTypes DEF Crash, TypeOK
    <3>3. \A c \in Conn : WorkOnly(conn'[c].answer)
      BY <2>10 DEF Crash, TypeOK, Connection, WorkInv, WorkOnly, CloseClient, NoConnection
    <3>. QED
      BY <2>10, <3>1, <3>2, <3>3 DEF Crash, TypeOK, ThreadPC, WorkInv, WorkOnly, serverState
  <2>11. ASSUME NEW c \in Conn, ServerAccepts(c) PROVE TypeOK' /\ WorkInv'
    <3>1. conn' = [conn EXCEPT ![c] = [@ EXCEPT !.server = "open"]]
      BY <2>11 DEF ServerAccepts
    <3>2. conn' \in [Conn -> Connection]
      BY <3>1, ConnectionUpdates DEF TypeOK
    <3>3. \A d \in Conn : conn'[d].answer = conn[d].answer
      BY <3>1 DEF TypeOK, Connection
    <3>. QED
      BY <2>11, <3>2, <3>3 DEF ServerAccepts, TypeOK, WorkInv, nodeState, serverState
  <2>12. ASSUME NEW c \in Conn, ServerRegisters(c) PROVE TypeOK' /\ WorkInv'
    <3>1. \A m \in conn[c].request : m.node_id \in Node
      BY DEF TypeOK, Connection, Optional, NCDecodedMessageFromNode
    <3>. QED
      BY <2>12, <3>1 DEF ServerRegisters, TypeOK, WorkInv, nodeVars, nodeState
  <2>13. ASSUME NEW c \in Conn, ServerAnswers(c) PROVE TypeOK' /\ WorkInv'
    <3>1. PICK m \in conn[c].request : \E a \in AnswersTo(m) :
            conn' = [conn EXCEPT ![c] =
                       CloseServer(IF @.client = "open" THEN [@ EXCEPT !.answer = {a}] ELSE @)]
      BY <2>13 DEF ServerAnswers
    <3>2. m \in NCDecodedMessageFromNode
      BY DEF TypeOK, Connection, Optional
    <3>3. PICK a \in NCDecodedMessageFromServer :
            /\ WorkOnly({a})
            /\ conn' = [conn EXCEPT ![c] =
                          CloseServer(IF @.client = "open" THEN [@ EXCEPT !.answer = {a}] ELSE @)]
      BY <3>1, <3>2, AnswerTypes
    <3>4. conn' \in [Conn -> Connection]
      BY <3>3, ConnectionTypes, ConnectionUpdates, OptionalSingleton DEF TypeOK
    <3>5. \A d \in Conn : WorkOnly(conn'[d].answer)
      BY <3>3 DEF TypeOK, Connection, WorkInv, WorkOnly, CloseServer, NoConnection
    <3>. QED
      BY <2>13, <3>4, <3>5 DEF ServerAnswers, TypeOK, WorkInv, nodeState, serverState
  <2>14. CASE ServerEnds
    <3>1. \A c \in Conn : WorkOnly(conn'[c].answer)
      BY <2>14 DEF ServerEnds, TypeOK, Connection, CloseAll, CloseServer, NoConnection,
                   WorkInv, WorkOnly
    <3>. QED BY <2>14, <3>1, CloseAllType DEF ServerEnds, TypeOK, WorkInv, nodeState
  <2>15. CASE ServerRestarts
    BY <2>15 DEF ServerRestarts, TypeOK, WorkInv, nodeVars, nodeState
  <2>16. CASE UNCHANGED vars
    BY <2>16 DEF vars, nodeVars, nodeState, serverState, TypeOK, WorkInv
  <2>. QED
    BY <2>1, <2>2, <2>3, <2>5, <2>6, <2>7, <2>8, <2>9, <2>10, <2>11, <2>12, <2>13, <2>14,
       <2>15, <2>16, Steps
<1>. QED BY <1>1, <1>2

\* The state of the nodes and of their connections stays well formed, and every
\* error counter in the range of a uint8_t (NCNode::nc_run, nc_send_heartbeat).
THEOREM TypeCorrect == Spec => []TypeOK
<1>1. Spec => [](TypeOK /\ WorkInv)
  BY TypeInductive, PTL DEF Spec
<1>. QED BY <1>1, PTL

-----------------------------------------------------------------------------
(* One exchange at a time *)

LEMMA ExchangeInductive ==
  /\ Init => OneExchangePerNode
  /\ TypeOK /\ OneExchangePerNode /\ [Next]_vars => OneExchangePerNode'
<1>1. Init => OneExchangePerNode
  BY DEF Init, NodeInit, OneExchangePerNode, Thread
<1>2. ASSUME TypeOK, OneExchangePerNode, [Next]_vars PROVE OneExchangePerNode'
  <2>. USE <1>2 DEF Thread
  <2>1. ASSUME NEW n \in Node, NEW t \in Thread,
               \/ \E c \in Conn : nc_connect(n, t, c)
               \/ nc_connectThrows(n, t)
               \/ nc_send_data(n, t)
        PROVE  OneExchangePerNode'
    <3>1. ASSUME NEW c \in Conn, nc_connect(n, t, c) PROVE OneExchangePerNode'
      <4>1. /\ thread_pc[n][t] = "connect" /\ node_mutex[n] = "free"
            /\ node_mutex' = [node_mutex EXCEPT ![n] = t]
            /\ socket' = [socket EXCEPT ![n][t] = {c}]
            /\ thread_pc' = [thread_pc EXCEPT ![n][t] = "send"]
        BY <3>1 DEF nc_connect, Goto
      <4>2. ASSUME NEW m \in Node, m # n
            PROVE  node_mutex'[m] = node_mutex[m] /\ socket'[m] = socket[m]
                   /\ thread_pc'[m] = thread_pc[m]
        BY <4>1, <4>2 DEF TypeOK
      <4>3. node_mutex'[n] = t
        BY <4>1 DEF TypeOK
      <4>4. socket'[n][t] = {c} /\ thread_pc'[n][t] = "send"
        BY <4>1 DEF TypeOK
      \* The mutex was free, so the other thread has no connection.
      <4>5. ASSUME NEW s \in Thread, s # t
            PROVE  /\ socket'[n][s] = {}
                   /\ thread_pc'[n][s] \notin {"send", "receive"}
        <5>1. socket'[n][s] = socket[n][s] /\ thread_pc'[n][s] = thread_pc[n][s]
          BY <4>1, <4>5 DEF TypeOK
        <5>. QED BY <4>1, <5>1 DEF OneExchangePerNode
      <4>6. ASSUME NEW m \in Node, NEW s \in Thread
            PROVE  /\ socket'[m][s] # {} <=> node_mutex'[m] = s
                   /\ socket'[m][s] # {} <=> thread_pc'[m][s] \in {"send", "receive"}
        <5>1. CASE m # n
          BY <4>2, <5>1 DEF OneExchangePerNode
        <5>2. CASE m = n /\ s = t
          BY <4>3, <4>4, <5>2
        <5>3. CASE m = n /\ s # t
          BY <4>3, <4>5, <5>3
        <5>. QED BY <5>1, <5>2, <5>3
      <4>. QED BY <4>6 DEF OneExchangePerNode
    <3>2. CASE nc_connectThrows(n, t)
      <4>1. /\ Goto(n, t, "loop") /\ thread_pc[n][t] = "connect"
            /\ UNCHANGED <<node_mutex, socket>>
        BY <3>2 DEF nc_connectThrows
      <4>. QED BY <4>1 DEF Goto, TypeOK, OneExchangePerNode
    <3>3. CASE nc_send_data(n, t)
      <4>1. Goto(n, t, "receive") /\ thread_pc[n][t] = "send" /\ UNCHANGED <<node_mutex, socket>>
        BY <3>3 DEF nc_send_data
      <4>. QED BY <4>1 DEF Goto, TypeOK, OneExchangePerNode
    <3>. QED BY <2>1, <3>1, <3>2, <3>3
  \* The thread that hangs up is the one that holds the mutex.
  <2>2. ASSUME NEW n \in Node, NEW t \in Thread, nc_receive_data(n, t) \/ ExchangeThrows(n, t)
        PROVE  OneExchangePerNode'
    <3>1. PICK pc \in {"handle", "loop"} : Goto(n, t, pc)
      BY <2>2 DEF nc_receive_data, ExchangeThrows
    <3>2. /\ socket[n][t] # {}
          /\ node_mutex' = [node_mutex EXCEPT ![n] = "free"]
          /\ socket' = [socket EXCEPT ![n][t] = {}]
          /\ thread_pc' = [thread_pc EXCEPT ![n][t] = pc]
      BY <2>2, <3>1 DEF nc_receive_data, ExchangeThrows, Hangup, Goto
    <3>3. ASSUME NEW m \in Node, m # n
          PROVE  node_mutex'[m] = node_mutex[m] /\ socket'[m] = socket[m]
                 /\ thread_pc'[m] = thread_pc[m]
      BY <3>2, <3>3 DEF TypeOK
    <3>4. node_mutex'[n] = "free" /\ socket'[n][t] = {} /\ thread_pc'[n][t] \in {"handle", "loop"}
      BY <3>2 DEF TypeOK
    <3>5. ASSUME NEW s \in Thread, s # t
          PROVE  socket'[n][s] = {} /\ thread_pc'[n][s] \notin {"send", "receive"}
      <4>1. socket'[n][s] = socket[n][s] /\ thread_pc'[n][s] = thread_pc[n][s]
        BY <3>2, <3>5 DEF TypeOK
      <4>. QED BY <3>2, <3>5, <4>1 DEF OneExchangePerNode
    <3>6. ASSUME NEW m \in Node, NEW s \in Thread
          PROVE  /\ socket'[m][s] # {} <=> node_mutex'[m] = s
                 /\ socket'[m][s] # {} <=> thread_pc'[m][s] \in {"send", "receive"}
      <4>1. CASE m # n
        BY <3>3, <4>1 DEF OneExchangePerNode
      <4>2. CASE m = n /\ s = t
        BY <3>4, <4>2
      <4>3. CASE m = n /\ s # t
        BY <3>4, <3>5, <4>3
      <4>. QED BY <4>1, <4>2, <4>3
    <3>. QED BY <3>6 DEF OneExchangePerNode
  <2>3. ASSUME NEW n \in Node,
               \/ MainLoop(n) \/ HandleAnswer(n) \/ JoinHeartbeat(n)
               \/ BeatLoop(n) \/ HandleBeatAnswer(n)
        PROVE  OneExchangePerNode'
    <3>1. UNCHANGED <<node_mutex, socket>>
      BY <2>3 DEF MainLoop, HandleAnswer, JoinHeartbeat, BeatLoop, HandleBeatAnswer
    <3>2. \E t \in Thread, pc \in {"loop", "connect", "join", "ended"} :
            thread_pc[n][t] \in {"loop", "handle", "join"} /\ Goto(n, t, pc)
      BY <2>3 DEF MainLoop, HandleAnswer, JoinHeartbeat, BeatLoop, HandleBeatAnswer
    <3>. QED BY <3>1, <3>2 DEF Goto, TypeOK, OneExchangePerNode
  <2>4. ASSUME NEW n \in Node, Crash(n) PROVE OneExchangePerNode'
    BY <2>4 DEF Crash, TypeOK, OneExchangePerNode
  <2>5. CASE UNCHANGED nodeState
    BY <2>5 DEF nodeState, OneExchangePerNode
  <2>. QED
    BY <2>1, <2>2, <2>3, <2>4, <2>5, Steps
    DEF vars, nodeVars, ServerAccepts, ServerRegisters, ServerAnswers, ServerEnds, ServerRestarts
<1>. QED BY <1>1, <1>2

\* The two threads of a node never have an exchange each, and an exception in
\* the middle of one gives back mutex and socket (nc_node.cpp:207-214).
THEOREM OneExchange == Spec => []OneExchangePerNode
<1>. QED BY TypeCorrect, ExchangeInductive, PTL DEF Spec

-----------------------------------------------------------------------------
(* Errors of nc_run *)

\* In the body of the loop there is room for one more error.
ErrorsInv ==
  \A n \in Node :
    thread_pc[n]["main"] \in {"connect", "send", "receive", "handle"}
    => error_counter[n]["main"] < MaxErrors

LEMMA MainCounts ==
  ASSUME TypeOK, MainErrorsBounded, ErrorsInv, NEW n \in Node,
         thread_pc[n]["main"] \in {"connect", "send", "receive", "handle"},
         CountError(n, "main"), Goto(n, "main", "loop")
  PROVE  MainErrorsBounded' /\ ErrorsInv'
<1>1. error_counter[n]["main"] \in Nat /\ error_counter[n]["main"] < MaxErrors
  BY DEF TypeOK, ErrorsInv, Thread
<1>2. (error_counter[n]["main"] + 1) % ErrorMod = error_counter[n]["main"] + 1
  BY <1>1, ErrorsAssumption
<1>3. \A m \in Node : error_counter'[m]["main"] = IF m = n THEN error_counter[n]["main"] + 1
                                                  ELSE error_counter[m]["main"]
  BY <1>2 DEF CountError, TypeOK, Thread
<1>4. \A m \in Node : thread_pc'[m]["main"] = IF m = n THEN "loop" ELSE thread_pc[m]["main"]
  BY DEF Goto, TypeOK, Thread
<1>. QED BY <1>1, <1>3, <1>4, ErrorsAssumption DEF MainErrorsBounded, ErrorsInv

LEMMA ErrorsInductive ==
  /\ Init => MainErrorsBounded /\ ErrorsInv
  /\ TypeOK /\ MainErrorsBounded /\ ErrorsInv /\ [Next]_vars => MainErrorsBounded' /\ ErrorsInv'
<1>1. Init => MainErrorsBounded /\ ErrorsInv
  BY ErrorsAssumption DEF Init, NodeInit, MainErrorsBounded, ErrorsInv, Thread
<1>2. ASSUME TypeOK, MainErrorsBounded, ErrorsInv, [Next]_vars PROVE MainErrorsBounded' /\ ErrorsInv'
  <2>. USE <1>2
  \* What the heartbeat thread does leaves the counter and the place of nc_run alone.
  <2>1. ASSUME \A n \in Node : /\ error_counter'[n]["main"] = error_counter[n]["main"]
                               /\ thread_pc'[n]["main"] = thread_pc[n]["main"]
        PROVE  MainErrorsBounded' /\ ErrorsInv'
    BY <2>1 DEF MainErrorsBounded, ErrorsInv
  <2>2. ASSUME NEW n \in Node, CountError(n, "beat") \/ UNCHANGED error_counter, 
               NEW pc \in ThreadPC, Goto(n, "beat", pc)
        PROVE  MainErrorsBounded' /\ ErrorsInv'
    BY <2>1, <2>2 DEF CountError, Goto, TypeOK, Thread
  <2>3. ASSUME NEW n \in Node, UNCHANGED error_counter,
               NEW pc \in ThreadPC, Goto(n, "main", pc),
               \/ thread_pc[n]["main"] \in {"connect", "send", "receive", "handle"}
               \/ pc \in {"join", "ended"}
               \/ pc = "connect" /\ ~TooManyErrors(n, "main")
        PROVE  MainErrorsBounded' /\ ErrorsInv'
    <3>1. \A m \in Node : thread_pc'[m]["main"] = IF m = n THEN pc ELSE thread_pc[m]["main"]
      BY <2>3 DEF Goto, TypeOK, Thread
    <3>2. error_counter[n]["main"] \in Nat /\ MaxErrors \in Nat
      BY ErrorsAssumption DEF TypeOK, Thread
    <3>. QED BY <2>3, <3>1, <3>2 DEF TooManyErrors, MainErrorsBounded, ErrorsInv
  <2>4. ASSUME NEW n \in Node, NEW t \in Thread,
               \/ \E c \in Conn : nc_connect(n, t, c)
               \/ nc_send_data(n, t) \/ nc_receive_data(n, t)
        PROVE  MainErrorsBounded' /\ ErrorsInv'
    <3>1. /\ \E pc \in ThreadPC : Goto(n, t, pc)
          /\ thread_pc[n][t] \in {"connect", "send", "receive"}
          /\ UNCHANGED error_counter
      BY <2>4 DEF nc_connect, nc_send_data, nc_receive_data, ThreadPC
    <3>. QED BY <2>2, <2>3, <3>1 DEF Thread
  <2>5. ASSUME NEW n \in Node, NEW t \in Thread, nc_connectThrows(n, t) \/ ExchangeThrows(n, t)
        PROVE  MainErrorsBounded' /\ ErrorsInv'
    <3>1. /\ CountError(n, t) /\ Goto(n, t, "loop") /\ "loop" \in ThreadPC
          /\ thread_pc[n][t] \in {"connect", "send", "receive"}
      BY <2>5 DEF nc_connectThrows, ExchangeThrows, ThreadPC
    <3>. QED BY <2>2, <3>1, MainCounts DEF Thread
  <2>6. ASSUME NEW n \in Node, MainLoop(n) \/ JoinHeartbeat(n) PROVE MainErrorsBounded' /\ ErrorsInv'
    BY <2>3, <2>6 DEF MainLoop, JoinHeartbeat, ThreadPC
  <2>7. ASSUME NEW n \in Node, HandleAnswer(n) PROVE MainErrorsBounded' /\ ErrorsInv'
    <3>1. /\ CountError(n, "main") \/ UNCHANGED error_counter
          /\ Goto(n, "main", "loop") /\ "loop" \in ThreadPC
          /\ thread_pc[n]["main"] = "handle"
      BY <2>7 DEF HandleAnswer, ThreadPC
    <3>. QED BY <2>3, <3>1, MainCounts
  <2>8. ASSUME NEW n \in Node, BeatLoop(n) \/ HandleBeatAnswer(n)
        PROVE  MainErrorsBounded' /\ ErrorsInv'
    <3>1. /\ \E pc \in ThreadPC : Goto(n, "beat", pc)
          /\ CountError(n, "beat") \/ UNCHANGED error_counter
      BY <2>8 DEF BeatLoop, HandleBeatAnswer, ThreadPC
    <3>. QED BY <2>2, <3>1
  <2>9. ASSUME NEW n \in Node, Crash(n) PROVE MainErrorsBounded' /\ ErrorsInv'
    BY <2>9 DEF Crash, TypeOK, Thread, MainErrorsBounded, ErrorsInv
  <2>10. CASE UNCHANGED nodeState
    BY <2>10 DEF nodeState, MainErrorsBounded, ErrorsInv
  <2>. QED
    BY <2>4, <2>5, <2>6, <2>7, <2>8, <2>9, <2>10, Steps
    DEF vars, nodeVars, ServerAccepts, ServerRegisters, ServerAnswers, ServerEnds, ServerRestarts
<1>. QED BY <1>1, <1>2

\* The error counter of nc_run never passes max_error_count and so never wraps
\* to a value that hides the errors (nc_node.cpp:120).
THEOREM ErrorsBounded == Spec => []MainErrorsBounded
<1>1. Spec => [](MainErrorsBounded /\ ErrorsInv)
  BY TypeCorrect, ErrorsInductive, PTL DEF Spec
<1>. QED BY <1>1, PTL

-----------------------------------------------------------------------------
(* Sockets and connections *)

\* A server step, or an outage, leaves the nodes' sockets and their ends of the
\* connections alone; what it says of a connection is an answer or nothing.
\* Closing the server's side of a connection invents no message.
LEMMA ServerCloses ==
  ASSUME NEW k \in Connection
  PROVE  /\ CloseServer(k).client = k.client
         /\ CloseServer(k).request = k.request \/ CloseServer(k).request = {}
         /\ CloseServer(k).answer = k.answer \/ CloseServer(k).answer = {}
<1>1. CASE k.client = "closed"
  BY <1>1 DEF CloseServer, NoConnection
<1>2. CASE k.client # "closed"
  BY <1>2 DEF CloseServer, Connection
<1>. QED BY <1>1, <1>2

LEMMA ServerSteps ==
  ASSUME TypeOK,
         \/ \E c \in Conn : ServerAccepts(c) \/ ServerRegisters(c) \/ ServerAnswers(c)
         \/ ServerEnds \/ ServerRestarts \/ UNCHANGED vars
  PROVE  /\ UNCHANGED nodeState
         /\ \A c \in Conn : conn'[c].client = conn[c].client
         /\ \A c \in Conn : conn'[c].request = conn[c].request \/ conn'[c].request = {}
         /\ \A c \in Conn : \/ conn'[c].answer = conn[c].answer
                            \/ conn'[c].answer = {}
                            \/ \E m \in conn[c].request : \E a \in AnswersTo(m) : conn'[c].answer = {a}
<1>. DEFINE Kept(f) == \A c \in Conn :
                /\ f[c].client = conn[c].client
                /\ f[c].request = conn[c].request \/ f[c].request = {}
                /\ \/ f[c].answer = conn[c].answer
                   \/ f[c].answer = {}
                   \/ \E m \in conn[c].request : \E a \in AnswersTo(m) : f[c].answer = {a}
<1>1. ASSUME NEW c \in Conn, ServerAccepts(c) PROVE Kept(conn') /\ UNCHANGED nodeState
  BY <1>1 DEF ServerAccepts, TypeOK, Connection
<1>2. ASSUME NEW c \in Conn, ServerAnswers(c) PROVE Kept(conn') /\ UNCHANGED nodeState
  <2>0. PICK m \in conn[c].request : \E a \in AnswersTo(m) :
          conn' = [conn EXCEPT ![c] =
                     CloseServer(IF @.client = "open" THEN [@ EXCEPT !.answer = {a}] ELSE @)]
    BY <1>2 DEF ServerAnswers
  <2>1. PICK a \in AnswersTo(m) :
          conn' = [conn EXCEPT ![c] =
                     CloseServer(IF @.client = "open" THEN [@ EXCEPT !.answer = {a}] ELSE @)]
    BY <2>0
  <2>2. UNCHANGED nodeState
    BY <1>2 DEF ServerAnswers
  <2>. DEFINE k == IF conn[c].client = "open" THEN [conn[c] EXCEPT !.answer = {a}] ELSE conn[c]
  <2>3. conn' = [conn EXCEPT ![c] = CloseServer(k)]
    BY <2>1 DEF TypeOK
  <2>4. conn[c] \in Connection /\ {a} \in Optional(NCDecodedMessageFromServer)
    <3>1. m \in NCDecodedMessageFromNode
      BY DEF TypeOK, Connection, Optional
    <3>. QED BY <3>1, AnswerTypes, OptionalSingleton DEF TypeOK
  <2>5. /\ k \in Connection /\ k.client = conn[c].client /\ k.request = conn[c].request
        /\ k.answer = conn[c].answer \/ k.answer = {a}
    BY <2>4 DEF Connection
  <2>. HIDE DEF k
  <2>6. ASSUME NEW d \in Conn, d # c PROVE conn'[d] = conn[d]
    BY <2>3, <2>6 DEF TypeOK
  <2>7. conn'[c] = CloseServer(k)
    BY <2>3 DEF TypeOK
  <2>8. /\ conn'[c].client = conn[c].client
        /\ conn'[c].request = conn[c].request \/ conn'[c].request = {}
        /\ conn'[c].answer = conn[c].answer \/ conn'[c].answer = {} \/ conn'[c].answer = {a}
    BY <2>5, <2>7, ServerCloses
  <2>. QED BY <2>2, <2>6, <2>8
<1>3. CASE ServerEnds
  <2>1. conn' = CloseAll(conn) /\ UNCHANGED nodeState
    BY <1>3 DEF ServerEnds
  <2>2. ASSUME NEW d \in Conn PROVE conn'[d] = CloseServer(conn[d]) /\ conn[d] \in Connection
    BY <2>1 DEF CloseAll, TypeOK
  <2>. QED BY <2>1, <2>2, ServerCloses
<1>4. CASE UNCHANGED nodeVars
  BY <1>4 DEF nodeVars
<1>. QED
  BY <1>1, <1>2, <1>3, <1>4 DEF ServerRegisters, ServerRestarts, vars

\* What a thread that hangs up does to sockets and connections.
LEMMA HangupEffect ==
  ASSUME TypeOK, NEW n \in Node, NEW t \in Thread, Hangup(n, t)
  PROVE  \E c \in Conn :
           /\ socket[n][t] = {c}
           /\ conn'[c].client = "closed"
           /\ \A d \in Conn \ {c} : conn'[d] = conn[d]
           /\ socket'[n][t] = {}
           /\ \A m \in Node : \A s \in Thread : <<m, s>> # <<n, t>> => socket'[m][s] = socket[m][s]
<1>1. PICK c \in socket[n][t] : conn' = [conn EXCEPT ![c] = CloseClient(@)]
  BY DEF Hangup
<1>2. c \in Conn /\ socket[n][t] = {c}
  BY DEF TypeOK, Optional
<1>3. conn'[c].client = "closed" /\ \A d \in Conn \ {c} : conn'[d] = conn[d]
  BY <1>1, <1>2 DEF TypeOK, Connection, CloseClient, NoConnection
<1>4. /\ socket'[n][t] = {}
      /\ \A m \in Node : \A s \in Thread : <<m, s>> # <<n, t>> => socket'[m][s] = socket[m][s]
  BY DEF Hangup, TypeOK
<1>. QED BY <1>2, <1>3, <1>4

LEMMA SocketsInductive ==
  /\ Init => SocketsMatchConnections
  /\ TypeOK /\ OneExchangePerNode /\ SocketsMatchConnections /\ [Next]_vars => SocketsMatchConnections'
<1>1. Init => SocketsMatchConnections
  BY DEF Init, NodeInit, NoConnection, SocketsMatchConnections
<1>2. ASSUME TypeOK, OneExchangePerNode, SocketsMatchConnections, [Next]_vars
      PROVE  SocketsMatchConnections'
  <2>. USE <1>2
  <2>1. ASSUME UNCHANGED socket, \A c \in Conn : conn'[c].client = conn[c].client
        PROVE  SocketsMatchConnections'
    BY <2>1 DEF SocketsMatchConnections
  \* The connection is new, so nobody has a socket of it.
  <2>2. ASSUME NEW n \in Node, NEW t \in Thread, NEW c \in Conn, nc_connect(n, t, c)
        PROVE  SocketsMatchConnections'
    <3>1. conn[c].client = "closed" /\ \A m \in Node : \A s \in Thread : c \notin socket[m][s]
      BY <2>2 DEF nc_connect, NoConnection, SocketsMatchConnections
    <3>2. socket[n][t] = {}
      BY <2>2 DEF nc_connect, OneExchangePerNode
    <3>3. conn'[c].client = "open" /\ \A d \in Conn \ {c} : conn'[d] = conn[d]
      BY <2>2 DEF nc_connect, Connected, TypeOK
    <3>4. /\ socket'[n][t] = {c}
          /\ \A m \in Node : \A s \in Thread : <<m, s>> # <<n, t>> => socket'[m][s] = socket[m][s]
      BY <2>2 DEF nc_connect, TypeOK
    <3>. QED BY <3>1, <3>2, <3>3, <3>4 DEF SocketsMatchConnections
  <2>3. ASSUME NEW n \in Node, NEW t \in Thread, Hangup(n, t) PROVE SocketsMatchConnections'
    <3>1. PICK c \in Conn :
            /\ socket[n][t] = {c}
            /\ conn'[c].client = "closed"
            /\ \A d \in Conn \ {c} : conn'[d] = conn[d]
            /\ socket'[n][t] = {}
            /\ \A m \in Node : \A s \in Thread : <<m, s>> # <<n, t>> => socket'[m][s] = socket[m][s]
      BY <2>3, HangupEffect
    <3>. QED BY <3>1 DEF SocketsMatchConnections
  <2>4. ASSUME NEW n \in Node, NEW t \in Thread, nc_send_data(n, t) PROVE SocketsMatchConnections'
    <3>1. UNCHANGED socket /\ \A c \in Conn : conn'[c].client = conn[c].client
      BY <2>4 DEF nc_send_data, TypeOK, Connection
    <3>. QED BY <2>1, <3>1
  <2>5. ASSUME NEW n \in Node, Crash(n) PROVE SocketsMatchConnections'
    <3>1. \A t \in Thread : socket'[n][t] = {}
      BY <2>5 DEF Crash, TypeOK
    <3>2. \A m \in Node \ {n} : socket'[m] = socket[m]
      BY <2>5 DEF Crash, TypeOK
    <3>3. \A c \in Conn : conn'[c].client = IF \E t \in Thread : c \in socket[n][t] THEN "closed"
                                            ELSE conn[c].client
      BY <2>5 DEF Crash, Thread, TypeOK, Connection, CloseClient, NoConnection
    <3>4. ASSUME NEW c \in Conn
          PROVE  conn'[c].client = "open" <=> \E m \in Node : \E t \in Thread : c \in socket'[m][t]
      <4>1. CASE \E t \in Thread : c \in socket[n][t]
        <5>1. \A m \in Node \ {n} : \A t \in Thread : c \notin socket[m][t]
          BY <4>1 DEF SocketsMatchConnections
        <5>. QED BY <3>1, <3>2, <3>3, <4>1, <5>1
      <4>2. CASE ~\E t \in Thread : c \in socket[n][t]
        BY <3>1, <3>2, <3>3, <4>2 DEF SocketsMatchConnections
      <4>. QED BY <4>1, <4>2
    <3>5. \A m, k \in Node : \A t, s \in Thread :
            socket'[m][t] \cap socket'[k][s] # {} => m = k /\ t = s
      BY <3>1, <3>2 DEF SocketsMatchConnections
    <3>. QED BY <3>4, <3>5 DEF SocketsMatchConnections
  <2>6. ASSUME UNCHANGED <<conn, socket>> PROVE SocketsMatchConnections'
    BY <2>1, <2>6
  <2>7. CASE \E n \in Node, t \in Thread : \/ \E c \in Conn : nc_connect(n, t, c)
                                           \/ nc_connectThrows(n, t)
                                           \/ nc_send_data(n, t)
                                           \/ nc_receive_data(n, t)
                                           \/ ExchangeThrows(n, t)
    BY <2>2, <2>3, <2>4, <2>6, <2>7 DEF nc_connectThrows, nc_receive_data, ExchangeThrows
  <2>8. CASE \E n \in Node : \/ MainLoop(n) \/ HandleAnswer(n) \/ JoinHeartbeat(n)
                             \/ BeatLoop(n) \/ HandleBeatAnswer(n) \/ Crash(n)
    BY <2>5, <2>6, <2>8 DEF MainLoop, HandleAnswer, JoinHeartbeat, BeatLoop, HandleBeatAnswer
  <2>9. CASE \/ \E c \in Conn : ServerAccepts(c) \/ ServerRegisters(c) \/ ServerAnswers(c)
             \/ ServerEnds \/ ServerRestarts \/ UNCHANGED vars
    BY <2>1, <2>9, ServerSteps DEF nodeState
  <2>. QED BY <2>7, <2>8, <2>9, Steps
<1>. QED BY <1>1, <1>2

\* The nodes' ends of the open connections are the sockets of their threads, no
\* two of which share one: no exception leaks a socket (nc_node.cpp:207-214).
THEOREM SocketsMatch == Spec => []SocketsMatchConnections
<1>. QED BY TypeCorrect, OneExchange, SocketsInductive, PTL DEF Spec

-----------------------------------------------------------------------------
(* Answers and requests *)

\* The requests nc_run makes in a state, and the answers it may get to them.
RequestFits(m, state) ==
  /\ m.msg_type = "Init" => state = "Init"
  /\ m.msg_type = "NodeNeedsMoreData" => state = "NeedData"
  /\ m.msg_type = "NewResultFromNode" => state = "HasData"
  /\ m.msg_type # "Heartbeat"
AnswerFits(r, state) ==
  /\ r.msg_type = "InitOK" => state = "Init"
  /\ r.msg_type = "NewDataFromServer" => state = "NeedData"
  /\ r.msg_type = "ResultOK" => state = "HasData"
  /\ r.msg_type # "HeartbeatOK"

\* What is under way between nc_run and the server belongs to its state.
AnswersInv == \A n \in Node : \A r \in result[n]["main"] : AnswerFits(r, run_state[n])
ConnectionFits(c, state) == /\ \A m \in conn[c].request : RequestFits(m, state)
                            /\ \A r \in conn[c].answer : AnswerFits(r, state)
ExchangeFits(n) == \A c \in socket[n]["main"] : ConnectionFits(c, run_state[n])
ExchangeInv == \A n \in Node : ExchangeFits(n)

LEMMA AnswersInvSuffices == AnswersInv <=> AnswersMatchRequests
BY DEF AnswersInv, AnswersMatchRequests, AnswerFits

LEMMA AnswersToFit ==
  ASSUME NEW m \in NCDecodedMessageFromNode, NEW a \in AnswersTo(m), NEW state, RequestFits(m, state)
  PROVE  AnswerFits(a, state)
<1>. DEFINE ok == CASE m.msg_type = "Init" -> "InitOK"
                    [] m.msg_type = "Heartbeat" -> "HeartbeatOK"
                    [] m.msg_type = "NodeNeedsMoreData" -> "NewDataFromServer"
                    [] m.msg_type = "NewResultFromNode" -> "ResultOK"
                    [] OTHER -> "UnknownError"
<1>1. /\ ok \in {"InitOK", "NewDataFromServer", "ResultOK", "UnknownError"}
      /\ ok = "InitOK" => state = "Init"
      /\ ok = "NewDataFromServer" => state = "NeedData"
      /\ ok = "ResultOK" => state = "HasData"
  BY DEF RequestFits
<1>2. a.msg_type \in {"Quit", "InvalidNodeID", ok}
  BY DEF AnswersTo
<1>. HIDE DEF ok
<1>. QED BY <1>1, <1>2 DEF AnswerFits

LEMMA AnswersInductive ==
  /\ Init => AnswersInv /\ ExchangeInv
  /\ /\ TypeOK /\ OneExchangePerNode /\ SocketsMatchConnections
     /\ AnswersInv /\ ExchangeInv /\ [Next]_vars
     => AnswersInv' /\ ExchangeInv'
<1>1. Init => AnswersInv /\ ExchangeInv
  BY DEF Init, NodeInit, AnswersInv, ExchangeInv, ExchangeFits, Thread
<1>2. ASSUME TypeOK, OneExchangePerNode, SocketsMatchConnections, AnswersInv, ExchangeInv, [Next]_vars
      PROVE  AnswersInv' /\ ExchangeInv'
  <2>. USE <1>2
  \* A node none of whose own things change.
  <2>1. ASSUME NEW n \in Node,
               socket'[n]["main"] = socket[n]["main"],
               run_state'[n] = run_state[n],
               \A c \in socket[n]["main"] : conn'[c] = conn[c]
        PROVE  ExchangeFits(n)'
    BY <2>1 DEF ExchangeInv, ExchangeFits, ConnectionFits
  <2>2. ASSUME UNCHANGED <<result, run_state>> PROVE AnswersInv'
    BY <2>2 DEF AnswersInv
  <2>3. ASSUME NEW n \in Node, NEW t \in Thread, NEW c \in Conn, nc_connect(n, t, c)
        PROVE  AnswersInv' /\ ExchangeInv'
    <3>1. \A m \in Node : \A s \in Thread : c \notin socket[m][s]
      BY <2>3 DEF nc_connect, NoConnection, SocketsMatchConnections
    <3>2. /\ \A d \in Conn \ {c} : conn'[d] = conn[d]
          /\ conn'[c].request = {} /\ conn'[c].answer = {}
      BY <2>3 DEF nc_connect, Connected, TypeOK
    <3>3. /\ socket'[n][t] = {c}
          /\ \A m \in Node : \A s \in Thread : <<m, s>> # <<n, t>> => socket'[m][s] = socket[m][s]
      BY <2>3 DEF nc_connect, TypeOK
    <3>4. UNCHANGED <<result, run_state>>
      BY <2>3 DEF nc_connect
    <3>5. ASSUME NEW m \in Node PROVE ExchangeFits(m)'
      <4>1. \A d \in socket[m]["main"] : d \in Conn \ {c}
        BY <3>1 DEF TypeOK, Optional, Thread
      <4>2. CASE m = n /\ t = "main"
        BY <3>2, <3>3, <4>2 DEF ExchangeFits, ConnectionFits
      <4>3. CASE ~(m = n /\ t = "main")
        BY <2>1, <3>2, <3>3, <3>4, <4>1, <4>3 DEF Thread
      <4>. QED BY <4>2, <4>3
    <3>. QED BY <2>2, <3>4, <3>5 DEF ExchangeInv
  <2>4. ASSUME NEW n \in Node, NEW t \in Thread, nc_send_data(n, t)
        PROVE  AnswersInv' /\ ExchangeInv'
    <3>1. PICK c \in socket[n][t] : conn' = [conn EXCEPT ![c].request = {RequestMessage(n, t)}]
      BY <2>4 DEF nc_send_data
    <3>2. c \in Conn /\ socket[n][t] = {c}
      BY DEF TypeOK, Optional
    <3>3. /\ \A d \in Conn \ {c} : conn'[d] = conn[d]
          /\ conn'[c].request = {RequestMessage(n, t)} /\ conn'[c].answer = conn[c].answer
      BY <3>1, <3>2 DEF TypeOK, Connection
    <3>4. UNCHANGED <<result, run_state, socket>>
      BY <2>4 DEF nc_send_data
    <3>5. t = "main" => RequestFits(RequestMessage(n, t), run_state[n])
      <4>1. run_state[n] \in {"Init", "NeedData", "HasData"}
        BY DEF TypeOK, NCRunState
      <4>. QED BY <4>1 DEF RequestMessage, RequestFits
    <3>6. ASSUME NEW m \in Node PROVE ExchangeFits(m)'
      <4>1. CASE m = n /\ t = "main"
        BY <3>2, <3>3, <3>4, <3>5, <4>1 DEF ExchangeInv, ExchangeFits, ConnectionFits
      <4>2. CASE ~(m = n /\ t = "main")
        <5>1. c \notin socket[m]["main"]
          BY <3>2, <4>2 DEF SocketsMatchConnections, Thread
        <5>2. \A d \in socket[m]["main"] : d \in Conn
          BY DEF TypeOK, Optional, Thread
        <5>. QED BY <2>1, <3>3, <3>4, <5>1, <5>2
      <4>. QED BY <4>1, <4>2
    <3>. QED BY <2>2, <3>4, <3>6 DEF ExchangeInv
  \* A thread that hangs up takes its exchange with it.
  <2>5. ASSUME NEW n \in Node, NEW t \in Thread, Hangup(n, t), UNCHANGED run_state
        PROVE  ExchangeInv'
    <3>1. PICK c \in Conn :
            /\ socket[n][t] = {c}
            /\ \A d \in Conn \ {c} : conn'[d] = conn[d]
            /\ socket'[n][t] = {}
            /\ \A m \in Node : \A s \in Thread : <<m, s>> # <<n, t>> => socket'[m][s] = socket[m][s]
      BY <2>5, HangupEffect
    <3>2. ASSUME NEW m \in Node PROVE ExchangeFits(m)'
      <4>1. CASE m = n /\ t = "main"
        BY <3>1, <4>1 DEF ExchangeFits
      <4>2. CASE ~(m = n /\ t = "main")
        <5>1. c \notin socket[m]["main"]
          BY <3>1, <4>2 DEF SocketsMatchConnections, Thread
        <5>2. \A d \in socket[m]["main"] : d \in Conn
          BY DEF TypeOK, Optional, Thread
        <5>. QED BY <2>1, <2>5, <3>1, <4>2, <5>1, <5>2 DEF Thread
      <4>. QED BY <4>1, <4>2
    <3>. QED BY <3>2 DEF ExchangeInv
  <2>6. ASSUME NEW n \in Node, NEW t \in Thread, nc_receive_data(n, t)
        PROVE  AnswersInv' /\ ExchangeInv'
    <3>1. PICK c \in socket[n][t] : result' = [result EXCEPT ![n][t] = conn[c].answer]
      BY <2>6 DEF nc_receive_data
    <3>2. \A r \in conn[c].answer : t = "main" => AnswerFits(r, run_state[n])
      BY DEF ExchangeInv, ExchangeFits, ConnectionFits
    <3>3. UNCHANGED run_state /\ Hangup(n, t)
      BY <2>6 DEF nc_receive_data
    <3>. QED BY <2>5, <3>1, <3>2, <3>3 DEF AnswersInv, TypeOK, Thread
  \* nc_run changes its state between two exchanges only.
  <2>7. ASSUME NEW n \in Node, HandleAnswer(n) PROVE AnswersInv' /\ ExchangeInv'
    <3>1. socket[n]["main"] = {}
      BY <2>7 DEF HandleAnswer, OneExchangePerNode, Thread
    <3>2. result'[n]["main"] = {} /\ \A m \in Node \ {n} : result'[m] = result[m]
      BY <2>7 DEF HandleAnswer, TypeOK, Thread
    <3>3. \A m \in Node \ {n} : run_state'[m] = run_state[m]
      BY <2>7 DEF HandleAnswer, TypeOK
    <3>4. UNCHANGED <<conn, socket>>
      BY <2>7 DEF HandleAnswer
    <3>. QED
      BY <3>1, <3>2, <3>3, <3>4 DEF AnswersInv, ExchangeInv, ExchangeFits, ConnectionFits
  <2>8. ASSUME NEW n \in Node, HandleBeatAnswer(n) PROVE AnswersInv' /\ ExchangeInv'
    <3>1. \A m \in Node : result'[m]["main"] = result[m]["main"]
      BY <2>8 DEF HandleBeatAnswer, TypeOK, Thread
    <3>2. UNCHANGED <<conn, socket, run_state>>
      BY <2>8 DEF HandleBeatAnswer
    <3>. QED BY <3>1, <3>2 DEF AnswersInv, ExchangeInv, ExchangeFits, ConnectionFits
  <2>9. ASSUME NEW n \in Node, Crash(n) PROVE AnswersInv' /\ ExchangeInv'
    <3>1. socket'[n]["main"] = {} /\ result'[n]["main"] = {}
      BY <2>9 DEF Crash, TypeOK, Thread
    <3>2. \A m \in Node \ {n} : socket'[m] = socket[m] /\ result'[m] = result[m]
      BY <2>9 DEF Crash, TypeOK
    <3>3. UNCHANGED run_state
      BY <2>9 DEF Crash
    <3>4. ASSUME NEW m \in Node \ {n}, NEW c \in socket[m]["main"] PROVE conn'[c] = conn[c]
      <4>1. c \in Conn /\ c \notin socket[n]["main"] \cup socket[n]["beat"]
        BY DEF TypeOK, Optional, SocketsMatchConnections, Thread
      <4>. QED BY <2>9, <4>1 DEF Crash
    <3>5. \A m \in Node \ {n} : ExchangeFits(m)'
      BY <2>1, <3>2, <3>3, <3>4
    <3>. QED BY <3>1, <3>2, <3>3, <3>5 DEF AnswersInv, ExchangeInv, ExchangeFits
  <2>10. ASSUME UNCHANGED <<conn, socket, result, run_state>> PROVE AnswersInv' /\ ExchangeInv'
    BY <2>10 DEF AnswersInv, ExchangeInv, ExchangeFits, ConnectionFits
  <2>11. CASE \E n \in Node, t \in Thread : \/ \E c \in Conn : nc_connect(n, t, c)
                                            \/ nc_connectThrows(n, t)
                                            \/ nc_send_data(n, t)
                                            \/ nc_receive_data(n, t)
                                            \/ ExchangeThrows(n, t)
    BY <2>2, <2>3, <2>4, <2>5, <2>6, <2>10, <2>11 DEF nc_connectThrows, ExchangeThrows
  <2>12. CASE \E n \in Node : \/ MainLoop(n) \/ HandleAnswer(n) \/ JoinHeartbeat(n)
                              \/ BeatLoop(n) \/ HandleBeatAnswer(n) \/ Crash(n)
    BY <2>7, <2>8, <2>9, <2>10, <2>12 DEF MainLoop, JoinHeartbeat, BeatLoop
  <2>13. CASE \/ \E c \in Conn : ServerAccepts(c) \/ ServerRegisters(c) \/ ServerAnswers(c)
              \/ ServerEnds \/ ServerRestarts \/ UNCHANGED vars
    <3>1. UNCHANGED <<result, run_state, socket>>
      BY <2>13, ServerSteps DEF nodeState
    <3>2. ASSUME NEW n \in Node, NEW c \in socket[n]["main"] PROVE ConnectionFits(c, run_state[n])'
      <4>1. c \in Conn /\ ConnectionFits(c, run_state[n])
        BY DEF TypeOK, Optional, Thread, ExchangeInv, ExchangeFits
      <4>2. \A m \in conn[c].request : m \in NCDecodedMessageFromNode
        BY <4>1 DEF TypeOK, Connection, Optional
      <4>3. /\ conn'[c].request = conn[c].request \/ conn'[c].request = {}
            /\ \/ conn'[c].answer = conn[c].answer
               \/ conn'[c].answer = {}
               \/ \E m \in conn[c].request : \E a \in AnswersTo(m) : conn'[c].answer = {a}
        BY <2>13, <4>1, ServerSteps
      <4>4. \A m \in conn[c].request : \A a \in AnswersTo(m) : AnswerFits(a, run_state[n])
        BY <4>1, <4>2, AnswersToFit DEF ConnectionFits
      <4>. QED BY <3>1, <4>1, <4>3, <4>4 DEF ConnectionFits
    <3>. QED BY <2>2, <3>1, <3>2 DEF ExchangeInv, ExchangeFits
  <2>. QED BY <2>11, <2>12, <2>13, Steps
<1>. QED BY <1>1, <1>2

LEMMA AnswersInvariant == Spec => []AnswersInv
<1>1. Spec => [](AnswersInv /\ ExchangeInv)
  BY TypeCorrect, OneExchange, SocketsMatch, AnswersInductive, PTL DEF Spec
<1>. QED BY <1>1, PTL

\* nc_run never takes an answer for one to another request, whatever the two
\* threads, the network and the server do (nc_node.cpp:155-190).
THEOREM AnswersMatch == Spec => []AnswersMatchRequests
<1>. QED BY AnswersInvariant, AnswersInvSuffices, PTL

\* A result is given up for one reason only, that the server has acknowledged it.
THEOREM ResultKept == Spec => ResultKeptUntilAcknowledged
<1>. DEFINE Kept ==
       \A n \in Node :
         run_state[n] = "HasData" /\ <<run_state[n], new_data[n]>>' # <<run_state[n], new_data[n]>>
         => /\ \E r \in result[n]["main"] : r.msg_type = "ResultOK"
            /\ run_state'[n] = "NeedData"
            /\ new_data'[n] = new_data[n]
<1>1. ASSUME TypeOK, AnswersInv, [Next]_vars PROVE [Kept]_vars
  <2>. USE <1>1
  <2>1. ASSUME NEW n \in Node, HandleAnswer(n) PROVE Kept
    <3>1. ASSUME NEW m \in Node \ {n} PROVE run_state'[m] = run_state[m] /\ new_data'[m] = new_data[m]
      BY <2>1 DEF HandleAnswer, TypeOK
    <3>2. PICK r \in result[n]["main"] :
            \/ r.msg_type = "InitOK"
            \/ r.msg_type = "NewDataFromServer"
            \/ r.msg_type = "ResultOK" /\ run_state' = [run_state EXCEPT ![n] = "NeedData"]
               /\ UNCHANGED new_data
            \/ UNCHANGED <<run_state, new_data>>
      BY <2>1 DEF HandleAnswer
    <3>3. r.msg_type \in {"InitOK", "NewDataFromServer"} => run_state[n] # "HasData"
      BY <3>2 DEF AnswersInv, AnswerFits
    <3>. QED BY <3>1, <3>2, <3>3 DEF TypeOK
  <2>2. CASE UNCHANGED <<run_state, new_data>>
    BY <2>2
  <2>. HIDE DEF Kept
  <2>3. CASE \E n \in Node, t \in Thread : \/ \E c \in Conn : nc_connect(n, t, c)
                                           \/ nc_connectThrows(n, t)
                                           \/ nc_send_data(n, t)
                                           \/ nc_receive_data(n, t)
                                           \/ ExchangeThrows(n, t)
    BY <2>2, <2>3 DEF nc_connect, nc_connectThrows, nc_send_data, nc_receive_data, ExchangeThrows
  <2>4. CASE \E n \in Node : \/ MainLoop(n) \/ HandleAnswer(n) \/ JoinHeartbeat(n)
                             \/ BeatLoop(n) \/ HandleBeatAnswer(n) \/ Crash(n)
    BY <2>1, <2>2, <2>4 DEF MainLoop, JoinHeartbeat, BeatLoop, HandleBeatAnswer, Crash
  <2>5. CASE \/ \E c \in Conn : ServerAccepts(c) \/ ServerRegisters(c) \/ ServerAnswers(c)
             \/ ServerEnds \/ ServerRestarts \/ UNCHANGED vars
    BY <2>2, <2>5, ServerSteps DEF nodeState
  <2>. QED BY <2>3, <2>4, <2>5, Steps
<1>. QED BY <1>1, TypeCorrect, AnswersInvariant, PTL DEF Spec, ResultKeptUntilAcknowledged
=============================================================================
