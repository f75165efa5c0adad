------------------------------ MODULE NCNodeEnv ------------------------------
(***************************************************************************)
(* The nodes against the contract of the server: every request gets one of *)
(* the answers nc_handle_node has for it, or the server is gone.  NCServer *)
(* is far larger; NCSystem shows that it keeps this contract.  The server  *)
(* may be started again, any number of times; it then knows none of the    *)
(* nodes, because it writes down its result only.                          *)
(***************************************************************************)
EXTENDS NCNode

VARIABLES listening,   \* the server process exists and accepts connections
          known        \* the nodes registered with this process, the keys of all_nodes

serverState == <<listening, known>>
vars == <<nodeVars, serverState>>

Init == /\ NodeInit
        /\ conn = [c \in Conn |-> NoConnection]
        /\ listening = TRUE
        /\ known = {}

\* The answers nc_handle_node has for a request.  A node that is registered may
\* be told that it is not: an earlier request of its own may register it between
\* the check and the answer.
AnswersTo(m) ==
  LET ok == CASE m.msg_type = "Init" -> "InitOK"
              [] m.msg_type = "Heartbeat" -> "HeartbeatOK"
              [] m.msg_type = "NodeNeedsMoreData" -> "NewDataFromServer"
              [] m.msg_type = "NewResultFromNode" -> "ResultOK"
              [] OTHER -> "UnknownError"
      refusal == IF m.msg_type \in {"Init", "Undefined"} THEN {"Quit"} ELSE {"Quit", "InvalidNodeID"}
  IN  {[msg_type |-> type, data |-> NoData] : type \in refusal}
      \cup {[msg_type |-> ok, data |-> d] :
              d \in IF m.node_id \notin known /\ ok # "UnknownError" THEN {}
                    ELSE IF ok = "NewDataFromServer" THEN Data ELSE {NoData}}

ServerAccepts(c) ==
  /\ conn[c].server = "queued"
  /\ conn' = [conn EXCEPT ![c].server = "open"]
  /\ UNCHANGED <<nodeState, serverState>>

\* Mutant of the next definition: whoever asks is registered.
ServerRegistersAnyone(c) ==
  /\ conn[c].server = "open"
  /\ \E m \in conn[c].request : known' = known \cup {m.node_id}
  /\ UNCHANGED <<nodeVars, listening>>

ServerRegisters(c) ==
  /\ conn[c].server = "open"
  /\ \E m \in conn[c].request : /\ m.msg_type = "Init"
                                 /\ known' = known \cup {m.node_id}
  /\ UNCHANGED <<nodeVars, listening>>

ServerAnswers(c) ==
  /\ conn[c].server = "open"
  /\ \E m \in conn[c].request : \E a \in AnswersTo(m) :
       conn' = [conn EXCEPT ![c] =
                  CloseServer(IF @.client = "open" THEN [@ EXCEPT !.answer = {a}] ELSE @)]
  /\ UNCHANGED <<nodeState, serverState>>

\* nc_run returns, or the process dies on an exception nobody catches.
ServerEnds ==
  /\ listening
  /\ listening' = FALSE
  /\ conn' = CloseAll(conn)
  /\ UNCHANGED <<nodeState, known>>

\* A new server object has an empty all_nodes.
ServerRestarts ==
  /\ ~listening
  /\ listening' = TRUE
  /\ known' = {}
  /\ UNCHANGED nodeVars

\* The thread serving c reads from a connection that was closed before the
\* request was sent: nothing catches the exception.
ServerDiesReading(c) ==
  /\ conn[c].server = "open" /\ conn[c].client = "closed" /\ conn[c].request = {}
  /\ ServerEnds

MainThread(n) == /\ nc_run(n) \/ nc_send_msg_return_answer(n, "main", listening)
                 /\ UNCHANGED serverState
BeatThread(n) == /\ nc_send_heartbeat(n) \/ nc_send_msg_return_answer(n, "beat", listening)
                 /\ UNCHANGED serverState
NodeFault(n) == /\ Crash(n) \/ \E t \in Thread : ConnectionBreaks(n, t)
                /\ UNCHANGED serverState

Next ==
  \/ \E n \in Node : MainThread(n) \/ BeatThread(n) \/ NodeFault(n)
  \/ \E c \in Conn : ServerAccepts(c) \/ ServerRegisters(c) \/ ServerAnswers(c)
  \/ ServerEnds \/ ServerRestarts

Spec == Init /\ [][Next]_vars

\* Threads run; the two threads of a node take turns with node_mutex, because
\* the heartbeat thread sleeps and nc_run computes between two exchanges; the
\* server answers.
Fairness ==
  /\ \A n \in Node : SF_vars(MainThread(n)) /\ SF_vars(BeatThread(n))
  /\ \A c \in Conn : WF_vars(ServerAccepts(c)) /\ WF_vars(ServerAnswers(c))
                     /\ WF_vars(ServerDiesReading(c))

FairSpec == Spec /\ Fairness

-----------------------------------------------------------------------------
(* Properties *)

TypeOK ==
  /\ conn \in [Conn -> Connection]
  /\ node_quit \in [Node -> BOOLEAN]
  /\ node_mutex \in [Node -> Thread \cup {"free"}]
  /\ thread_pc \in [Node -> [Thread -> ThreadPC]]
  /\ run_state \in [Node -> NCRunState]
  /\ error_counter \in [Node -> [Thread -> 0 .. ErrorMod - 1]]
  /\ socket \in [Node -> [Thread -> Optional(Conn)]]
  /\ result \in [Node -> [Thread -> Optional(NCDecodedMessageFromServer)]]
  /\ new_data \in [Node -> Data \cup {NoData}]
  /\ listening \in BOOLEAN
  /\ known \in SUBSET Node

\* node_mutex is held through the whole exchange, so the two threads of a node
\* never have a connection each, and an exception in the middle of an exchange
\* neither keeps the mutex nor leaks the socket.
OneExchangePerNode ==
  \A n \in Node : \A t \in Thread :
    /\ socket[n][t] # {} <=> node_mutex[n] = t
    /\ socket[n][t] # {} <=> thread_pc[n][t] \in {"send", "receive"}

\* The connections open on the nodes' side are exactly the threads' sockets,
\* and no two threads share one.
SocketsMatchConnections ==
  /\ \A c \in Conn : conn[c].client = "open"
                     <=> \E n \in Node : \E t \in Thread : c \in socket[n][t]
  /\ \A n, m \in Node : \A t, s \in Thread :
       socket[n][t] \cap socket[m][s] # {} => n = m /\ t = s

\* A computed result stays as it is, and is sent again after every error, until
\* the server has acknowledged it.
ResultKeptUntilAcknowledged ==
  [][\A n \in Node :
       run_state[n] = "HasData" /\ <<run_state[n], new_data[n]>>' # <<run_state[n], new_data[n]>>
       => /\ \E r \in result[n]["main"] : r.msg_type = "ResultOK"
          /\ run_state'[n] = "NeedData"
          /\ new_data'[n] = new_data[n]]_vars

\* A node's threads never confuse their answers: nc_run, which is the only one
\* to act on data, has a result to send only after it asked for data.
AnswersMatchRequests ==
  \A n \in Node : \A r \in result[n]["main"] :
    CASE r.msg_type = "InitOK" -> run_state[n] = "Init"
      [] r.msg_type = "NewDataFromServer" -> run_state[n] = "NeedData"
      [] r.msg_type = "ResultOK" -> run_state[n] = "HasData"
      [] OTHER -> r.msg_type # "HeartbeatOK"

\* The error counter of nc_run never passes the limit, so the uint8_t cannot
\* wrap to a value that hides the errors (nc_node.cpp:120).
MainErrorsBounded == \A n \in Node : error_counter[n]["main"] <= MaxErrors

Ended(n) == thread_pc[n]["main"] \in {"ended", "crashed"}

\* When one thread decides to quit, both end: nc_run is not left joining a
\* heartbeat thread that waits for the mutex or for the server.
QuitEndsBothThreads == \A n \in Node : node_quit[n] ~> Ended(n)

\* A node does not outlive its server: errors add up until it gives up, unless
\* the server is started again.
NodeGivesUp == \A n \in Node : <>[]~listening => <>Ended(n)

\* A node that was registered with a server that is started again never registers
\* with the new one (nc_node.cpp:155-191 changes run_state on InitOK,
\* NewDataFromServer and ResultOK only).  It does not hang on for ever either:
\* InvalidNodeID is an error, and errors add up.
OrphansGiveUp ==
  \A n \in Node : listening /\ n \notin known /\ run_state[n] # "Init" ~> Ended(n)
=============================================================================
