------------------------------ MODULE NCSystem -------------------------------
(***************************************************************************)
(* The whole system: the server of NCServer with the mandel job as its     *)
(* data processor, and the nodes of NCNode, over the connections they      *)
(* share.                                                                  *)
(*                                                                         *)
(* A callback of the data processor is one step here, so what is stated    *)
(* below about its rows and images speaks of behaviours in which callbacks *)
(* do not overlap.  The code does not exclude that they do.  MandelServer  *)
(* takes nc_node_timeout apart, MandelThreads the callbacks of the client  *)
(* threads; they say what is left when callbacks overlap.                  *)
(***************************************************************************)
EXTENDS MandelJob, FiniteSets, Sequences

CONSTANTS Conn, NoData, MaxThreads, MaxErrors, ErrorMod,
          ServerFaults,  \* {"accept"} if nc_accept may throw, or {}
          NodeFaults,    \* the faults of NodeFaultKind that may happen
          MaxFaults,     \* bound: how many of them in one behaviour
          FaultyNodes,   \* bound: the nodes they may happen to
          LateNodes,     \* whether the heartbeats of a live node may come too late
          BeatingNodes   \* bound: the nodes that send heartbeats; those of the
                         \* others are still asleep when the run is over

ASSUME ServerFaultsAssumption == ServerFaults \subseteq {"accept"}
ASSUME MaxFaultsAssumption == MaxFaults \in Nat
ASSUME FaultyNodesAssumption == FaultyNodes \subseteq Node
ASSUME LateNodesAssumption == LateNodes \in BOOLEAN
ASSUME BeatingNodesAssumption == BeatingNodes \subseteq Node

VARIABLES conn,
          quit, all_nodes, processor, saved, main_pc, client_threads,
          handler, reply, heartbeat_pc, unchecked,
          node_quit, node_mutex, thread_pc, run_state, error_counter,
          socket, result, new_data,
          faults,        \* how many faults the nodes have had
          gave_up        \* history: nc_accept threw and so set quit

Srv == INSTANCE NCServer WITH Data <- Payload, ProcessorState <- Processor, Faults <- ServerFaults
Nd == INSTANCE NCNode WITH Data <- Payload

\* What NCServer, NCNode and NCNetwork assume of their parameters.
ASSUME ServerAssumption == MaxThreads \in Nat \ {0} /\ Srv!Ended \notin Conn
ASSUME NodesAssumption == /\ MaxErrors \in Nat \ {0} /\ ErrorMod \in Nat /\ MaxErrors < ErrorMod
                          /\ NodeFaults \subseteq Nd!NodeFaultKind
ASSUME NoDataAssumption == NoData \notin Payload

serverState == <<quit, all_nodes, processor, saved, main_pc, client_threads,
                 handler, reply, heartbeat_pc, unchecked>>
nodeState == <<node_quit, node_mutex, thread_pc, run_state, error_counter,
               socket, result, new_data>>
vars == <<conn, serverState, nodeState, faults, gave_up>>

Init == Srv!Init /\ Nd!NodeInit /\ faults = 0 /\ gave_up = FALSE

Gone(n) == thread_pc[n]["main"] \in {"ended", "crashed"}

-----------------------------------------------------------------------------
Server ==
  /\ \/ Srv!Main \/ Srv!nc_check_heartbeat
     \/ \E c \in Conn : Srv!nc_handle_node(c)
  /\ gave_up' = (gave_up \/ (Srv!nc_acceptThrows /\ ~quit))
  /\ UNCHANGED <<nodeState, faults>>

\* A node falls silent when it is gone, or when its heartbeats are late.
Expire(n) ==
  /\ LateNodes \/ Gone(n)
  /\ Srv!Expire(n)
  /\ UNCHANGED <<nodeState, faults, gave_up>>

NodeThread(n, t) ==
  /\ \/ t = "main" /\ Nd!nc_run(n)
     \/ t = "beat" /\ (n \in BeatingNodes \/ node_quit[n]) /\ Nd!nc_send_heartbeat(n)
     \/ Nd!nc_send_msg_return_answer(n, t, Srv!Listening)
  /\ UNCHANGED <<serverState, faults, gave_up>>

Fault(n) ==
  /\ n \in FaultyNodes
  /\ faults < MaxFaults
  /\ faults' = faults + 1
  /\ Nd!Crash(n) \/ \E t \in Nd!Thread : Nd!ConnectionBreaks(n, t)
  /\ UNCHANGED <<serverState, gave_up>>

Next == \/ Server
        \/ \E n \in Node : \/ Expire(n) \/ Fault(n)
                           \/ \E t \in Nd!Thread : NodeThread(n, t)

Spec == Init /\ [][Next]_vars

\* nc_accept is not assumed to throw.
ByServer(A) == A /\ UNCHANGED <<nodeState, faults, gave_up>>

\* As in NCServer and NCNodeEnv: the kernel's queue passes no connection over
\* for ever.  Between two rounds of nc_check_heartbeat lies a heartbeat_timeout,
\* in which a node that is gone gets older.
Fairness ==
  /\ WF_vars(ByServer(Srv!Main))
  /\ WF_vars(ByServer(Srv!nc_check_heartbeat))
  /\ \A c \in Conn : SF_vars(ByServer(Srv!nc_accept(c))) /\ SF_vars(ByServer(Srv!nc_handle_node(c)))
  /\ \A n \in FaultyNodes : SF_vars(Expire(n))
  /\ \A n \in Node : SF_vars(NodeThread(n, "main"))
  /\ \A n \in BeatingNodes : SF_vars(NodeThread(n, "beat"))

FairSpec == Spec /\ Fairness

-----------------------------------------------------------------------------
(* Properties *)

\* The data processor, called back in single steps.
Job == INSTANCE MandelServer
         WITH saved <- {p.mandel_image : p \in saved},
              timeout <- {}, looked_up <- {}, overlapped <- FALSE
Contract == INSTANCE NCNodeEnv
              WITH Data <- Payload, listening <- Srv!Listening,
                   known <- {n \in Node : Srv!Known(n)}

\* A row that is being processed is in node_map of some node, so that a result or
\* a timeout of that node can move it on; otherwise nobody ever computes it and
\* the job never ends (README.md:97, README.md:100).  On a reliable network, and
\* as long as callbacks do not overlap: MandelServer's RowsKeepOwners says how
\* nc_node_timeout may orphan a row that its node is given meanwhile.
RowsOwned ==
  \A i \in Row : processor.mandel_job[i] = "Processing" =>
                   \E n \in Node : processor.node_map[n] = i

\* A result carries no row index: the server takes it for the row it finds in
\* node_map.  On a reliable network every row that is done holds its own line,
\* although nodes time out, rows move to other nodes and late results arrive,
\* one callback after the other; a timeout that erases the entry in the middle
\* of nc_process_result may put the line in row 0 (MandelServer).
RowsHoldTheirLines ==
  \A i \in Row : processor.mandel_job[i] = "Done" => processor.mandel_image[i] = i

\* What is written to disk is the whole image ("Here the server saves all the
\* result to disk before it exits", README.md:94), unless the server gave
\* up because nc_accept threw: then nc_run saves what there is (nc_server.cpp:131-147).  That the file may
\* also lack part of a line that is being copied is MandelThreads's business.
SavedImageComplete ==
  ~gave_up => \A p \in saved : \A i \in Row : p.mandel_image[i] = i

\* The processor, driven one callback after the other by the server and its
\* nodes, hands out and takes back rows as JobBoard promises, and what is saved
\* is the whole, unless the server gave up because nc_accept threw.
ImplementsJobBoard == Job!Board!Spec

\* The server gives every node the answers NCNodeEnv lets it expect, on the
\* connection of the request, or closes all connections and is gone.
KeepsContract == Contract!Spec

\* A node that ends without having given up on errors ends because the job is
\* done or because the server gave up when nc_accept threw, after which it sends
\* Quit with rows open (nc_server.cpp:131-133, 211): nothing else sends, sees or
\* sets quit too early on the way.
NodesQuitWhenDone ==
  \A n \in Node : node_quit[n] /\ (\A t \in Nd!Thread : error_counter[n][t] < MaxErrors)
                  => nc_is_job_done(processor) \/ gave_up

\* The crash of a node leaves the server running ("If one of the nodes crashes
\* the server and all other nodes can still continue with their work",
\* README.md:38).
ServerSurvives == main_pc # "terminated"

\* When the job is done, the server quits and saves the result ("If this method
\* returns true, the server sends a quit message to the nodes, saves all the
\* data and exits afterwards", README.md:91).
QuitLeadsToSave == quit ~> saved # {}

\* As long as a node is left and the server is not killed by a node's crash,
\* every row gets done, even when a node crashes with a row in its hands.
JobGetsDone ==
  <>(nc_is_job_done(processor) \/ main_pc = "terminated" \/ \A n \in Node : Gone(n))
=============================================================================
