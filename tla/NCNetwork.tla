------------------------------ MODULE NCNetwork ------------------------------
(***************************************************************************)
(* What a node and the server share: the messages of nc_message_types.hpp  *)
(* and the TCP connections of nc_network.cpp.  A connection carries one    *)
(* request and one answer, as nc_send_msg_return_answer and nc_handle_node *)
(* use it.                                                                 *)
(*                                                                         *)
(* A message stands for its encoded form: encoding, compression,           *)
(* encryption and framing neither change state nor decide anything here.   *)
(***************************************************************************)
CONSTANTS Node,     \* the node ids
          Conn,     \* connections that can exist at the same time
          Data,     \* what nodes and server exchange about the work
          NoData    \* the empty data of every other message

ASSUME NoDataAssumption == NoData \notin Data

\* "Undefined" is any byte static_cast'ed into the enum that names no enumerator.
NCNodeMessageType == {"Init", "Heartbeat", "NewResultFromNode", "NodeNeedsMoreData", "Undefined"}
NCServerMessageType == {"UnknownError", "HeartbeatOK", "InitOK", "NewDataFromServer",
                        "ResultOK", "InvalidNodeID", "Quit"}

NCDecodedMessageFromNode ==
  [msg_type : NCNodeMessageType, node_id : Node, data : Data \cup {NoData}]
NCDecodedMessageFromServer ==
  [msg_type : NCServerMessageType, data : Data \cup {NoData}]

\* A value that may be absent is a set of at most one element.
Optional(S) == {x \in SUBSET S : \A a, b \in x : a = b}

\* client: the node's socket; server: the server's, "queued" while the kernel
\* holds the connection for an nc_accept to come.
Connection == [client : {"closed", "open"},
               server : {"closed", "queued", "open"},
               request : Optional(NCDecodedMessageFromNode),
               answer : Optional(NCDecodedMessageFromServer)]

NoConnection == [client |-> "closed", server |-> "closed", request |-> {}, answer |-> {}]

\* nc_connect as the kernel completes it: open at once, queued for the server.
Connected == [client |-> "open", server |-> "queued", request |-> {}, answer |-> {}]

\* One side gives up its socket; once both have, the connection is no more.
CloseClient(c) == IF c.server = "closed" THEN NoConnection ELSE [c EXCEPT !.client = "closed"]
CloseServer(c) == IF c.client = "closed" THEN NoConnection ELSE [c EXCEPT !.server = "closed"]

\* The server process ends: its kernel closes every socket, accepted or not.
CloseAll(conn) == [c \in Conn |-> CloseServer(conn[c])]
=============================================================================
