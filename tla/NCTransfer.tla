----------------------------- MODULE NCTransfer ------------------------------
(***************************************************************************)
(* One message on its way over a TCP connection: it is encoded, written    *)
(* as four bytes of size and the encoded bytes, read back and decoded.     *)
(* The network delivers the bytes in pieces of any length and may stop     *)
(* doing so, with or without an error; the two hosts need not have the     *)
(* same key or byte order.                                                 *)
(***************************************************************************)
EXTENDS NCCodec, FiniteSets

CONSTANTS Key, Nonce,
          ToServer,   \* the messages nodes send, with their ids
          ToNode      \* the messages the server sends

Messages == ToServer \cup ToNode

\* A message of 4 GiB or more is outside the model: the codecs make room for the
\* size cut to uint32_t and copy all the data there, which is undefined.
ASSUME MessageAssumption ==
  /\ ToServer \subseteq [msg_type : Byte, node_id : [1 .. NC_NODEID_LENGTH -> Byte], data : Seq(Byte)]
  /\ ToNode \subseteq [msg_type : Byte, node_id : {<<>>}, data : Seq(Byte)]
  /\ \A m \in Messages : 1 + Len(m.node_id) + Len(m.data) <= UINT32_MAX

VARIABLES sender,     \* [key, endian] of the host that sends
          receiver,   \* [key, endian] of the host that receives
          sent,       \* {} or the message to send
          encoded,    \* its encoded form
          sender_pc,
          wire,       \* the bytes written to the socket so far
          arrived,    \* how many of them are at the receiver's kernel
          link,       \* "up"; "reset": no byte gets through and both hosts are told;
                      \* "silent": no byte gets through and the receiver is not told
          receiver_pc,
          message,    \* what nc_receive_data has returned
          received    \* {} or the decoded message

hostVars == <<sender, receiver>>
senderVars == <<sent, encoded, sender_pc>>
netVars == <<wire, arrived, link>>
receiverVars == <<receiver_pc, message, received>>
vars == <<hostVars, senderVars, netVars, receiverVars>>

SenderPC == {"encode", "header", "body", "done", "threw"}
ReceiverPC == {"header", "body", "decode", "done", "threw"}

Host == [key : Key, endian : Endian]

Init ==
  /\ sender \in Host /\ receiver \in Host
  /\ sent = {} /\ encoded = <<>> /\ sender_pc = "encode"
  /\ wire = <<>> /\ arrived = 0 /\ link = "up"
  /\ receiver_pc = "header" /\ message = <<>> /\ received = {}

-----------------------------------------------------------------------------
(* The sender *)

EncodeMessage ==
  /\ sender_pc = "encode"
  /\ \E m \in Messages : \E nonce \in Nonce :
       /\ sent' = {m}
       /\ LET result == Encode(m, sender.key, nonce, sender.endian)
          IN  \/ result = {} /\ sender_pc' = "threw" /\ UNCHANGED encoded
              \/ encoded' \in result /\ sender_pc' = "header"
  /\ UNCHANGED <<hostVars, netVars, receiverVars>>

\* asio::write of the size
WriteHeader ==
  /\ sender_pc = "header"
  /\ wire' = nc_to_big_endian_bytes(Len(encoded), sender.endian)
  /\ sender_pc' = "body"
  /\ UNCHANGED <<hostVars, sent, encoded, arrived, link, receiverVars>>

\* asio::write of the data; the socket may be closed as soon as it returns
WriteBody ==
  /\ sender_pc = "body"
  /\ wire' = wire \o encoded
  /\ sender_pc' = "done"
  /\ UNCHANGED <<hostVars, sent, encoded, arrived, link, receiverVars>>

\* A sender on a silent link is told when its kernel gives up sending again.
WriteThrows ==
  /\ sender_pc \in {"header", "body"}
  /\ link # "up"
  /\ sender_pc' = "threw"
  /\ UNCHANGED <<hostVars, sent, encoded, netVars, receiverVars>>

-----------------------------------------------------------------------------
(* The network *)

Arrive ==
  /\ link = "up"
  /\ arrived' \in arrived + 1 .. Len(wire)
  /\ UNCHANGED <<hostVars, senderVars, wire, link, receiverVars>>

\* A link that was silent may still be reset, or stay silent for ever.
Break ==
  /\ \/ link = "up" /\ link' \in {"reset", "silent"}
     \/ link = "silent" /\ link' = "reset"
  /\ UNCHANGED <<hostVars, senderVars, wire, arrived, receiverVars>>

-----------------------------------------------------------------------------
(* The receiver *)

\* How many bytes of the connection the two reads of nc_receive_data have
\* consumed when the one at this place returns.
Needed == IF receiver_pc = "header" THEN 4
          ELSE 4 + nc_from_big_endian_bytes(Before(wire, 5), receiver.endian)

\* asio::read goes on until it has all the bytes it was asked for.
ReadHeader ==
  /\ receiver_pc = "header"
  /\ arrived >= Needed
  /\ receiver_pc' = "body"
  /\ UNCHANGED <<hostVars, senderVars, netVars, message, received>>

ReadBody ==
  /\ receiver_pc = "body"
  /\ arrived >= Needed
  /\ message' = SubSeq(wire, 5, Needed)
  /\ receiver_pc' = "decode"
  /\ UNCHANGED <<hostVars, senderVars, netVars, received>>

\* Mutant of the next definition: the end of the file goes unnoticed.
ReadIgnoresEnd ==
  /\ receiver_pc \in {"header", "body"}
  /\ arrived < Needed
  /\ link = "reset"
  /\ receiver_pc' = "threw"
  /\ UNCHANGED <<hostVars, senderVars, netVars, message, received>>

\* An error, or the end of the file, before all the bytes are there.  The reads
\* have no timeout and the socket no keepalive: on a silent link nothing comes.
ReadThrows ==
  /\ receiver_pc \in {"header", "body"}
  /\ arrived < Needed
  /\ \/ link = "reset"
     \/ link = "up" /\ (sender_pc = "threw" \/ (sender_pc = "done" /\ arrived = Len(wire)))
  /\ receiver_pc' = "threw"
  /\ UNCHANGED <<hostVars, senderVars, netVars, message, received>>

\* Both hosts know from their role whether the message has an id.
IdLength == IF sent \subseteq ToServer THEN NC_NODEID_LENGTH ELSE 0

DecodeMessage ==
  /\ receiver_pc = "decode"
  /\ received' = Decode(message, IdLength, receiver.key, receiver.endian)
  /\ receiver_pc' = IF received' = {} THEN "threw" ELSE "done"
  /\ UNCHANGED <<hostVars, senderVars, netVars, message>>

Next == \/ EncodeMessage \/ WriteHeader \/ WriteBody \/ WriteThrows
        \/ Arrive \/ Break
        \/ ReadHeader \/ ReadBody \/ ReadThrows \/ DecodeMessage

Spec == Init /\ [][Next]_vars

\* Threads run, a link that is up delivers what was written, and the end of the
\* file or a reset reaches the receiver.  Of a silent link nothing is assumed.
Fairness ==
  /\ WF_vars(WriteHeader) /\ WF_vars(WriteBody) /\ WF_vars(WriteThrows) /\ WF_vars(Arrive)
  /\ WF_vars(ReadHeader) /\ WF_vars(ReadBody) /\ WF_vars(ReadThrows) /\ WF_vars(DecodeMessage)

FairSpec == Spec /\ Fairness

-----------------------------------------------------------------------------
(* Properties *)

\* Nothing is lost, added or changed by encoding and framing: on a connection
\* that holds, hosts with the same key always understand each other, whatever
\* their byte orders, and hosts with different keys never do.
RoundTrip ==
  /\ received # {} => received = sent /\ sender.key = receiver.key
  /\ receiver_pc = "threw" /\ link # "reset" =>
       sender_pc = "threw" \/ sender.key # receiver.key

\* A message arrives whole or the receiver gets an exception, however the
\* network cuts up its bytes: a connection is what NCNetwork takes it for.
Channel == INSTANCE NCChannel
             WITH Message <- Messages, delivered <- received, failed <- receiver_pc = "threw"
ImplementsChannel == Channel!Spec

\* Neither side waits for ever for bytes that will not come, unless the link
\* stays silent: then the receiver, whose reads have no timeout (nc_network.cpp:38
\* and 43), may.
TransferEnds ==
  sent # {} ~> /\ sender_pc \in {"done", "threw"}
               /\ receiver_pc \in {"done", "threw"} \/ [](link = "silent")
=============================================================================
