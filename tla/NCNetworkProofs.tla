--------------------------- MODULE NCNetworkProofs ---------------------------
(***************************************************************************)
(* What the operators of NCNetwork do to a connection, for NCServerProofs  *)
(* and NCNodeProofs.                                                       *)
(***************************************************************************)
EXTENDS NCNetwork, TLAPS

\* What happens to one connection keeps it a connection.
LEMMA ConnectionTypes ==
  /\ NoConnection \in Connection
  /\ Connected \in Connection
  /\ \A r \in Connection : CloseClient(r) \in Connection /\ CloseServer(r) \in Connection
<1>1. {} \in Optional(NCDecodedMessageFromNode) /\ {} \in Optional(NCDecodedMessageFromServer)
  BY DEF Optional
<1>. QED BY <1>1 DEF Connection, NoConnection, Connected, CloseClient, CloseServer

LEMMA CloseAllType ==
  ASSUME NEW f \in [Conn -> Connection] PROVE CloseAll(f) \in [Conn -> Connection]
BY ConnectionTypes DEF CloseAll

\* At most one value is one value, or none.
LEMMA OptionalSingleton == ASSUME NEW S, NEW x \in S PROVE {x} \in Optional(S)
BY DEF Optional

\* What the steps write into a connection.
LEMMA ConnectionUpdates ==
  ASSUME NEW r \in Connection
  PROVE  /\ [r EXCEPT !.server = "open"] \in Connection
         /\ \A m \in NCDecodedMessageFromNode : [r EXCEPT !.request = {m}] \in Connection
         /\ \A a \in Optional(NCDecodedMessageFromServer) : [r EXCEPT !.answer = a] \in Connection
<1>1. \A m \in NCDecodedMessageFromNode : {m} \in Optional(NCDecodedMessageFromNode)
  BY OptionalSingleton
<1>. QED BY <1>1 DEF Connection
=============================================================================
