CONSTANTS
  Node = {n1}
  Conn = {c1, c2}
  Data = {"work", "result"}
  NoData = NoData
  MaxErrors = 2
  ErrorMod = 4
  nc_process_data <- MCProcessData
  NodeFaults = {"crash", "break"}
SPECIFICATION FairSpec
CHECK_DEADLOCK FALSE
INVARIANT TypeOK
INVARIANT OneExchangePerNode
INVARIANT SocketsMatchConnections
INVARIANT AnswersMatchRequests
INVARIANT MainErrorsBounded
PROPERTY ResultKeptUntilAcknowledged
PROPERTY QuitEndsBothThreads
PROPERTY NodeGivesUp
PROPERTY OrphansGiveUp
