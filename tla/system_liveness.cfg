CONSTANTS
  Node = {n1, n2}
  Conn = {c1, c2}
  NoData = NoData
  Height = 1
  MaxThreads = 1
  MaxErrors = 1
  ErrorMod = 2
  ServerFaults = {}
  NodeFaults = {"crash"}
  MaxFaults = 1
  FaultyNodes = {n1}
  LateNodes = FALSE
  BeatingNodes = {}
CHECK_DEADLOCK FALSE
SPECIFICATION FairSpec
PROPERTY JobGetsDone
PROPERTY KeepsContract
