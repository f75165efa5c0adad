CONSTANTS
  Node = {n1}
  Conn = {c1, c2}
  NoData = NoData
  Height = 1
  MaxThreads = 1
  MaxErrors = 1
  ErrorMod = 2
  ServerFaults = {}
  NodeFaults = {}
  MaxFaults = 0
  FaultyNodes = {}
  LateNodes = FALSE
  BeatingNodes = {n1}
CHECK_DEADLOCK FALSE
SPECIFICATION FairSpec
PROPERTY QuitLeadsToSave
