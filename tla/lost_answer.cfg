CONSTANTS
  Node = {n1}
  Conn = {c1, c2}
  NoData = NoData
  Height = 1
  MaxThreads = 1
  MaxErrors = 2
  ErrorMod = 4
  ServerFaults = {}
  NodeFaults = {"break"}
  MaxFaults = 1
  FaultyNodes = {n1}
  LateNodes = FALSE
  BeatingNodes = {}
CHECK_DEADLOCK FALSE
SPECIFICATION Spec
INVARIANT SavedImageComplete
