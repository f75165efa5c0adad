CONSTANTS
  Node = {n1, n2}
  Conn = {c1, c2}
  NoData = NoData
  Height = 2
  MaxThreads = 1
  MaxErrors = 1
  ErrorMod = 2
  ServerFaults = {"accept"}
  NodeFaults = {}
  MaxFaults = 0
  FaultyNodes = {}
  LateNodes = TRUE
  BeatingNodes = {}
SPECIFICATION Spec
SYMMETRY Symmetric
CHECK_DEADLOCK FALSE
INVARIANT RowsOwned
INVARIANT RowsHoldTheirLines
INVARIANT SavedImageComplete
INVARIANT NodesQuitWhenDone
PROPERTY ImplementsJobBoard
