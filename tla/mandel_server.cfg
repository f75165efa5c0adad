CONSTANTS
  Node = {n1, n2}
  Height = 3
SPECIFICATION Spec
INVARIANT TypeOK
INVARIANT OwnerInv
PROPERTY RowsKeepOwners
PROPERTY DoneIsFinal
PROPERTY ImplementsJobBoard
CHECK_DEADLOCK FALSE
