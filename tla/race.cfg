CONSTANTS
  Node = {n1, n2, n3}
  Width = 2
  Height = 2
SPECIFICATION FairSpec
CHECK_DEADLOCK FALSE
INVARIANT TypeOK
INVARIANT LinesInPlace
INVARIANT ImageCompleteAfterJoin
INVARIANT SavedImageLacksHalfCopiedOnly
PROPERTY JobGetsDone
