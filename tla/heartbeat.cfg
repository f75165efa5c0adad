CONSTANTS
  Node = {n1}
  ConfigFiles <- MCConfigFiles
  MinTimeout = 1
  DefaultTimeout = 2
  Second = 4
  Delay = 1
  MaxAge = 25
SPECIFICATION Spec
INVARIANT TypeOK
INVARIANT NoFalseTimeout
INVARIANT SilentNodesNoticed
