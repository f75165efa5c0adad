CONSTANTS
  Base = 2
  NC_NODEID_LENGTH = 1
  NC_NONCE_LENGTH = 1
  NC_GCM_TAG_LENGTH = 1
  LZ4_MAX_INPUT_SIZE = 6
  Key = {k1, k2}
  Nonce = {v1, v2}
  ToServer <- MCToServer
  ToNode <- MCToNode
SPECIFICATION FairSpec
CHECK_DEADLOCK FALSE
INVARIANT RoundTrip
PROPERTY ImplementsChannel
PROPERTY TransferEnds
