CONSTANTS
  Node = {n1}
  Conn = {c1, c2, c3}
  Data = {work}
  NoData = NoData
  MaxThreads = 1
  Units = 1
  Faults = {"accept", "client"}
  ProcessorState <- MCProcessorState
  NewProcessor <- MCNewProcessor
  nc_is_job_done <- MCJobDone
  nc_node_timeout <- MCNodeTimeout
  nc_get_new_data <- MCNewData
  nc_process_result <- MCProcessResult
SPECIFICATION Spec
SYMMETRY Symmetric
INVARIANT TypeOK
INVARIANT ThreadsJoined
INVARIANT ThreadBound
INVARIANT ServedConnections
INVARIANT KnownNodesOnly
CHECK_DEADLOCK FALSE
