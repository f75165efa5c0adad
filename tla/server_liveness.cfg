CONSTANTS
  Node = {n1}
  Conn = {c1, c2}
  Data = {work}
  NoData = NoData
  MaxThreads = 1
  Units = 1
  Faults = {}
  ProcessorState <- MCProcessorState
  NewProcessor <- MCNewProcessor
  nc_is_job_done <- MCJobDone
  nc_node_timeout <- MCNodeTimeout
  nc_get_new_data <- MCNewData
  nc_process_result <- MCProcessResult
SPECIFICATION FairSpec
CHECK_DEADLOCK FALSE
PROPERTY RequestsAnswered
PROPERTY QuitsWhenContacted
INVARIANT QuitMeansDone
