CONSTANTS
  r1 = r1
  r2 = r2
  p1 = p1
  p2 = p2
  Pipelines <- MCPipelineSet
  Summarised <- AllSummarised
  Receivers <- StopReceivers
  Subs <- StopSubs
  ExportersOf <- StopExporters
  Blocking = {}
  Faults <- StopFaults
  MayCancel = TRUE
  MaxMsgs = 6
  SharedCap = 1
  RxCap = 1
SPECIFICATION FairSpec
INVARIANTS
  FanOutLockstep
  BrokenPipelineStopsReceiver
PROPERTY ExportersStop
CHECK_DEADLOCK FALSE
