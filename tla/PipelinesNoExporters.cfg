CONSTANTS
  r1 = r1
  r2 = r2
  p1 = p1
  p2 = p2
  Pipelines <- MCPipelineSet
  Summarised <- MCSummarised
  Receivers <- StopReceivers
  Subs <- StopSubs
  ExportersOf <- NoExporters
  Blocking = {}
  Faults <- NoFaults
  MayCancel = FALSE
  MaxMsgs = 2
  SharedCap = 1
  RxCap = 1
SPECIFICATION FairSpec
PROPERTY AggregatesDropped
CHECK_DEADLOCK FALSE
