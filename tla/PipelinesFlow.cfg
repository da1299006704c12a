CONSTANTS
  r1 = r1
  r2 = r2
  p1 = p1
  p2 = p2
  Pipelines <- MCPipelineSet
  Summarised <- MCSummarised
  Receivers <- FlowReceivers
  Subs <- FlowSubs
  ExportersOf <- FlowExporters
  Blocking <- FlowBlocking
  Faults <- FlowFaults
  MayCancel = FALSE
  MaxMsgs = 3
  SharedCap = 1
  RxCap = 1
SPECIFICATION FairSpec
INVARIANTS
  TypeOK
  HandedInOrder
  DispatchLockstep
PROPERTY EveryAggregateExported
CHECK_DEADLOCK FALSE
