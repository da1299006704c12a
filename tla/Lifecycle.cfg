CONSTANTS
  p1 = p1
  p2 = p2
  p3 = p3
  None = None
  Pipelines <- MCPipelines
SPECIFICATION FairSpec
INVARIANTS
  TypeOK
  NoErrorDropped
  ReturnsAfterPipelines
  ExitsOnlyOnSignal
PROPERTY SignalStops
CHECK_DEADLOCK FALSE
