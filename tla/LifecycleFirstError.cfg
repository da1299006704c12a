CONSTANTS
  p1 = p1
  p2 = p2
  p3 = p3
  None = None
  Pipelines <- MCPipelines
SPECIFICATION Spec
INVARIANT FirstErrorReturned
CHECK_DEADLOCK FALSE
