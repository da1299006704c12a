CONSTANTS
  s1 = s1
  s2 = s2
  Services <- MCServices
  WindowSec = 2
  MaxTime = 4
  MaxItems = 2
  MaxRestarts = 0
SPECIFICATION Spec
INVARIANT SamplesArrivedInWindow
CHECK_DEADLOCK FALSE
