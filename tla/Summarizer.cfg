CONSTANTS
  s1 = s1
  s2 = s2
  Services <- MCServices
  WindowSec = 2
  MaxTime = 4
  MaxItems = 2
  MaxRestarts = 1
SPECIFICATION FairSpec
INVARIANTS
  TypeOK
  WindowsDisjoint
  EachSampleCountedOnce
  SampleNotBeforeWindow
  ReportedAfterWindow
PROPERTIES
  EveryWindowCloses
  ImplementsLedger
CHECK_DEADLOCK FALSE
