SPECIFICATION FairSpec
CONSTANTS
  Fold <- MCFold
  Now <- MCNow
  Rules <- MCRules
  Clients <- MCClients
  Readers <- MCReaders
  Requests <- MCRequests
  FewRequests <- MCFewRequests
  Signals <- MCSignals
  FewSignals <- MCFewSignals
  Graphs <- MCGraphs
  FewGraphs <- MCFewGraphs
  OldRecords <- MCOldRecords
  Patterns <- MCPatterns
  PageSizes <- MCPageSizes
  DefaultPage = 2
  MaxPage = 2
  Retries = 2
  MaxCalls = 2
  MaxFaults = 1
\* the process exits
CHECK_DEADLOCK FALSE
INVARIANTS
  TypeOK
  CachedWasStored
  MadeUpOnlyAfterOutage
  AnswersMatchStore
  PagesCoverSnapshot
  RootCauseExplained
PROPERTY
  ShutdownEnds
