CONSTANTS
  svc = svc
  requests = requests
  errors = errors
  Services <- MCServices
  Counters <- MCCounters
  Keys <- MCKeys
  KeyOf <- MCKeyOf
  ServiceOf <- MCServiceOf
  IsErrors <- MCErrors
  CodeOf <- MCCodeOf
  MaxTotal <- MCOneEach
  MaxExports <- MCOneEach
  MaxLate = 0
  MaxDirect = 1
  MaxResets = 2
SPECIFICATION Spec
INVARIANT ErrorsAreErrorSpans
CHECK_DEADLOCK FALSE
