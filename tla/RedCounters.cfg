CONSTANTS
  svc = svc
  requests = requests
  errors = errors
  Services <- MCServices
  Counters <- MCCounters
  Keys <- MCKeys
  KeyOf <- MCKeyOf
  ServiceOf <- MCServiceOf
  IsErrors <- MCErrors
  CodeOf <- MCCodeOf
  MaxTotal <- MCMaxTotal
  MaxExports <- MCMaxExports
  MaxLate = 1
  MaxDirect = 1
  MaxResets = 2
SPECIFICATION Spec
INVARIANTS
  TypeOK
  RequestsSplit
  NeverOvercounted
  ExactWithoutReset
CHECK_DEADLOCK FALSE
