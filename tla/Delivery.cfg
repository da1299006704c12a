CONSTANTS
  Kinds <- AllKinds
  MaxMsgs = 4
  MaxLoose = 2
  Cap = 1
  MaxCrashes = 1
  MaxFaults = 1
SPECIFICATION FairSpec
INVARIANTS
  TypeOK
  KafkaOnceInOrder
  KafkaSkipsAtMostOnePerFault
  ToldIsAccounted
  RepeatsHaveACause
  StoredOnce
PROPERTY NothingStuck
CHECK_DEADLOCK FALSE
