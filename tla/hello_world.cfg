\* ucp_hello_world.cc, in every failure mode, with sends and receives that fail.
SPECIFICATION FairSpec
CONSTANTS
  Modes <- AllModes
  SendResults <- AnyResult
  RecvMayFail = TRUE
INVARIANTS
  TypeOK
  DisconnectedBeforeDestroyed
  SuccessMeansSum
  NothingInFlight
PROPERTIES
  BothEnd
  IsAllReduce
CHECK_DEADLOCK FALSE
