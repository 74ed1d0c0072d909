\* Sends and receives that fail; the program may hang.
SPECIFICATION Spec
CONSTANTS
  NRanks = 2
  Sched <- FusedAndOneStep
  BlockingDepWait = FALSE
  SendResults <- AnyResult
  Rendezvous = FALSE
  SendMayFail = TRUE
  RecvMayFail = TRUE
  Epochs <- OneRun
INVARIANTS
  DependencyOrder
  SendsAccounted
  DrainedWhenDone
  RaceFree
  NoMessageLeft
CHECK_DEADLOCK FALSE
