\* test_offload.cc when a send needs its worker to progress.
SPECIFICATION FairSpec
CONSTANTS
  NRanks = 2
  Sched <- TwoNodes
  BlockingDepWait = TRUE
  SendResults <- ReadyOrQueue
  Rendezvous = FALSE
  SendMayFail = FALSE
  RecvMayFail = FALSE
  Epochs <- OneRun
PROPERTY Termination
CHECK_DEADLOCK FALSE
