\* mpitest.cc, one loop, allreduce_allpairs_2nodes.xml, rendezvous sends.
SPECIFICATION SetupSpec
CONSTANTS
  NRanks = 2
  Sched <- AllPairs2
  BlockingDepWait = FALSE
  SendResults <- ReadyOrQueue
  Rendezvous = TRUE
  SendMayFail = FALSE
  RecvMayFail = FALSE
  Epochs <- OneRun
  AddressLengths = {1, 2}
INVARIANTS
  TypeOK
  EndpointsRight
  TokensConserved
  NoTokenLeft
  ReceiveMatchesSend
  RaceFree
PROPERTIES
  Termination
  IsAllReduce
