\* test_offload.cc -o, allreduce_2_nodes.xml, two pipelined requests per rank.
SPECIFICATION FairServerSpec
CONSTANTS
  NRanks = 2
  Sched <- TwoNodes
  BlockingDepWait = TRUE
  SendResults <- Ready
  Rendezvous = FALSE
  SendMayFail = FALSE
  RecvMayFail = FALSE
  Epochs <- TwoRequests
  NRequests = 2
  AmRendezvous = FALSE
  FailingPulls = {}
INVARIANTS
  ServerTypeOK
  MainAlone
  EachExecutesOnce
  ReplyCorrect
PROPERTY AllServed
