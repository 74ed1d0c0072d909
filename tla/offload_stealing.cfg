\* test_offload.cc -o on two ranks of allreduce_binomial_tree_one.xml: the leaf's
\* sending thread waits for nobody.
SPECIFICATION ServerSpec
CONSTANTS
  NRanks = 2
  Sched <- Tree2
  BlockingDepWait = TRUE
  SendResults <- Ready
  Rendezvous = FALSE
  SendMayFail = FALSE
  RecvMayFail = FALSE
  Epochs <- OneRequest
  NRequests = 1
  AmRendezvous = FALSE
  FailingPulls = {}
INVARIANT ReplyCorrect
CHECK_DEADLOCK FALSE
