\* test_offload.cc -o on a ring, when requests arrive by rendezvous and interrupt main.
SPECIFICATION FairServerSpec
CONSTANTS
  NRanks = 2
  Sched <- Ring2
  BlockingDepWait = TRUE
  SendResults <- Ready
  Rendezvous = FALSE
  SendMayFail = FALSE
  RecvMayFail = FALSE
  Epochs <- TwoRequests
  NRequests = 2
  AmRendezvous = TRUE
  FailingPulls <- FirstOfOne
INVARIANTS
  RequestsConserved
PROPERTY IsService
