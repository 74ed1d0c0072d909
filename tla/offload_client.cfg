\* test_offload_client.cc: two clients of two servers, two requests per loop.
SPECIFICATION Spec
CONSTANTS
  Clients = {0, 1}
  RequestNum = 2
  Protocols = {TRUE, FALSE}
  SendMayFail = TRUE
  FailingPulls <- SecondOfOne
INVARIANTS
  TypeOK
  RepliesCounted
  NobodyLeft
  RepliesAreEarlier
PROPERTY ClientsEnd
CHECK_DEADLOCK FALSE
