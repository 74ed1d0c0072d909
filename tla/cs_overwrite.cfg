\* ucp_client_server.c -c am with small messages: one slot for all of them.
SPECIFICATION Spec
CONSTANTS
  c1 = c1
  c2 = c2
  NoClient = NoClient
  Clients <- OneClient
  NumIterations = 3
  Modes <- AmEager
  MayDie = FALSE
INVARIANT ReceivedInOrder
CHECK_DEADLOCK FALSE
