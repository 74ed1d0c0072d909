\* ucp_client_server.c: two clients, two iterations, clients may be killed.
SPECIFICATION FairSpec
CONSTANTS
  c1 = c1
  c2 = c2
  NoClient = NoClient
  Clients <- TwoClients
  NumIterations = 2
  Modes <- Buffered
  MayDie = TRUE
INVARIANTS
  TypeOK
  ReceivedInOrder
  FinAcknowledges
  NothingLeftOver
PROPERTY ClientsEnd
\* A progress loop whose peer is dead spins for ever; a server listens for ever.
CHECK_DEADLOCK FALSE
