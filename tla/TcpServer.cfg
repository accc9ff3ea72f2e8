SPECIFICATION FairSpec
CONSTANTS
  MaxThreads = 2
  MaxClients = 4
  Fds = {0, 1, 2}
CHECK_DEADLOCK FALSE
INVARIANTS
  AliveWhileUsed
  DescriptorsAccounted
  MapAgrees
  SharesAreEqual
PROPERTIES
  ClosedConnectionsEnd
  WaitingClientsAreAccepted
