SPECIFICATION FairSpec
CONSTANTS
  Sockets = 2
  MaxStarts = 2
  MaxRegistrations = 1
  QueueCapacity = 2
  MaxBucket = 1
  MaxCopies = 1
  None = None
CHECK_DEADLOCK FALSE
INVARIANTS
  RegistrarInv
  ShutdownClosesAll
  ConnectedIsRegistered
  RefusedOnlyAfterCopies
PROPERTIES
  QueuesAreFifo
  RegistrationEnds
