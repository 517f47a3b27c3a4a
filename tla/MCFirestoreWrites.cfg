SPECIFICATION FairSpec
CONSTANTS
  ann = ann
  bob = bob
  t1 = t1
  Users <- MCUsers
  Tokens <- MCTokens
  NoToken = NoToken
  MaxPendingWrites = 2
  MaxWrites = 3
  MaxFaults = 4
CHECK_DEADLOCK FALSE
INVARIANTS
  InStep
  ConfirmedStays
PROPERTIES
  CallersTold
  KeepsPromise
  Settles
