SPECIFICATION Spec
CONSTANTS
  c1 = c1  c2 = c2
  alice = alice  bob = bob  bot1 = bot1  bot2 = bot2
  k1 = k1  k2 = k2  k3 = k3
  Convs = {c1}
  ClientKeys = {k1, k2}
  Users = {alice, bob, bot1, bot2}
  Agents = {bot1, bot2}
  Malformed = Malformed
  ConvOf <- MCConvOf
  SenderOf <- MCSenderOf
  VisibleTo <- MCVisibleTo
  InitialMax <- MCInitialMax
  TypedAccountIDs = TRUE
  MaxRecords = 2
  MaxBatch = 1
  MaxFaults = 1
INVARIANT OneSeqPerMessage
CHECK_DEADLOCK FALSE
