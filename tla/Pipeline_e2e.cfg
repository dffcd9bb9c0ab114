SPECIFICATION MCSpec
CONSTANTS
  d = d  g = g
  alice = alice  bob = bob
  k1 = k1  k2 = k2  k3 = k3
  Convs = {d}
  Groups = {}
  ClientKeys = {k1, k2}
  Users = {alice, bob}
  Agents = {}
  Malformed = Malformed
  ConvOf <- MCConvOf
  SenderOf <- MCSenderOf
  VisibleTo <- MCVisibleTo
  ContentOf <- MCText
  TypedAccountIDs = FALSE
  InitialMax <- NoOlderRows
  MaxRecords = 2
  MaxBatch = 2
  MaxFaults = 1
  ServerIds = {1, 2, 3, 4}
  MaxEvents = 4
  MaxSeq = 4
  PersistBatchMax = 2
  MaxPersistFaults = 1
PROPERTIES KeepsContracts ImplementsArchive ConsumersCatchUp
CHECK_DEADLOCK FALSE
