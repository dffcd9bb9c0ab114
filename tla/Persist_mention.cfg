SPECIFICATION FairSpec
CONSTANTS
  d = d  g = g
  alice = alice  bob = bob
  k1 = k1  k2 = k2  k3 = k3  k4 = k4
  Convs = {g}
  Groups = {g}
  ClientKeys = {k3, k4}
  Users = {alice, bob}
  ConvOf <- MCConvOf
  SenderOf <- MCSenderOf
  VisibleTo <- MCVisibleTo
  ContentOf <- MCMention
  ServerIds = {1, 2}
  MaxEvents = 2
  MaxSeq = 2
  PersistBatchMax = 2
  MaxPersistFaults = 0
PROPERTY EventuallyArchived
CHECK_DEADLOCK FALSE
