SPECIFICATION MCSpec
CONSTANTS
  alice = alice
  g1 = g1  g2 = g2
  c1 = c1  c2 = c2
  m1 = m1  m2 = m2  m3 = m3
  Users = {alice}
  Gateways = {g1, g2}
  Conns = {c1, c2}
  Msgs = {m1, m2, m3}
  UserOf <- MCUserOf
  GatewayOf <- MCGatewayOf
  RecipientsOf <- MCRecipientsOf
  MaxGatewayFaults = 2
  MaxPushes = 2
  MaxPushBatch = 2
  MaxPushFaults = 1
INVARIANTS TypeOK NothingDropped ServedOrTakenOver
PROPERTIES CatchesUp Settles
CHECK_DEADLOCK FALSE
