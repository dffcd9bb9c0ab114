SPECIFICATION StoreSpec
CONSTANTS
  d = d  g = g
  alice = alice  bob = bob
  k1 = k1  k2 = k2  k3 = k3  k4 = k4
  Convs = {d, g}
  Groups = {g}
  ClientKeys = {k1, k3, k4}
  Users = {alice, bob}
  ConvOf <- MCConvOf
  SenderOf <- MCSenderOf
  VisibleTo <- MCVisibleTo
  ContentOf <- MCText
  ServerIds = {1, 2}
  MaxEvents = 3
  MaxSeq = 3
  PersistBatchMax = 3
  MaxPersistFaults = 1
  Readers = {r1}
  Limits = {1, 2}
  MaxRowSeq = 5
  ann = ann  ben = ben
  f1 = f1  f2 = f2
  People = {ann, ben}
  FriendCalls = {f1, f2}
  u1 = u1
  GroupUsers = {u1, u2, u3, u4}
  GroupCalls = {j1, j2}
  MemberLimitV1 = 2
  Texts = {t1, t2}
  NoCreator = NoCreator
  i2 = i2
  Identifiers = {i1, i2}
  IdentityCalls = {q1, q2}
  MaxAttempts = 1
  MaxCodes = 2
  Devices = {web, mobile}
  TokenTTL = 2
  MaxTokens = 3
  MaxTime = 4
  Burst = 1
  Tick = 2
  MaxWall = 2
  MediaIds = {m1, m2}
  Shas = {s1}
  MediaCalls = {o1, o2}
  Machines = {0, 1}
  SequenceSpan = 2
  MachineSpan = 2
  FacetSpan = 2
  EpochMs = 1
  MaxTimestamp = 1
  MaxClock = 3
  MaxMinted = 3
  ast = ast  bot = bot
  e1 = e1  e2 = e2
  AgentIds = {ast, bot}
  Assistant = ast
  ToolChoices <- MCToolChoices
  AssemblyCalls = {e1, e2}
  MaxDefinitions = 2
SYMMETRY StoreSymmetry
INVARIANTS PersistTypeOK CommittedIsArchived TablesAgree PagingSound FriendsByConsent MembershipSound CodesHold UsersHaveAssistant LoginLasts ReplacedIsSilent RateBounded UploadsKept IdsSound FriendlyIsReady
PROPERTIES OnlyForward
CHECK_DEADLOCK FALSE
