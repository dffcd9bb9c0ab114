SPECIFICATION AgentSpec
CONSTANTS
  alice = alice bob = bob bot = bot chat = chat room = room m1 = m1 m2 = m2
  Accounts = {alice, bob, bot}
  Bots = {bot}
  Chats = {chat}
  Rooms = {room}
  HumanMsgs = {m1, m2}
  Participants <- MCParticipants
  ChatOf <- MCChatOf
  AuthorOf <- MCAuthorOf
  AtUsers <- MCAtUsers
  MaxTriggers = 2
  MaxHostingFaults = 2
  MaxSeq = 4
  MaxRounds = 2
  SummarizeThreshold = 2
  KeepRounds = 1
  MaxAgentFaults = 1
  ToolNames = {"python.execute", "time.now", "web.search"}
  ApprovedTools = {"python.execute", "time.now"}
  MaxToolCalls = 2
  MaxPerResponse = 2
  MaxRuntimeFaults = 1
  QueueSize = 2
  Closers = {z1, z2}
  MaxObserved = 4
INVARIANTS AgentTypeOK ContextSound OneLoop OncePerTrigger SucceededIsWritten NoRecursion SandboxSound FlushedOnClose
PROPERTIES RunEnds AnsweredWithNext PendingRecovered NeverWedged
CHECK_DEADLOCK FALSE
