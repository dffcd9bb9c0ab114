SPECIFICATION MCSpec
CONSTANTS
  alice = alice bob = bob bot = bot chat = chat room = room m1 = m1 m2 = m2
  Accounts = {alice, bob, bot}
  Bots = {bot}
  Chats = {chat}
  Rooms = {room}
  HumanMsgs = {m1, m2}
  Participants <- MCParticipants
  ChatOf <- MCChatOf
  AuthorOf <- MCAuthorOf
  AtUsers <- MCAtUsers
  MaxTriggers = 2
  MaxHostingFaults = 2
INVARIANT SucceededIsAnswered
CHECK_DEADLOCK FALSE
