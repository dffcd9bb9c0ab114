SPECIFICATION FriendsSpec
CONSTANTS
  ann = ann ben = ben f1 = f1 f2 = f2
  People = {ann, ben}
  FriendCalls = {f1, f2}
INVARIANT BothDirections
CHECK_DEADLOCK FALSE
