\* Two users who are friends, the id 0, a group and the id -1. Connections break,
\* payloads are too long, the third record of a group is beyond the fan-out, and
\* the queue overflows with the last entry.
CONSTANTS
  Users = {1, 2}
  Strangers = {0}
  Friends <- MCPair
  GroupIds = {1}
  MaxGroupMembers = 3
  MaxFanout = 2
  MaxMessages = 2
  MaxOfflineQueue = 3
  Breaks = TRUE
  Sizes = {"fits", "too_long"}
SPECIFICATION Spec
INVARIANTS TypeOK ArriveInOrder QueueOnlyForAbsent 
 
