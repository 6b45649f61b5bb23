\* Two users, two groups, three records; the ids -1 and 0 are typed by mistake
\* too.
CONSTANTS
  Users = {1, 2}
  Strangers = {0}
  MaxGroups = 2
  MaxMembers = 3
  MaxFanout = 3
  Keys <- GroupsAndDeleted
SPECIFICATION Spec
INVARIANTS TypeOK OneMembership AdminIsCreator DiesOfStaleRecordsOnly
PROPERTIES RemovedByRight JoinsByOwnHand
\* The server stops when it follows a null pointer.
CHECK_DEADLOCK FALSE
