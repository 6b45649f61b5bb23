\* Three users, three records: enough to ask, answer, remove and ask again.
CONSTANTS
  a = a
  b = b
  c = c
  Users <- MCUsers
  MaxFriendships = 3
  MaxPending = 2
SYMMETRY UserSymmetry
SPECIFICATION Spec
INVARIANTS TypeOK OneRecordPerPair FriendsAgree PendingAnnounced
PROPERTY ImplementsFriendGraph
