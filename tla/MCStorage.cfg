\* Two persons, who may get each other's ids; two members take up as much of the
\* file as a group.
CONSTANTS
  p = p
  q = q
  Persons <- MCPersons
  MaxUsers = 2
  MaxFriendships = 1
  MaxGroups = 2
  MaxGroupMembers = 2
  MaxMessages = 1
  GroupSize = 2
  MemberSize = 1
SYMMETRY PersonSymmetry
SPECIFICATION Spec
INVARIANTS TypeOK FriendshipsKeepPersons
PROPERTIES RestartKeeps TailOnlyIsLost
