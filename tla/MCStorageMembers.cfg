\* A group with its creator, and a restart.
CONSTANTS
  p = p
  q = q
  Persons <- MCPersons
  MaxUsers = 1
  MaxFriendships = 0
  MaxGroups = 2
  MaxGroupMembers = 3
  MaxMessages = 0
  GroupSize = 2
  MemberSize = 1
SPECIFICATION Spec
PROPERTY MembersSurvive
