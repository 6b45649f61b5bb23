\* One user logs in on two connections.
CONSTANTS
  MaxClients = 2
  MaxUsers = 1
  MaxSessions = 3
  Friends = {}
SPECIFICATION Spec
INVARIANT LoggedInIsOnline
