\* Three slots and three users, who may log in twice; a session table that fills
\* up; shutdowns, crashes and restarts.
CONSTANTS
  MaxClients = 3
  MaxUsers = 3
  MaxSessions = 4
  Friends <- MCFriends
SPECIFICATION Spec
INVARIANTS TypeOK OneValidSession ValidSessionIsOnline PresenceExact ViewExact
PROPERTY OfflineByOwnDisconnect
