\* Two accounts; sockets that fill up.
CONSTANTS
  Users = {1, 2}
  UpCap = 2
  DownCap = 1
SPECIFICATION FairSpec
INVARIANTS TypeOK UserIdAgrees LogoutIsLast
PROPERTIES LogoutEnds ServerGoesOn
\* The program has exited.
CHECK_DEADLOCK FALSE
