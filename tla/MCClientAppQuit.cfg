\* Sockets that do not fill up in the run.
CONSTANTS
  Users = {1}
  UpCap = 2
  DownCap = 2
SPECIFICATION FairSpec
PROPERTY QuitEnds
CHECK_DEADLOCK FALSE
