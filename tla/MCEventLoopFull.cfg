SPECIFICATION FairSpec
CONSTANTS
  MaxClients = 3
  NumFds = 2
  IdleLimit = 1
  MaxIdle = 2
  MaxSent = 1
  MaxAnswers = 1
  MaxBacklog = 1
PROPERTY SilentAreDropped
