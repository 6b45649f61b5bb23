\* Two slots and three descriptors: one connection too many, slots and
\* descriptors are used again, silence passes the limit unseen.
CONSTANTS
  MaxClients = 2
  NumFds = 3
  IdleLimit = 1
  MaxIdle = 2
  MaxSent = 2
  MaxAnswers = 1
  MaxBacklog = 1
SPECIFICATION FairSpec
INVARIANTS TypeOK BookKeeping BlocksOnPartOnly
PROPERTIES EveryClientServed SilentAreDropped
