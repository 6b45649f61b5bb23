\* Payloads of up to two cells, and a socket that holds less than a message.
CONSTANTS
  Payload <- MCPayload
  MAX_PAYLOAD = 2
  Capacity = 3
  MaxMessages = 2
SPECIFICATION FairSpec
INVARIANTS TypeOK ReceivedAsSent GivesUpForAReason
PROPERTY Arrives
\* Both ends may have closed.
CHECK_DEADLOCK FALSE
