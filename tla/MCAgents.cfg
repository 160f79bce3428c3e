\* Three agents in any tree, no plain messages: liveness.
SPECIFICATION FairAgents
CONSTANTS
  Capacity = 1
  DeliveryChars = 4
  MaxAgents = 3
  MaxMessages = 0
PROPERTIES
  CancellationEnds
  WaitReturns
\* A run ends when every agent has.
CHECK_DEADLOCK FALSE
