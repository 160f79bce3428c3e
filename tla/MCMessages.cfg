\* Three agents in any tree and one plain message between any two of them.
SPECIFICATION AgentsSpec
CONSTANTS
  Capacity = 1
  DeliveryChars = 4
  MaxAgents = 3
  MaxMessages = 1
INVARIANTS
  NoLostWakeup
  PublishedLast
\* A run ends when every agent has.
CHECK_DEADLOCK FALSE
