SPECIFICATION FairAttempts
CONSTANTS
  MaxNodes = 2
  MaxAttempts = 8
  BudgetTokens = 5
  MaxDepth = 1
  MaxAgentsLive = 2
  MaxAgentsTotal = 2
  MaxLlmCalls = 1
  MinOutputTokens = 1
  ScopeLimits = {3}
  Prompts = {1}
  Requests = {2}
  Usages = {1, 3}
  Slots = 1
  MaxRetries = 1
  MaxCalls = 2
PROPERTY
  RunEnds
CHECK_DEADLOCK FALSE
