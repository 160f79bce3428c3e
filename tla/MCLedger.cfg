SPECIFICATION LedgerSpec
CONSTANTS
  MaxNodes = 4
  MaxAttempts = 2
  BudgetTokens = 8
  MaxDepth = 1
  MaxAgentsLive = 2
  MaxAgentsTotal = 3
  MaxLlmCalls = 1
  MinOutputTokens = 2
  ScopeLimits = {0, 3}
  Prompts = {1}
  Requests = {3}
  Usages = {5}
INVARIANTS
  SubtreeAccounting
  NoOvercommit
  OvershootBounded
  AgentLimits
PROPERTY
  ClosedScopesAdmitNothing
CHECK_DEADLOCK FALSE
