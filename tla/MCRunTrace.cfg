SPECIFICATION RunTraceSpec
CONSTANTS
  MaxNodes = 3
  MaxAttempts = 2
  BudgetTokens = 5
  MaxDepth = 1
  MaxAgentsLive = 2
  MaxAgentsTotal = 2
  MaxLlmCalls = 1
  MinOutputTokens = 1
  ScopeLimits = {3}
  Prompts = {1}
  Requests = {1}
  Usages = {3}
  Slots = 1
  MaxRetries = 1
  MaxCalls = 1
INVARIANTS
  HeldOnlyInFlight
  ReportFinal
  OrderlyEnd
  PanicFailsRun
  TreeReadable
  TreeMatchesLedger
CHECK_DEADLOCK FALSE
