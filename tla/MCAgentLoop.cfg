SPECIFICATION LoopSpec
CONSTANTS
  Capacity = 2
  DeliveryChars = 1
  MaxTurns = 3
  MaxUses = 2
  Children = {c1}
  MaxMail = 1
  MailSize = 1
  c1 = c1
INVARIANTS
  ToolUsesAnswered
  MailReachesModel
  AcceptedAnswerDecides
  EstimateInStep
CHECK_DEADLOCK FALSE
