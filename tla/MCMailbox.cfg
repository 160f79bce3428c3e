SPECIFICATION MailboxBehaviour
CONSTANTS
  Capacity = 2
  DeliveryChars = 3
  Senders = {child, peer}
  Children = {child}
  Sizes = {1, 3}
  NoticeSize = 2
  MaxSize = 3
  MaxMessages = 4
  child = child
  peer = peer
INVARIANTS
  CapacityKept
  ExactlyOnce
  SenderOrder
  IdleLosesNothing
  OneNotice
  TurnBudget
CHECK_DEADLOCK FALSE
