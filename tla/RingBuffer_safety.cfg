SPECIFICATION Spec
CONSTANTS
  p1 = p1
  p2 = p2
  Producers <- TwoProducers
  Unreliable = {p2}
  Size = 4
  MsgSizes <- SmallSizes
  MaxCalls = 3
  ConsumerBlocks = TRUE
INVARIANTS TypeOK NoOverlap Intact IInv HandleOwned
PROPERTY QueueSpec
\* A call can wait for room for ever, behind an allocation that stays Empty.
CHECK_DEADLOCK FALSE
