SPECIFICATION LogSpec
CONSTANTS
  p1 = p1
  p2 = p2
  t1 = t1
  t2 = t2
  d1 = d1
  d2 = d2
  Producers <- TwoProducers
  Unreliable = {}
  Size = 7
  MsgSizes <- Twos
  MaxCalls = 2
  ConsumerBlocks = FALSE
  Types <- BothTypes
  TypeOf <- MixedTypes
  Topics <- TwoTopics
  TopicOf <- MixedTopics
  VariantSpan = 3
  Rejected = {}
  Dirs <- BothDirs
  BadDirs = {}
  SplitSize = 3
  Subscribes = FALSE
  MaxPathChanges = 1
INVARIANTS LogTypeOK SelfDescribing InOrder VariantsAgree SplitInTime PromisesKept HistoryIInv
\* Every producer may have made its last call, and logging may have ended.
CHECK_DEADLOCK FALSE
