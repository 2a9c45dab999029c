SPECIFICATION LogFairSpec
CONSTANTS
  p1 = p1
  p2 = p2
  t1 = t1
  t2 = t2
  d1 = d1
  d2 = d2
  Producers <- TwoProducers
  Unreliable = {}
  Size = 7
  MsgSizes <- Evens
  MaxCalls = 2
  ConsumerBlocks = FALSE
  Types <- BothTypes
  TypeOf <- MixedTypes
  Topics <- TwoTopics
  TopicOf <- MixedTopics
  VariantSpan = 16
  Rejected = {}
  Dirs <- OneDir
  BadDirs = {}
  SplitSize = 3
  Subscribes = FALSE
  MaxPathChanges = 0
INVARIANT NoLostWakeup
PROPERTIES EventuallyWritten EndLoggingReturns
\* Every producer may have made its last call, and logging may have ended.
CHECK_DEADLOCK FALSE
