SPECIFICATION LogSpec
CONSTANTS
  p1 = p1
  p2 = p2
  t1 = t1
  t2 = t2
  d1 = d1
  d2 = d2
  Producers <- OneProducer
  Unreliable = {p1}
  Size = 7
  MsgSizes <- Twos
  MaxCalls = 3
  ConsumerBlocks = FALSE
  Types <- BothTypes
  TypeOf <- MixedTypes
  Topics <- TwoTopics
  TopicOf <- MixedTopics
  VariantSpan = 16
  Rejected <- ThirdOfP1
  Dirs <- BothDirs
  BadDirs = {d2}
  SplitSize = 3
  Subscribes = TRUE
  MaxPathChanges = 1
INVARIANTS NoGap HistoryIInv
\* Every producer may have made its last call, and logging may have ended.
CHECK_DEADLOCK FALSE
