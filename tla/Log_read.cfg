SPECIFICATION LogSpec
CONSTANTS
  own = own
  old = old
  other = other
  Types <- ThreeTypes
  Times <- Clock
  HandlerType = own
  Versions <- TwoVersions
  Logs <- TwoFiles
  Options <- SomeOptions
  MaxRestarts = 2
  MaxHalts = 2
  Inputs <- PairsToMerge
  Ranges <- SomeRanges
  FrameType = other
  WindowLogs <- WithFrames
  Boxes <- OneOrBoth
  WindowSize = 1
  MaxLoads = 3
INVARIANTS MergeTypeOK InTimeOrder NothingHidden CorruptionsCounted Handed MergeKeepsAll MergedSelfDescribing WindowComplete NoDouble
PROPERTIES PeekIsNext ReadsMerged
\* A reader that has been closed for the last time does nothing more.
CHECK_DEADLOCK FALSE
