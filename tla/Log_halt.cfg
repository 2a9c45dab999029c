SPECIFICATION LogSpec
CONSTANTS
  own = own
  old = old
  other = other
  Types <- ThreeTypes
  Times <- Clock
  HandlerType = own
  Versions <- TwoVersions
  Logs <- NoLogs
  Options <- Strict
  MaxRestarts = 2
  MaxHalts = 2
  Inputs <- CleanPairs
  Ranges <- AllEarlierOnly
  FrameType = other
  WindowLogs <- NoLogs
  Boxes <- OneOrBoth
  WindowSize = 1
  MaxLoads = 3
INVARIANT NoFalseAlarm
\* A reader that has been closed for the last time does nothing more.
CHECK_DEADLOCK FALSE
