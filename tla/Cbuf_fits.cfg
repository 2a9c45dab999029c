SPECIFICATION CbufSpec
CONSTANTS
  Programs <- AllPrograms
  MaxDepth = 4
  IsExpression <- Parses
  Value <- ComputedValue
  Objects <- Fillings
  Versions <- Edits
INVARIANTS ConvertedFits
CHECK_DEADLOCK FALSE
