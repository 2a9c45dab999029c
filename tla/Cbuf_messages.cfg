SPECIFICATION CbufSpec
CONSTANTS
  Programs <- AllPrograms
  MaxDepth = 4
  IsExpression <- Parses
  Value <- ComputedValue
  Objects <- Fillings
  Versions <- Edits
INVARIANTS
  ImportedOnce EnumValues NamesResolved MetadataFaithful
  SizeAgrees RoundTrip HashTellsApart SameValues Converts JsonRoundTrip 
CHECK_DEADLOCK FALSE
