SPECIFICATION RoundtripSpec
CONSTANTS
  LeafSizes = {0, 3, 8}
  ElemSizes = {0, 4, 8}
  Lengths = {0, 1, 3, 63}
  PtrSize = 8
  U32 = 64
  Capacity = 48
  Held = 0
INVARIANTS
  HeadersTruthful
  Aligned
  ReadsWhatWasWritten
  
  ScopesNested
PROPERTIES
  ReaderFinishes
\* One call of serialize and one of deserialize: they end.
CHECK_DEADLOCK FALSE
