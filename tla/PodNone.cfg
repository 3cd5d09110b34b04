SPECIFICATION RoundtripSpec
CONSTANTS
  LeafSizes = {3}
  ElemSizes = {}
  Lengths = {}
  PtrSize = 8
  U32 = 64
  Capacity = 32
  Held = 0
INVARIANT WrongTypesAreErrors
\* One call of serialize and one of deserialize: they end.
CHECK_DEADLOCK FALSE
