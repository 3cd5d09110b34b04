SPECIFICATION Spec
CONSTANTS
  LeafSizes = {0, 3, 8}
  Capacity = 48
  Held = 24
INVARIANTS
  HeadersWritten
  FramesNested
  InStep
  EachChildOnce
\* The Vec has been read: the program may stop.
CHECK_DEADLOCK FALSE
