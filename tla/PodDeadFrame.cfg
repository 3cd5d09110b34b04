SPECIFICATION Spec
CONSTANTS
  LeafSizes = {3}
  Capacity = 24
  Held = 0
INVARIANT FramesAlive
\* The Vec has been read: the program may stop.
CHECK_DEADLOCK FALSE
