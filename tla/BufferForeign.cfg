SPECIFICATION BuffersSpec
CONSTANTS
  s1 = s1
  s2 = s2
  b1 = b1
  b2 = b2
  Streams = {s1, s2}
  Buffers = {b1}
  Home <- HomeDef
  WithMeta = {b1}
  WithFds = {b1}
  Width = 2
  Mixed = TRUE
INVARIANT ExactlyOnePlace
\* The process may be aborted.
CHECK_DEADLOCK FALSE
