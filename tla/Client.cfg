SPECIFICATION ClientSpec
CONSTANTS
  AsyncBit = 4
  Errnos = {1, 2, 5}
  MaxSent = 10
  Window = 4
  node = node
  metadata = metadata
  other = other
  Globals = {node, metadata, other}
  TypeOf <- Types
  Ids = {1, 2}
  s1 = s1
  s2 = s2
  b1 = b1
  b2 = b2
  Streams = {s1, s2}
  Buffers = {b1, b2}
  Home <- HomeDef
  WithMeta = {b1}
  WithFds = {b1}
  Width = 2
  Mixed = FALSE
INVARIANTS
  SeqSurvives
  Classified
  MapsMirrorLibrary
  ServerAgrees
  NewsOnTheWay
  ExactlyOnePlace
PROPERTIES
  AllEventsProcessed
  RoundtripReturns
  MapsFollowServer
  CallsEnd
\* The number of messages is bounded, or the process aborted: it may stop.
CHECK_DEADLOCK FALSE
