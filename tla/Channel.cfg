SPECIFICATION FairSpec
CONSTANTS
  Senders = {s1, s2}
  MaxSends = 3
  MaxFaults = 2
  CallbackMay = {"panic", "send"}
INVARIANTS
  WakeupPending
  PipeBounded
  WakeFindsMessage
  ExactlyOnce
PROPERTIES
  SendReturns
  ImplementsMailbox
\* Sends are bounded and the receiver may be dropped: the system may stop.
CHECK_DEADLOCK FALSE
