SPECIFICATION FairSpec
CONSTANTS
  event = event
  timer = timer
  idle = idle
  io = io
  None = None
  Sources = {event, timer, idle, io}
  KindOf <- Kinds
  Notifier = event
  Lender = timer
  MaxGuards = 2
INVARIANTS
  MutualExclusion
  NoLostWakeup
  ClosureAlive
  LentUntilAccepted
PROPERTIES
  EventServed
  StopReturns
\* The main thread may wait for a signal that nobody gives.
CHECK_DEADLOCK FALSE
