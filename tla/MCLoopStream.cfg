SPECIFICATION FairSpec
CONSTANTS
  d = d  f1 = f1  f2 = f2
  Fibers = {d, f1, f2}
  Dispatcher = d
  None = None
  MaxPending = 3
  AwaitsElsewhere = FALSE
INVARIANTS OnePlace NoLostWakeup ClosedForAll
PROPERTY EventsDispatched
