SPECIFICATION Spec
CONSTANTS
  Fns = {f1}
  f1 = f1
  Handles = {h1}
  h1 = h1
  Streams = {}
  None = None
  Garbage = Garbage
  MaxDepth = 1
  RemovesSpentIdle = TRUE
INVARIANT RemoveAlwaysSucceeds
