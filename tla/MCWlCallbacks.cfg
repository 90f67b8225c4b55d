SPECIFICATION FairSpec
CONSTANTS
  f1 = f1
  h1 = h1  h2 = h2
  s1 = s1
  Fns = {f1}
  Handles = {h1, h2}
  Streams = {s1}
  None = None
  Garbage = Garbage
  MaxDepth = 2
  RemovesSpentIdle = FALSE
INVARIANTS LinkedAlive RunningIntact SuspendIsDepth RootsBalanced EdgesAlive
PROPERTIES ImplementsRegistration ClosuresReclaimed
