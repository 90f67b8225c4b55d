SPECIFICATION Spec
CONSTANTS
  w1 = w1  w2 = w2  w3 = w3
  Windows = {w1, w2, w3}
  None = None
  OrphansMap = FALSE
SYMMETRY Symmetry
CHECK_DEADLOCK FALSE
INVARIANTS DataAlive NothingLinked ShownIsMapped LostWithParent
