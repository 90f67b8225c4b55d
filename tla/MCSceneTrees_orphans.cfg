SPECIFICATION Spec
CONSTANTS
  w1 = w1  w2 = w2  w3 = w3
  Windows = {w1, w2, w3}
  None = None
  OrphansMap = TRUE
SYMMETRY Symmetry
CHECK_DEADLOCK FALSE
INVARIANT ReusedTreeLives
