SPECIFICATION Spec
CONSTANTS
  k1 = k1  k2 = k2
  Keyboards = {k1, k2}
  s1 = s1  s2 = s2
  Surfaces = {s1, s2}
  None = None
  Lifts = {{}, {"compiles"}, {"sets"}}
CHECK_DEADLOCK FALSE
INVARIANTS NoStuckKeys XkbBalanced KeyboardsListed
PROPERTY KeysCarryModifiers
