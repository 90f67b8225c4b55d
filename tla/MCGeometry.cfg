SPECIFICATION Spec
CONSTANTS
  None = None
  OutputWidth = 2
  Sizes = {1, 2}
  Offsets = {0, 1}
  Places = {0, 1}
  Kinds = {"xdg", "x11"}
  Grains = {1, 2, 4}
  MaxTurns = 4
  Lifts = {{"hasty", "interleaved"}, {"children"}}
CHECK_DEADLOCK FALSE
INVARIANTS PlacesAgree BoxComesBack
PROPERTIES MoveKeepsGrip ResizeKeepsEdge
