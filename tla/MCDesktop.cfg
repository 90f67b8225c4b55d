SPECIFICATION Spec
CONSTANTS
  v1 = v1  v2 = v2  x1 = x1
  Views = {v1, v2, x1}
  XViews = {x1}
  None = None
  MaxHeld = 2
  Lifts = {{"moves", "surface", "parents"},
           {"alt", "moves"},
           {"alt", "surface", "parents"},
           {"keyboard", "alt", "moves", "surface", "parents"}}
SYMMETRY Symmetry
INVARIANTS FocusFollowsOrder OneActive GrabIsMapped GrabIsHeld ViewsAreMapped
