------------------------------ MODULE Geometry ------------------------------
(***************************************************************************)
(* Where tinyjl puts one view and how large it asks it to be: moving and   *)
(* resizing with the cursor, maximize and fullscreen with the boxes they   *)
(* save, and what an X11 window asks for itself.                           *)
(*                                                                         *)
(* The code treats the two axes in the same way and apart from each other; *)
(* this is the horizontal one.  Lengths are in pixels, the cursor is in    *)
(* fractions of a pixel.  A size that was asked for becomes the view's     *)
(* when its client commits it.                                             *)
(***************************************************************************)
EXTENDS Integers

CONSTANTS
  None,          \* nil
  OutputWidth,   \* there are two outputs of this width, side by side
  Sizes,         \* what clients choose for themselves, when they may
  Offsets,       \* of the window in its surface, as clients draw shadows
  Places,        \* where X11 windows ask to be
  Kinds,         \* the kinds of views: "xdg", "x11"
  Grains,        \* cursor positions to a pixel
  MaxTurns,      \* bound on what clients and the user begin, one time each
                 \* but for the end of maximize and fullscreen
  Lifts          \* the sets of rules of which one is lifted throughout

\* What does not happen, as long as the rule is not lifted:
\* "placed"       an X11 window is not at (view :x) when it maps,
\* "children"     an X11 window has a parent, which is not at zero,
\* "hasty"        a box is saved, or an X11 window is moved, while its client
\*                has yet to commit the last size it was asked for,
\* "interleaved"  maximize and fullscreen are both on.
Rules == {"placed", "children", "hasty", "interleaved"}

ASSUME GeometryAssumption ==
  /\ OutputWidth \in Nat \ {0}
  /\ Sizes \subseteq Nat \ {0} /\ Offsets \subseteq Nat /\ Places \subseteq Int
  /\ Kinds \subseteq {"xdg", "x11"}
  /\ Grains \subseteq Nat \ {0}
  /\ MaxTurns \in Nat
  /\ Lifts \subseteq SUBSET Rules
  /\ None \notin Int \cup [x : Int, w : Int]

VARIABLES
  kind, grain, parent, lifted,  \* fixed for a behaviour; where the parent is
  mapped,
  x,         \* (view :x)
  node,      \* the position of its scene node under the parent's, or None
  xw,        \* the position of the X11 window, as wlroots knows it
  geo,       \* the offset and the width the client has committed
  asked,     \* the width asked for and not committed yet, or None
  saved,     \* (view :maximized), (view :fullscreen)
  cursor,    \* in fractions of a pixel, while it matters
  grab,      \* what begin-interactive has put into the server, or None
  turns,     \* how much has begun
  free       \* history: the box of the view when it was last on its own

world == <<kind, grain, parent, lifted>>
place == <<x, node, xw>>
vars  == <<world, mapped, place, geo, asked, saved, cursor, grab, turns, free>>

Box(l, w) == [x |-> l, w |-> w]

Keeping(rules) == lifted \cap rules = {}

IsX11    == kind = "x11"
Floating == saved = [maximized |-> None, fullscreen |-> None]

Layout  == Box(0, 2 * OutputWidth)
Outputs == {Box(0, OutputWidth), Box(OutputWidth, OutputWidth)}

\* get-maximize-geo-box: the output that (view :x) is on, or all of them.
OutputBox ==
  IF x \in 0 .. 2 * OutputWidth - 1
  THEN CHOOSE o \in Outputs : x \in o.x .. o.x + o.w - 1
  ELSE Layout

\* math/round of a number of fractions: halves go away from zero.
Round(n) ==
  LET Nearest(k) == (2 * k + grain) \div (2 * grain)
  IN  IF n >= 0 THEN Nearest(n) ELSE - Nearest(- n)

Init ==
  /\ kind \in Kinds /\ grain \in Grains /\ lifted \in Lifts
  /\ parent \in IF IsX11 /\ "children" \in lifted THEN {1} ELSE {0}
  /\ mapped = FALSE
  /\ x = 0
  /\ node = IF IsX11 THEN None ELSE 0
  /\ xw \in IF IsX11 THEN Places ELSE {0}
  /\ geo = Box(0, 0)
  /\ asked = None
  /\ saved = [maximized |-> None, fullscreen |-> None]
  /\ cursor = 0
  /\ grab = None
  /\ turns = 0
  /\ free = Box(0, 0)

----------------------------------------------------------------------------
\* What the server tells wlroots.

\* There is nothing to commit when the width is what it was.
Ask(w) == asked' = IF mapped /\ w = geo.w THEN None ELSE w

\* wlr-scene-node-set-position and, for an X11 window, its configure, which
\* takes the same coordinates.
PutAt(p) ==
  /\ x' = p
  /\ node' = p
  /\ xw' = IF IsX11 THEN p ELSE xw

\* Finer positions of the cursor leave fewer turns.
Turn == turns < MaxTurns - grain \div 2 /\ turns' = turns + 1

\* A view that is neither maximized nor in full screen is on its own.
Freely(l, w) == free' = IF Floating THEN Box(l, w) ELSE free

----------------------------------------------------------------------------
\* Clients.

\* The client's first buffer.  An X11 window gets its tree, or gets it back,
\* at xw-local-coords; (view :x) stays as it was.
Map(o, w) ==
  /\ Turn
  /\ ~ mapped
  /\ asked \notin {None, 0} => w = asked
  /\ mapped' = TRUE
  /\ geo' = Box(IF IsX11 THEN 0 ELSE o, w)
  /\ asked' = None
  /\ node' = IF IsX11 THEN xw - parent ELSE node
  /\ node' = x \/ "placed" \in lifted
  /\ Freely(node', w)
  /\ UNCHANGED <<world, x, xw, saved, cursor, grab>>

\* handle-surface-unmap ends the grab; configures under way are void.
Unmap ==
  /\ Turn
  /\ mapped
  /\ mapped' = FALSE
  /\ geo' = Box(0, 0)
  /\ asked' = None
  /\ grab' = None /\ cursor' = 0
  /\ UNCHANGED <<world, place, saved, free>>

\* The client commits the width it was asked for; 0 leaves it the choice.
Obey(o, w) ==
  /\ mapped /\ asked # None
  /\ asked # 0 => w = asked
  /\ geo' = Box(IF IsX11 THEN 0 ELSE o, w)
  /\ asked' = None
  /\ free' = IF Floating /\ asked = 0 THEN Box(free.x, w) ELSE free
  /\ UNCHANGED <<world, mapped, place, saved, cursor, grab, turns>>

\* The client of a toplevel chooses another size or other shadows.
Choose(o, w) ==
  /\ Turn
  /\ mapped /\ ~ IsX11 /\ asked = None /\ Floating
  /\ geo' = Box(o, w)
  /\ free' = Box(free.x, w)
  /\ UNCHANGED <<world, mapped, place, asked, saved, cursor, grab>>

\* handle-xwayland-surface-request-configure: an X11 client wants its window
\* at p on the screen.
RequestConfigure(p, w) ==
  /\ Turn
  /\ IsX11
  /\ Ask(w)
  /\ IF mapped THEN PutAt(p) /\ Freely(p, w)
     ELSE xw' = p /\ UNCHANGED <<x, node, free>>
  /\ UNCHANGED <<world, mapped, geo, saved, cursor, grab>>

SetGeometry_NodeStays(p) ==
  /\ Turn
  /\ IsX11 /\ p # xw
  /\ xw' = p
  /\ IF x = p THEN UNCHANGED <<x, node, free>>
     ELSE /\ x' = p - parent
          /\ IF mapped THEN UNCHANGED node /\ Freely(node, free.w)
             ELSE UNCHANGED <<node, free>>
  /\ UNCHANGED <<world, mapped, geo, asked, saved, cursor, grab>>

\* handle-xwayland-surface-set-geometry: the X server has moved it to p.
SetGeometry(p) ==
  /\ Turn
  /\ IsX11 /\ p # xw
  /\ xw' = p
  /\ IF x = p THEN UNCHANGED <<x, node, free>>
     ELSE /\ x' = p - parent
          /\ IF mapped THEN node' = p - parent /\ Freely(node', free.w)
             ELSE UNCHANGED <<node, free>>
  /\ UNCHANGED <<world, mapped, geo, asked, saved, cursor, grab>>

----------------------------------------------------------------------------
\* Maximize and fullscreen.

Other(slot) == IF slot = "maximized" THEN "fullscreen" ELSE "maximized"

Save_AfterMove(slot) ==
  /\ Turn
  /\ saved[slot] = None
  /\ asked = None \/ "hasty" \in lifted
  /\ saved[Other(slot)] = None \/ "interleaved" \in lifted
  /\ saved' = [saved EXCEPT ![slot] = Box(OutputBox.x, geo.w)]
  /\ PutAt(OutputBox.x)
  /\ Ask(OutputBox.w)

\* The box that is saved has the size that was committed.
Save(slot) ==
  /\ Turn
  /\ saved[slot] = None
  /\ asked = None \/ "hasty" \in lifted
  /\ saved[Other(slot)] = None \/ "interleaved" \in lifted
  /\ saved' = [saved EXCEPT ![slot] = Box(x, geo.w)]
  /\ PutAt(OutputBox.x)
  /\ Ask(OutputBox.w)

Restore(slot) ==
  /\ UNCHANGED turns
  /\ saved[slot] # None
  /\ saved' = [saved EXCEPT ![slot] = None]
  /\ PutAt(saved[slot].x)
  /\ Ask(saved[slot].w)

\* handle-xdg-toplevel-request-maximize and -fullscreen, mapped or not.
RequestToplevel(slot) ==
  /\ ~ IsX11
  /\ Save(slot) \/ Restore(slot)
  /\ UNCHANGED <<world, mapped, geo, cursor, grab, free>>

\* handle-xwayland-surface-request-maximize and -fullscreen: an unmapped
\* window has no surface to take the size of, and the handler raises.
RequestWindow(slot) ==
  /\ IsX11
  /\ (mapped /\ Save(slot)) \/ Restore(slot)
  /\ UNCHANGED <<world, mapped, geo, cursor, grab, free>>

----------------------------------------------------------------------------
\* The cursor.

Left  == node + geo.x
Right == Left + geo.w

\* On the screen a node has the position of its parent added.
Hovers(c) ==
  /\ mapped
  /\ grab # None => c = cursor
  /\ c >= grain * (Left + parent) /\ c < grain * (Right + parent)

BeginMove_FromEdge(c) ==
  /\ Turn
  /\ Hovers(c)
  /\ cursor' = c
  /\ grab' = [mode |-> "move", at |-> c - grain * (x + geo.x),
              grip |-> c - grain * node]
  /\ UNCHANGED <<world, mapped, place, geo, asked, saved, free>>

\* begin-interactive with :move.  grip is history: how the cursor holds the
\* view.
BeginMove(c) ==
  /\ Turn
  /\ Hovers(c)
  /\ cursor' = c
  /\ grab' = [mode |-> "move", at |-> c - grain * x, grip |-> c - grain * node]
  /\ UNCHANGED <<world, mapped, place, geo, asked, saved, free>>

\* begin-interactive with :resize.  fixed is history: where the edges are
\* on the screen.
BeginResize(c, edge) ==
  LET border == x + geo.x + (IF edge = "right" THEN geo.w ELSE 0) IN
  /\ Turn
  /\ Hovers(c)
  /\ cursor' = c
  /\ grab' = [mode |-> "resize", edge |-> edge, at |-> c - grain * border,
              box |-> Box(x + geo.x, geo.w), fixed |-> [left |-> Left, right |-> Right]]
  /\ UNCHANGED <<world, mapped, place, geo, asked, saved, free>>

\* reset-cursor-mode.
Release ==
  /\ grab # None
  /\ grab' = None /\ cursor' = 0
  /\ UNCHANGED <<world, mapped, place, geo, asked, saved, turns, free>>

\* process-cursor-move: an X11 window is configured with the size it has.
Move(c) ==
  /\ grab.mode = "move"
  /\ PutAt(Round(c - grab.at))
  /\ IF IsX11 THEN /\ asked = None \/ "hasty" \in lifted
                   /\ Ask(geo.w)
     ELSE UNCHANGED asked
  /\ Freely(node', free.w)

NewLeft_NoClamp(c) ==
  IF grab.edge = "left" THEN c - grab.at ELSE grain * grab.box.x

\* The edge that the cursor drags stops a pixel before the other one.
NewLeft(c) ==
  LET right == grain * (grab.box.x + grab.box.w)
      left  == IF grab.edge = "left" THEN c - grab.at ELSE grain * grab.box.x
  IN  IF grab.edge = "left" /\ left >= right THEN right - grain ELSE left

NewRight(c) ==
  LET left  == grain * grab.box.x
      right == IF grab.edge = "right" THEN c - grab.at
               ELSE grain * (grab.box.x + grab.box.w)
  IN  IF grab.edge = "right" /\ right =< left THEN left + grain ELSE right

\* process-cursor-resize: the position takes the committed offset off.
Resize(c) ==
  LET width == Round(NewRight(c) - NewLeft(c)) IN
  /\ grab.mode = "resize"
  /\ PutAt(Round(NewLeft(c) - grain * geo.x))
  /\ Ask(width)
  /\ Freely(node', width)

\* handle-cursor-motion, process-cursor-motion: without a grab the cursor
\* changes the pointer's focus only.
Motion(c) ==
  /\ grab # None /\ c # cursor
  /\ cursor' = c
  /\ Move(c) \/ Resize(c)
  /\ UNCHANGED <<world, mapped, geo, saved, grab, turns>>

Cursors == 0 .. 2 * OutputWidth * grain - 1

----------------------------------------------------------------------------
Next ==
  \/ \E o \in Offsets, w \in Sizes \cup ({asked} \ {None, 0}) : Map(o, w)
  \/ Unmap
  \/ \E o \in Offsets, w \in Sizes \cup ({asked} \ {None, 0}) : Obey(o, w)
  \/ \E o \in Offsets, w \in Sizes : Choose(o, w)
  \/ \E p \in Places, w \in Sizes : RequestConfigure(p, w)
  \/ \E p \in Places : SetGeometry(p)
  \/ \E slot \in DOMAIN saved : RequestToplevel(slot)
  \/ \E slot \in DOMAIN saved : RequestWindow(slot)
  \/ \E c \in Cursors : BeginMove(c)
  \/ \E c \in Cursors, edge \in {"left", "right", "none"} : BeginResize(c, edge)
  \/ Release
  \/ \E c \in Cursors : Motion(c)

Spec == Init /\ [][Next]_vars

----------------------------------------------------------------------------
\* handle-surface-map, process-cursor-move, handle-xwayland-surface-request-
\* configure and -set-geometry: the server, the scene and, for an X11
\* window, the X server agree where a view is.
PlacesAgree ==
  Keeping({"placed", "children"}) /\ mapped =>
    /\ node = x
    /\ IsX11 => xw = x

\* The cursor moves during a grab.
Drags == grab # None /\ grab' = grab /\ cursor' # cursor

Distance(i, j) == IF i < j THEN j - i ELSE i - j

\* begin-interactive, process-cursor-move: whatever the window does during
\* the grab, the cursor holds it where it took it, to half a pixel.
MoveKeepsGrip ==
  [][Keeping({"placed"}) /\ Drags /\ grab.mode = "move"
     => 2 * Distance(cursor' - grain * node', grab.grip) =< grain]_vars

\* The width that a view is going to have.
Width == IF asked = None THEN geo.w ELSE asked

\* process-cursor-resize: once the client has committed the width, the edges
\* that the cursor does not drag are where they were, even if it was dragged
\* past the other edge; with fractions of a pixel the right one may be a
\* pixel off.  The width is never less than one pixel, or less than none if
\* the fractions are smaller than a half.
ResizeKeepsEdge ==
  [][Keeping({"placed"}) /\ Drags /\ grab.mode = "resize"
     => LET off == node' + geo.x + Width' - grab.fixed.right IN
        /\ grab.edge # "left" => node' + geo.x = grab.fixed.left
        /\ grab.edge # "right" => off \in 0 .. IF grain = 1 THEN 0 ELSE 1
        /\ Width' >= IF grain =< 2 THEN 1 ELSE 0]_vars

\* handle-xdg-toplevel-request-maximize, -fullscreen, the two of X11
\* windows: a view that is on its own again, and whose client has committed
\* what it was asked for, has the box it had when it last was.
BoxComesBack ==
  Keeping({"placed", "hasty", "interleaved"}) /\ mapped /\ Floating /\ asked = None
    => Box(node, geo.w) = free
=============================================================================
