-------------------------- MODULE Geometry_proofs --------------------------
(***************************************************************************)
(* Proofs about Geometry, for any width of the outputs, any sizes, places  *)
(* and offsets, any fraction of a pixel and any rules that are lifted.     *)
(***************************************************************************)
EXTENDS Geometry, TLAPS

Slots == {"maximized", "fullscreen"}
Boxes == [x : Int, w : Nat]

(* The range of the variables that the proofs need.                         *)
Types ==
  /\ kind \in {"xdg", "x11"} /\ grain \in Nat \ {0}
  /\ parent \in {0, 1} /\ (parent = 1 => IsX11 /\ "children" \in lifted)
  /\ mapped \in BOOLEAN
  /\ x \in Int /\ xw \in Int
  /\ mapped \/ ~ IsX11 => node \in Int
  /\ geo \in [x : Nat, w : Nat] /\ (mapped <=> geo.w # 0)
  /\ asked \in Nat \cup {None}
  /\ saved \in [Slots -> Boxes \cup {None}]
  /\ cursor \in Int
  /\ free \in Boxes

(* Where the server believes the view to be, and where it is.               *)
InPlace ==
  /\ ~ IsX11 => node = x
  /\ Keeping({"placed"}) /\ mapped => node = x
  /\ Keeping({"placed", "children"}) /\ mapped /\ IsX11 => xw = x

(* What a grab remembers of the view it has begun with.                     *)
Grabbed ==
  grab # None =>
    /\ mapped
    /\ grab.mode = "move" =>
         /\ grab.at \in Int
         /\ Keeping({"placed"}) => grab.grip = grab.at
    /\ grab.mode = "resize" =>
         /\ grab.at \in Int /\ grab.box \in [x : Int, w : Nat \ {0}]
         /\ Keeping({"placed"}) =>
              grab.fixed = [left |-> grab.box.x, right |-> grab.box.x + grab.box.w]

(* A view that is on its own is where it was put, with the width that its   *)
(* client has, or was asked for; one that is not has its box in one slot.   *)
(* The width 0 was saved before the first map: it leaves the client a choice.*)
OwnBox ==
  /\ Floating /\ (mapped \/ ~ IsX11) => free.x = node
  /\ Floating /\ mapped /\ asked = None => free.w = geo.w
  /\ Floating /\ mapped /\ asked \notin {None, 0} => free.w = asked

SavedBox ==
  \A slot \in Slots : saved[slot] # None =>
    /\ saved[Other(slot)] = None
    /\ saved[slot].x = free.x
    /\ saved[slot].w \in {0, free.w}

BoxKept == Keeping({"placed", "hasty", "interleaved"}) => OwnBox /\ SavedBox

IInv == Types /\ InPlace /\ Grabbed /\ BoxKept

-----------------------------------------------------------------------------
(* math/round *)

LEMMA Quotient ==
  ASSUME NEW a \in Int, NEW b \in Nat \ {0}
  PROVE  /\ a \div b \in Int
         /\ b * (a \div b) =< a
         /\ a < b * (a \div b) + b
OBVIOUS

LEMMA Multiples ==
  ASSUME NEW g \in Nat \ {0}, NEW i \in Int, NEW j \in Int, g * i < g * j
  PROVE  i < j
OBVIOUS

(* The nearest whole number is half a pixel off at most, and a half goes    *)
(* away from zero.                                                          *)
LEMMA RoundNearest ==
  ASSUME grain \in Nat \ {0}, NEW n \in Int
  PROVE  /\ Round(n) \in Int
         /\ - grain =< 2 * (n - grain * Round(n))
         /\ 2 * (n - grain * Round(n)) =< grain
         /\ n >= 0 => 2 * (n - grain * Round(n)) < grain
         /\ n < 0  => - grain < 2 * (n - grain * Round(n))
<1> DEFINE Nearest(k) == (2 * k + grain) \div (2 * grain)
<1>1. ASSUME NEW k \in Int
      PROVE  /\ Nearest(k) \in Int
             /\ - grain =< 2 * (k - grain * Nearest(k))
             /\ 2 * (k - grain * Nearest(k)) < grain
  <2>1. 2 * k + grain \in Int /\ 2 * grain \in Nat \ {0}
    OBVIOUS
  <2>2. /\ Nearest(k) \in Int
        /\ (2 * grain) * Nearest(k) =< 2 * k + grain
        /\ 2 * k + grain < (2 * grain) * Nearest(k) + 2 * grain
    BY <2>1, Quotient
  <2> HIDE DEF Nearest
  <2>3. PICK m \in Int : m = grain * Nearest(k)
    BY <2>2
  <2>4. (2 * grain) * Nearest(k) = 2 * m
    BY <2>2, <2>3
  <2> QED BY <2>2, <2>3, <2>4
<1>2. Round(n) = IF n >= 0 THEN Nearest(n) ELSE - Nearest(- n)
  BY DEF Round
<1> HIDE DEF Nearest
<1>3. CASE n >= 0
  BY <1>1, <1>2, <1>3
<1>4. CASE n < 0
  <2>1. - n \in Int /\ Round(n) = - Nearest(- n)
    BY <1>2, <1>4
  <2>2. PICK r \in Int : r = Nearest(- n)
    BY <1>1, <2>1
  <2>3. - grain =< 2 * (- n - grain * r) /\ 2 * (- n - grain * r) < grain
    BY <1>1, <2>1, <2>2
  <2>4. grain * (- r) = - (grain * r) /\ Round(n) = - r
    BY <2>1, <2>2
  <2>5. PICK m \in Int : m = grain * r
    BY <2>2
  <2> QED BY <1>4, <2>3, <2>4, <2>5
<1> QED BY <1>3, <1>4

(* A whole number of pixels is left as it is.                               *)
LEMMA RoundWhole ==
  ASSUME grain \in Nat \ {0}, NEW k \in Int
  PROVE  Round(grain * k) = k
<1>1. PICK n \in Int : n = grain * k
  OBVIOUS
<1>2. PICK r \in Int : r = Round(n)
  BY RoundNearest
<1>3. - grain =< 2 * (n - grain * r) /\ 2 * (n - grain * r) =< grain
  BY <1>2, RoundNearest
<1>4. n - grain * r = grain * (k - r)
  BY <1>1, <1>2
<1>5. grain * (- 1) < grain * (k - r) /\ grain * (k - r) < grain * 1
  BY <1>3, <1>4
<1>6. - 1 < k - r /\ k - r < 1
  BY <1>5, Multiples
<1> QED BY <1>1, <1>2, <1>6

(* The rounded parts of a whole number of pixels add up to it, or to one    *)
(* more.                                                                    *)
LEMMA RoundSum ==
  ASSUME grain \in Nat \ {0}, NEW a \in Int, NEW b \in Nat, NEW k \in Int,
         a + b = grain * k
  PROVE  Round(a) + Round(b) - k \in 0 .. IF grain = 1 THEN 0 ELSE 1
<1>1. PICK r \in Int, s \in Int : r = Round(a) /\ s = Round(b)
  BY RoundNearest
<1>2. /\ - grain =< 2 * (a - grain * r) /\ 2 * (a - grain * r) =< grain
      /\ - grain =< 2 * (b - grain * s) /\ 2 * (b - grain * s) < grain
  BY <1>1, RoundNearest
<1>3. grain * (k - r - s) = (a - grain * r) + (b - grain * s)
  <2>1. grain * (k - r - s) = grain * k - grain * r - grain * s
    BY <1>1
  <2>2. PICK m \in Int, l \in Int : m = grain * r /\ l = grain * s
    BY <1>1
  <2> QED BY <2>1, <2>2
<1>4. PICK d \in Int : d = k - r - s
  BY <1>1
<1>5. - grain =< grain * d /\ grain * d < grain
  <2>1. PICK u \in Int, v \in Int : u = a - grain * r /\ v = b - grain * s
    BY <1>1
  <2> QED BY <1>2, <1>3, <1>4, <2>1
<1>6. grain * (- 2) < grain * d /\ grain * d < grain * 1
  BY <1>5
<1>7. - 2 < d /\ d < 1
  BY <1>4, <1>6, Multiples
<1>8. ASSUME grain = 1 PROVE d = 0
  <2>1. grain * a = a /\ grain * b = b /\ grain * k = k
    BY <1>8
  <2>2. r = a /\ s = b
    BY <1>1, <2>1, RoundWhole
  <2> QED BY <1>4, <2>1, <2>2
<1> QED BY <1>1, <1>4, <1>7, <1>8

(* What is wider than nothing does not round to less than nothing.          *)
LEMMA RoundWide ==
  ASSUME grain \in Nat \ {0}, NEW n \in Nat \ {0}
  PROVE  Round(n) \in Nat /\ (grain =< 2 => Round(n) >= 1)
<1>1. PICK r \in Int : r = Round(n)
  BY RoundNearest
<1>2. 2 * (n - grain * r) =< grain /\ 2 * (n - grain * r) < grain
  BY <1>1, RoundNearest
<1>3. grain * (- 1) < grain * r
  BY <1>1, <1>2
<1>4. r >= 0
  BY <1>1, <1>3, Multiples
<1>5. CASE grain = 1
  BY <1>1, <1>2, <1>4, <1>5
<1>6. CASE grain = 2
  BY <1>1, <1>2, <1>4, <1>6
<1> QED BY <1>1, <1>4, <1>5, <1>6

-----------------------------------------------------------------------------
(* The inductive invariant *)

LEMMA FloatingSlots ==
  ASSUME Types
  PROVE  /\ DOMAIN saved = Slots
         /\ Floating <=> \A slot \in Slots : saved[slot] = None
<1>1. saved \in [Slots -> Boxes \cup {None}]
  BY DEF Types
<1>2. DOMAIN saved = Slots
  BY <1>1
<1> DEFINE Empty == [slot \in Slots |-> None]
<1>3. [maximized |-> None, fullscreen |-> None] = Empty
  BY DEF Slots
<1>4. saved = Empty <=> \A slot \in Slots : saved[slot] = None
  BY <1>1
<1> QED BY <1>2, <1>3, <1>4 DEF Floating

LEMMA NoneIsNoBox == None \notin Int /\ None \notin Boxes
BY GeometryAssumption DEF Boxes

LEMMA InitIInv == Init => IInv
<1> SUFFICES ASSUME Init PROVE IInv
  OBVIOUS
<1>1. Types
  <2>1. saved \in [Slots -> Boxes \cup {None}]
    BY DEF Init, Slots
  <2>2. kind \in {"xdg", "x11"} /\ grain \in Nat \ {0} /\ xw \in Int
    BY GeometryAssumption DEF Init
  <2>3. /\ parent \in {0, 1} /\ (parent = 1 => IsX11 /\ "children" \in lifted)
        /\ ~ IsX11 => node \in Int
    BY <2>2 DEF Init
  <2>4. geo \in [x : Nat, w : Nat] /\ geo.w = 0 /\ free \in Boxes
    BY DEF Init, Box, Boxes
  <2>5. mapped \in BOOLEAN /\ ~ mapped /\ x = 0 /\ asked = None /\ cursor = 0
    BY DEF Init
  <2> QED BY <2>1, <2>2, <2>3, <2>4, <2>5 DEF Types
<1>2. InPlace /\ Grabbed
  BY DEF Init, InPlace, Grabbed, IsX11
<1>3. OwnBox
  BY DEF Init, OwnBox, Box, IsX11
<1>4. SavedBox
  BY DEF Init, SavedBox, Slots
<1> QED BY <1>1, <1>2, <1>3, <1>4 DEF IInv, BoxKept

LEMMA MapKeeps ==
  ASSUME IInv, NEW o \in Offsets, NEW w \in Nat \ {0}, Map(o, w)
  PROVE  IInv'
<1> USE GeometryAssumption DEF IInv, Map, Box, IsX11
<1>1. Types'
  BY DEF Types, Turn, Freely, Boxes, world, IsX11
<1>2. InPlace'
  BY DEF Types, InPlace, Keeping, world
<1>3. Grabbed'
  BY DEF Types, Grabbed, Keeping, world
<1>4. BoxKept'
  BY DEF Types, BoxKept, OwnBox, SavedBox, Freely, Floating, Keeping, world, InPlace
<1> QED BY <1>1, <1>2, <1>3, <1>4

LEMMA UnmapKeeps ==
  ASSUME IInv, Unmap
  PROVE  IInv'
<1> USE GeometryAssumption DEF IInv, Unmap, Box, IsX11
<1>1. Types'
  <2>1. geo' \in [x : Nat, w : Nat] /\ geo'.w = 0 /\ mapped' \in BOOLEAN /\ ~ mapped'
    OBVIOUS
  <2>2. asked' = None /\ cursor' = 0 /\ UNCHANGED <<world, place, saved, free>>
    OBVIOUS
  <2> QED BY <2>1, <2>2 DEF Types, world, place
<1>2. InPlace'
  BY DEF Types, InPlace, Keeping, world, place
<1>3. Grabbed'
  BY DEF Types, Grabbed, Keeping, world
<1>4. BoxKept'
  BY DEF Types, BoxKept, OwnBox, SavedBox, Floating, Keeping, world, place
<1> QED BY <1>1, <1>2, <1>3, <1>4

LEMMA ObeyKeeps ==
  ASSUME IInv, NEW o \in Offsets, NEW w \in Nat \ {0}, Obey(o, w)
  PROVE  IInv'
<1> USE GeometryAssumption DEF IInv, Obey, Box, IsX11
<1>1. Types'
  BY DEF Types, Boxes, world, place
<1>2. InPlace'
  BY DEF Types, InPlace, Keeping, world, place
<1>3. Grabbed'
  BY DEF Types, Grabbed, Keeping, world
<1>4. BoxKept'
  BY DEF Types, BoxKept, OwnBox, SavedBox, Floating, Keeping, world, place
<1> QED BY <1>1, <1>2, <1>3, <1>4

LEMMA ChooseKeeps ==
  ASSUME IInv, NEW o \in Offsets, NEW w \in Nat \ {0}, Choose(o, w)
  PROVE  IInv'
<1> USE GeometryAssumption DEF IInv, Choose, Box, IsX11
<1>1. Types'
  BY DEF Types, Turn, Boxes, world, place
<1>2. InPlace'
  BY DEF Types, InPlace, Keeping, world, place
<1>3. Grabbed'
  BY DEF Types, Grabbed, Keeping, world
<1>4. BoxKept'
  BY FloatingSlots DEF Types, BoxKept, OwnBox, SavedBox, Floating, Keeping, world, place
<1> QED BY <1>1, <1>2, <1>3, <1>4

LEMMA RequestConfigureKeeps ==
  ASSUME IInv, NEW p \in Int, NEW w \in Nat \ {0}, RequestConfigure(p, w)
  PROVE  IInv'
<1> USE GeometryAssumption DEF IInv, RequestConfigure, PutAt, Freely, Box, IsX11
<1>1. Types'
  BY DEF Types, Turn, Ask, Boxes, world
<1>2. InPlace'
  BY DEF Types, InPlace, Keeping, world
<1>3. Grabbed'
  BY DEF Types, Grabbed, Keeping, world
<1>4. BoxKept'
  BY FloatingSlots DEF Types, BoxKept, OwnBox, SavedBox, Ask, Floating, Keeping, world
<1> QED BY <1>1, <1>2, <1>3, <1>4

LEMMA SetGeometryKeeps ==
  ASSUME IInv, NEW p \in Int, SetGeometry(p)
  PROVE  IInv'
<1> USE GeometryAssumption DEF IInv, SetGeometry, Freely, Box, IsX11
<1>1. Types'
  BY DEF Types, Turn, Boxes, world
<1>2. InPlace'
  BY DEF Types, InPlace, Keeping, world
<1>3. Grabbed'
  BY DEF Types, Grabbed, Keeping, world
<1>4. BoxKept'
  BY FloatingSlots DEF Types, BoxKept, OwnBox, SavedBox, InPlace, Floating, Keeping, world
<1> QED BY <1>1, <1>2, <1>3, <1>4

(* get-maximize-geo-box always comes up with a box.                         *)
LEMMA OutputBoxFits ==
  ASSUME Types
  PROVE  OutputBox.x \in Int /\ OutputBox.w \in Nat \ {0}
<1> USE GeometryAssumption
<1>1. CASE x \in 0 .. 2 * OutputWidth - 1
  <2> DEFINE o == CHOOSE o \in Outputs : x \in o.x .. o.x + o.w - 1
  <2>1. \E u \in Outputs : x \in u.x .. u.x + u.w - 1
    <3>1. CASE x < OutputWidth
      BY <1>1, <3>1 DEF Types, Outputs, Box
    <3>2. CASE x >= OutputWidth
      BY <1>1, <3>2 DEF Types, Outputs, Box
    <3> QED BY <3>1, <3>2 DEF Types
  <2>2. o \in Outputs
    BY <2>1
  <2>3. OutputBox = o
    BY <1>1 DEF OutputBox
  <2> HIDE DEF o
  <2> QED BY <2>2, <2>3 DEF Outputs, Box
<1>2. CASE x \notin 0 .. 2 * OutputWidth - 1
  BY <1>2 DEF OutputBox, Layout, Box
<1> QED BY <1>1, <1>2

(* Maximize and fullscreen, whatever kind of view it is.                    *)
LEMMA SaveKeeps ==
  ASSUME IInv, NEW slot \in Slots, Save(slot), mapped \/ ~ IsX11,
         UNCHANGED <<world, mapped, geo, cursor, grab, free>>
  PROVE  IInv'
<1> USE DEF IInv, Save
<1>1. PICK b \in Boxes : b = Box(x, geo.w)
  BY DEF Types, Box, Boxes
<1>2. saved' = [saved EXCEPT ![slot] = b]
  BY <1>1
<1>3. PICK p \in Int, w \in Nat \ {0} : p = OutputBox.x /\ w = OutputBox.w
  BY OutputBoxFits
<1>4. PutAt(p) /\ Ask(w)
  BY <1>3
<1>5. b.x = x /\ b.w = geo.w /\ b # None
  BY <1>1, NoneIsNoBox DEF Box
<1> HIDE DEF Save
<1>6. Types'
  BY <1>2, <1>4 DEF Types, PutAt, Ask, world, IsX11
<1>7. InPlace'
  BY <1>4 DEF InPlace, PutAt, Keeping, world, IsX11
<1>8. Grabbed'
  BY DEF Grabbed, Keeping, world
<1>9. BoxKept'
  <2> SUFFICES ASSUME Keeping({"placed", "hasty", "interleaved"}) PROVE OwnBox' /\ SavedBox'
    BY DEF BoxKept, Keeping, world
  <2>1. asked = None /\ saved[slot] = None /\ saved[Other(slot)] = None
    BY DEF Save, Keeping
  <2>2. Floating
    BY <2>1, FloatingSlots DEF Other, Slots
  <2>3. free.x = x /\ (mapped => free.w = geo.w) /\ (~ mapped => geo.w = 0)
    BY <2>1, <2>2 DEF BoxKept, OwnBox, InPlace, Keeping, Types
  <2>4. saved'[slot] = b /\ saved'[Other(slot)] = None
    BY <1>2, <2>1 DEF Types, Other, Slots
  <2>5. ~ Floating'
    BY <1>5, <1>6, <2>4, FloatingSlots DEF Floating, Slots
  <2>6. SavedBox'
    BY <1>5, <2>3, <2>4 DEF SavedBox, Other, Slots, Types
  <2> QED BY <2>5, <2>6 DEF OwnBox
<1> QED BY <1>6, <1>7, <1>8, <1>9

LEMMA RestoreKeeps ==
  ASSUME IInv, NEW slot \in Slots, Restore(slot),
         UNCHANGED <<world, mapped, geo, cursor, grab, free>>
  PROVE  IInv'
<1> USE DEF IInv, Restore
<1>1. PICK b \in Boxes : b = saved[slot]
  BY DEF Types
<1>2. PutAt(b.x) /\ Ask(b.w) /\ b.x \in Int /\ b.w \in Nat /\ b # None
  BY <1>1, NoneIsNoBox DEF Boxes
<1>3. saved' = [saved EXCEPT ![slot] = None]
  OBVIOUS
<1> HIDE DEF Restore
<1>6. Types'
  BY <1>2, <1>3 DEF Types, PutAt, Ask, world, IsX11
<1>7. InPlace'
  BY <1>2 DEF InPlace, PutAt, Keeping, world, IsX11
<1>8. Grabbed'
  BY DEF Grabbed, Keeping, world
<1>9. BoxKept'
  <2> SUFFICES ASSUME Keeping({"placed", "hasty", "interleaved"}) PROVE OwnBox' /\ SavedBox'
    BY DEF BoxKept, Keeping, world
  <2>1. saved[Other(slot)] = None /\ b.x = free.x /\ b.w \in {0, free.w}
    BY <1>1, <1>2 DEF BoxKept, SavedBox
  <2>2. \A s \in Slots : saved'[s] = None
    BY <1>3, <2>1 DEF Types, Other, Slots
  <2>3. SavedBox'
    BY <2>2 DEF SavedBox
  <2>4. node' = free.x
    BY <1>2, <2>1 DEF PutAt
  <2>5. mapped => \/ asked' = None /\ geo.w = b.w /\ geo.w # 0
                  \/ asked' = b.w /\ b.w # None
    BY <1>2, NoneIsNoBox DEF Ask, Types
  <2>6. OwnBox'
    BY <2>1, <2>4, <2>5 DEF OwnBox
  <2> QED BY <2>3, <2>6
<1> QED BY <1>6, <1>7, <1>8, <1>9

LEMMA RequestKeeps ==
  ASSUME IInv, NEW slot \in Slots, RequestToplevel(slot) \/ RequestWindow(slot)
  PROVE  IInv'
<1>1. CASE Save(slot)
  BY <1>1, SaveKeeps DEF RequestToplevel, RequestWindow, Save, Restore
<1>2. CASE Restore(slot)
  BY <1>2, RestoreKeeps DEF RequestToplevel, RequestWindow
<1> QED BY <1>1, <1>2 DEF RequestToplevel, RequestWindow

LEMMA BeginMoveKeeps ==
  ASSUME IInv, NEW c \in Int, BeginMove(c)
  PROVE  IInv'
<1> USE DEF IInv, BeginMove, Hovers
<1>1. Types' /\ InPlace' /\ BoxKept'
  BY DEF Types, InPlace, BoxKept, OwnBox, SavedBox, Floating, Keeping, world, place, IsX11
<1>2. PICK i \in Int, j \in Int : i = c - grain * x /\ j = c - grain * node
  BY DEF Types
<1>3. grab'.mode = "move" /\ grab'.at = i /\ grab'.grip = j
  BY <1>2
<1>4. Keeping({"placed"})' => i = j
  BY <1>2 DEF InPlace, Keeping, world
<1> QED BY <1>1, <1>2, <1>3, <1>4 DEF Grabbed

LEMMA BeginResizeKeeps ==
  ASSUME IInv, NEW c \in Int, NEW edge, BeginResize(c, edge)
  PROVE  IInv'
<1> USE DEF IInv, BeginResize, Hovers
<1>1. Types' /\ InPlace' /\ BoxKept'
  BY DEF Types, InPlace, BoxKept, OwnBox, SavedBox, Floating, Keeping, world, place, IsX11
<1>2. x + geo.x \in Int /\ geo.w \in Nat \ {0} /\ node \in Int
  BY DEF Types
<1>3. PICK i \in Int : i = c - grain * (x + geo.x + (IF edge = "right" THEN geo.w ELSE 0))
  BY <1>2 DEF Types
<1>4. /\ grab'.mode = "resize" /\ grab'.at = i
      /\ grab'.box = Box(x + geo.x, geo.w)
      /\ grab'.fixed = [left |-> Left, right |-> Right]
  BY <1>3
<1>5. /\ grab'.box \in [x : Int, w : Nat \ {0}]
      /\ grab'.box.x = x + geo.x /\ grab'.box.w = geo.w
  BY <1>2, <1>4 DEF Box
<1>6. Keeping({"placed"})' => Left = x + geo.x /\ Right = x + geo.x + geo.w
  BY DEF InPlace, Keeping, world, Left, Right
<1> QED BY <1>1, <1>3, <1>4, <1>5, <1>6 DEF Grabbed

LEMMA ReleaseKeeps ==
  ASSUME IInv, Release
  PROVE  IInv'
<1> USE DEF IInv, Release
<1>1. Types' /\ InPlace' /\ BoxKept'
  BY DEF Types, InPlace, BoxKept, OwnBox, SavedBox, Floating, Keeping, world, place, IsX11
<1> QED BY <1>1 DEF Grabbed

(* process-cursor-resize: the edges of the new box are in order, and those  *)
(* that the cursor does not drag are the ones of the box it began with.     *)
LEMMA DraggedEdges ==
  ASSUME Types, Grabbed, grab # None, grab.mode = "resize", NEW c \in Int
  PROVE  /\ NewLeft(c) \in Int /\ NewRight(c) \in Int
         /\ NewRight(c) - NewLeft(c) \in Nat \ {0}
         /\ grab.edge # "left" => NewLeft(c) = grain * grab.box.x
         /\ grab.edge # "right" => NewRight(c) = grain * (grab.box.x + grab.box.w)
<1>1. PICK g \in Nat \ {0} : g = grain
  BY DEF Types
<1>2. PICK b \in Int, w \in Nat \ {0}, a \in Int :
        b = grab.box.x /\ w = grab.box.w /\ a = grab.at
  BY DEF Grabbed
<1>3. PICK i \in Int, j \in Int : i = g * b /\ j = g * (b + w)
  BY <1>1, <1>2
<1>4. j >= i + g
  <2>1. j = i + g * w
    BY <1>1, <1>2, <1>3
  <2>2. g * w >= g
    <3>1. g * w >= g * 1
      BY <1>1, <1>2
    <3> QED BY <1>1, <3>1
  <2>3. PICK m \in Int : m = g * w
    BY <1>1, <1>2
  <2> QED BY <1>1, <1>3, <2>1, <2>2, <2>3
<1>5. NewLeft(c) = IF grab.edge = "left" THEN (IF c - a >= j THEN j - g ELSE c - a) ELSE i
  BY <1>1, <1>2, <1>3 DEF NewLeft
<1>6. NewRight(c) = IF grab.edge = "right" THEN (IF c - a =< i THEN i + g ELSE c - a) ELSE j
  BY <1>1, <1>2, <1>3 DEF NewRight
<1> HIDE DEF NewLeft, NewRight
<1>7. PICK l \in Int, r \in Int : l = NewLeft(c) /\ r = NewRight(c)
  BY <1>1, <1>2, <1>3, <1>5, <1>6
<1>8. l < r
  BY <1>1, <1>2, <1>3, <1>4, <1>5, <1>6, <1>7
<1>9. /\ grab.edge # "left" => l = i
      /\ grab.edge # "right" => r = j
  BY <1>5, <1>6, <1>7
<1> QED BY <1>1, <1>2, <1>3, <1>7, <1>8, <1>9

(* handle-cursor-motion puts the view somewhere, and may ask it for a width *)
LEMMA MotionPuts ==
  ASSUME IInv, NEW c \in Int, Motion(c)
  PROVE  \E p \in Int, w \in Nat :
           /\ PutAt(p)
           /\ grab.mode = "move" /\ ~ IsX11 => UNCHANGED asked /\ Freely(p, free.w)
           /\ grab.mode = "move" /\ IsX11 =>
                (asked = None \/ "hasty" \in lifted) /\ Ask(geo.w) /\ Freely(p, free.w)
           /\ grab.mode = "resize" => Ask(w) /\ Freely(p, w)
<1> USE DEF IInv, Motion
<1>1. grain \in Nat \ {0} /\ geo.x \in Nat /\ grab # None
  BY DEF Types
<1>2. CASE Move(c)
  <2>1. grab.at \in Int /\ grab.mode = "move"
    BY <1>1, <1>2 DEF Grabbed, Move
  <2>2. PICK p \in Int : p = Round(c - grab.at)
    BY <1>1, <2>1, RoundNearest
  <2>3. PutAt(p) /\ Freely(node', free.w)
    BY <1>2, <2>2 DEF Move
  <2>4. node' = p
    BY <2>3 DEF PutAt
  <2> QED BY <1>2, <2>1, <2>3, <2>4 DEF Move
<1>3. CASE Resize(c)
  <2>1. grab.mode = "resize"
    BY <1>3 DEF Resize
  <2>2. PICK l \in Int, r \in Int : l = NewLeft(c) /\ r = NewRight(c) /\ r - l \in Nat \ {0}
    BY <1>1, <2>1, DraggedEdges
  <2>3. PICK w \in Nat : w = Round(r - l)
    BY <1>1, <2>2, RoundWide
  <2>4. PICK n \in Int : n = l - grain * geo.x
    BY <1>1, <2>2
  <2>5. PICK p \in Int : p = Round(n)
    BY <1>1, <2>4, RoundNearest
  <2>6. PutAt(p) /\ Ask(w) /\ Freely(node', w)
    BY <1>3, <2>2, <2>3, <2>4, <2>5 DEF Resize
  <2>7. node' = p
    BY <2>6 DEF PutAt
  <2> QED BY <2>1, <2>6, <2>7
<1> QED BY <1>2, <1>3

LEMMA MotionKeeps ==
  ASSUME IInv, NEW c \in Int, Motion(c)
  PROVE  IInv'
<1>1. PICK p \in Int, w \in Nat :
        /\ PutAt(p)
        /\ grab.mode = "move" /\ ~ IsX11 => UNCHANGED asked /\ Freely(p, free.w)
        /\ grab.mode = "move" /\ IsX11 =>
             (asked = None \/ "hasty" \in lifted) /\ Ask(geo.w) /\ Freely(p, free.w)
        /\ grab.mode = "resize" => Ask(w) /\ Freely(p, w)
  BY MotionPuts
<1>2. /\ UNCHANGED <<world, mapped, geo, saved, grab, turns>>
      /\ grab # None /\ cursor' = c
      /\ grab.mode \in {"move", "resize"}
  BY DEF Motion, Move, Resize
<1>3. mapped
  BY <1>2 DEF IInv, Grabbed
<1> USE <1>2, <1>3 DEF IInv
<1>4. CASE grab.mode = "move" /\ ~ IsX11
  <2>1. PutAt(p) /\ UNCHANGED asked /\ Freely(p, free.w)
    BY <1>1, <1>4
  <2>2. Types'
    BY <1>4, <2>1 DEF Types, PutAt, Freely, Box, Boxes, world, IsX11
  <2>3. InPlace' /\ Grabbed'
    BY <1>4, <2>1 DEF InPlace, Grabbed, PutAt, Keeping, world, IsX11
  <2>4. BoxKept'
    BY <1>4, <2>1, FloatingSlots
       DEF BoxKept, OwnBox, SavedBox, PutAt, Freely, Box, Floating, Keeping, world, IsX11
  <2> QED BY <2>2, <2>3, <2>4
<1>5. CASE grab.mode = "move" /\ IsX11
  <2>1. PutAt(p) /\ (asked = None \/ "hasty" \in lifted) /\ Ask(geo.w) /\ Freely(p, free.w)
    BY <1>1, <1>5
  <2>2. Types'
    BY <1>5, <2>1 DEF Types, PutAt, Ask, Freely, Box, Boxes, world, IsX11
  <2>3. InPlace' /\ Grabbed'
    BY <1>5, <2>1 DEF InPlace, Grabbed, PutAt, Keeping, world, IsX11
  <2>4. BoxKept'
    BY <1>5, <2>1, FloatingSlots
       DEF BoxKept, OwnBox, SavedBox, PutAt, Ask, Freely, Box, Floating, Keeping, world, IsX11
  <2> QED BY <2>2, <2>3, <2>4
<1>6. CASE grab.mode = "resize"
  <2>1. PutAt(p) /\ Ask(w) /\ Freely(p, w)
    BY <1>1, <1>6
  <2>2. Types'
    BY <1>6, <2>1 DEF Types, PutAt, Ask, Freely, Box, Boxes, world, IsX11
  <2>3. InPlace' /\ Grabbed'
    BY <1>6, <2>1 DEF InPlace, Grabbed, PutAt, Keeping, world, IsX11
  <2>4. BoxKept'
    <3> SUFFICES ASSUME Keeping({"placed", "hasty", "interleaved"}) PROVE OwnBox' /\ SavedBox'
      BY DEF BoxKept, Keeping, world
    <3>1. (Floating' <=> Floating) /\ node' = p
      BY <2>1 DEF Floating, PutAt
    <3>2. CASE Floating
      <4>1. free'.x = p /\ free'.w = w
        BY <2>1, <3>2 DEF Freely, Box
      <4>2. (asked' = None /\ w = geo.w) \/ (asked' = w /\ w # None)
        BY <2>1, NoneIsNoBox DEF Ask
      <4>3. SavedBox'
        BY <3>2, FloatingSlots DEF SavedBox
      <4> QED BY <3>1, <4>1, <4>2, <4>3 DEF OwnBox
    <3>3. CASE ~ Floating
      <4>1. free' = free
        BY <2>1, <3>3 DEF Freely
      <4> QED BY <3>1, <3>3, <4>1 DEF BoxKept, OwnBox, SavedBox
    <3> QED BY <3>2, <3>3
  <2> QED BY <2>2, <2>3, <2>4
<1> QED BY <1>4, <1>5, <1>6

LEMMA Invariance == Spec => []IInv
<1>1. IInv /\ [Next]_vars => IInv'
  <2> SUFFICES ASSUME IInv, [Next]_vars PROVE IInv'
    OBVIOUS
  <2>1. \A w \in Sizes \cup ({asked} \ {None, 0}) : w \in Nat \ {0}
    BY GeometryAssumption DEF IInv, Types
  <2>2. Places \subseteq Int /\ Cursors \subseteq Int
    BY GeometryAssumption DEF Cursors, IInv, Types
  <2>3. DOMAIN saved = Slots
    BY FloatingSlots DEF IInv
  <2>4. CASE UNCHANGED vars
    BY <2>4 DEF vars, world, place, IInv, Types, InPlace, Grabbed, BoxKept, OwnBox, SavedBox,
                Floating, Keeping, IsX11
  <2> QED
    BY <2>1, <2>2, <2>3, <2>4, MapKeeps, UnmapKeeps, ObeyKeeps, ChooseKeeps,
       RequestConfigureKeeps, SetGeometryKeeps, RequestKeeps, BeginMoveKeeps,
       BeginResizeKeeps, ReleaseKeeps, MotionKeeps DEF Next
<1> QED BY InitIInv, <1>1, PTL DEF Spec

-----------------------------------------------------------------------------
(* Theorems *)

(* The type invariant.                                                      *)
THEOREM GeometryTypeCorrect == Spec => []Types
<1>1. IInv => Types
  BY DEF IInv
<1> QED BY Invariance, <1>1, PTL

(* handle-surface-map, process-cursor-move, the requests of X11 windows:    *)
(* server, scene and X server agree where a view is, wherever and whenever  *)
(* client, user and X server move it.                                       *)
THEOREM EverybodyAgrees == Spec => []PlacesAgree
<1>1. IInv => PlacesAgree
  BY DEF IInv, InPlace, PlacesAgree, Keeping
<1> QED BY Invariance, <1>1, PTL

(* handle-xdg-toplevel-request-maximize and the others: the box that comes  *)
(* back is the one the view had, through moves, resizes, unmaps and maps.   *)
THEOREM SavedBoxComesBack == Spec => []BoxComesBack
<1>1. IInv => BoxComesBack
  <2> SUFFICES ASSUME IInv, Keeping({"placed", "hasty", "interleaved"}), mapped, Floating,
                      asked = None
               PROVE  Box(node, geo.w) = free
    BY DEF BoxComesBack
  <2>1. free.x = node /\ free.w = geo.w /\ free \in Boxes
    BY DEF IInv, BoxKept, OwnBox, Types
  <2> QED BY <2>1 DEF Box, Boxes
<1> QED BY Invariance, <1>1, PTL

(* A cursor that moves during a grab does so in handle-cursor-motion.       *)
LEMMA DragIsMotion ==
  ASSUME [Next]_vars, Drags
  PROVE  \E c \in Cursors : Motion(c)
BY DEF Drags, Next, vars, world, place, Map, Unmap, Obey, Choose, RequestConfigure, SetGeometry,
       RequestToplevel, RequestWindow, BeginMove, BeginResize, Hovers, Release

(* begin-interactive, process-cursor-move: the view stays within half a     *)
(* pixel of where the cursor took it, for any fraction of a pixel.          *)
THEOREM GripIsKept == Spec => MoveKeepsGrip
<1>1. IInv /\ [Next]_vars =>
        (Keeping({"placed"}) /\ Drags /\ grab.mode = "move"
          => 2 * Distance(cursor' - grain * node', grab.grip) =< grain)
  <2> SUFFICES ASSUME IInv, [Next]_vars, Keeping({"placed"}), Drags, grab.mode = "move"
               PROVE  2 * Distance(cursor' - grain * node', grab.grip) =< grain
    OBVIOUS
  <2>1. PICK c \in Int : Motion(c)
    BY DragIsMotion DEF Cursors, IInv, Types
  <2>2. grain \in Nat \ {0} /\ grab.at \in Int /\ grab.grip = grab.at
    BY DEF IInv, Types, Grabbed, Drags
  <2>3. cursor' = c /\ Move(c)
    BY <2>1 DEF Motion, Resize
  <2>4. PICK a \in Int : a = grab.at
    BY <2>2
  <2>5. PICK p \in Int : p = Round(c - a)
    BY <2>2, <2>4, RoundNearest
  <2>6. node' = p
    BY <2>3, <2>4, <2>5 DEF Move, PutAt
  <2>7. - grain =< 2 * (c - a - grain * p) /\ 2 * (c - a - grain * p) =< grain
    BY <2>2, <2>4, <2>5, RoundNearest
  <2>8. PICK m \in Int : m = grain * p
    BY <2>2, <2>5
  <2>9. 2 * Distance(c - m, a) =< grain
    BY <2>2, <2>7, <2>8 DEF Distance
  <2> QED BY <2>2, <2>3, <2>4, <2>6, <2>8, <2>9
<1> QED BY Invariance, <1>1, PTL DEF Spec, MoveKeepsGrip

(* What the width of a view is going to be after a resize.                  *)
LEMMA WidthAsked ==
  ASSUME Types, mapped, UNCHANGED <<mapped, geo>>, NEW w \in Int, Ask(w)
  PROVE  Width' = w
BY NoneIsNoBox DEF Ask, Width, Types

(* begin-interactive, process-cursor-resize: the edges that the cursor does *)
(* not drag stay, to the pixel that rounding two fractions can cost, and    *)
(* the width is a width, for any fraction of a pixel.                       *)
THEOREM EdgesAreKept == Spec => ResizeKeepsEdge
<1>1. IInv /\ [Next]_vars =>
        (Keeping({"placed"}) /\ Drags /\ grab.mode = "resize"
          => LET off == node' + geo.x + Width' - grab.fixed.right IN
             /\ grab.edge # "left" => node' + geo.x = grab.fixed.left
             /\ grab.edge # "right" => off \in 0 .. IF grain = 1 THEN 0 ELSE 1
             /\ Width' >= IF grain =< 2 THEN 1 ELSE 0)
  <2> SUFFICES ASSUME IInv, [Next]_vars, Keeping({"placed"}), Drags, grab.mode = "resize"
               PROVE  /\ grab.edge # "left" => node' + geo.x = grab.fixed.left
                      /\ grab.edge # "right" =>
                           node' + geo.x + Width' - grab.fixed.right
                             \in 0 .. IF grain = 1 THEN 0 ELSE 1
                      /\ Width' >= IF grain =< 2 THEN 1 ELSE 0
    OBVIOUS
  <2>1. PICK c \in Int : Motion(c)
    BY DragIsMotion DEF Cursors, IInv, Types
  <2>2. PICK g \in Nat \ {0}, o \in Nat : g = grain /\ o = geo.x
    BY DEF IInv, Types
  <2>3. PICK b \in Int, v \in Nat \ {0} :
          /\ b = grab.box.x /\ v = grab.box.w
          /\ grab.fixed = [left |-> b, right |-> b + v]
    BY DEF IInv, Grabbed, Drags
  <2>4. grab.fixed.left = b /\ grab.fixed.right = b + v
    BY <2>3
  <2>5. PICK l \in Int, r \in Int :
          /\ l = NewLeft(c) /\ r = NewRight(c)
          /\ r - l \in Nat \ {0}
          /\ grab.edge # "left" => l = g * b
          /\ grab.edge # "right" => r = g * (b + v)
    BY <2>2, <2>3, DraggedEdges DEF IInv, Drags
  <2>6. PICK n \in Int : n = l - g * o
    BY <2>2, <2>5
  <2>7. PICK p \in Int, w \in Nat : p = Round(n) /\ w = Round(r - l)
    BY <2>2, <2>5, <2>6, RoundNearest, RoundWide
  <2>8. Resize(c) /\ UNCHANGED <<mapped, geo>>
    BY <2>1 DEF Motion, Move
  <2>9. node' = p /\ Ask(w)
    BY <2>2, <2>5, <2>6, <2>7, <2>8 DEF Resize, PutAt
  <2>10. Width' = w
    BY <2>8, <2>9, WidthAsked DEF IInv, Grabbed, Drags
  <2>11. ASSUME grab.edge # "left" PROVE p + o = b
    <3>1. n = g * (b - o)
      BY <2>2, <2>3, <2>5, <2>6, <2>11
    <3>2. p = b - o
      BY <2>2, <2>3, <2>7, <3>1, RoundWhole
    <3> QED BY <2>2, <2>3, <3>2
  <2>12. ASSUME grab.edge # "right"
         PROVE  p + o + w - (b + v) \in 0 .. IF g = 1 THEN 0 ELSE 1
    <3>1. n + (r - l) = g * (b + v - o)
      <4>1. g * (b + v - o) = g * (b + v) - g * o
        BY <2>2, <2>3
      <4>2. PICK i \in Int, j \in Int : i = g * (b + v) /\ j = g * o
        BY <2>2, <2>3
      <4> QED BY <2>5, <2>6, <2>12, <4>1, <4>2
    <3>2. PICK d \in Nat, k \in Int : d = r - l /\ k = b + v - o
      BY <2>2, <2>3, <2>5
    <3>3. n + d = grain * k
      BY <2>2, <3>1, <3>2
    <3>4. Round(n) + Round(d) - k \in 0 .. IF grain = 1 THEN 0 ELSE 1
      BY <2>2, <2>6, <3>2, <3>3, RoundSum
    <3> QED BY <2>2, <2>3, <2>7, <3>2, <3>4
  <2>13. w >= IF g =< 2 THEN 1 ELSE 0
    BY <2>2, <2>5, <2>7, RoundWide
  <2> QED BY <2>2, <2>4, <2>9, <2>10, <2>11, <2>12, <2>13
<1> QED BY Invariance, <1>1, PTL DEF Spec, ResizeKeepsEdge
=============================================================================
