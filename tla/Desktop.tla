------------------------------ MODULE Desktop -------------------------------
(***************************************************************************)
(* The views of the tinyjl server: the order of (server :views), keyboard  *)
(* focus and activation, and the interactive grab of the cursor, under     *)
(* clients that map, unmap and destroy their surfaces at any time.         *)
(*                                                                         *)
(* A view stands for its root surface too. Geometry and popups are left    *)
(* out, trees are in SceneTrees.                                           *)
(***************************************************************************)
EXTENDS Naturals, Sequences, FiniteSets, SequencesExt

CONSTANTS
  Views,           (* views of xdg toplevels and of Xwayland surfaces      *)
  XViews,          (* those of Xwayland surfaces                           *)
  None,            (* nil                                                  *)
  MaxHeld,         (* bound on the buttons held down                       *)
  Lifts            (* the sets of rules of which one is lifted throughout  *)

(* What the world does not do, as long as the rule is not lifted:           *)
(* "keyboard"  the keyboard that the seat has is unplugged,                 *)
(* "alt"       Alt is pressed or released while a button is held,           *)
(* "moves"     a client asks to move a toplevel that is not mapped,         *)
(* "surface"   a client keeps a wl_surface whose role is destroyed,         *)
(* "parents"   an X11 view maps before its parent ever did.                 *)
Rules == {"keyboard", "alt", "moves", "surface", "parents"}

ASSUME DesktopAssumption ==
  /\ XViews \subseteq Views /\ None \notin Views
  /\ MaxHeld \in Nat
  /\ Lifts \subseteq SUBSET Rules

VARIABLES
  lifted,     (* the rules that are lifted                                 *)
  state,      (* view -> what has become of its surface                    *)
  wants,      (* the Xwayland views that want focus                        *)
  treeless,   (* the Xwayland views with no :scene-tree                    *)
  views,      (* (server :views), the view on top last                     *)
  focused,    (* the surface with keyboard focus                           *)
  active,     (* the views last told that they are activated               *)
  keyboard,   (* has the seat a keyboard                                   *)
  pointer,    (* the root of the surface with pointer focus                *)
  grabbed,    (* (server :grabbed-view)                                    *)
  mode,       (* (server :cursor-mode)                                     *)
  lastbtn,    (* the state in (server :last-button-event)                  *)
  held,       (* buttons that are down                                     *)
  alt         (* is Alt down                                               *)

viewVars  == <<wants, treeless>>
focusVars == <<views, focused, active>>
grabVars  == <<grabbed, mode>>
inputVars == <<lastbtn, held, alt>>
vars      == <<lifted, state, viewVars, focusVars, keyboard, pointer, grabVars, inputVars>>

Mapped == {v \in Views : state[v] = "mapped"}

(* What desktop-view-at may find under the cursor                           *)
OnScreen == Mapped \ treeless

TypeOK ==
  /\ lifted \in Lifts
  /\ state \in [Views -> {"none", "unmapped", "mapped", "roleless", "gone"}]
  /\ wants \subseteq XViews
  /\ treeless \subseteq XViews
  /\ views \in Seq(Views)
  /\ focused \in Views \cup {None}
  /\ active \subseteq Views
  /\ keyboard \in BOOLEAN
  /\ pointer \in Views \cup {None}
  /\ grabbed \in Views \cup {None}
  /\ mode \in {"passthrough", "move", "resize"}
  /\ lastbtn \in {"none", "pressed", "released"}
  /\ held \in 0..MaxHeld
  /\ alt \in BOOLEAN

Init ==
  /\ lifted \in Lifts
  /\ state = [v \in Views |-> "none"]
  /\ wants \in SUBSET XViews /\ treeless = XViews
  /\ views = <<>> /\ focused = None /\ active = {}
  /\ keyboard \in {b \in BOOLEAN : b \/ "keyboard" \in lifted}
  /\ pointer = None
  /\ grabbed = None /\ mode = "passthrough"
  /\ lastbtn = "none" /\ held = 0 /\ alt = FALSE

-----------------------------------------------------------------------------
(* focus-view *)

Focusable(v) == v \in XViews => v \in wants

ToTop_Never(order, v) == order

ToTop_Twice(order, v) == IF Contains(order, v) THEN Append(order, v) ELSE order

(* A view that is not in the list is not put there.                         *)
ToTop(order, v) == IF Contains(order, v) THEN Append(RemoveFirst(order, v), v) ELSE order

Deactivated_Not == active

Deactivated == active \ {focused}

Refocus(order, f, a) == [views |-> order, focused |-> f, active |-> a]
Unfocused(order)     == Refocus(order, focused, active)

(* focus-view of a surface of v, its root or another, when (server :views)  *)
(* is `order'. It raises, and does nothing more, when it deactivates a      *)
(* surface that has lost its role, and after that when v has no :scene-tree *)
(* to raise.                                                                *)
FocusView(order, v, root, tree) ==
  IF (focused = v /\ root) \/ (focused # None /\ state[focused] = "roleless")
  THEN Unfocused(order)
  ELSE IF ~ tree THEN Refocus(order, focused, Deactivated)
  ELSE Refocus(ToTop(order, v), IF keyboard THEN v ELSE focused, Deactivated \cup {v})

FocusTop(order, v) == FocusView(order, v, TRUE, v \notin treeless)

Set(focus) ==
  views' = focus.views /\ focused' = focus.focused /\ active' = focus.active

-----------------------------------------------------------------------------
(* Surfaces *)

(* handle-xdg-shell-new-surface, handle-xwayland-new-surface                *)
NewSurface(v) ==
  /\ state[v] = "none"
  /\ state' = [state EXCEPT ![v] = "unmapped"]
  /\ UNCHANGED <<lifted, viewVars, focusVars, keyboard, pointer, grabVars, inputVars>>

(* handle-surface-map, which gives an Xwayland view its tree                *)
MapSurface(v) ==
  /\ state[v] = "unmapped"
  /\ state' = [state EXCEPT ![v] = "mapped"]
  /\ treeless' = treeless \ {v}
  /\ Set(IF Focusable(v) THEN FocusView(Append(views, v), v, TRUE, TRUE) ELSE Unfocused(views))
  /\ UNCHANGED <<lifted, wants, keyboard, pointer, grabVars, inputVars>>

(* ... of an X11 view whose parent has no tree yet: it raises when the view *)
(* is in the list, whether it wants focus or not.                           *)
MapOrphan(v) ==
  /\ "parents" \in lifted
  /\ state[v] = "unmapped"
  /\ state' = [state EXCEPT ![v] = "mapped"]
  /\ Set(Unfocused(Append(views, v)))
  /\ UNCHANGED <<lifted, viewVars, keyboard, pointer, grabVars, inputVars>>

ResetCursorMode == grabbed' = None /\ mode' = "passthrough"

Ungrabbed_Never(v) == UNCHANGED grabVars

Ungrabbed(v) == IF v = grabbed THEN ResetCursorMode ELSE UNCHANGED grabVars

(* handle-surface-unmap: the view on top of the others gets the focus.      *)
Unmapped(v) ==
  LET order == RemoveFirst(views, v)
  IN  IF order = <<>> THEN Unfocused(order) ELSE FocusTop(order, Last(order))

UnmapSurface(v) ==
  /\ state[v] = "mapped"
  /\ Ungrabbed(v)
  /\ Set(Unmapped(v))
  /\ state' = [state EXCEPT ![v] = "unmapped"]
  /\ UNCHANGED <<lifted, viewVars, keyboard, pointer, inputVars>>

(* A surface that is destroyed is unmapped first, if it has to be. The      *)
(* destroy handlers of the view do nothing but remove its listeners.        *)
Destroyed(v, left) ==
  IF state[v] = "mapped"
  THEN Ungrabbed(v) /\ Set([Unmapped(v) EXCEPT !.focused = IF @ = v THEN left ELSE @])
  ELSE UNCHANGED grabVars /\ Set([Unfocused(views) EXCEPT !.focused = IF @ = v THEN left ELSE @])

(* The xdg_toplevel or the X11 window is destroyed, its wl_surface stays.   *)
DestroyRole(v) ==
  /\ "surface" \in lifted
  /\ state[v] \in {"unmapped", "mapped"}
  /\ Destroyed(v, v)
  /\ state' = [state EXCEPT ![v] = "roleless"]
  /\ UNCHANGED <<lifted, viewVars, keyboard, pointer, inputVars>>

(* The wl_surface is destroyed, and the seat forgets it.                    *)
DestroySurface(v) ==
  /\ state[v] \in {"unmapped", "mapped", "roleless"}
  /\ Destroyed(v, None)
  /\ pointer' = IF pointer = v THEN None ELSE pointer
  /\ state' = [state EXCEPT ![v] = "gone"]
  /\ UNCHANGED <<lifted, viewVars, keyboard, inputVars>>

(* An X11 client changes what wlr-xwayland-or-surface-wants-focus says.     *)
ChangeWants(v) ==
  /\ wants' = IF v \in wants THEN wants \ {v} ELSE wants \cup {v}
  /\ UNCHANGED <<lifted, state, treeless, focusVars, keyboard, pointer, grabVars, inputVars>>

-----------------------------------------------------------------------------
(* The grab *)

(* begin-interactive: only a view with pointer focus is grabbed. With no    *)
(* view, or no pointer focus, it raises.                                    *)
BeginInteractive(v, m) ==
  IF v # None /\ pointer = v THEN grabbed' = v /\ mode' = m ELSE UNCHANGED grabVars

(* handle-xdg-toplevel-request-move and -resize: the request carries the    *)
(* serial of the last button event, or an older one.                        *)
RequestMove(v, m, match) ==
  /\ state[v] = "mapped" \/ (state[v] = "unmapped" /\ "moves" \in lifted)
  /\ IF lastbtn = "pressed" /\ match THEN BeginInteractive(v, m) ELSE UNCHANGED grabVars
  /\ UNCHANGED <<lifted, state, viewVars, focusVars, keyboard, pointer, inputVars>>

(* handle-xwayland-surface-request-move and -resize                         *)
XRequestMove(v, m) ==
  /\ state[v] \in {"unmapped", "mapped"}
  /\ IF state[v] = "mapped" THEN BeginInteractive(v, m) ELSE UNCHANGED grabVars
  /\ UNCHANGED <<lifted, state, viewVars, focusVars, keyboard, pointer, inputVars>>

(* process-cursor-motion: pointer focus follows the cursor but in a grab.   *)
Motion(v) ==
  /\ mode = "passthrough"
  /\ v \in OnScreen \cup {None}
  /\ pointer' = v
  /\ UNCHANGED <<lifted, state, viewVars, focusVars, keyboard, grabVars, inputVars>>

(* wlr-keyboard-get-modifiers, of a seat with a keyboard                    *)
AltDown == keyboard /\ alt

(* handle-cursor-button, over a surface of v, its root or another           *)
Press(v, root) ==
  /\ ~ AltDown /\ held < MaxHeld
  /\ v \in OnScreen \cup {None}
  /\ held' = held + 1 /\ lastbtn' = "pressed"
  /\ Set(IF v # None /\ Focusable(v) THEN FocusView(views, v, root, TRUE) ELSE Unfocused(views))
  /\ UNCHANGED <<lifted, state, viewVars, keyboard, pointer, grabVars, alt>>

(* ... with Alt: 272 and 273 grab, other buttons do nothing.                *)
AltPress(v, m) ==
  /\ AltDown /\ held < MaxHeld
  /\ v \in OnScreen \cup {None}
  /\ held' = held + 1
  /\ \/ BeginInteractive(v, m)
     \/ UNCHANGED grabVars
  /\ UNCHANGED <<lifted, state, viewVars, focusVars, keyboard, pointer, lastbtn, alt>>

Release_KeepsMode ==
  /\ held > 0
  /\ held' = held - 1
  /\ lastbtn' = IF AltDown THEN lastbtn ELSE "released"
  /\ UNCHANGED <<lifted, state, viewVars, focusVars, keyboard, pointer, grabVars, alt>>

(* Any button that is released ends the grab.                               *)
Release ==
  /\ held > 0
  /\ held' = held - 1
  /\ lastbtn' = IF AltDown THEN lastbtn ELSE "released"
  /\ ResetCursorMode
  /\ UNCHANGED <<lifted, state, viewVars, focusVars, keyboard, pointer, alt>>

Alt ==
  /\ held = 0 \/ "alt" \in lifted
  /\ alt' = ~ alt
  /\ UNCHANGED <<lifted, state, viewVars, focusVars, keyboard, pointer, grabVars, lastbtn, held>>

-----------------------------------------------------------------------------
(* The keyboard *)

(* handle-keybinding, F1: the view at the bottom comes to the top. The      *)
(* keyboard need not be the seat's.                                         *)
NextView ==
  /\ alt
  /\ Len(views) > 1
  /\ Set(FocusTop(views, views[1]))
  /\ UNCHANGED <<lifted, state, viewVars, keyboard, pointer, grabVars, inputVars>>

(* The seat's keyboard is unplugged; server-new-keyboard, or a key on       *)
(* another keyboard, gives the seat one.                                    *)
KeyboardChanges ==
  /\ "keyboard" \in lifted
  /\ keyboard' = ~ keyboard
  /\ UNCHANGED <<lifted, state, viewVars, focusVars, pointer, grabVars, inputVars>>

-----------------------------------------------------------------------------

Grabs == {"move", "resize"}

Next ==
  \/ \E v \in Views : NewSurface(v)
  \/ \E v \in Views : MapSurface(v)
  \/ \E v \in XViews : MapOrphan(v)
  \/ \E v \in Views : UnmapSurface(v)
  \/ \E v \in Views : DestroyRole(v)
  \/ \E v \in Views : DestroySurface(v)
  \/ \E v \in XViews : ChangeWants(v)
  \/ \E v \in Views \ XViews, m \in Grabs, match \in BOOLEAN : RequestMove(v, m, match)
  \/ \E v \in XViews, m \in Grabs : XRequestMove(v, m)
  \/ \E v \in Views \cup {None} : Motion(v)
  \/ \E v \in Views \cup {None}, root \in BOOLEAN : Press(v, root)
  \/ \E v \in Views \cup {None}, m \in Grabs : AltPress(v, m)
  \/ Release
  \/ Alt
  \/ NextView
  \/ KeyboardChanges

Spec == Init /\ [][Next]_vars

-----------------------------------------------------------------------------
(* Properties *)

(* None of these rules is lifted.                                           *)
Keeping(rules) == lifted \cap rules = {}

(* handle-surface-map, handle-surface-unmap, focus-view: whatever the order *)
(* of focus changes, (server :views) holds every mapped toplevel once, and  *)
(* nothing that is not mapped.                                              *)
ViewsAreMapped ==
  /\ IsInjective(views)
  /\ Mapped \ XViews \subseteq ToSet(views)
  /\ ToSet(views) \subseteq Mapped

(* focus-view: while there are views, the one on top has the keyboard focus *)
(* and is activated, unless an X11 view that is not in the list has it.     *)
FocusFollowsOrder ==
  Keeping({"keyboard", "surface", "parents"}) /\ views # <<>> =>
    /\ focused \in Mapped \cap active
    /\ focused = Last(views) \/ focused \in XViews \ ToSet(views)

(* focus-view: no view but the focused one was left activated, whatever     *)
(* loses its role or has no tree, as long as the seat has a keyboard.       *)
OneActive == Keeping({"keyboard"}) => active \cap Mapped \subseteq {focused}

(* begin-interactive, handle-surface-unmap: the cursor never moves or       *)
(* resizes a view that is not on the screen any more.                       *)
GrabIsMapped ==
  /\ mode # "passthrough" <=> grabbed # None
  /\ Keeping({"moves"}) /\ grabbed # None => grabbed \in Mapped

(* handle-cursor-button, handle-xdg-toplevel-request-move and -resize: a    *)
(* toplevel is grabbed only while a button is held. X11 clients are not     *)
(* asked for one. The seat knows that Alt is down as long as it has a       *)
(* keyboard.                                                                *)
GrabIsHeld ==
  Keeping({"alt", "keyboard"}) /\ grabbed \in Views \ XViews => held > 0
=============================================================================
