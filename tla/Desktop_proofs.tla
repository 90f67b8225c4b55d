--------------------------- MODULE Desktop_proofs ---------------------------
(***************************************************************************)
(* Proofs about Desktop, for any views, any bound on buttons and any rules *)
(* that are lifted.                                                        *)
(***************************************************************************)
EXTENDS Desktop, Integers, SequenceTheorems, TLAPS

-----------------------------------------------------------------------------
(* remove-element and array/push on arrays that hold each element once *)

(* remove-element of what the array has takes it, and nothing else.         *)
LEMMA RemoveOne ==
  ASSUME NEW S, NEW s \in Seq(S), NEW e, IsInjective(s), Contains(s, e)
  PROVE  /\ RemoveFirst(s, e) \in Seq(S)
         /\ Len(RemoveFirst(s, e)) = Len(s) - 1
         /\ IsInjective(RemoveFirst(s, e))
         /\ ToSet(RemoveFirst(s, e)) = ToSet(s) \ {e}
<1>1. PICK i \in 1..Len(s) : s[i] = e
  BY DEF Contains
<1> DEFINE I == {j \in 1..Len(s) : s[j] = e}
           r == [j \in 1..Len(s) - 1 |-> IF j < i THEN s[j] ELSE s[j + 1]]
<1>2. I = {i}
  BY <1>1 DEF IsInjective
<1>3. Min(I) = i
  BY <1>2 DEF Min
<1>4. RemoveFirst(s, e) = RemoveAt(s, i)
  BY <1>1, <1>2, <1>3 DEF RemoveFirst, SelectInSeq
<1>5. RemoveAt(s, i) = r
  <2> DEFINE a == SubSeq(s, 1, i - 1)
             b == SubSeq(s, i + 1, Len(s))
  <2>1. a \in Seq(S) /\ Len(a) = i - 1 /\ \A j \in 1..i - 1 : a[j] = s[j]
    BY SubSeqProperties
  <2>2. b \in Seq(S) /\ Len(b) = Len(s) - i /\ \A j \in 1..Len(s) - i : b[j] = s[i + j]
    BY SubSeqProperties
  <2> HIDE DEF a, b
  <2>3. /\ a \o b \in Seq(S)
        /\ Len(a \o b) = Len(s) - 1
        /\ \A j \in 1..Len(s) - 1 : (a \o b)[j] = IF j < i THEN a[j] ELSE b[j - (i - 1)]
    <3>1. a \in Seq(S) /\ b \in Seq(S)
      BY <2>1, <2>2
    <3>2. /\ a \o b \in Seq(S)
          /\ Len(a \o b) = Len(a) + Len(b)
          /\ \A j \in 1..Len(a) + Len(b) :
               (a \o b)[j] = IF j =< Len(a) THEN a[j] ELSE b[j - Len(a)]
      BY <3>1, ConcatProperties
    <3>3. Len(a) = i - 1 /\ Len(b) = Len(s) - i
      BY <2>1, <2>2
    <3> QED BY <3>2, <3>3
  <2>4. r \in Seq(S) /\ Len(r) = Len(a \o b) /\ \A j \in 1..Len(r) : r[j] = (a \o b)[j]
    <3>1. \A j \in 1..Len(s) - 1 : r[j] = IF j < i THEN s[j] ELSE s[j + 1]
      OBVIOUS
    <3>2. r \in Seq(S) /\ Len(r) = Len(s) - 1
      OBVIOUS
    <3> HIDE DEF r
    <3> QED BY <2>1, <2>2, <2>3, <3>1, <3>2
  <2>5. r = a \o b
    BY <2>3, <2>4, SeqEqual
  <2> QED BY <2>5 DEF RemoveAt, a, b
<1> HIDE DEF I
<1>6. r \in Seq(S) /\ Len(r) = Len(s) - 1
  OBVIOUS
<1>7. IsInjective(r)
  BY <1>1 DEF IsInjective
<1>8. ToSet(r) = ToSet(s) \ {e}
  <2>1. ASSUME NEW j \in DOMAIN r PROVE r[j] \in ToSet(s) \ {e}
    BY <1>1 DEF IsInjective, ToSet
  <2>2. ASSUME NEW k \in DOMAIN s, s[k] # e PROVE \E j \in DOMAIN r : r[j] = s[k]
    <3>1. CASE k < i
      BY <3>1
    <3>2. CASE k > i
      <4>1. k - 1 \in DOMAIN r /\ r[k - 1] = s[k]
        BY <3>2
      <4> QED BY <4>1
    <3> QED BY <1>1, <2>2, <3>1, <3>2
  <2> QED BY <2>1, <2>2 DEF ToSet
<1> QED BY <1>4, <1>5, <1>6, <1>7, <1>8

(* remove-element of what the array does not have does nothing.             *)
LEMMA RemoveNone ==
  ASSUME NEW S, NEW s \in Seq(S), NEW e, ~ Contains(s, e)
  PROVE  RemoveFirst(s, e) = s /\ e \notin ToSet(s)
BY DEF RemoveFirst, Contains, ToSet

(* remove-element, in one.                                                  *)
LEMMA RemoveElement ==
  ASSUME NEW S, NEW s \in Seq(S), NEW e, IsInjective(s)
  PROVE  /\ RemoveFirst(s, e) \in Seq(S)
         /\ IsInjective(RemoveFirst(s, e))
         /\ ToSet(RemoveFirst(s, e)) = ToSet(s) \ {e}
<1>1. CASE Contains(s, e)
  BY <1>1, RemoveOne
<1>2. CASE ~ Contains(s, e)
  BY <1>2, RemoveNone
<1> QED BY <1>1, <1>2

(* array/push of what the array does not have.                              *)
LEMMA PushElement ==
  ASSUME NEW S, NEW s \in Seq(S), NEW e \in S, IsInjective(s), e \notin ToSet(s)
  PROVE  /\ Append(s, e) \in Seq(S)
         /\ IsInjective(Append(s, e))
         /\ ToSet(Append(s, e)) = ToSet(s) \cup {e}
         /\ Append(s, e) # <<>> /\ Last(Append(s, e)) = e
<1>1. /\ Append(s, e) \in Seq(S) /\ Len(Append(s, e)) = Len(s) + 1
      /\ \A i \in 1..Len(s) : Append(s, e)[i] = s[i]
      /\ Append(s, e)[Len(s) + 1] = e
  OBVIOUS
<1>2. \A i \in 1..Len(s) : s[i] # e
  BY DEF ToSet
<1> DEFINE t == Append(s, e)
<1>3. DOMAIN t = 1..Len(s) + 1 /\ DOMAIN s = 1..Len(s)
  BY <1>1
<1> HIDE DEF t
<1>4. IsInjective(t)
  BY <1>1, <1>2, <1>3 DEF IsInjective, t
<1>5. ToSet(t) = ToSet(s) \cup {e}
  BY <1>1, <1>3 DEF ToSet, t
<1>6. t # <<>> /\ Last(t) = e
  BY <1>1 DEF Last, t
<1> QED BY <1>1, <1>4, <1>5, <1>6 DEF t

(* The last element of an array, if there is one, is in it.                 *)
LEMMA LastElement ==
  ASSUME NEW S, NEW s \in Seq(S)
  PROVE  /\ s # <<>> => Last(s) \in ToSet(s) /\ Last(s) \in S
         /\ s = <<>> <=> ToSet(s) = {}
         /\ ToSet(s) \subseteq S
         /\ \A e : Contains(s, e) <=> e \in ToSet(s)
<1>1. DOMAIN s = 1..Len(s) /\ Len(s) \in Nat /\ (s = <<>> <=> Len(s) = 0)
  OBVIOUS
<1>2. ASSUME s # <<>>
      PROVE  Last(s) \in ToSet(s)
  <2>1. Len(s) \in DOMAIN s
    BY <1>1, <1>2
  <2> QED BY <2>1 DEF ToSet, Last
<1>3. ASSUME s = <<>>
      PROVE  ToSet(s) = {}
  <2>1. DOMAIN s = {}
    BY <1>1, <1>3
  <2> QED BY <2>1 DEF ToSet
<1>4. ToSet(s) \subseteq S
  BY DEF ToSet
<1>5. \A e : Contains(s, e) <=> e \in ToSet(s)
  BY <1>1 DEF ToSet, Contains
<1> QED BY <1>2, <1>3, <1>4, <1>5

-----------------------------------------------------------------------------

(* What the other invariants rest on                                        *)
Listed == TypeOK /\ ViewsAreMapped

(* Of the views that have a role none but the focused one is activated, as  *)
(* long as the seat has a keyboard.                                         *)
Activated(f, a, s) == \A v \in a : s[v] \notin {"roleless", "gone"} => v = f

OnlyFocusedActive ==
  Keeping({"keyboard"}) => keyboard /\ Activated(focused, active, state)

(* What has focus is on top, or an X11 view that is not in the list.        *)
OnTop(order, v) == v = Last(order) \/ v \in XViews \ ToSet(order)

Follows ==
  /\ \A v \in Views : state[v] # "roleless"
  /\ treeless \cap Mapped = {}
  /\ focused # None => focused \in active
  /\ views # <<>> => focused \in Mapped /\ OnTop(views, focused)

FocusOnTop == Keeping({"keyboard", "surface", "parents"}) => Follows

(* A button that was the last one to be pressed without Alt is still down.  *)
ButtonIsHeld ==
  Keeping({"alt", "keyboard"}) => (lastbtn = "pressed" => held > 0 /\ ~ alt)

-----------------------------------------------------------------------------
(* focus-view *)

(* contains?, remove-element and array/push: a view that is in the list     *)
(* comes to the top of it.                                                  *)
LEMMA ToTopStep ==
  ASSUME NEW order \in Seq(Views), IsInjective(order), NEW v \in Views
  PROVE  /\ ToTop(order, v) \in Seq(Views)
         /\ IsInjective(ToTop(order, v))
         /\ ToSet(ToTop(order, v)) = ToSet(order)
         /\ IF v \in ToSet(order) THEN Last(ToTop(order, v)) = v
                                  ELSE ToTop(order, v) = order
<1>1. CASE v \in ToSet(order)
  <2> DEFINE rest == RemoveFirst(order, v)
  <2>1. rest \in Seq(Views) /\ IsInjective(rest) /\ ToSet(rest) = ToSet(order) \ {v}
    BY RemoveElement
  <2> HIDE DEF rest
  <2>2. ToTop(order, v) = Append(rest, v)
    BY <1>1, LastElement DEF ToTop, rest
  <2>3. /\ Append(rest, v) \in Seq(Views) /\ IsInjective(Append(rest, v))
        /\ ToSet(Append(rest, v)) = ToSet(rest) \cup {v}
        /\ Last(Append(rest, v)) = v
    <3>1. v \notin ToSet(rest)
      BY <2>1
    <3> QED BY <2>1, <3>1, PushElement
  <2> QED BY <1>1, <2>1, <2>2, <2>3
<1>2. CASE v \notin ToSet(order)
  <2>1. ToTop(order, v) = order
    BY <1>2, LastElement DEF ToTop
  <2> QED BY <1>2, <2>1
<1> QED BY <1>1, <1>2

(* focus-view puts no view in the list and takes none out.                  *)
LEMMA FocusViewTypes ==
  ASSUME TypeOK, NEW order \in Seq(Views), IsInjective(order), NEW v \in Views,
         NEW root \in BOOLEAN, NEW tree \in BOOLEAN
  PROVE  LET r == FocusView(order, v, root, tree) IN
         /\ r.views \in Seq(Views) /\ IsInjective(r.views)
         /\ ToSet(r.views) = ToSet(order)
         /\ r.focused \in Views \cup {None}
         /\ r.active \subseteq Views
BY ToTopStep DEF TypeOK, FocusView, Refocus, Unfocused, Deactivated

(* With a keyboard focus-view leaves no other view activated, even if it    *)
(* raises.                                                                  *)
LEMMA FocusViewActivated ==
  ASSUME TypeOK, keyboard, Activated(focused, active, state),
         NEW order, NEW v \in Views, NEW root \in BOOLEAN, NEW tree \in BOOLEAN
  PROVE  LET r == FocusView(order, v, root, tree) IN Activated(r.focused, r.active, state)
BY DEF FocusView, Refocus, Unfocused, Deactivated, Activated

(* focus-view that does not raise gives v the focus and activates it, and   *)
(* v is on top.                                                             *)
LEMMA FocusViewOnTop ==
  ASSUME TypeOK, keyboard, \A u \in Views : state[u] # "roleless",
         NEW order \in Seq(Views), IsInjective(order),
         NEW v \in Views, v \in XViews \cup ToSet(order), NEW root \in BOOLEAN,
         focused = v /\ root => v \in active /\ OnTop(order, v)
  PROVE  LET r == FocusView(order, v, root, TRUE) IN
         r.focused = v /\ v \in r.active /\ OnTop(r.views, v)
<1>1. CASE focused = v /\ root
  BY <1>1 DEF FocusView, Refocus, Unfocused
<1>2. CASE ~ (focused = v /\ root)
  <2>1. ~ (focused # None /\ state[focused] = "roleless")
    BY DEF TypeOK
  <2>2. OnTop(ToTop(order, v), v)
    BY ToTopStep DEF OnTop
  <2> DEFINE r == FocusView(order, v, root, TRUE)
  <2>3. r.focused = v /\ r.active = Deactivated \cup {v} /\ r.views = ToTop(order, v)
    BY <1>2, <2>1 DEF FocusView, Refocus
  <2> QED BY <2>2, <2>3
<1> QED BY <1>1, <1>2

-----------------------------------------------------------------------------
(* The list *)

(* remove-element of a view, and focus-view of the one that is now on top,  *)
(* if there is one                                                          *)
LEMMA UnmappedList ==
  ASSUME TypeOK, IsInjective(views), NEW v \in Views
  PROVE  /\ Unmapped(v).views \in Seq(Views) /\ IsInjective(Unmapped(v).views)
         /\ ToSet(Unmapped(v).views) = ToSet(views) \ {v}
         /\ Unmapped(v).focused \in Views \cup {None}
         /\ Unmapped(v).active \subseteq Views
<1> DEFINE order == RemoveFirst(views, v)
<1>1. order \in Seq(Views) /\ IsInjective(order) /\ ToSet(order) = ToSet(views) \ {v}
  BY RemoveElement DEF TypeOK
<1> HIDE DEF order
<1>2. CASE order = <<>>
  <2>1. Unmapped(v) = Unfocused(order)
    BY <1>2 DEF Unmapped, order
  <2> QED BY <1>1, <2>1 DEF Unfocused, Refocus, TypeOK
<1>3. CASE order # <<>>
  <2>1. Last(order) \in Views
    BY <1>1, <1>3, LastElement
  <2>2. Unmapped(v) = FocusTop(order, Last(order))
    BY <1>3 DEF Unmapped, order
  <2> HIDE DEF order
  <2>3. PICK top \in Views : top = Last(order)
    BY <2>1
  <2>4. PICK tree \in BOOLEAN : tree = (top \notin treeless)
    OBVIOUS
  <2>5. Unmapped(v) = FocusView(order, top, TRUE, tree)
    BY <2>2, <2>3, <2>4 DEF FocusTop
  <2>6. LET r == FocusView(order, top, TRUE, tree) IN
        /\ r.views \in Seq(Views) /\ IsInjective(r.views)
        /\ ToSet(r.views) = ToSet(order)
        /\ r.focused \in Views \cup {None}
        /\ r.active \subseteq Views
    BY <1>1, FocusViewTypes
  <2> QED BY <1>1, <2>5, <2>6
<1> QED BY <1>2, <1>3

(* The steps that change neither the list and the focus nor a surface       *)
Elsewhere ==
  \/ \E v \in XViews : ChangeWants(v)
  \/ \E v \in Views \ XViews, m \in Grabs, match \in BOOLEAN : RequestMove(v, m, match)
  \/ \E v \in XViews, m \in Grabs : XRequestMove(v, m)
  \/ \E v \in Views \cup {None} : Motion(v)
  \/ \E v \in Views \cup {None}, m \in Grabs : AltPress(v, m)
  \/ Release
  \/ Alt
  \/ KeyboardChanges
  \/ UNCHANGED vars

LEMMA LiftedStays == [Next]_vars => lifted' = lifted
BY DEF Next, vars, NewSurface, MapSurface, MapOrphan, UnmapSurface, DestroyRole, DestroySurface,
       ChangeWants, RequestMove, XRequestMove, Motion, Press, AltPress, Release, Alt, NextView,
       KeyboardChanges

LEMMA ElsewhereStep ==
  ASSUME TypeOK, Elsewhere
  PROVE  TypeOK' /\ UNCHANGED <<lifted, state, treeless, focusVars>>
<1> USE DesktopAssumption DEF TypeOK, focusVars
<1>1. CASE \E v \in XViews : ChangeWants(v)
  BY <1>1 DEF ChangeWants, grabVars, inputVars
<1>2. ASSUME NEW v \in Views, NEW m \in Grabs, BeginInteractive(v, m)
      PROVE  grabbed' \in Views \cup {None} /\ mode' \in {"passthrough", "move", "resize"}
  BY <1>2 DEF BeginInteractive, Grabs, grabVars
<1>3. CASE \E v \in Views \ XViews, m \in Grabs, match \in BOOLEAN : RequestMove(v, m, match)
  BY <1>2, <1>3 DEF RequestMove, grabVars, viewVars, inputVars
<1>4. CASE \E v \in XViews, m \in Grabs : XRequestMove(v, m)
  BY <1>2, <1>4 DEF XRequestMove, grabVars, viewVars, inputVars
<1>5. CASE \E v \in Views \cup {None} : Motion(v)
  BY <1>5 DEF Motion, grabVars, viewVars, inputVars
<1>6. CASE \E v \in Views \cup {None}, m \in Grabs : AltPress(v, m)
  BY <1>6 DEF AltPress, BeginInteractive, Grabs, grabVars, viewVars
<1>7. CASE Release
  BY <1>7 DEF Release, ResetCursorMode, viewVars
<1>8. CASE Alt
  BY <1>8 DEF Alt, grabVars, viewVars
<1>9. CASE KeyboardChanges
  BY <1>9 DEF KeyboardChanges, grabVars, viewVars, inputVars
<1>10. CASE UNCHANGED vars
  BY <1>10 DEF vars, grabVars, viewVars, inputVars
<1> QED BY <1>1, <1>3, <1>4, <1>5, <1>6, <1>7, <1>8, <1>9, <1>10 DEF Elsewhere

(* handle-surface-map, -unmap, handle-cursor-button and handle-keybinding   *)
(* keep the types and the list.                                             *)
LEMMA NewSurfaceListed ==
  ASSUME Listed, NEW v \in Views, NewSurface(v)
  PROVE  Listed'
BY DEF Listed, TypeOK, ViewsAreMapped, NewSurface, viewVars, focusVars, grabVars, inputVars, Mapped

LEMMA MapSurfaceListed ==
  ASSUME Listed, NEW v \in Views, MapSurface(v)
  PROVE  Listed'
<1> USE DEF MapSurface, grabVars, inputVars
<1>1. v \notin ToSet(views)
  BY DEF Listed, ViewsAreMapped, Mapped
<1> DEFINE order == Append(views, v)
<1>2. order \in Seq(Views) /\ IsInjective(order) /\ ToSet(order) = ToSet(views) \cup {v}
  BY <1>1, PushElement DEF Listed, TypeOK, ViewsAreMapped
<1>3. Mapped' = Mapped \cup {v}
  BY DEF Listed, TypeOK, Mapped
<1> HIDE DEF order
<1>4. CASE Focusable(v)
  <2>1. LET r == FocusView(order, v, TRUE, TRUE) IN
        /\ r.views \in Seq(Views) /\ IsInjective(r.views)
        /\ ToSet(r.views) = ToSet(order)
        /\ r.focused \in Views \cup {None}
        /\ r.active \subseteq Views
    BY <1>2, FocusViewTypes DEF Listed
  <2>2. Set(FocusView(order, v, TRUE, TRUE))
    BY <1>4 DEF order
  <2>3. /\ views' \in Seq(Views) /\ IsInjective(views') /\ ToSet(views') = ToSet(views) \cup {v}
        /\ focused' \in Views \cup {None} /\ active' \subseteq Views
    BY <1>2, <2>1, <2>2 DEF Set
  <2> QED BY <1>3, <2>3 DEF Listed, TypeOK, ViewsAreMapped
<1>5. CASE ~ Focusable(v)
  <2>1. UNCHANGED <<views, focused, active>> /\ v \in XViews
    BY <1>5 DEF Set, Unfocused, Refocus, Focusable
  <2> QED BY <1>3, <2>1 DEF Listed, TypeOK, ViewsAreMapped
<1> QED BY <1>4, <1>5

LEMMA MapOrphanListed ==
  ASSUME Listed, NEW v \in XViews, MapOrphan(v)
  PROVE  Listed'
<1>1. v \notin ToSet(views) /\ v \in Views
  BY DesktopAssumption DEF Listed, ViewsAreMapped, Mapped, MapOrphan
<1>2. /\ views' = Append(views, v) /\ focused' = focused /\ active' = active
  BY DEF MapOrphan, Set, Unfocused, Refocus
<1>3. views' \in Seq(Views) /\ IsInjective(views') /\ ToSet(views') = ToSet(views) \cup {v}
  BY <1>1, <1>2, PushElement DEF Listed, TypeOK, ViewsAreMapped
<1>4. Mapped' = Mapped \cup {v}
  BY <1>1 DEF Listed, TypeOK, Mapped, MapOrphan
<1> QED BY <1>2, <1>3, <1>4 DEF Listed, TypeOK, ViewsAreMapped, MapOrphan, viewVars, grabVars, inputVars

LEMMA UnmapSurfaceListed ==
  ASSUME Listed, NEW v \in Views, UnmapSurface(v)
  PROVE  Listed'
<1> USE DEF UnmapSurface
<1>1. /\ views' \in Seq(Views) /\ IsInjective(views') /\ ToSet(views') = ToSet(views) \ {v}
      /\ focused' \in Views \cup {None} /\ active' \subseteq Views
  BY UnmappedList DEF Listed, ViewsAreMapped, Set
<1>2. Mapped' = Mapped \ {v}
  BY DEF Listed, TypeOK, Mapped
<1> QED BY <1>1, <1>2
        DEF Listed, TypeOK, ViewsAreMapped, Ungrabbed, ResetCursorMode, viewVars, grabVars, inputVars

(* Destroyed leaves the list without v, whether it was mapped or not.       *)
LEMMA DestroyedList ==
  ASSUME Listed, NEW v \in Views, NEW left \in Views \cup {None}, Destroyed(v, left)
  PROVE  /\ views' \in Seq(Views) /\ IsInjective(views') /\ ToSet(views') = ToSet(views) \ {v}
         /\ focused' \in Views \cup {None} /\ active' \subseteq Views
         /\ grabbed' \in Views \cup {None} /\ mode' \in {"passthrough", "move", "resize"}
<1>1. grabbed' \in Views \cup {None} /\ mode' \in {"passthrough", "move", "resize"}
  BY DEF Destroyed, Listed, TypeOK, Ungrabbed, ResetCursorMode, grabVars
<1>2. CASE state[v] = "mapped"
  <2>1. views' = Unmapped(v).views /\ active' = Unmapped(v).active
        /\ focused' \in {Unmapped(v).focused, left}
    BY <1>2 DEF Destroyed, Set, Unmapped, FocusTop, FocusView, Refocus, Unfocused
  <2> QED BY <1>1, <2>1, UnmappedList DEF Listed, ViewsAreMapped
<1>3. CASE state[v] # "mapped"
  <2>1. views' = views /\ active' = active /\ focused' \in {focused, left}
    BY <1>3 DEF Destroyed, Set, Refocus, Unfocused
  <2> QED BY <1>1, <1>3, <2>1 DEF Listed, TypeOK, ViewsAreMapped, Mapped
<1> QED BY <1>2, <1>3

LEMMA DestroyListed ==
  ASSUME Listed, NEW v \in Views, DestroyRole(v) \/ DestroySurface(v)
  PROVE  Listed'
<1>1. PICK left \in Views \cup {None} : Destroyed(v, left)
  BY DEF DestroyRole, DestroySurface
<1>2. PICK s \in {"roleless", "gone"} : state' = [state EXCEPT ![v] = s]
  BY DEF DestroyRole, DestroySurface
<1>3. Mapped' = Mapped \ {v}
  BY <1>2 DEF Listed, TypeOK, Mapped
<1>4. /\ pointer' \in Views \cup {None}
      /\ UNCHANGED <<lifted, wants, treeless, keyboard, lastbtn, held, alt>>
  BY DEF DestroyRole, DestroySurface, viewVars, inputVars, Listed, TypeOK
<1> QED BY <1>1, <1>2, <1>3, <1>4, DestroyedList DEF Listed, TypeOK, ViewsAreMapped

LEMMA PressListed ==
  ASSUME Listed, NEW v \in Views \cup {None}, NEW root \in BOOLEAN, Press(v, root)
  PROVE  Listed'
<1> USE DEF Press
<1>1. /\ views' \in Seq(Views) /\ IsInjective(views') /\ ToSet(views') = ToSet(views)
      /\ focused' \in Views \cup {None} /\ active' \subseteq Views
  <2>1. CASE v # None /\ Focusable(v)
    <3>1. Set(FocusView(views, v, root, TRUE)) /\ v \in Views
      BY <2>1
    <3>2. LET r == FocusView(views, v, root, TRUE) IN
          /\ r.views \in Seq(Views) /\ IsInjective(r.views)
          /\ ToSet(r.views) = ToSet(views)
          /\ r.focused \in Views \cup {None}
          /\ r.active \subseteq Views
      BY <3>1, FocusViewTypes DEF Listed, TypeOK, ViewsAreMapped
    <3> QED BY <3>1, <3>2 DEF Set
  <2>2. CASE ~ (v # None /\ Focusable(v))
    BY <2>2 DEF Set, Unfocused, Refocus, Listed, TypeOK, ViewsAreMapped
  <2> QED BY <2>1, <2>2
<1>2. held' \in 0..MaxHeld
  BY DesktopAssumption DEF Listed, TypeOK
<1> QED BY <1>1, <1>2 DEF Listed, TypeOK, ViewsAreMapped, Mapped, viewVars, grabVars

LEMMA NextViewListed ==
  ASSUME Listed, NextView
  PROVE  Listed'
<1> USE DEF NextView
<1>1. views[1] \in Views
  BY DEF Listed, TypeOK
<1>2. PICK v \in Views : v = views[1]
  BY <1>1
<1>3. PICK tree \in BOOLEAN : tree = (v \notin treeless)
  OBVIOUS
<1>4. Set(FocusView(views, v, TRUE, tree))
  BY <1>2, <1>3 DEF FocusTop
<1>5. LET r == FocusView(views, v, TRUE, tree) IN
      /\ r.views \in Seq(Views) /\ IsInjective(r.views)
      /\ ToSet(r.views) = ToSet(views)
      /\ r.focused \in Views \cup {None}
      /\ r.active \subseteq Views
  BY FocusViewTypes DEF Listed, TypeOK, ViewsAreMapped
<1>6. /\ views' \in Seq(Views) /\ IsInjective(views') /\ ToSet(views') = ToSet(views)
      /\ focused' \in Views \cup {None} /\ active' \subseteq Views
  BY <1>4, <1>5 DEF Set
<1> QED BY <1>6 DEF Listed, TypeOK, ViewsAreMapped, Mapped, viewVars, grabVars, inputVars

LEMMA ListedStep ==
  ASSUME Listed, [Next]_vars
  PROVE  Listed'
<1>1. CASE Elsewhere
  <2>1. UNCHANGED <<views, Mapped>>
    BY <1>1, ElsewhereStep DEF Listed, focusVars, Mapped
  <2> QED BY <1>1, <2>1, ElsewhereStep DEF Listed, ViewsAreMapped
<1>2. CASE ~ Elsewhere
  BY <1>2, DesktopAssumption, NewSurfaceListed, MapSurfaceListed, MapOrphanListed,
     UnmapSurfaceListed, DestroyListed, PressListed, NextViewListed
     DEF Next, Elsewhere
<1> QED BY <1>1, <1>2

LEMMA InitListed == Init => Listed
<1> SUFFICES ASSUME Init PROVE Listed
  OBVIOUS
<1>1. keyboard \in BOOLEAN
  BY Zenon DEF Init
<1>2. TypeOK
  <2>1. views \in Seq(Views)
    BY DEF Init
  <2>2. held \in 0..MaxHeld
    BY DesktopAssumption DEF Init
  <2>3. state \in [Views -> {"none", "unmapped", "mapped", "roleless", "gone"}]
    BY DEF Init
  <2> QED BY <1>1, <2>1, <2>2, <2>3, Zenon DEF Init, TypeOK
<1>3. ViewsAreMapped
  BY DEF Init, ViewsAreMapped, Mapped, IsInjective, ToSet
<1> QED BY <1>2, <1>3 DEF Listed

(* Whatever the clients, the user and the devices do, (server :views) holds *)
(* each mapped toplevel once, and nothing that is not mapped.               *)
THEOREM ListHoldsTheMapped == Spec => [](TypeOK /\ ViewsAreMapped)
BY InitListed, ListedStep, PTL DEF Spec, Listed

-----------------------------------------------------------------------------
(* Activation *)

(* What a step does to surfaces: none that has lost its role gets it back.  *)
LEMMA StaysActivated ==
  ASSUME TypeOK, Activated(focused', active', state), active' \subseteq Views,
         \A u \in Views : state'[u] \in {"roleless", "gone"} \/ state'[u] = state[u]
                            \/ state[u] \notin {"roleless", "gone"}
  PROVE  Activated(focused', active', state')
BY DEF Activated

(* handle-surface-unmap leaves only the view that has the focus activated.  *)
LEMMA UnmappedActivated ==
  ASSUME Listed, keyboard, Activated(focused, active, state), NEW v \in Views
  PROVE  Activated(Unmapped(v).focused, Unmapped(v).active, state)
<1> DEFINE order == RemoveFirst(views, v)
<1>1. order \in Seq(Views)
  BY RemoveElement DEF Listed, TypeOK, ViewsAreMapped
<1>2. CASE order = <<>>
  BY <1>2 DEF Unmapped, Unfocused, Refocus
<1>3. CASE order # <<>>
  <2>1. Unmapped(v) = FocusTop(order, Last(order))
    BY <1>3 DEF Unmapped
  <2> HIDE DEF order
  <2>2. PICK top \in Views : top = Last(order)
    BY <1>1, <1>3, LastElement
  <2>3. PICK tree \in BOOLEAN : tree = (top \notin treeless)
    OBVIOUS
  <2>4. Unmapped(v) = FocusView(order, top, TRUE, tree)
    BY <2>1, <2>2, <2>3 DEF FocusTop
  <2>5. LET r == FocusView(order, top, TRUE, tree) IN Activated(r.focused, r.active, state)
    BY FocusViewActivated DEF Listed
  <2> QED BY <2>4, <2>5
<1> QED BY <1>2, <1>3

LEMMA ActiveStep ==
  ASSUME Listed, Listed', keyboard, Activated(focused, active, state),
         "keyboard" \notin lifted, [Next]_vars
  PROVE  keyboard' /\ Activated(focused', active', state')
<1> USE DEF Listed
<1>1. CASE Elsewhere
  <2>1. UNCHANGED <<focused, active, state>>
    BY <1>1, ElsewhereStep DEF focusVars
  <2>2. keyboard' = keyboard
    BY <1>1 DEF Elsewhere, ChangeWants, RequestMove, XRequestMove, Motion, AltPress, Release,
                Alt, KeyboardChanges, vars
  <2> QED BY <2>1, <2>2
<1>2. ASSUME NEW v \in Views, NewSurface(v)
      PROVE  keyboard' /\ Activated(focused', active', state')
  BY <1>2 DEF NewSurface, focusVars, Activated, TypeOK
<1>3. ASSUME NEW v \in Views, MapSurface(v)
      PROVE  keyboard' /\ Activated(focused', active', state')
  <2> USE <1>3 DEF MapSurface
  <2>1. CASE Focusable(v)
    <3> DEFINE order == Append(views, v)
    <3>1. Set(FocusView(order, v, TRUE, TRUE))
      BY <2>1
    <3> HIDE DEF order
    <3>2. LET r == FocusView(order, v, TRUE, TRUE) IN Activated(r.focused, r.active, state)
      BY FocusViewActivated
    <3>3. Activated(focused', active', state)
      BY <3>1, <3>2 DEF Set
    <3> QED BY <3>3, StaysActivated DEF TypeOK
  <2>2. CASE ~ Focusable(v)
    BY <2>2 DEF Set, Unfocused, Refocus, Activated, TypeOK
  <2> QED BY <2>1, <2>2
<1>4. ASSUME NEW v \in Views, MapOrphan(v)
      PROVE  keyboard' /\ Activated(focused', active', state')
  BY <1>4 DEF MapOrphan, Set, Unfocused, Refocus, Activated, TypeOK
<1>5. ASSUME NEW v \in Views, UnmapSurface(v)
      PROVE  keyboard' /\ Activated(focused', active', state')
  <2>1. Activated(focused', active', state)
    BY <1>5, UnmappedActivated DEF UnmapSurface, Set
  <2> QED BY <1>5, <2>1, StaysActivated DEF UnmapSurface, TypeOK
<1>6. ASSUME NEW v \in Views, DestroyRole(v) \/ DestroySurface(v)
      PROVE  keyboard' /\ Activated(focused', active', state')
  <2>1. PICK left \in Views \cup {None} : Destroyed(v, left)
    BY <1>6 DEF DestroyRole, DestroySurface
  <2>2. /\ keyboard' = keyboard
        /\ state'[v] \in {"roleless", "gone"}
        /\ \A u \in Views \ {v} : state'[u] = state[u]
    BY <1>6 DEF DestroyRole, DestroySurface, TypeOK
  <2>3. PICK f, a : /\ Activated(f, a, state) /\ active' = a
                    /\ focused' = IF f = v THEN left ELSE f
    <3>1. CASE state[v] = "mapped"
      <4>1. focused' = (IF Unmapped(v).focused = v THEN left ELSE Unmapped(v).focused)
            /\ active' = Unmapped(v).active
        BY <2>1, <3>1 DEF Destroyed, Set, Unmapped, FocusTop, FocusView, Refocus, Unfocused
      <4> QED BY <4>1, UnmappedActivated
    <3>2. CASE state[v] # "mapped"
      BY <2>1, <3>2 DEF Destroyed, Set, Unfocused, Refocus
    <3> QED BY <3>1, <3>2
  <2> QED BY <2>2, <2>3 DEF Activated, TypeOK
<1>7. ASSUME NEW v \in Views \cup {None}, NEW root \in BOOLEAN, Press(v, root)
      PROVE  keyboard' /\ Activated(focused', active', state')
  <2> USE <1>7 DEF Press
  <2>1. CASE v # None /\ Focusable(v)
    <3>1. Set(FocusView(views, v, root, TRUE)) /\ v \in Views
      BY <2>1
    <3>2. LET r == FocusView(views, v, root, TRUE) IN Activated(r.focused, r.active, state)
      BY <3>1, FocusViewActivated
    <3> QED BY <3>1, <3>2 DEF Set
  <2>2. CASE ~ (v # None /\ Focusable(v))
    BY <2>2 DEF Set, Unfocused, Refocus
  <2> QED BY <2>1, <2>2
<1>8. CASE NextView
  <2> USE <1>8 DEF NextView
  <2>1. PICK v \in Views : v = views[1]
    BY DEF TypeOK
  <2>2. PICK tree \in BOOLEAN : tree = (v \notin treeless)
    OBVIOUS
  <2>3. Set(FocusView(views, v, TRUE, tree))
    BY <2>1, <2>2 DEF FocusTop
  <2>4. LET r == FocusView(views, v, TRUE, tree) IN Activated(r.focused, r.active, state)
    BY FocusViewActivated
  <2> QED BY <2>3, <2>4 DEF Set
<1> QED
  BY <1>1, <1>2, <1>3, <1>4, <1>5, <1>6, <1>7, <1>8, DesktopAssumption DEF Next, Elsewhere

LEMMA OnlyFocusedActiveStep ==
  ASSUME Listed, Listed', OnlyFocusedActive, [Next]_vars
  PROVE  OnlyFocusedActive'
BY LiftedStays, ActiveStep DEF OnlyFocusedActive, Keeping

(* focus-view deactivates every view that could still be activated, as long *)
(* as the seat has a keyboard, even where it raises.                        *)
THEOREM NoOtherActive == Spec => []OneActive
<1>1. Init => OnlyFocusedActive
  BY DEF Init, OnlyFocusedActive, Keeping, Activated
<1>2. OnlyFocusedActive => OneActive
  BY DEF OnlyFocusedActive, OneActive, Activated, Mapped
<1> QED BY <1>1, <1>2, InitListed, ListedStep, OnlyFocusedActiveStep, PTL DEF Spec

-----------------------------------------------------------------------------
(* The grab *)

LEMMA GrabStep ==
  ASSUME Listed, GrabIsMapped, [Next]_vars
  PROVE  GrabIsMapped'
<1> USE LiftedStays DEF Listed, TypeOK, GrabIsMapped, Keeping, Mapped
<1>1. ASSUME NEW v \in Views, NEW m \in Grabs, BeginInteractive(v, m), UNCHANGED state,
             state[v] = "mapped" \/ "moves" \in lifted
      PROVE  GrabIsMapped'
  BY <1>1, DesktopAssumption DEF BeginInteractive, Grabs, grabVars
<1>2. ASSUME UNCHANGED <<state, grabVars>>
      PROVE  GrabIsMapped'
  BY <1>2 DEF grabVars
<1>3. ASSUME NEW v \in Views, NewSurface(v) \/ MapSurface(v) \/ MapOrphan(v)
      PROVE  GrabIsMapped'
  BY <1>3 DEF NewSurface, MapSurface, MapOrphan, grabVars
<1>4. ASSUME NEW v \in Views, UnmapSurface(v)
      PROVE  GrabIsMapped'
  BY <1>4 DEF UnmapSurface, Ungrabbed, ResetCursorMode, grabVars
<1>5. ASSUME NEW v \in Views, DestroyRole(v) \/ DestroySurface(v)
      PROVE  GrabIsMapped'
  BY <1>5 DEF DestroyRole, DestroySurface, Destroyed, Ungrabbed, ResetCursorMode, grabVars
<1>6. ASSUME NEW v \in Views \ XViews, NEW m \in Grabs, NEW match \in BOOLEAN,
             RequestMove(v, m, match)
      PROVE  GrabIsMapped'
  <2>1. state[v] = "mapped" \/ "moves" \in lifted
    BY <1>6 DEF RequestMove
  <2> QED BY <1>1, <1>2, <1>6, <2>1 DEF RequestMove
<1>7. ASSUME NEW v \in XViews, NEW m \in Grabs, XRequestMove(v, m)
      PROVE  GrabIsMapped'
  BY <1>1, <1>2, <1>7, DesktopAssumption DEF XRequestMove
<1>8. ASSUME NEW v \in Views \cup {None}, NEW m \in Grabs, AltPress(v, m)
      PROVE  GrabIsMapped'
  <2>1. CASE v = None
    BY <1>2, <1>8, <2>1 DEF AltPress, BeginInteractive
  <2>2. CASE v \in Views
    <3>1. state[v] = "mapped" /\ UNCHANGED state
      BY <1>8, <2>2, DesktopAssumption DEF AltPress, OnScreen
    <3> QED BY <1>1, <1>2, <1>8, <2>2, <3>1 DEF AltPress
  <2> QED BY <2>1, <2>2
<1>9. CASE Release
  BY <1>9 DEF Release, ResetCursorMode
<1>10. CASE \/ \E v \in XViews : ChangeWants(v)
            \/ \E v \in Views \cup {None} : Motion(v)
            \/ \E v \in Views \cup {None}, root \in BOOLEAN : Press(v, root)
            \/ Alt \/ NextView \/ KeyboardChanges \/ UNCHANGED vars
  BY <1>2, <1>10 DEF ChangeWants, Motion, Press, Alt, NextView, KeyboardChanges, vars
<1> QED
  BY <1>3, <1>4, <1>5, <1>6, <1>7, <1>8, <1>9, <1>10, DesktopAssumption DEF Next

(* A view that goes takes the grab of it away, as long as clients ask to    *)
(* move what is mapped.                                                     *)
THEOREM GrabbedIsMapped == Spec => []GrabIsMapped
<1>1. Init => GrabIsMapped
  BY DEF Init, GrabIsMapped
<1> QED BY <1>1, InitListed, ListedStep, GrabStep, PTL DEF Spec

LEMMA HeldStep ==
  ASSUME Listed, OnlyFocusedActive, ButtonIsHeld, GrabIsHeld, [Next]_vars
  PROVE  ButtonIsHeld' /\ GrabIsHeld'
<1> SUFFICES ASSUME "alt" \notin lifted, "keyboard" \notin lifted
             PROVE  /\ lastbtn' = "pressed" => held' > 0 /\ ~ alt'
                    /\ grabbed' \in Views \ XViews => held' > 0
  BY LiftedStays DEF ButtonIsHeld, GrabIsHeld, Keeping
<1>1. /\ lastbtn = "pressed" => held > 0 /\ ~ alt
      /\ grabbed \in Views \ XViews => held > 0
      /\ keyboard /\ held \in Nat
  BY DesktopAssumption DEF ButtonIsHeld, GrabIsHeld, OnlyFocusedActive, Keeping, Listed, TypeOK
<1>2. ASSUME UNCHANGED <<lastbtn, held, alt>>, grabbed' = grabbed \/ grabbed' = None
      PROVE  /\ lastbtn' = "pressed" => held' > 0 /\ ~ alt'
             /\ grabbed' \in Views \ XViews => held' > 0
  BY <1>1, <1>2, DesktopAssumption
<1> USE DesktopAssumption DEF inputVars, grabVars
<1>3. ASSUME NEW v \in Views, \/ NewSurface(v) \/ MapSurface(v) \/ MapOrphan(v)
                              \/ UnmapSurface(v) \/ DestroyRole(v) \/ DestroySurface(v)
      PROVE  UNCHANGED <<lastbtn, held, alt>> /\ (grabbed' = grabbed \/ grabbed' = None)
  BY <1>3 DEF NewSurface, MapSurface, MapOrphan, UnmapSurface, DestroyRole, DestroySurface,
              Destroyed, Ungrabbed, ResetCursorMode
<1>4. ASSUME NEW v \in Views \ XViews, NEW m \in Grabs, NEW match \in BOOLEAN,
             RequestMove(v, m, match)
      PROVE  /\ lastbtn' = "pressed" => held' > 0 /\ ~ alt'
             /\ grabbed' \in Views \ XViews => held' > 0
  BY <1>1, <1>4 DEF RequestMove
<1>5. ASSUME NEW v \in XViews, NEW m \in Grabs, XRequestMove(v, m)
      PROVE  /\ lastbtn' = "pressed" => held' > 0 /\ ~ alt'
             /\ grabbed' \in Views \ XViews => held' > 0
  BY <1>1, <1>5 DEF XRequestMove, BeginInteractive
<1>6. ASSUME NEW v \in Views \cup {None}, NEW root \in BOOLEAN, Press(v, root)
      PROVE  /\ lastbtn' = "pressed" => held' > 0 /\ ~ alt'
             /\ grabbed' \in Views \ XViews => held' > 0
  BY <1>1, <1>6 DEF Press, AltDown
<1>7. ASSUME NEW v \in Views \cup {None}, NEW m \in Grabs, AltPress(v, m)
      PROVE  /\ lastbtn' = "pressed" => held' > 0 /\ ~ alt'
             /\ grabbed' \in Views \ XViews => held' > 0
  BY <1>1, <1>7 DEF AltPress
<1>8. CASE Release
  BY <1>1, <1>8 DEF Release, ResetCursorMode, AltDown
<1>9. CASE Alt
  BY <1>1, <1>9 DEF Alt
<1>10. CASE \/ \E v \in XViews : ChangeWants(v)
            \/ \E v \in Views \cup {None} : Motion(v)
            \/ NextView \/ KeyboardChanges \/ UNCHANGED vars
  BY <1>2, <1>10 DEF ChangeWants, Motion, NextView, KeyboardChanges, vars
<1> QED
  BY <1>2, <1>3, <1>4, <1>5, <1>6, <1>7, <1>8, <1>9, <1>10 DEF Next

(* No toplevel is grabbed when no button is held, as long as Alt does not   *)
(* change while one is and the seat has a keyboard to tell.                 *)
THEOREM GrabbedIsHeld == Spec => []GrabIsHeld
<1>1. Init => OnlyFocusedActive /\ ButtonIsHeld /\ GrabIsHeld
  BY DesktopAssumption DEF Init, OnlyFocusedActive, Keeping, Activated, ButtonIsHeld, GrabIsHeld
<1> QED BY <1>1, InitListed, ListedStep, OnlyFocusedActiveStep, HeldStep, PTL DEF Spec

-----------------------------------------------------------------------------
(* The focus and the list *)

(* handle-surface-unmap gives the focus to the view that is now on top.     *)
LEMMA UnmappedOnTop ==
  ASSUME Listed, keyboard, Follows, NEW v \in Views
  PROVE  /\ Unmapped(v).focused # None => Unmapped(v).focused \in Unmapped(v).active
         /\ Unmapped(v).views # <<>> =>
              /\ Unmapped(v).focused \in ToSet(views) \ {v}
              /\ OnTop(Unmapped(v).views, Unmapped(v).focused)
<1> DEFINE order == RemoveFirst(views, v)
<1>1. order \in Seq(Views) /\ IsInjective(order) /\ ToSet(order) = ToSet(views) \ {v}
  BY RemoveElement DEF Listed, TypeOK, ViewsAreMapped
<1>2. CASE order = <<>>
  BY <1>2 DEF Unmapped, Unfocused, Refocus, Follows
<1>3. CASE order # <<>>
  <2>1. Unmapped(v) = FocusTop(order, Last(order))
    BY <1>3 DEF Unmapped
  <2> HIDE DEF order
  <2>2. PICK top \in Views : top = Last(order) /\ top \in ToSet(order)
    BY <1>1, <1>3, LastElement
  <2>3. top \notin treeless
    BY <1>1, <2>2 DEF Follows, Listed, ViewsAreMapped
  <2>4. Unmapped(v) = FocusView(order, top, TRUE, TRUE)
    BY <2>1, <2>2, <2>3 DEF FocusTop, FocusView
  <2>5. focused = top => top \in active /\ OnTop(order, top)
    BY <2>2, DesktopAssumption DEF Follows, OnTop
  <2>6. LET r == FocusView(order, top, TRUE, TRUE) IN
        r.focused = top /\ top \in r.active /\ OnTop(r.views, top)
    BY <1>1, <2>2, <2>5, FocusViewOnTop DEF Follows, Listed
  <2> QED BY <1>1, <2>2, <2>4, <2>6
<1> QED BY <1>2, <1>3

LEMMA FollowsStep ==
  ASSUME Listed, Listed', keyboard, Follows, [Next]_vars,
         lifted \cap {"keyboard", "surface", "parents"} = {}
  PROVE  Follows'
<1> USE DEF Listed
<1>1. CASE Elsewhere
  BY <1>1, ElsewhereStep DEF focusVars, Follows, Mapped, OnTop
<1>2. ASSUME NEW v \in Views, NewSurface(v)
      PROVE  Follows'
  BY <1>2 DEF NewSurface, viewVars, focusVars, Follows, Mapped, OnTop, TypeOK
<1>3. ASSUME NEW v \in Views, MapSurface(v)
      PROVE  Follows'
  <2> USE <1>3 DEF MapSurface
  <2>1. /\ \A u \in Views : state'[u] # "roleless"
        /\ Mapped' = Mapped \cup {v}
        /\ treeless' \cap Mapped' = {}
    BY DEF Follows, TypeOK, Mapped
  <2>2. v \notin ToSet(views) /\ v \notin Mapped
    BY DEF ViewsAreMapped, Mapped
  <2>3. CASE Focusable(v)
    <3> DEFINE order == Append(views, v)
    <3>1. Set(FocusView(order, v, TRUE, TRUE))
      BY <2>3
    <3>2. /\ order \in Seq(Views) /\ IsInjective(order) /\ v \in ToSet(order)
          /\ Last(order) = v
      BY <2>2, PushElement DEF TypeOK, ViewsAreMapped
    <3> HIDE DEF order
    <3>3. focused = v => v \in active /\ OnTop(order, v)
      BY <3>2, DesktopAssumption DEF Follows, OnTop
    <3>4. LET r == FocusView(order, v, TRUE, TRUE) IN
          r.focused = v /\ v \in r.active /\ OnTop(r.views, v)
      BY <3>2, <3>3, FocusViewOnTop DEF Follows
    <3>5. focused' = v /\ v \in active' /\ OnTop(views', v)
      BY <3>1, <3>4 DEF Set
    <3> QED BY <2>1, <3>5 DEF Follows, OnTop
  <2>4. CASE ~ Focusable(v)
    <3>1. UNCHANGED <<views, focused, active>>
      BY <2>4 DEF Set, Unfocused, Refocus
    <3> QED BY <2>1, <3>1 DEF Follows, OnTop
  <2> QED BY <2>3, <2>4
<1>4. ASSUME NEW v \in Views, UnmapSurface(v)
      PROVE  Follows'
  <2> USE <1>4 DEF UnmapSurface
  <2>1. /\ \A u \in Views : state'[u] # "roleless"
        /\ Mapped' = Mapped \ {v}
        /\ treeless' \cap Mapped' = {}
    BY DEF Follows, TypeOK, Mapped, viewVars
  <2>2. /\ focused' # None => focused' \in active'
        /\ views' # <<>> => focused' \in ToSet(views) \ {v} /\ OnTop(views', focused')
    BY UnmappedOnTop DEF Set
  <2> QED BY <2>1, <2>2 DEF Follows, OnTop, ViewsAreMapped
<1>5. ASSUME NEW v \in Views, DestroySurface(v)
      PROVE  Follows'
  <2> USE <1>5 DEF DestroySurface
  <2>1. /\ \A u \in Views : state'[u] # "roleless"
        /\ Mapped' = Mapped \ {v}
        /\ treeless' \cap Mapped' = {}
    BY DEF Follows, TypeOK, Mapped, viewVars
  <2>2. CASE state[v] = "mapped"
    <3>1. /\ views' = Unmapped(v).views /\ active' = Unmapped(v).active
          /\ focused' = IF Unmapped(v).focused = v THEN None ELSE Unmapped(v).focused
      BY <2>2 DEF Destroyed, Set, Unmapped, FocusTop, FocusView, Refocus, Unfocused
    <3>2. /\ focused' # None => focused' \in active'
          /\ views' # <<>> => focused' \in ToSet(views) \ {v} /\ OnTop(views', focused')
      BY <3>1, UnmappedOnTop
    <3> QED BY <2>1, <3>2 DEF Follows, OnTop, ViewsAreMapped
  <2>3. CASE state[v] # "mapped"
    <3>1. /\ views' = views /\ active' = active
          /\ focused' = IF focused = v THEN None ELSE focused
      BY <2>3 DEF Destroyed, Set, Refocus, Unfocused
    <3>2. focused = v => views = <<>>
      BY <2>3 DEF Follows, Mapped
    <3> QED BY <2>1, <2>3, <3>1, <3>2 DEF Follows, OnTop, Mapped
  <2> QED BY <2>2, <2>3
<1>6. ASSUME NEW v \in Views \cup {None}, NEW root \in BOOLEAN, Press(v, root)
      PROVE  Follows'
  <2> USE <1>6 DEF Press
  <2>1. /\ \A u \in Views : state'[u] # "roleless"
        /\ Mapped' = Mapped /\ treeless' \cap Mapped' = {}
    BY DEF Follows, Mapped, viewVars
  <2>2. CASE v # None /\ Focusable(v)
    <3>1. Set(FocusView(views, v, root, TRUE)) /\ v \in Mapped /\ v \in Views
      BY <2>2 DEF OnScreen
    <3>2. v \in XViews \cup ToSet(views)
      BY <3>1 DEF ViewsAreMapped
    <3>3. focused = v /\ root => v \in active /\ OnTop(views, v)
      <4>1. views = <<>> => ToSet(views) = {}
        BY LastElement DEF TypeOK
      <4> QED BY <3>1, <3>2, <4>1, DesktopAssumption DEF Follows, OnTop
    <3>4. LET r == FocusView(views, v, root, TRUE) IN
          r.focused = v /\ v \in r.active /\ OnTop(r.views, v)
      BY <3>1, <3>2, <3>3, FocusViewOnTop DEF Follows, TypeOK, ViewsAreMapped
    <3>5. focused' = v /\ v \in active' /\ OnTop(views', v)
      BY <3>1, <3>4 DEF Set
    <3> QED BY <2>1, <3>1, <3>5 DEF Follows, OnTop
  <2>3. CASE ~ (v # None /\ Focusable(v))
    <3>1. UNCHANGED <<views, focused, active>>
      BY <2>3 DEF Set, Unfocused, Refocus
    <3> QED BY <2>1, <3>1 DEF Follows, OnTop
  <2> QED BY <2>2, <2>3
<1>7. CASE NextView
  <2> USE <1>7 DEF NextView
  <2>1. PICK v \in Views : v = views[1] /\ v \in ToSet(views)
    BY DEF TypeOK, ToSet
  <2>2. v \in Mapped /\ v \notin treeless
    BY <2>1 DEF ViewsAreMapped, Follows
  <2>3. Set(FocusView(views, v, TRUE, TRUE))
    BY <2>1, <2>2 DEF FocusTop, FocusView
  <2>4. focused = v => v \in active /\ OnTop(views, v)
    BY <2>1, DesktopAssumption DEF Follows, TypeOK
  <2>5. LET r == FocusView(views, v, TRUE, TRUE) IN
        r.focused = v /\ v \in r.active /\ OnTop(r.views, v)
    BY <2>1, <2>4, FocusViewOnTop DEF Follows, TypeOK, ViewsAreMapped
  <2>6. focused' = v /\ v \in active' /\ OnTop(views', v)
    BY <2>3, <2>5 DEF Set
  <2> QED BY <2>2, <2>6 DEF Follows, OnTop, Mapped, viewVars
<1>8. ~ \E v \in Views : MapOrphan(v) \/ DestroyRole(v)
  BY DEF MapOrphan, DestroyRole
<1> QED
  BY <1>1, <1>2, <1>3, <1>4, <1>5, <1>6, <1>7, <1>8, DesktopAssumption DEF Next, Elsewhere

LEMMA FocusOnTopStep ==
  ASSUME Listed, Listed', OnlyFocusedActive, FocusOnTop, [Next]_vars
  PROVE  FocusOnTop'
BY LiftedStays, FollowsStep DEF FocusOnTop, OnlyFocusedActive, Keeping

(* While there are views the one on top has the focus and is activated, or  *)
(* an X11 view that is not in the list, as long as the seat keeps a         *)
(* keyboard, surfaces their roles and X11 views map after their parents.    *)
THEOREM TopHasTheFocus == Spec => []FocusFollowsOrder
<1>1. Init => OnlyFocusedActive /\ FocusOnTop
  BY DesktopAssumption
     DEF Init, OnlyFocusedActive, FocusOnTop, Follows, Keeping, Activated, Mapped
<1>2. Listed /\ FocusOnTop => FocusFollowsOrder
  BY DesktopAssumption
     DEF Listed, TypeOK, FocusOnTop, Follows, FocusFollowsOrder, Keeping, OnTop, Mapped
<1> QED
  BY <1>1, <1>2, InitListed, ListedStep, OnlyFocusedActiveStep, FocusOnTopStep, PTL DEF Spec
=============================================================================
