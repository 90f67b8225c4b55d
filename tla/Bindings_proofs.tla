-------------------------- MODULE Bindings_proofs ---------------------------
(***************************************************************************)
(* What becomes of handles and integers between C and Janet.  First the    *)
(* conversions of integers, of any width.  Then every getter, every type   *)
(* and every function of the native modules is shown to fit: a reference   *)
(* is wrapped as the type of the object behind it, NULL is tested for but  *)
(* where it is known to come, integers are taken as they are given.  From  *)
(* that and from what is in the data pointer follows, step by step, what   *)
(* the program can hold and how its steps can end.                         *)
(***************************************************************************)
EXTENDS Bindings, TLAPS

\* A number below the divisor is its own remainder.
LEMMA SmallRemainder ==
  ASSUME NEW m \in Nat \ {0}, NEW i \in 0 .. m - 1
  PROVE  i % m = i
OBVIOUS

\* A number less than one divisor below zero wraps once.
LEMMA NegativeRemainder ==
  ASSUME NEW m \in Nat \ {0}, NEW i \in -m .. -1
  PROVE  i % m = i + m
OBVIOUS

\* A number less than two divisors above zero wraps once.
LEMMA LargeRemainder ==
  ASSUME NEW m \in Nat \ {0}, NEW i \in m .. 2 * m - 1
  PROVE  i % m = i - m
OBVIOUS

\* A remainder is below the divisor.
LEMMA RemainderRange ==
  ASSUME NEW m \in Nat \ {0}, NEW i \in Int
  PROVE  i % m \in 0 .. m - 1
OBVIOUS

\* What a serial looks like in Janet: itself in the lower half, negative in
\* the upper one.
LEMMA SignedSerial ==
  ASSUME NEW c \in Word32
  PROVE  /\ AsInt32(c) \in Int32
         /\ c < Half32 => AsInt32(c) = c
         /\ c >= Half32 => AsInt32(c) = c - 2 * Half32
<1> USE HalvesAssumption DEF Word32, Int32, AsInt32
<1>1. 2 * Half32 \in Nat \ {0} /\ c \in 0 .. 2 * Half32 - 1
  OBVIOUS
<1>2. CASE c < Half32
  <2>1. c + Half32 \in 0 .. 2 * Half32 - 1
    BY <1>1, <1>2
  <2>2. (c + Half32) % (2 * Half32) = c + Half32
    BY <1>1, <2>1, SmallRemainder
  <2> QED
    BY <1>1, <1>2, <2>2
<1>3. CASE c >= Half32
  <2>1. c + Half32 \in 2 * Half32 .. 2 * (2 * Half32) - 1
    BY <1>1, <1>3
  <2>2. (c + Half32) % (2 * Half32) = c + Half32 - 2 * Half32
    BY <1>1, <2>1, LargeRemainder
  <2> QED
    BY <1>1, <1>3, <2>2
<1> QED
  BY <1>1, <1>2, <1>3

\* A serial that C hands to Janet is a Janet integer, and comes back to C as
\* the same serial (the comment at wlr.c:2392 expects as much of integers
\* that nobody calculates with).
THEOREM SerialRoundTrip ==
  ASSUME NEW c \in Word32
  PROVE  /\ ToJanet("serial", c) \in Int32
         /\ ToC("serial", ToJanet("serial", c)) = c
<1> USE HalvesAssumption DEF Word32, Int32
<1>1. ToJanet("serial", c) = AsInt32(c)
  BY DEF ToJanet
<1>2. ToC("serial", AsInt32(c)) = AsInt32(c) % (2 * Half32)
  BY DEF ToC, AsWord32
<1>3. 2 * Half32 \in Nat \ {0} /\ c \in 0 .. 2 * Half32 - 1
  OBVIOUS
<1>4. CASE c < Half32
  BY <1>1, <1>2, <1>3, <1>4, SignedSerial, SmallRemainder
<1>5. CASE c >= Half32
  <2>1. AsInt32(c) = c - 2 * Half32
    BY <1>5, SignedSerial
  <2>2. c - 2 * Half32 \in -(2 * Half32) .. -1
    BY <1>3
  <2>3. (c - 2 * Half32) % (2 * Half32) = c
    BY <1>3, <2>2, NegativeRemainder
  <2> QED
    BY <1>1, <1>2, <2>1, <2>3, SignedSerial
<1> QED
  BY <1>3, <1>4, <1>5

\* Two serials that C tells apart are told apart in Janet: comparing them
\* there, as handle-xdg-toplevel-request-move does, compares the serials.
THEOREM SerialsDistinct ==
  ASSUME NEW c \in Word32, NEW d \in Word32,
         ToJanet("serial", c) = ToJanet("serial", d)
  PROVE  c = d
BY SerialRoundTrip

\* Times and key codes are widened and come back as they were.
THEOREM WideRoundTrip ==
  ASSUME NEW c \in Word32
  PROVE  ToC("u64", ToJanet("u64", c)) = c
<1>1. ToC("u64", ToJanet("u64", c)) = c % (2 * Half32)
  BY DEF ToC, ToJanet, AsWord32
<1> QED
  BY <1>1, SmallRemainder, HalvesAssumption DEF Word32

\* A position given to an X11 window is what X11 gets exactly when it has 15
\* bits and a sign; any other is another one (wlr.c:3916 converts without a
\* check).
THEOREM PositionNarrowed ==
  ASSUME NEW v \in Int32
  PROVE  ToC("int16", v) = v <=> v \in Int16
<1> USE HalvesAssumption DEF Int16, Int32
<1>0. 2 * Half16 \in Nat \ {0} /\ v \in Int
  OBVIOUS
<1>1. ToC("int16", v) = ((v + Half16) % (2 * Half16)) - Half16
  BY DEF ToC, AsInt16
<1>2. (v + Half16) % (2 * Half16) \in 0 .. 2 * Half16 - 1
  BY <1>0, RemainderRange
<1>3. ASSUME v \in Int16
      PROVE  (v + Half16) % (2 * Half16) = v + Half16
  <2>1. v + Half16 \in 0 .. 2 * Half16 - 1
    BY <1>0, <1>3
  <2> QED
    BY <1>0, <2>1, SmallRemainder
<1> QED
  BY <1>0, <1>1, <1>2, <1>3

\* The same of a size, which loses its sign as well.
THEOREM SizeNarrowed ==
  ASSUME NEW v \in Int32
  PROVE  ToC("word16", v) = v <=> v \in Word16
<1> USE HalvesAssumption DEF Word16, Int32
<1>0. 2 * Half16 \in Nat \ {0} /\ v \in Int
  OBVIOUS
<1>1. ToC("word16", v) = v % (2 * Half16)
  BY DEF ToC, AsWord16
<1>2. v % (2 * Half16) \in 0 .. 2 * Half16 - 1
  BY <1>0, RemainderRange
<1>3. ASSUME v \in Word16
      PROVE  v % (2 * Half16) = v
  BY <1>0, <1>3, SmallRemainder
<1> QED
  BY <1>0, <1>1, <1>2, <1>3

----------------------------------------------------------------------------
\* The integers of a program.  What it can hold is what the getters read
\* and the calls give; what a call takes is one of a few kinds, and the 16
\* bits of X11 are taken by one call only.

Held32 ==
  {Number("int", "layout"), Number("int", "hotspot"), Number("int", "discrete"),
   Number("serial", "serial"), Number("serial", "hotspot"), Number("serial", "id"),
   Number("u64", "pixels"), Number("u64", "time"), Number("u64", "keycode"),
   Number("u64", "button"), Number("u64", "atom")}

Words16 == {Number("int16", "x11-position"), Number("word16", "x11-size")}

HeldWords == Held32 \cup Words16

Taken32 ==
  {Number("int", "layout"), Number("int", "hotspot"), Number("int", "discrete"),
   Number("int", "rate"), Number("serial", "serial"), Number("serial", "version"),
   Number("serial", "size"), Number("u64", "pixels"), Number("u64", "time"),
   Number("u64", "keycode"), Number("u64", "button")}

TypeNames ==
  {"box", "wlr-backend", "wlr-renderer", "wlr-allocator", "wlr-compositor",
   "wlr-subcompositor", "wlr-data-device-manager", "wlr-output-layout",
   "wlr-output-layout-output", "wlr-scene", "wlr-scene-output",
   "wlr-xdg-shell", "wlr-surface", "wlr-surface-state", "wlr-xdg-popup",
   "wlr-xdg-toplevel", "wlr-xdg-toplevel-resize-event",
   "wlr-xdg-toplevel-move-event", "wlr-xdg-surface", "wlr-cursor",
   "wlr-xcursor-manager", "wlr-xcursor-image", "wlr-xcursor", "wlr-seat",
   "wlr-seat-client", "wlr-output", "wlr-output-mode", "wlr-output-cursor",
   "wlr-scene-tree", "wlr-scene-node", "wlr-scene-buffer",
   "wlr-scene-surface", "wlr-input-device", "wlr-pointer",
   "wlr-pointer-motion-event", "wlr-pointer-motion-absolute-event",
   "wlr-pointer-button-event", "wlr-pointer-axis-event",
   "wlr-seat-pointer-state", "wlr-seat-keyboard-state",
   "wlr-seat-pointer-request-set-cursor-event",
   "wlr-seat-request-set-selection-event", "wlr-data-source",
   "wlr-keyboard-modifiers", "wlr-keyboard-key-event", "wlr-keyboard",
   "wlr-xwayland", "wlr-xwayland-surface", "wlr-xwayland-resize-event",
   "wlr-xwayland-minimize-event", "wlr-xwayland-surface-configure-event",
   "wlr-layer-shell-v1", "wl-event-loop", "wl-list", "wl-signal",
   "wl-display", "event-source", "listener", "xkb-context", "xkb-keymap",
   "xkb-state", "xkb-rule-names", "xcb-connection-t", "intern-atom-cookie-t",
   "xcb-intern-atom-reply-t", "xcb-generic-error-t", "xcb-size-hints-t",
   "timespec"}

\* The types of which the program can get a handle of NULL.
NullHandles == {"wlr-surface", "wlr-data-source", "xkb-state"}

\* The members whose types are looked up under the right prefix, and the one
\* that is looked up under a prefix that nobody registers it with.
FoundByName(kind) ==
  \/ kind.prefix = "xkb" /\ kind.at = "xkb-state"
  \/ kind.prefix = "wl" /\ kind.at = "wl-display"

LostByName(kind) == kind.prefix = "xkb" /\ kind.at = "xkb-size-hints-t"

\* What a getter may make of member k of a T: the C object that it wraps is
\* of the type of the handle, numbers are among those above, and only the
\* named places leave a NULL untested.
MemberKnown(T, k, kind) ==
  /\ kind.is \in {"inside", "ref", "named", "string", "number", "data", "plain"}
  /\ kind.is = "number" => kind \in HeldWords
  /\ kind.is \in {"inside", "ref"} => kind.at \in TypeNames
  /\ kind.is = "inside" =>
       kind.at \in {"wl-list", "wl-signal"} \/ kind.at = MemberType(T, k)
  /\ kind.is = "ref" => kind.at = MemberType(T, k)
  /\ kind.is = "named" =>
       \/ FoundByName(kind) /\ kind.at = MemberType(T, k)
       \/ LostByName(kind)
  /\ kind.is \in {"ref", "named"} =>
       kind.tested \/ <<T, k>> \in NeverNull \/ kind.at \in NullHandles
  /\ kind.is = "string" => kind.tested \/ <<T, k>> = <<"wlr-pointer", "output-name">>

GetterKnown(T, get) == \A k \in DOMAIN get : MemberKnown(T, k, get[k])

\* A data source has no members to read or to set.
TypeKnown(at, type) ==
  /\ GetterKnown(at, type.get)
  /\ at = "wlr-data-source" => DOMAIN type.get = {} /\ DOMAIN type.put = {}

TypesKnown(types) == \A at \in DOMAIN types : TypeKnown(at, types[at])

CallKnown(c) ==
  /\ c.gives.types \subseteq TypeNames
  /\ c.gives.words \subseteq Held32
  /\ "wlr-data-source" \in c.takes => c.name = "wlr-seat-set-selection"
  /\ \/ c.words \subseteq Taken32
     \/ c.words \subseteq Words16 /\ c.name = "wlr-xwayland-surface-configure"

CallsKnown(cs) == \A c \in cs : CallKnown(c)

----------------------------------------------------------------------------
\* Tables of kinds, and tables of types.

\* The kinds that are neither references nor raw strings fit any member.
LEMMA PlainMembers ==
  ASSUME NEW T, NEW k
  PROVE  /\ MemberKnown(T, k, Signal) /\ MemberKnown(T, k, List)
         /\ MemberKnown(T, k, String) /\ MemberKnown(T, k, Plain)
         /\ MemberKnown(T, k, Data)
         /\ \A n \in HeldWords : MemberKnown(T, k, n)
<1>1. MemberKnown(T, k, Signal) /\ MemberKnown(T, k, List)
  BY DEF MemberKnown, Signal, List, TypeNames
<1>2. MemberKnown(T, k, String) /\ MemberKnown(T, k, Plain) /\ MemberKnown(T, k, Data)
  BY DEF MemberKnown, String, Plain, Data
<1>3. ASSUME NEW n \in HeldWords
      PROVE  MemberKnown(T, k, n)
  <2>1. n.is = "number"
    BY DEF HeldWords, Held32, Words16, Number
  <2> QED
    BY <2>1 DEF MemberKnown
<1> QED
  BY <1>1, <1>2, <1>3

\* A reference fits a member of the type that it is taken for, and an
\* unchecked one if NULL does not come or is a known handle.
LEMMA Reference ==
  ASSUME NEW T, NEW k, NEW at \in TypeNames, at = MemberType(T, k)
  PROVE  /\ MemberKnown(T, k, Inside(at))
         /\ MemberKnown(T, k, Ref(at))
         /\ <<T, k>> \in NeverNull \/ at \in NullHandles
              => MemberKnown(T, k, Unchecked(at))
<1>1. MemberKnown(T, k, Inside(at))
  BY DEF MemberKnown, Inside
<1>2. MemberKnown(T, k, Ref(at))
  BY DEF MemberKnown, Ref
<1>3. ASSUME <<T, k>> \in NeverNull \/ at \in NullHandles
      PROVE  MemberKnown(T, k, Unchecked(at))
  BY <1>3 DEF MemberKnown, Unchecked
<1> QED
  BY <1>1, <1>2, <1>3

\* What the members of wlroots refer to.
LEMMA MemberTypes ==
  /\ MemberType("wlr-scene", "tree") = "wlr-scene-tree"
  /\ MemberType("wlr-scene-output", "output") = "wlr-output"
  /\ MemberType("wlr-scene-output", "scene") = "wlr-scene"
  /\ MemberType("wlr-xdg-popup", "parent") = "wlr-surface"
  /\ MemberType("wlr-xdg-toplevel", "base") = "wlr-xdg-surface"
  /\ MemberType("wlr-xdg-toplevel-resize-event", "toplevel") = "wlr-xdg-toplevel"
  /\ MemberType("wlr-xdg-toplevel-resize-event", "seat") = "wlr-seat-client"
  /\ MemberType("wlr-xdg-toplevel-move-event", "toplevel") = "wlr-xdg-toplevel"
  /\ MemberType("wlr-xdg-toplevel-move-event", "seat") = "wlr-seat-client"
  /\ MemberType("wlr-xdg-surface", "toplevel") = "wlr-xdg-toplevel"
  /\ MemberType("wlr-xdg-surface", "popup") = "wlr-xdg-popup"
  /\ MemberType("wlr-xdg-surface", "surface") = "wlr-surface"
  /\ MemberType("wlr-surface", "renderer") = "wlr-renderer"
  /\ MemberType("wlr-surface", "current") = "wlr-surface-state"
  /\ MemberType("wlr-surface", "pending") = "wlr-surface-state"
  /\ MemberType("wlr-xcursor", "images") = "wlr-xcursor-image"
  /\ MemberType("wlr-seat", "pointer-state") = "wlr-seat-pointer-state"
  /\ MemberType("wlr-seat", "keyboard-state") = "wlr-seat-keyboard-state"
  /\ MemberType("wlr-scene-tree", "node") = "wlr-scene-node"
  /\ MemberType("wlr-scene-node", "parent") = "wlr-scene-tree"
  /\ MemberType("wlr-pointer", "base") = "wlr-input-device"
  /\ MemberType("wlr-keyboard", "base") = "wlr-input-device"
  /\ MemberType("wlr-keyboard", "modifiers") = "wlr-keyboard-modifiers"
  /\ MemberType("wlr-keyboard", "xkb-state") = "xkb-state"
  /\ MemberType("wlr-pointer-motion-event", "pointer") = "wlr-pointer"
  /\ MemberType("wlr-pointer-motion-absolute-event", "pointer") = "wlr-pointer"
  /\ MemberType("wlr-pointer-button-event", "pointer") = "wlr-pointer"
  /\ MemberType("wlr-pointer-axis-event", "pointer") = "wlr-pointer"
  /\ MemberType("wlr-seat-pointer-state", "seat") = "wlr-seat"
  /\ MemberType("wlr-seat-pointer-state", "focused-client") = "wlr-seat-client"
  /\ MemberType("wlr-seat-pointer-state", "focused-surface") = "wlr-surface"
  /\ MemberType("wlr-seat-keyboard-state", "seat") = "wlr-seat"
  /\ MemberType("wlr-seat-keyboard-state", "keyboard") = "wlr-keyboard"
  /\ MemberType("wlr-seat-keyboard-state", "focused-client") = "wlr-seat-client"
  /\ MemberType("wlr-seat-keyboard-state", "focused-surface") = "wlr-surface"
  /\ MemberType("wlr-seat-pointer-request-set-cursor-event", "seat-client") = "wlr-seat-client"
  /\ MemberType("wlr-seat-pointer-request-set-cursor-event", "surface") = "wlr-surface"
  /\ MemberType("wlr-seat-request-set-selection-event", "source") = "wlr-data-source"
  /\ MemberType("wlr-scene-surface", "buffer") = "wlr-scene-buffer"
  /\ MemberType("wlr-scene-surface", "surface") = "wlr-surface"
  /\ MemberType("wlr-xwayland", "compositor") = "wlr-compositor"
  /\ MemberType("wlr-xwayland", "seat") = "wlr-seat"
  /\ MemberType("wlr-xwayland", "wl-display") = "wl-display"
  /\ MemberType("wlr-xwayland-surface", "surface") = "wlr-surface"
  /\ MemberType("wlr-xwayland-surface", "parent") = "wlr-xwayland-surface"
  /\ MemberType("wlr-xwayland-surface-configure-event", "surface") = "wlr-xwayland-surface"
  /\ MemberType("wlr-xwayland-resize-event", "surface") = "wlr-xwayland-surface"
  /\ MemberType("wlr-xwayland-minimize-event", "surface") = "wlr-xwayland-surface"
BY DEF MemberType, Namesakes

\* A row of a table with another behind it is a row of one of the two.
LEMMA BehindRows ==
  ASSUME NEW f, NEW g, NEW k \in DOMAIN Behind(f, g)
  PROVE  \/ k \in DOMAIN f /\ Behind(f, g)[k] = f[k]
         \/ k \in DOMAIN g /\ Behind(f, g)[k] = g[k]
BY DEF Behind

\* The same, of the operator that the tables are written with.
LEMMA BothRows ==
  ASSUME NEW f, NEW g
  PROVE  f @@ g = Behind(f, g)
BY Zenon DEF @@

\* The keywords of a getter, the names of a table of types.
Names(table) == DOMAIN table

\* The keys of a table.
LEMMA TableNames ==
  /\ \A ks, row : Names(Each(ks, row)) = ks
  /\ \A k, row : Names(k :> row) = {k}
  /\ \A f, g : Names(f @@ g) = Names(f) \cup Names(g)
<1>1. ASSUME NEW ks, NEW row PROVE Names(Each(ks, row)) = ks
  BY DEF Names, Each
<1>2. ASSUME NEW k, NEW row PROVE Names(k :> row) = {k}
  BY DEF Names, :>
<1>3. ASSUME NEW f, NEW g PROVE Names(Behind(f, g)) = Names(f) \cup Names(g)
  BY DEF Names, Behind
<1>4. ASSUME NEW f, NEW g PROVE Names(f @@ g) = Names(f) \cup Names(g)
  BY <1>3, BothRows, Zenon
<1> QED
  BY <1>1, <1>2, <1>4, Zenon

\* A getter made of known members is known.
LEMMA EachKnown ==
  ASSUME NEW T, NEW ks, NEW kind, \A k \in ks : MemberKnown(T, k, kind)
  PROVE  GetterKnown(T, Each(ks, kind))
BY DEF GetterKnown, Each

LEMMA OneKnown ==
  ASSUME NEW T, NEW k, NEW kind, MemberKnown(T, k, kind)
  PROVE  GetterKnown(T, k :> kind)
BY DEF GetterKnown, :>

LEMMA BothKnown ==
  ASSUME NEW T, NEW f, NEW g, GetterKnown(T, f), GetterKnown(T, g)
  PROVE  GetterKnown(T, f @@ g)
<1>1. ASSUME NEW k \in DOMAIN Behind(f, g)
      PROVE  MemberKnown(T, k, Behind(f, g)[k])
  <2>1. CASE k \in DOMAIN f /\ Behind(f, g)[k] = f[k]
    BY <2>1 DEF GetterKnown
  <2>2. CASE k \in DOMAIN g /\ Behind(f, g)[k] = g[k]
    BY <2>2 DEF GetterKnown
  <2> QED
    BY <1>1, <2>1, <2>2, BehindRows
<1>2. GetterKnown(T, Behind(f, g))
  BY <1>1, Zenon DEF GetterKnown
<1> QED
  BY <1>2, BothRows, Zenon

\* A getter of plain members, of numbers or of signals, for any type.
LEMMA PlainKnown ==
  ASSUME NEW T, NEW ks, NEW k
  PROVE  /\ GetterKnown(T, Each(ks, Signal)) /\ GetterKnown(T, Each(ks, List))
         /\ GetterKnown(T, Each(ks, Plain)) /\ GetterKnown(T, Each(ks, String))
         /\ \A n \in HeldWords : GetterKnown(T, Each(ks, n))
         /\ GetterKnown(T, k :> Plain) /\ GetterKnown(T, k :> String)
         /\ GetterKnown(T, k :> Data)
         /\ \A n \in HeldWords : GetterKnown(T, k :> n)
BY PlainMembers, EachKnown, OneKnown


\* The members that are looked up by name, and the string that is not
\* tested for NULL.
LEMMA SpecialMembers ==
  /\ GetterKnown("wlr-pointer", "output-name" :> RawString)
  /\ GetterKnown("wlr-keyboard", "xkb-state" :> Named("xkb", "xkb-state", FALSE))
  /\ GetterKnown("wlr-xwayland", "wl-display" :> Named("wl", "wl-display", TRUE))
  /\ GetterKnown("wlr-xwayland-surface",
                 "size-hints" :> Named("xkb", "xkb-size-hints-t", TRUE))
<1>1. MemberKnown("wlr-pointer", "output-name", RawString)
  BY DEF MemberKnown, RawString
<1>2. MemberKnown("wlr-keyboard", "xkb-state", Named("xkb", "xkb-state", FALSE))
  BY MemberTypes DEF MemberKnown, Named, FoundByName, NullHandles
<1>3. MemberKnown("wlr-xwayland", "wl-display", Named("wl", "wl-display", TRUE))
  BY MemberTypes DEF MemberKnown, Named, FoundByName
<1>4. MemberKnown("wlr-xwayland-surface", "size-hints",
                  Named("xkb", "xkb-size-hints-t", TRUE))
  BY DEF MemberKnown, Named, LostByName
<1> QED
  BY <1>1, <1>2, <1>3, <1>4, OneKnown, Zenon

\* Every getter of wlr.c and xcb.c reads known members.
LEMMA GettersKnown ==
  /\ GetterKnown("box", BoxGet)
  /\ GetterKnown("wlr-backend", BackendGet)
  /\ GetterKnown("wlr-output-layout", OutputLayoutGet)
  /\ GetterKnown("wlr-scene", SceneGet)
  /\ GetterKnown("wlr-scene-output", SceneOutputGet)
  /\ GetterKnown("wlr-xdg-shell", XdgShellGet)
  /\ GetterKnown("wlr-xdg-popup", XdgPopupGet)
  /\ GetterKnown("wlr-xdg-toplevel", XdgToplevelGet)
  /\ GetterKnown("wlr-xdg-toplevel-resize-event", ToplevelResizeEventGet)
  /\ GetterKnown("wlr-xdg-toplevel-move-event", ToplevelMoveEventGet)
  /\ GetterKnown("wlr-xdg-surface", XdgSurfaceGet)
  /\ GetterKnown("wlr-surface", SurfaceGet)
  /\ GetterKnown("wlr-surface-state", SurfaceStateGet)
  /\ GetterKnown("wlr-cursor", CursorGet)
  /\ GetterKnown("wlr-xcursor-image", XcursorImageGet)
  /\ GetterKnown("wlr-xcursor", XcursorGet)
  /\ GetterKnown("wlr-seat", SeatGet)
  /\ GetterKnown("wlr-output", OutputGet)
  /\ GetterKnown("wlr-output-mode", OutputModeGet)
  /\ GetterKnown("wlr-scene-tree", SceneTreeGet)
  /\ GetterKnown("wlr-scene-node", SceneNodeGet)
  /\ GetterKnown("wlr-input-device", InputDeviceGet)
  /\ GetterKnown("wlr-pointer", PointerGet)
  /\ GetterKnown("wlr-keyboard-modifiers", KeyboardModifiersGet)
  /\ GetterKnown("wlr-keyboard-key-event", KeyboardKeyEventGet)
  /\ GetterKnown("wlr-keyboard", KeyboardGet)
  /\ GetterKnown("wlr-pointer-motion-event", PointerMotionEventGet)
  /\ GetterKnown("wlr-pointer-motion-absolute-event", PointerMotionAbsoluteEventGet)
  /\ GetterKnown("wlr-pointer-button-event", PointerButtonEventGet)
  /\ GetterKnown("wlr-pointer-axis-event", PointerAxisEventGet)
  /\ GetterKnown("wlr-seat-pointer-state", SeatPointerStateGet)
  /\ GetterKnown("wlr-seat-keyboard-state", SeatKeyboardStateGet)
  /\ GetterKnown("wlr-seat-pointer-request-set-cursor-event", SetCursorEventGet)
  /\ GetterKnown("wlr-seat-request-set-selection-event", SetSelectionEventGet)
  /\ GetterKnown("wlr-scene-surface", SceneSurfaceGet)
  /\ GetterKnown("wlr-xwayland", XwaylandGet)
  /\ GetterKnown("wlr-xwayland-surface", XwaylandSurfaceGet)
  /\ GetterKnown("wlr-xwayland-surface-configure-event", XwaylandConfigureEventGet)
  /\ GetterKnown("wlr-xwayland-resize-event", XwaylandResizeEventGet)
  /\ GetterKnown("wlr-xwayland-minimize-event", XwaylandMinimizeEventGet)
  /\ GetterKnown("wlr-layer-shell-v1", LayerShellGet)
  /\ GetterKnown("xcb-intern-atom-reply-t", InternAtomReplyGet)
  /\ GetterKnown("xcb-generic-error-t", GenericErrorGet)
  /\ GetterKnown("xcb-size-hints-t", SizeHintsGet)
  /\ \A T : GetterKnown(T, NoKeys)
<1> USE PlainKnown, Reference, MemberTypes, OneKnown, BothKnown
       DEF HeldWords, Held32, Words16, TypeNames, NullHandles, NeverNull
<1>1. GetterKnown("box", BoxGet)
  BY DEF BoxGet, Coordinates
<1>2. GetterKnown("wlr-backend", BackendGet)
  BY DEF BackendGet
<1>3. GetterKnown("wlr-output-layout", OutputLayoutGet)
  BY DEF OutputLayoutGet
<1>4. GetterKnown("wlr-scene", SceneGet)
  BY DEF SceneGet
<1>5. GetterKnown("wlr-scene-output", SceneOutputGet)
  BY DEF SceneOutputGet
<1>6. GetterKnown("wlr-xdg-shell", XdgShellGet)
  BY DEF XdgShellGet
<1>7. GetterKnown("wlr-xdg-popup", XdgPopupGet)
  BY DEF XdgPopupGet
<1>8. GetterKnown("wlr-xdg-toplevel", XdgToplevelGet)
  BY DEF XdgToplevelGet
<1>9. GetterKnown("wlr-xdg-toplevel-resize-event", ToplevelResizeEventGet)
  BY DEF ToplevelResizeEventGet
<1>10. GetterKnown("wlr-xdg-toplevel-move-event", ToplevelMoveEventGet)
  BY DEF ToplevelMoveEventGet
<1>11. GetterKnown("wlr-xdg-surface", XdgSurfaceGet)
  BY DEF XdgSurfaceGet
<1>12. GetterKnown("wlr-surface", SurfaceGet)
  BY DEF SurfaceGet
<1>13. GetterKnown("wlr-surface-state", SurfaceStateGet)
  BY DEF SurfaceStateGet
<1>14. GetterKnown("wlr-cursor", CursorGet)
  BY DEF CursorGet
<1>15. GetterKnown("wlr-xcursor-image", XcursorImageGet)
  BY DEF XcursorImageGet
<1>16. GetterKnown("wlr-xcursor", XcursorGet)
  BY DEF XcursorGet
<1>17. GetterKnown("wlr-seat", SeatGet)
  BY DEF SeatGet
<1>18. GetterKnown("wlr-output", OutputGet)
  BY DEF OutputGet
<1>19. GetterKnown("wlr-output-mode", OutputModeGet)
  BY DEF OutputModeGet
<1>20. GetterKnown("wlr-scene-tree", SceneTreeGet)
  BY DEF SceneTreeGet
<1>21. GetterKnown("wlr-scene-node", SceneNodeGet)
  BY DEF SceneNodeGet
<1>22. GetterKnown("wlr-input-device", InputDeviceGet)
  BY DEF InputDeviceGet
<1>23. GetterKnown("wlr-pointer", PointerGet)
  <2>1. GetterKnown("wlr-pointer",
                   Each(PointerSignals, Signal))
    OBVIOUS
  <2>2. GetterKnown("wlr-pointer",
                   "base" :> Inside("wlr-input-device"))
    OBVIOUS
  <2>3. GetterKnown("wlr-pointer",
                   "output-name" :> RawString)
    BY SpecialMembers, Zenon
  <2>4. GetterKnown("wlr-pointer",
                   "data" :> Data)
    OBVIOUS
  <2> QED
    BY <2>1, <2>2, <2>3, <2>4,
       BothKnown, Zenon DEF PointerGet
<1>24. GetterKnown("wlr-keyboard-modifiers", KeyboardModifiersGet)
  BY DEF KeyboardModifiersGet
<1>25. GetterKnown("wlr-keyboard-key-event", KeyboardKeyEventGet)
  BY DEF KeyboardKeyEventGet
<1>26. GetterKnown("wlr-keyboard", KeyboardGet)
  <2>1. GetterKnown("wlr-keyboard",
                   Each(KeyboardSignals, Signal))
    OBVIOUS
  <2>2. GetterKnown("wlr-keyboard",
                   "base" :> Inside("wlr-input-device"))
    OBVIOUS
  <2>3. GetterKnown("wlr-keyboard",
                   "keymap-string" :> Plain)
    OBVIOUS
  <2>4. GetterKnown("wlr-keyboard",
                   "xkb-state" :> Named("xkb", "xkb-state", FALSE))
    BY SpecialMembers, Zenon
  <2>5. GetterKnown("wlr-keyboard",
                   "keycodes" :> Number("u64", "keycode"))
    OBVIOUS
  <2>6. GetterKnown("wlr-keyboard",
                   "modifiers" :> Inside("wlr-keyboard-modifiers"))
    OBVIOUS
  <2>7. GetterKnown("wlr-keyboard",
                   "data" :> Data)
    OBVIOUS
  <2> QED
    BY <2>1, <2>2, <2>3, <2>4, <2>5, <2>6, <2>7,
       BothKnown, Zenon DEF KeyboardGet
<1>27. GetterKnown("wlr-pointer-motion-event", PointerMotionEventGet)
  BY DEF PointerMotionEventGet
<1>28. GetterKnown("wlr-pointer-motion-absolute-event", PointerMotionAbsoluteEventGet)
  BY DEF PointerMotionAbsoluteEventGet
<1>29. GetterKnown("wlr-pointer-button-event", PointerButtonEventGet)
  BY DEF PointerButtonEventGet
<1>30. GetterKnown("wlr-pointer-axis-event", PointerAxisEventGet)
  BY DEF PointerAxisEventGet
<1>31. GetterKnown("wlr-seat-pointer-state", SeatPointerStateGet)
  BY DEF SeatPointerStateGet
<1>32. GetterKnown("wlr-seat-keyboard-state", SeatKeyboardStateGet)
  BY DEF SeatKeyboardStateGet
<1>33. GetterKnown("wlr-seat-pointer-request-set-cursor-event", SetCursorEventGet)
  BY DEF SetCursorEventGet
<1>34. GetterKnown("wlr-seat-request-set-selection-event", SetSelectionEventGet)
  BY DEF SetSelectionEventGet
<1>35. GetterKnown("wlr-scene-surface", SceneSurfaceGet)
  BY DEF SceneSurfaceGet
<1>36. GetterKnown("wlr-xwayland", XwaylandGet)
  <2>1. GetterKnown("wlr-xwayland",
                   Each(XwaylandSignals, Signal))
    OBVIOUS
  <2>2. GetterKnown("wlr-xwayland",
                   "display-name" :> String)
    OBVIOUS
  <2>3. GetterKnown("wlr-xwayland",
                   "wl-display" :> Named("wl", "wl-display", TRUE))
    BY SpecialMembers, Zenon
  <2>4. GetterKnown("wlr-xwayland",
                   "compositor" :> Ref("wlr-compositor"))
    OBVIOUS
  <2>5. GetterKnown("wlr-xwayland",
                   "seat" :> Ref("wlr-seat"))
    OBVIOUS
  <2>6. GetterKnown("wlr-xwayland",
                   "data" :> Data)
    OBVIOUS
  <2> QED
    BY <2>1, <2>2, <2>3, <2>4, <2>5, <2>6,
       BothKnown, Zenon DEF XwaylandGet
<1>37. GetterKnown("wlr-xwayland-surface", XwaylandSurfaceGet)
  <2>1. GetterKnown("wlr-xwayland-surface",
                   Each(XwaylandSurfaceSignals, Signal))
    OBVIOUS
  <2>2. GetterKnown("wlr-xwayland-surface",
                   "surface" :> Ref("wlr-surface"))
    OBVIOUS
  <2>3. GetterKnown("wlr-xwayland-surface",
                   Each({"x", "y"}, Number("int16", "x11-position")))
    OBVIOUS
  <2>4. GetterKnown("wlr-xwayland-surface",
                   Each({"width", "height"}, Number("word16", "x11-size")))
    OBVIOUS
  <2>5. GetterKnown("wlr-xwayland-surface",
                   Each({"title", "class", "instance", "role", "startup-id"},
                        String))
    OBVIOUS
  <2>6. GetterKnown("wlr-xwayland-surface",
                   "parent" :> Ref("wlr-xwayland-surface"))
    OBVIOUS
  <2>7. GetterKnown("wlr-xwayland-surface",
                   "size-hints" :> Named("xkb", "xkb-size-hints-t", TRUE))
    BY SpecialMembers, Zenon
  <2>8. GetterKnown("wlr-xwayland-surface",
                   Each({"override-redirect", "mapped", "pid", "window-type", "window-type-len", "protocols", "protocols-len", "modal", "fullscreen", "maximized-vert", "maximized-horz", "minimized", "has-alpha"},
                        Plain))
    OBVIOUS
  <2>9. GetterKnown("wlr-xwayland-surface",
                   "data" :> Data)
    OBVIOUS
  <2> QED
    BY <2>1, <2>2, <2>3, <2>4, <2>5, <2>6, <2>7, <2>8, <2>9,
       BothKnown, Zenon DEF XwaylandSurfaceGet
<1>38. GetterKnown("wlr-xwayland-surface-configure-event", XwaylandConfigureEventGet)
  BY DEF XwaylandConfigureEventGet
<1>39. GetterKnown("wlr-xwayland-resize-event", XwaylandResizeEventGet)
  BY DEF XwaylandResizeEventGet
<1>40. GetterKnown("wlr-xwayland-minimize-event", XwaylandMinimizeEventGet)
  BY DEF XwaylandMinimizeEventGet
<1>41. GetterKnown("wlr-layer-shell-v1", LayerShellGet)
  BY DEF LayerShellGet
<1>42. GetterKnown("xcb-intern-atom-reply-t", InternAtomReplyGet)
  BY DEF InternAtomReplyGet
<1>43. GetterKnown("xcb-generic-error-t", GenericErrorGet)
  BY DEF GenericErrorGet
<1>44. GetterKnown("xcb-size-hints-t", SizeHintsGet)
  BY DEF SizeHintsGet
<1>45. \A T : GetterKnown(T, NoKeys)
  BY DEF NoKeys, GetterKnown
<1> QED
  BY <1>1, <1>2, <1>3, <1>4, <1>5, <1>6, <1>7, <1>8, <1>9, <1>10, <1>11,
     <1>12, <1>13, <1>14, <1>15, <1>16, <1>17, <1>18, <1>19, <1>20, <1>21,
     <1>22, <1>23, <1>24, <1>25, <1>26, <1>27, <1>28, <1>29, <1>30, <1>31,
     <1>32, <1>33, <1>34, <1>35, <1>36, <1>37, <1>38, <1>39, <1>40, <1>41,
     <1>42, <1>43, <1>44, <1>45

\* A table of types with known getters.
LEMMA ShapesKnown ==
  /\ \A at : TypeKnown(at, Opaque) /\ TypeKnown(at, Held(NoKeys, NoKeys))
  /\ \A at, get, put : GetterKnown(at, get) /\ at # "wlr-data-source" =>
       /\ TypeKnown(at, Readable(get))
       /\ TypeKnown(at, Settable(get, put))
       /\ TypeKnown(at, Held(get, put))
<1>1. \A get, put : /\ Settable(get, put).get = get /\ Held(get, put).get = get
                    /\ Settable(get, put).put = put /\ Held(get, put).put = put
  BY DEF Settable, Held
<1>2. \A get : Readable(get).get = get /\ Readable(get).put = NoKeys
  BY <1>1 DEF Readable
<1>3. Opaque.get = NoKeys /\ Opaque.put = NoKeys
  BY <1>2 DEF Opaque
<1>4. DOMAIN NoKeys = {}
  BY DEF NoKeys
<1>5. \A at : TypeKnown(at, Opaque)
  BY <1>3, <1>4, GettersKnown, Zenon DEF TypeKnown
<1>6. \A at : TypeKnown(at, Held(NoKeys, NoKeys))
  <2>1. Held(NoKeys, NoKeys).get = NoKeys /\ Held(NoKeys, NoKeys).put = NoKeys
    BY <1>1
  <2> QED
    BY <2>1, <1>4, GettersKnown, Zenon DEF TypeKnown
<1>7. ASSUME NEW at, NEW get, NEW put, GetterKnown(at, get), at # "wlr-data-source"
      PROVE  /\ TypeKnown(at, Readable(get))
             /\ TypeKnown(at, Settable(get, put))
             /\ TypeKnown(at, Held(get, put))
  BY <1>1, <1>2, <1>7, Zenon DEF TypeKnown
<1> QED
  BY <1>5, <1>6, <1>7, Zenon

LEMMA EachTypeKnown ==
  ASSUME NEW ks, NEW type, \A k \in ks : TypeKnown(k, type)
  PROVE  TypesKnown(Each(ks, type))
BY DEF TypesKnown, Each

LEMMA OneTypeKnown ==
  ASSUME NEW k, NEW type, TypeKnown(k, type)
  PROVE  TypesKnown(k :> type)
BY DEF TypesKnown, :>

LEMMA BothTypesKnown ==
  ASSUME NEW f, NEW g, TypesKnown(f), TypesKnown(g)
  PROVE  TypesKnown(f @@ g)
<1>1. ASSUME NEW k \in DOMAIN Behind(f, g)
      PROVE  TypeKnown(k, Behind(f, g)[k])
  <2>1. CASE k \in DOMAIN f /\ Behind(f, g)[k] = f[k]
    BY <2>1 DEF TypesKnown
  <2>2. CASE k \in DOMAIN g /\ Behind(f, g)[k] = g[k]
    BY <2>2 DEF TypesKnown
  <2> QED
    BY <1>1, <2>1, <2>2, BehindRows
<1>2. TypesKnown(Behind(f, g))
  BY <1>1, Zenon DEF TypesKnown
<1> QED
  BY <1>2, BothRows, Zenon

\* Every type of the native modules has a known getter.
LEMMA TypesAreKnown == TypesKnown(Types)
<1> USE ShapesKnown, GettersKnown, EachTypeKnown, OneTypeKnown, BothTypesKnown
<1>1. TypesKnown(ServerTypes)
  BY DEF ServerTypes
<1>2. TypesKnown(LayoutTypes)
  BY DEF LayoutTypes
<1>3. TypesKnown(SurfaceTypes)
  BY DEF SurfaceTypes
<1>4. TypesKnown(CursorTypes)
  BY DEF CursorTypes
<1>5. TypesKnown(SeatTypes)
  BY DEF SeatTypes
<1>6. TypesKnown(OutputTypes)
  BY DEF OutputTypes
<1>7. TypesKnown(SceneTypes)
  BY DEF SceneTypes
<1>8. TypesKnown(InputTypes)
  BY DEF InputTypes
<1>9. TypesKnown(SeatStateTypes)
  BY DEF SeatStateTypes
<1>10. TypesKnown(KeyboardTypes)
  BY DEF KeyboardTypes
<1>11. TypesKnown(XwaylandTypes)
  BY DEF XwaylandTypes
<1>12. TypesKnown(WlTypes)
  BY DEF WlTypes
<1>13. TypesKnown(XkbTypes)
  BY DEF XkbTypes
<1>14. TypesKnown(XcbTypes)
  BY DEF XcbTypes
<1>15. TypesKnown(UtilTypes)
  BY DEF UtilTypes
<1> QED
  BY <1>1, <1>2, <1>3, <1>4, <1>5, <1>6, <1>7, <1>8, <1>9, <1>10, <1>11,
     <1>12, <1>13, <1>14, <1>15 DEF Types, WlrTypes

\* The names of the types.
LEMMA GroupNames ==
  /\ Names(ServerTypes) =
       {"box", "wlr-backend", "wlr-renderer", "wlr-allocator", "wlr-compositor",
        "wlr-subcompositor", "wlr-data-device-manager"}
  /\ Names(LayoutTypes) =
       {"wlr-output-layout", "wlr-output-layout-output", "wlr-scene",
        "wlr-scene-output", "wlr-xdg-shell"}
  /\ Names(SurfaceTypes) =
       {"wlr-surface", "wlr-surface-state", "wlr-xdg-popup", "wlr-xdg-toplevel",
        "wlr-xdg-toplevel-resize-event", "wlr-xdg-toplevel-move-event",
        "wlr-xdg-surface"}
  /\ Names(CursorTypes) =
       {"wlr-cursor", "wlr-xcursor-manager", "wlr-xcursor-image", "wlr-xcursor"}
  /\ Names(SeatTypes) =
       {"wlr-seat", "wlr-seat-client"}
  /\ Names(OutputTypes) =
       {"wlr-output", "wlr-output-mode", "wlr-output-cursor"}
  /\ Names(SceneTypes) =
       {"wlr-scene-tree", "wlr-scene-node", "wlr-scene-buffer", "wlr-scene-surface"}
  /\ Names(InputTypes) =
       {"wlr-input-device", "wlr-pointer", "wlr-pointer-motion-event",
        "wlr-pointer-motion-absolute-event", "wlr-pointer-button-event",
        "wlr-pointer-axis-event"}
  /\ Names(SeatStateTypes) =
       {"wlr-seat-pointer-state", "wlr-seat-keyboard-state",
        "wlr-seat-pointer-request-set-cursor-event",
        "wlr-seat-request-set-selection-event", "wlr-data-source"}
  /\ Names(KeyboardTypes) =
       {"wlr-keyboard-modifiers", "wlr-keyboard-key-event", "wlr-keyboard"}
  /\ Names(XwaylandTypes) =
       {"wlr-xwayland", "wlr-xwayland-surface", "wlr-xwayland-resize-event",
        "wlr-xwayland-minimize-event", "wlr-xwayland-surface-configure-event",
        "wlr-layer-shell-v1"}
  /\ Names(WlTypes) =
       {"wl-event-loop", "wl-list", "wl-signal", "wl-display", "event-source",
        "listener"}
  /\ Names(XkbTypes) =
       {"xkb-context", "xkb-keymap", "xkb-state", "xkb-rule-names"}
  /\ Names(XcbTypes) =
       {"xcb-connection-t", "intern-atom-cookie-t", "xcb-intern-atom-reply-t",
        "xcb-generic-error-t", "xcb-size-hints-t"}
  /\ Names(UtilTypes) =
       {"timespec"}
  /\ Names(WlrTypes) =
       Names(ServerTypes) \cup Names(LayoutTypes) \cup Names(SurfaceTypes)
         \cup Names(CursorTypes) \cup Names(SeatTypes) \cup Names(OutputTypes)
         \cup Names(SceneTypes) \cup Names(InputTypes) \cup Names(SeatStateTypes)
         \cup Names(KeyboardTypes) \cup Names(XwaylandTypes)
<1> USE TableNames
<1>1. Names(ServerTypes) =
       {"box", "wlr-backend", "wlr-renderer", "wlr-allocator", "wlr-compositor",
        "wlr-subcompositor", "wlr-data-device-manager"}
  BY DEF ServerTypes
<1>2. Names(LayoutTypes) =
       {"wlr-output-layout", "wlr-output-layout-output", "wlr-scene",
        "wlr-scene-output", "wlr-xdg-shell"}
  BY DEF LayoutTypes
<1>3. Names(SurfaceTypes) =
       {"wlr-surface", "wlr-surface-state", "wlr-xdg-popup", "wlr-xdg-toplevel",
        "wlr-xdg-toplevel-resize-event", "wlr-xdg-toplevel-move-event",
        "wlr-xdg-surface"}
  BY DEF SurfaceTypes
<1>4. Names(CursorTypes) =
       {"wlr-cursor", "wlr-xcursor-manager", "wlr-xcursor-image", "wlr-xcursor"}
  BY DEF CursorTypes
<1>5. Names(SeatTypes) =
       {"wlr-seat", "wlr-seat-client"}
  BY DEF SeatTypes
<1>6. Names(OutputTypes) =
       {"wlr-output", "wlr-output-mode", "wlr-output-cursor"}
  BY DEF OutputTypes
<1>7. Names(SceneTypes) =
       {"wlr-scene-tree", "wlr-scene-node", "wlr-scene-buffer", "wlr-scene-surface"}
  BY DEF SceneTypes
<1>8. Names(InputTypes) =
       {"wlr-input-device", "wlr-pointer", "wlr-pointer-motion-event",
        "wlr-pointer-motion-absolute-event", "wlr-pointer-button-event",
        "wlr-pointer-axis-event"}
  BY DEF InputTypes
<1>9. Names(SeatStateTypes) =
       {"wlr-seat-pointer-state", "wlr-seat-keyboard-state",
        "wlr-seat-pointer-request-set-cursor-event",
        "wlr-seat-request-set-selection-event", "wlr-data-source"}
  BY DEF SeatStateTypes
<1>10. Names(KeyboardTypes) =
       {"wlr-keyboard-modifiers", "wlr-keyboard-key-event", "wlr-keyboard"}
  BY DEF KeyboardTypes
<1>11. Names(XwaylandTypes) =
       {"wlr-xwayland", "wlr-xwayland-surface", "wlr-xwayland-resize-event",
        "wlr-xwayland-minimize-event", "wlr-xwayland-surface-configure-event",
        "wlr-layer-shell-v1"}
  BY DEF XwaylandTypes
<1>12. Names(WlTypes) =
       {"wl-event-loop", "wl-list", "wl-signal", "wl-display", "event-source",
        "listener"}
  BY DEF WlTypes
<1>13. Names(XkbTypes) =
       {"xkb-context", "xkb-keymap", "xkb-state", "xkb-rule-names"}
  BY DEF XkbTypes
<1>14. Names(XcbTypes) =
       {"xcb-connection-t", "intern-atom-cookie-t", "xcb-intern-atom-reply-t",
        "xcb-generic-error-t", "xcb-size-hints-t"}
  BY DEF XcbTypes
<1>15. Names(UtilTypes) =
       {"timespec"}
  BY DEF UtilTypes
<1>16. Names(WlrTypes) =
         Names(ServerTypes) \cup Names(LayoutTypes) \cup Names(SurfaceTypes)
           \cup Names(CursorTypes) \cup Names(SeatTypes) \cup Names(OutputTypes)
           \cup Names(SceneTypes) \cup Names(InputTypes) \cup Names(SeatStateTypes)
           \cup Names(KeyboardTypes) \cup Names(XwaylandTypes)
  BY DEF WlrTypes
<1> QED
  BY <1>1, <1>2, <1>3, <1>4, <1>5, <1>6, <1>7, <1>8, <1>9, <1>10, <1>11,
     <1>12, <1>13, <1>14, <1>15, <1>16

LEMMA ModuleNames ==
  Names(Types) = Names(WlrTypes) \cup Names(WlTypes) \cup Names(XkbTypes)
                   \cup Names(XcbTypes) \cup Names(UtilTypes)
BY TableNames DEF Types

LEMMA NamesOfTypes == TypeNames = DOMAIN Types
BY GroupNames, ModuleNames DEF TypeNames, Names

----------------------------------------------------------------------------
\* What the calls give and take.

GivesKnown(gives) == gives.types \subseteq TypeNames /\ gives.words \subseteq Held32

LEMMA GivesShapes ==
  /\ GivesKnown(Nothing) /\ GivesKnown(GivesSerial)
  /\ \A at \in TypeNames :
       GivesKnown(Creates(at)) /\ GivesKnown(Finds(at)) /\ GivesKnown(Makes(at))
  /\ \A null, types : types \subseteq TypeNames => GivesKnown(Gives(types, null, {}))
  /\ GivesKnown(Gives({}, "nil", {Layout}))
<1>1. \A types, null, words :
        Gives(types, null, words).types = types /\ Gives(types, null, words).words = words
  BY DEF Gives
<1>2. \A types, null, words : types \subseteq TypeNames /\ words \subseteq Held32
                                => GivesKnown(Gives(types, null, words))
  BY <1>1 DEF GivesKnown
<1>3. Layout \in Held32 /\ Serial \in Held32
  BY DEF Layout, Serial, Held32
<1> QED
  BY <1>2, <1>3 DEF Nothing, GivesSerial, Creates, Finds, Makes

LEMMA CallShapes ==
  \A module, name, takes, words, gives :
    GivesKnown(gives) /\ words \subseteq Taken32
      /\ ("wlr-data-source" \in takes => name = "wlr-seat-set-selection") =>
      CallKnown(Call(module, name, takes, words, gives))
<1>1. \A module, name, takes, words, gives :
        /\ Call(module, name, takes, words, gives).name = name
        /\ Call(module, name, takes, words, gives).takes = takes
        /\ Call(module, name, takes, words, gives).words = words
        /\ Call(module, name, takes, words, gives).gives = gives
  BY DEF Call
<1> QED
  BY <1>1 DEF CallKnown, GivesKnown

LEMMA ConfigureKnown ==
  ASSUME NEW module, NEW takes, "wlr-data-source" \notin takes
  PROVE  CallKnown(Call(module, "wlr-xwayland-surface-configure", takes, Words16,
                        Nothing))
<1> DEFINE c == Call(module, "wlr-xwayland-surface-configure", takes, Words16, Nothing)
<1>1. /\ c.name = "wlr-xwayland-surface-configure"
      /\ c.takes = takes
      /\ c.words = Words16
      /\ c.gives = Nothing
  BY DEF Call
<1> QED
  BY <1>1, GivesShapes DEF CallKnown, GivesKnown

\* Every function of the native modules.
LEMMA CallsAreKnown == CallsKnown(Calls)
<1> USE GivesShapes, CallShapes
       DEF CallsKnown, Wlr, Layout, Time, Serial, Taken32, TypeNames
<1>1. CallsKnown(BoxCall)
  BY DEF BoxCall
<1>2. CallsKnown(RuleNamesCall)
  BY DEF RuleNamesCall
<1>3. CallsKnown(ClockCall)
  BY DEF ClockCall
<1>4. CallsKnown(StartCalls)
  BY DEF StartCalls
<1>5. CallsKnown(LayoutCalls)
  BY DEF LayoutCalls
<1>6. CallsKnown(LayoutPointCalls)
  BY DEF LayoutPointCalls
<1>7. CallsKnown(LayoutNeighbourCalls)
  BY DEF LayoutNeighbourCalls
<1>8. CallsKnown(SceneCalls)
  BY DEF SceneCalls
<1>9. CallsKnown(XdgShellCall)
  BY DEF XdgShellCall
<1>10. CallsKnown(CursorCalls)
  BY DEF CursorCalls
<1>11. CallsKnown(XcursorCalls)
  BY DEF XcursorCalls
<1>12. CallsKnown(KeyboardCalls)
  BY DEF KeyboardCalls
<1>13. CallsKnown(SeatKeyboardCalls)
  BY DEF SeatKeyboardCalls
<1>14. CallsKnown(SeatPointerCalls)
  BY DEF SeatPointerCalls
<1>15. CallsKnown(SeatCalls)
  BY DEF SeatCalls
<1>16. CallsKnown(OutputCalls)
  BY DEF OutputCalls
<1>17. CallsKnown(SurfaceCalls)
  BY DEF SurfaceCalls
<1>18. CallsKnown(XdgCalls)
  BY DEF XdgCalls
<1>19. CallsKnown(SceneTreeCalls)
  BY DEF SceneTreeCalls
<1>20. CallsKnown(SceneNodeCalls)
  BY DEF SceneNodeCalls
<1>21. CallsKnown(SceneOutputCalls)
  BY DEF SceneOutputCalls
<1>22. CallsKnown(SceneSurfaceCall)
  BY DEF SceneSurfaceCall
<1>23. CallsKnown(XwaylandCalls)
  BY DEF XwaylandCalls
<1>24. CallsKnown(XwaylandSurfaceCalls)
  BY ConfigureKnown DEF XwaylandSurfaceCalls, Words16
<1>25. CallsKnown(LayerShellCall)
  BY DEF LayerShellCall
<1>26. CallsKnown(DisplayCalls)
  BY DEF DisplayCalls
<1>27. CallsKnown(ListCalls)
  BY DEF ListCalls
<1>28. CallsKnown(SignalCalls)
  BY DEF SignalCalls
<1>29. CallsKnown(ContextCalls)
  BY DEF ContextCalls
<1>30. CallsKnown(KeymapCalls)
  BY DEF KeymapCalls
<1>31. CallsKnown(SymbolsCall)
  BY DEF SymbolsCall
<1>32. CallsKnown(ConnectionCalls)
  BY DEF ConnectionCalls
<1>33. CallsKnown(AtomCalls)
  BY DEF AtomCalls
<1> QED
  BY <1>1, <1>2, <1>3, <1>4, <1>5, <1>6, <1>7, <1>8, <1>9, <1>10, <1>11,
     <1>12, <1>13, <1>14, <1>15, <1>16, <1>17, <1>18, <1>19, <1>20, <1>21,
     <1>22, <1>23, <1>24, <1>25, <1>26, <1>27, <1>28, <1>29, <1>30, <1>31,
     <1>32, <1>33 DEF Calls

----------------------------------------------------------------------------
\* From one integer of C to another, by way of Janet.

\* A program passes an integer on to a call that takes it in the conversion
\* in which it was read; but the hotspot of a cursor's image is unsigned
\* where it is read and signed where it is taken.
LEMMA SameConversion ==
  ASSUME NEW n \in HeldWords, NEW m \in Taken32, SameQuantity(n.q, m.q)
  PROVE  /\ n.conv \in {"int", "serial", "u64"}
         /\ m.conv = n.conv \/ (n.conv = "serial" /\ m.conv = "int")
BY DEF HeldWords, Held32, Words16, Taken32, Number, SameQuantity

\* The positions and sizes of X11 windows come from their own kind or from
\* the coordinates of the layout.
LEMMA NarrowConversion ==
  ASSUME NEW n \in HeldWords, NEW m \in Words16, SameQuantity(n.q, m.q)
  PROVE  /\ n.conv \in {"int", "int16", "word16"}
         /\ m.conv \in {"int16", "word16"}
BY DEF HeldWords, Held32, Words16, Number, SameQuantity

\* What calls take in 32 bits reaches C as the 32 bits that were read.
LEMMA WideKept ==
  ASSUME NEW n \in HeldWords, NEW m \in Taken32, SameQuantity(n.q, m.q),
         NEW c \in Values[n.conv]
  PROVE  (ToC(m.conv, ToJanet(n.conv, c)) - c) % (2 * Half32) = 0
<1> DEFINE w == 2 * Half32
<1>1. w \in Nat \ {0}
  BY HalvesAssumption
<1>2. 0 % w = 0 /\ (-w) % w = 0
  BY <1>1, SmallRemainder, NegativeRemainder
<1>3. /\ n.conv = "int" => c \in Int32
      /\ n.conv \in {"serial", "u64"} => c \in Word32
  BY DEF Values
<1>4. c \in Int
  BY <1>3, SameConversion, HalvesAssumption DEF Int32, Word32
<1>5. SUFFICES ToC(m.conv, ToJanet(n.conv, c)) \in {c, c - w}
  <2>1. c - c = 0 /\ (c - w) - c = -w
    BY <1>1, <1>4
  <2> QED
    BY <1>2, <1>5, <2>1
<1>6. CASE n.conv = "int" /\ m.conv = "int"
  BY <1>6 DEF ToC, ToJanet
<1>7. CASE n.conv = "serial" /\ m.conv = "serial"
  BY <1>3, <1>7, SerialRoundTrip
<1>8. CASE n.conv = "u64" /\ m.conv = "u64"
  BY <1>3, <1>8, WideRoundTrip
<1>9. CASE n.conv = "serial" /\ m.conv = "int"
  <2>1. ToC(m.conv, ToJanet(n.conv, c)) = AsInt32(c)
    BY <1>9 DEF ToC, ToJanet
  <2>2. c \in Word32
    BY <1>3, <1>9
  <2>3. c < Half32 \/ c >= Half32
    BY <1>4, HalvesAssumption
  <2> QED
    BY <2>1, <2>2, <2>3, SignedSerial
<1> QED
  BY <1>6, <1>7, <1>8, <1>9, SameConversion

\* What calls take in 16 bits reaches C as it was read if it has 15 bits and
\* no sign.
LEMMA NarrowKept ==
  ASSUME NEW n \in HeldWords, NEW m \in Words16, SameQuantity(n.q, m.q),
         NEW c \in 0 .. Half16 - 1
  PROVE  (ToC(m.conv, ToJanet(n.conv, c)) - c) % (2 * Half32) = 0
<1>1. ToJanet(n.conv, c) = c
  BY NarrowConversion DEF ToJanet
<1>2. c \in Int32 /\ c \in Int16 /\ c \in Word16 /\ c \in Int
  BY HalvesAssumption DEF Int32, Int16, Word16
<1>3. ToC("int16", c) = c /\ ToC("word16", c) = c
  BY <1>2, PositionNarrowed, SizeNarrowed
<1>4. ToC(m.conv, c) = c
  BY <1>3, NarrowConversion
<1>5. 2 * Half32 \in Nat \ {0}
  BY HalvesAssumption
<1> QED
  BY <1>1, <1>2, <1>4, <1>5, SmallRemainder

----------------------------------------------------------------------------
\* The modules of the types.

Unregistered ==
  {"wlr-seat-client", "wlr-xcursor-image", "wlr-xcursor", "wlr-layer-shell-v1"}

\* A type that a module has registered is one of the types.
LEMMA RegisteredTypes ==
  ASSUME loaded \subseteq Modules, NEW prefix, NEW at, Known(prefix, at)
  PROVE  at \in DOMAIN Types
<1>1. \A m \in Modules : Registers[m] \subseteq
        Names(WlTypes) \cup Names(WlrTypes) \cup Names(XkbTypes)
          \cup Names(XcbTypes) \cup Names(UtilTypes)
  BY DEF Modules, Registers, RegisteredByWlr, Names
<1>2. at \in Names(Types)
  BY <1>1, ModuleNames DEF Known
<1> QED
  BY <1>2 DEF Names

\* Every type but four is registered by the module that its name tells.
LEMMA HomeRegisters ==
  ASSUME NEW at \in DOMAIN Types, at \notin Unregistered
  PROVE  at \in Registers[HomeOf(at)]
<1>1. at \in Names(WlrTypes) \cup Names(WlTypes) \cup Names(XkbTypes)
               \cup Names(XcbTypes) \cup Names(UtilTypes)
  BY ModuleNames DEF Names
<1>2. CASE at \in Names(WlrTypes)
  <2>1. HomeOf(at) = "wlr"
    BY <1>2 DEF HomeOf, Names
  <2>2. Registers["wlr"] = RegisteredByWlr
    BY DEF Registers
  <2> QED
    BY <1>2, <2>1, <2>2 DEF RegisteredByWlr, Unregistered, Names
<1>3. CASE at \notin Names(WlrTypes)
  <2>1. \E m \in Modules \ {"wlr"} : at \in Registers[m]
    BY <1>1, <1>3 DEF Modules, Registers, Names
  <2>2. HomeOf(at) = CHOOSE m \in Modules \ {"wlr"} : at \in Registers[m]
    BY <1>3 DEF HomeOf, Names
  <2> QED
    BY <2>1, <2>2
<1> QED
  BY <1>2, <1>3

\* The types that are looked up when a member is read.
LEMMA MemberHomes ==
  /\ \A at \in {"wl-list", "wl-signal", "wl-display"} :
       at \in Registers["wl"] /\ HomeOf(at) = "wl"
  /\ "xkb-state" \in Registers["xkb"] /\ HomeOf("xkb-state") = "xkb"
  /\ "xkb-size-hints-t" \notin Registers["xkb"]
<1>1. /\ Registers["wl"] = Names(WlTypes) /\ Registers["xkb"] = Names(XkbTypes)
      /\ Registers["xcb"] = Names(XcbTypes) /\ Registers["util"] = Names(UtilTypes)
      /\ Modules = {"wl", "wlr", "xkb", "xcb", "util"}
  BY DEF Registers, Modules, Names
<1>2. \A at \in {"wl-list", "wl-signal", "wl-display"} :
        at \in Registers["wl"]
          /\ \A m \in Modules \ {"wlr"} : at \in Registers[m] => m = "wl"
  BY <1>1, GroupNames
<1>3. "xkb-state" \in Registers["xkb"]
        /\ \A m \in Modules \ {"wlr"} : "xkb-state" \in Registers[m] => m = "xkb"
  BY <1>1, GroupNames
<1>4. {"wl-list", "wl-signal", "wl-display", "xkb-state"} \cap DOMAIN WlrTypes = {}
  BY GroupNames DEF Names
<1>5. "xkb-size-hints-t" \notin Registers["xkb"]
  BY <1>1, GroupNames
<1> QED
  BY <1>1, <1>2, <1>3, <1>4, <1>5 DEF HomeOf

\* What tinyjl listens to is sent with the type that its handler asks for.
Asked(table) ==
  \A e \in DOMAIN table : /\ e = <<e[1], e[2]>>
                          /\ table[e] = Asks(e[1], e[2])
                          /\ table[e] \in TypeNames

LEMMA OneAsked ==
  ASSUME NEW on, NEW signal, NEW at \in TypeNames, Asks(on, signal) = at
  PROVE  Asked(<<on, signal>> :> at)
BY DEF Asked, :>

LEMMA BothAsked ==
  ASSUME NEW f, NEW g, Asked(f), Asked(g)
  PROVE  Asked(f @@ g)
<1>1. ASSUME NEW e \in DOMAIN Behind(f, g)
      PROVE  /\ e = <<e[1], e[2]>>
             /\ Behind(f, g)[e] = Asks(e[1], e[2])
             /\ Behind(f, g)[e] \in TypeNames
  <2>1. CASE e \in DOMAIN f /\ Behind(f, g)[e] = f[e]
    BY <2>1 DEF Asked
  <2>2. CASE e \in DOMAIN g /\ Behind(f, g)[e] = g[e]
    BY <2>2 DEF Asked
  <2> QED
    BY <1>1, <2>1, <2>2, BehindRows
<1>2. Asked(Behind(f, g))
  BY <1>1, Zenon DEF Asked
<1> QED
  BY <1>2, BothRows, Zenon

LEMMA SendsAsked == Asked(Sends)
<1> USE OneAsked, BothAsked DEF TypeNames, Asks
<1>1. Asked(<<"wlr-keyboard", "events.key">> :> "wlr-keyboard-key-event")
  OBVIOUS
<1>2. Asked(<<"wlr-backend", "events.new_output">> :> "wlr-output")
  OBVIOUS
<1>3. Asked(<<"wlr-backend", "events.new_input">> :> "wlr-input-device")
  OBVIOUS
<1>4. Asked(<<"wlr-seat", "events.request_set_cursor">>
             :> "wlr-seat-pointer-request-set-cursor-event")
  OBVIOUS
<1>5. Asked(<<"wlr-seat", "events.request_set_selection">>
             :> "wlr-seat-request-set-selection-event")
  OBVIOUS
<1>6. Asked(<<"wlr-xdg-toplevel", "events.request_move">>
             :> "wlr-xdg-toplevel-move-event")
  OBVIOUS
<1>7. Asked(<<"wlr-xdg-toplevel", "events.request_resize">>
             :> "wlr-xdg-toplevel-resize-event")
  OBVIOUS
<1>8. Asked(<<"wlr-xdg-shell", "events.new_surface">>
             :> "wlr-xdg-surface")
  OBVIOUS
<1>9. Asked(<<"wlr-cursor", "events.motion">>
             :> "wlr-pointer-motion-event")
  OBVIOUS
<1>10. Asked(<<"wlr-cursor", "events.motion_absolute">>
             :> "wlr-pointer-motion-absolute-event")
  OBVIOUS
<1>11. Asked(<<"wlr-cursor", "events.button">>
             :> "wlr-pointer-button-event")
  OBVIOUS
<1>12. Asked(<<"wlr-cursor", "events.axis">> :> "wlr-pointer-axis-event")
  OBVIOUS
<1>13. Asked(<<"wlr-xwayland", "events.new_surface">>
             :> "wlr-xwayland-surface")
  OBVIOUS
<1>14. Asked(<<"wlr-xwayland-surface", "events.request_configure">>
             :> "wlr-xwayland-surface-configure-event")
  OBVIOUS
<1>15. Asked(<<"wlr-xwayland-surface", "events.request_resize">>
             :> "wlr-xwayland-resize-event")
  OBVIOUS
<1> QED
  BY <1>1, <1>2, <1>3, <1>4, <1>5, <1>6, <1>7, <1>8, <1>9, <1>10, <1>11,
     <1>12, <1>13, <1>14, <1>15,
     BothAsked, Zenon DEF Sends

----------------------------------------------------------------------------
\* What the program holds.

\* HandlesFit, of any value.
HandleFits(value) ==
  \/ value.to = value.at
  \/ value.to = Gone /\ value.at \in Mortal
  \/ value.to = Null /\ value.at \in NullHandles
  \/ value.to = Stray /\ Types[value.at].inline

ValueKnown(value) ==
  /\ value.kind = "handle" =>
       value.at \in DOMAIN Types /\ (ChecksRole => HandleFits(value))
  /\ value.kind = "word" =>
       \E n \in HeldWords : \E c \in Values[n.conv] : value = Word(n, c)

\* A pointer leads to what was put there, unless that has ended.
Leads(pointer) ==
  \/ pointer.put \in {Table, Frame}
  \/ /\ pointer.put \in DOMAIN Types
     /\ \/ pointer.to = DataPointer(pointer.put)
        \/ pointer.to = Gone /\ pointer.put \in Mortal

SlotKnown == slot = Empty \/ Leads(slot)

PointerKnown == held.kind = "pointer" => Leads(held)

\* The inductive invariant: handles are of types that there are and stand
\* for objects of these types as long as these live, integers were read in one of the conversions,
\* and a raw pointer leads to what was put into the data pointer.
HeldKnown ==
  /\ loaded \subseteq Modules
  /\ ValueKnown(held)
  /\ SlotKnown
  /\ PointerKnown

\* How a step may end.
OutcomeKnown ==
  /\ LookupsSucceed
  /\ WordsKept
  /\ ChecksRole => FaultsKnown

Ends == ValueKnown(held)' /\ PointerKnown' /\ OutcomeKnown'

LookupExcused(at) ==
  \/ at = "xkb-size-hints-t"
  \/ at \in Unregistered
  \/ HomeOf(at) \notin loaded

FaultExcused(where) ==
  \/ where \in {<<"functions", "util">>, <<"unterminated", "wlr-scene">>,
                <<"unterminated", "wlr-xdg-surface">>,
                <<"string", "wlr-pointer", "output-name">>}
  \/ where \in {<<"null", "wlr-surface">>, <<"null", "xkb-state">>}
  \/ \E at \in DOMAIN Types : Types[at].inline /\ where = <<"stray", at>>
  \/ \E at \in Mortal \cup {Table, Frame} : where = <<"gone", at>>

\* The values that fit by themselves.
LEMMA ValuesKnown ==
  /\ ValueKnown(Nil) /\ ValueKnown(Stopped)
  /\ Nil.kind = "nil" /\ Stopped.kind = "stopped"
  /\ \A elem : ValueKnown(ListOf(elem)) /\ ListOf(elem).kind = "handle"
  /\ \A n \in HeldWords : \A c \in Values[n.conv] :
       ValueKnown(Word(n, c)) /\ Word(n, c).kind = "word"
<1>1. /\ ValueKnown(Nil) /\ ValueKnown(Stopped)
      /\ Nil.kind = "nil" /\ Stopped.kind = "stopped"
  BY DEF ValueKnown, Nil, Stopped
<1>2. ASSUME NEW elem PROVE ValueKnown(ListOf(elem)) /\ ListOf(elem).kind = "handle"
  <2>1. "wl-list" \in DOMAIN Types
    BY NamesOfTypes DEF TypeNames
  <2> QED
    BY <2>1 DEF ValueKnown, HandleFits, ListOf
<1>3. ASSUME NEW n \in HeldWords, NEW c \in Values[n.conv]
      PROVE  ValueKnown(Word(n, c)) /\ Word(n, c).kind = "word"
  <2>1. Word(n, c).kind = "word"
    BY DEF Word
  <2> QED
    BY <1>3, <2>1 DEF ValueKnown
<1> QED
  BY <1>1, <1>2, <1>3, Zenon

----------------------------------------------------------------------------
\* How a step ends.

\* With a known value.
LEMMA ContinueEnds ==
  ASSUME NEW value, ValueKnown(value), value.kind # "pointer", Continue(value)
  PROVE  Ends
<1>1. held' = value /\ outcome' = <<"ok">>
  BY DEF Continue
<1>2. ValueKnown(held)' /\ PointerKnown'
  BY <1>1 DEF ValueKnown, PointerKnown
<1>3. OutcomeKnown'
  BY <1>1 DEF OutcomeKnown, LookupsSucceed, WordsKept, FaultsKnown
<1> QED
  BY <1>2, <1>3 DEF Ends

\* With nothing.
LEMMA NilEnds ==
  ASSUME Continue(Nil)
  PROVE  Ends
BY ValuesKnown, ContinueEnds

\* With a handle that fits.
LEMMA HandleEnds ==
  ASSUME NEW at \in DOMAIN Types, NEW to, Continue(Handle(at, to)),
         ChecksRole => \/ to = at
                       \/ to = Gone /\ at \in Mortal
                       \/ to = Null /\ at \in NullHandles
                       \/ to = Stray /\ Types[at].inline
  PROVE  Ends
<1>1. ValueKnown(Handle(at, to)) /\ Handle(at, to).kind # "pointer"
  BY DEF ValueKnown, HandleFits, Handle
<1> QED
  BY <1>1, ContinueEnds

\* With a raw pointer.
LEMMA PointerEnds ==
  ASSUME NEW put, NEW to, Leads(Pointer(put, to)), Continue(Pointer(put, to))
  PROVE  Ends
<1>1. held' = Pointer(put, to) /\ outcome' = <<"ok">>
  BY DEF Continue
<1>2. ValueKnown(held)' /\ PointerKnown'
  BY <1>1 DEF ValueKnown, PointerKnown, Pointer, Leads
<1>3. OutcomeKnown'
  BY <1>1 DEF OutcomeKnown, LookupsSucceed, WordsKept, FaultsKnown
<1> QED
  BY <1>2, <1>3 DEF Ends

\* With an integer.
LEMMA WordEnds ==
  ASSUME NEW n \in HeldWords, NEW c \in Values[n.conv], Continue(Word(n, c))
  PROVE  Ends
BY ValuesKnown, ContinueEnds

\* With a panic that is not a failed lookup.
LEMMA PanicEnds ==
  ASSUME NEW what, Panic(what), what[1] # "lookup"
  PROVE  Ends
<1>1. held' = Nil /\ outcome' = <<"panic", what>>
  BY DEF Panic
<1>2. ValueKnown(held)' /\ PointerKnown'
  BY <1>1, ValuesKnown DEF ValueKnown, PointerKnown
<1>3. OutcomeKnown'
  BY <1>1 DEF OutcomeKnown, LookupsSucceed, WordsKept, FaultsKnown
<1> QED
  BY <1>2, <1>3 DEF Ends

\* With the lookup of a type that may fail.
LEMMA LookupEnds ==
  ASSUME NEW at, Panic(<<"lookup", at>>), UNCHANGED loaded, LookupExcused(at)
  PROVE  Ends
<1>1. held' = Nil /\ outcome' = <<"panic", <<"lookup", at>>>>
  BY DEF Panic
<1>2. ValueKnown(held)' /\ PointerKnown'
  BY <1>1, ValuesKnown DEF ValueKnown, PointerKnown
<1>3. LookupsSucceed'
  BY <1>1 DEF LookupsSucceed, LookupExcused, Unregistered
<1>4. OutcomeKnown'
  BY <1>1, <1>3 DEF OutcomeKnown, WordsKept, FaultsKnown
<1> QED
  BY <1>2, <1>4 DEF Ends

\* With one of the known faults.
LEMMA FaultEnds ==
  ASSUME NEW where, Fault(where), ChecksRole => FaultExcused(where)
  PROVE  Ends
<1>1. held' = Stopped /\ outcome' = <<"fault", where>>
  BY DEF Fault
<1>2. ValueKnown(held)' /\ PointerKnown'
  BY <1>1, ValuesKnown DEF ValueKnown, PointerKnown
<1>3. ChecksRole => FaultsKnown'
  BY <1>1 DEF FaultsKnown, FaultExcused
<1>4. OutcomeKnown'
  BY <1>1, <1>3 DEF OutcomeKnown, LookupsSucceed, WordsKept
<1> QED
  BY <1>2, <1>4 DEF Ends

\* A type is not found only before its module is imported, the four types
\* apart.
LEMMA TypeFound ==
  ASSUME NEW at \in DOMAIN Types, ~ Known(HomeOf(at), at)
  PROVE  LookupExcused(at)
BY HomeRegisters DEF Known, LookupExcused

----------------------------------------------------------------------------
\* What a step reads.

\* What comes back from a call is known.
LEMMA ResultEnds ==
  ASSUME NEW c \in Calls, Result(c)
  PROVE  Ends
<1>1. c.gives.types \subseteq DOMAIN Types /\ c.gives.words \subseteq HeldWords
  BY CallsAreKnown, NamesOfTypes DEF CallsKnown, CallKnown, HeldWords
<1>2. CASE \E at \in c.gives.types : Continue(Handle(at, at))
  BY <1>1, <1>2, HandleEnds
<1>3. CASE \E n \in c.gives.words : \E x \in Values[n.conv] : Continue(Word(n, x))
  BY <1>1, <1>3, WordEnds
<1>4. CASE c.gives.null = "nil" /\ Continue(Nil)
  BY <1>4, NilEnds
<1>5. CASE c.gives.null = "panic" /\ Panic(<<"creation">>)
  BY <1>5, PanicEnds
<1> QED
  BY <1>2, <1>3, <1>4, <1>5 DEF Result

\* A reference becomes a handle of the object's type: of what the member
\* points to, or of NULL where NULL is known to come.
LEMMA WrapsEnds ==
  ASSUME NEW T, NEW k, NEW at \in DOMAIN Types, NEW tested, at = MemberType(T, k),
         tested \/ <<T, k>> \in NeverNull \/ at \in NullHandles,
         Wraps(T, k, at, tested)
  PROVE  Ends
<1>1. CASE \E to \in Targets(T, k) : Continue(Handle(at, to))
  <2>1. PICK to \in Targets(T, k) : Continue(Handle(at, to))
    BY <1>1
  <2>2. ChecksRole => to = at
    BY <2>1 DEF Targets
  <2> QED
    BY <2>1, <2>2, HandleEnds
<1>2. CASE /\ <<T, k>> \notin NeverNull
           /\ Continue(IF tested THEN Nil ELSE Handle(at, Null))
  <2>1. CASE tested
    BY <1>2, <2>1, NilEnds
  <2>2. CASE ~ tested
    <3>1. Continue(Handle(at, Null)) /\ at \in NullHandles
      BY <1>2, <2>2
    <3> QED
      BY <3>1, HandleEnds
  <2> QED
    BY <2>1, <2>2
<1> QED
  BY <1>1, <1>2 DEF Wraps

LEMMA InnerKnown ==
  ASSUME NEW T, NEW k, NEW kind, kind.at \in DOMAIN Types,
         kind.at \in {"wl-list", "wl-signal"} \/ kind.at = MemberType(T, k)
  PROVE  ValueKnown(Inner(T, k, kind)) /\ Inner(T, k, kind).kind # "pointer"
<1>1. \A at \in DOMAIN Types :
        ValueKnown(Handle(at, at)) /\ Handle(at, at).kind # "pointer"
  BY DEF ValueKnown, HandleFits, Handle
<1>2. CASE kind.at = "wl-list"
  BY <1>2, ValuesKnown DEF Inner
<1>3. CASE kind.at = "wl-signal"
  BY <1>1, <1>3 DEF Inner
<1>4. CASE kind.at \notin {"wl-list", "wl-signal"}
  BY <1>1, <1>4 DEF Inner
<1> QED
  BY <1>2, <1>3, <1>4

\* A member that is looked up by name.
LEMMA NamedEnds ==
  ASSUME NEW T, NEW k, NEW kind, MemberKnown(T, k, kind), kind.is = "named",
         ReadAs(T, k, kind), loaded \subseteq Modules, UNCHANGED loaded
  PROVE  Ends
<1>1. \/ Known(kind.prefix, kind.at) /\ Wraps(T, k, kind.at, kind.tested)
      \/ ~ Known(kind.prefix, kind.at) /\ Panic(<<"lookup", kind.at>>)
      \/ Continue(Nil)
  BY DEF ReadAs
<1>2. \/ FoundByName(kind) /\ kind.at = MemberType(T, k)
      \/ LostByName(kind)
  BY DEF MemberKnown
<1>3. CASE Known(kind.prefix, kind.at) /\ Wraps(T, k, kind.at, kind.tested)
  <2>1. kind.at = MemberType(T, k)
    BY <1>2, <1>3, MemberHomes DEF LostByName, Known
  <2>2. kind.at \in DOMAIN Types
    BY <1>3, RegisteredTypes
  <2>3. kind.tested \/ <<T, k>> \in NeverNull \/ kind.at \in NullHandles
    BY DEF MemberKnown
  <2> QED
    BY <1>3, <2>1, <2>2, <2>3, WrapsEnds
<1>4. CASE ~ Known(kind.prefix, kind.at) /\ Panic(<<"lookup", kind.at>>)
  <2>1. LookupExcused(kind.at)
    BY <1>2, <1>4, MemberHomes DEF FoundByName, LostByName, Known, LookupExcused
  <2> QED
    BY <1>4, <2>1, LookupEnds
<1> QED
  BY <1>1, <1>3, <1>4, NilEnds

\* What a member gives is known.
LEMMA ReadEnds ==
  ASSUME NEW T, NEW k, NEW kind, MemberKnown(T, k, kind), ReadAs(T, k, kind),
         loaded \subseteq Modules, SlotKnown, UNCHANGED <<loaded, slot>>
  PROVE  Ends
<1>1. CASE kind.is = "inside"
  <2>1. /\ kind.at \in DOMAIN Types
        /\ kind.at \in {"wl-list", "wl-signal"} \/ kind.at = MemberType(T, k)
    BY <1>1, NamesOfTypes DEF MemberKnown
  <2>2. \/ /\ kind.at \in {"wl-list", "wl-signal"} /\ ~ Known("wl", kind.at)
           /\ Panic(<<"lookup", kind.at>>)
        \/ Continue(Inner(T, k, kind))
    BY <1>1 DEF ReadAs
  <2>3. CASE Continue(Inner(T, k, kind))
    BY <2>1, <2>3, InnerKnown, ContinueEnds
  <2>4. CASE /\ kind.at \in {"wl-list", "wl-signal"} /\ ~ Known("wl", kind.at)
             /\ Panic(<<"lookup", kind.at>>)
    <3>1. LookupExcused(kind.at)
      BY <2>4, MemberHomes DEF Known, LookupExcused
    <3> QED
      BY <2>4, <3>1, LookupEnds
  <2> QED
    BY <2>2, <2>3, <2>4
<1>2. CASE kind.is = "ref"
  <2>1. /\ kind.at \in DOMAIN Types /\ kind.at = MemberType(T, k)
        /\ kind.tested \/ <<T, k>> \in NeverNull \/ kind.at \in NullHandles
    BY <1>2, NamesOfTypes DEF MemberKnown
  <2>2. Wraps(T, k, kind.at, kind.tested)
    BY <1>2 DEF ReadAs
  <2> QED
    BY <2>1, <2>2, WrapsEnds
<1>3. CASE kind.is = "named"
  BY <1>3, NamedEnds
<1>4. CASE kind.is = "string"
  <2>1. Continue(Nil) \/ (~ kind.tested /\ Fault(<<"string", T, k>>))
    BY <1>4 DEF ReadAs
  <2>2. CASE ~ kind.tested /\ Fault(<<"string", T, k>>)
    <3>1. T = "wlr-pointer" /\ k = "output-name"
      BY <1>4, <2>2 DEF MemberKnown
    <3>2. FaultExcused(<<"string", T, k>>)
      BY <3>1 DEF FaultExcused
    <3> QED
      BY <2>2, <3>2, FaultEnds
  <2> QED
    BY <2>1, <2>2, NilEnds
<1>5. CASE kind.is = "number"
  <2>1. kind \in HeldWords
    BY <1>5 DEF MemberKnown
  <2>2. PICK x \in Values[kind.conv] : Continue(Word(kind, x))
    BY <1>5 DEF ReadAs
  <2> QED
    BY <2>1, <2>2, WordEnds
<1>6. CASE kind.is = "data"
  <2>1. \/ Continue(Nil)
        \/ slot.to # Null /\ Continue(Pointer(slot.put, slot.to))
    BY <1>6 DEF ReadAs
  <2>2. CASE slot.to # Null /\ Continue(Pointer(slot.put, slot.to))
    <3>1. Leads(slot)
      BY <2>2 DEF SlotKnown, Empty
    <3>2. Leads(Pointer(slot.put, slot.to))
      BY <3>1 DEF Leads, Pointer
    <3> QED
      BY <2>2, <3>2, PointerEnds
  <2> QED
    BY <2>1, <2>2, NilEnds
<1>7. CASE kind.is = "plain"
  BY <1>7, NilEnds DEF ReadAs
<1> QED
  BY <1>1, <1>2, <1>3, <1>4, <1>5, <1>6, <1>7 DEF MemberKnown

----------------------------------------------------------------------------
\* The operations.

LEMMA InitKnown == Init => HeldKnown /\ OutcomeKnown
<1> SUFFICES ASSUME Init PROVE HeldKnown /\ OutcomeKnown
  OBVIOUS
<1>1. loaded = {} /\ held = Nil /\ slot = Empty /\ outcome = <<"ok">>
  BY DEF Init
<1>2. HeldKnown
  BY <1>1, ValuesKnown DEF HeldKnown, SlotKnown, PointerKnown
<1>3. OutcomeKnown
  BY <1>1 DEF OutcomeKnown, LookupsSucceed, WordsKept, FaultsKnown
<1> QED
  BY <1>2, <1>3

\* A handle whose object is not of its type, when the program checks roles:
\* there is none, it has ended, or it went through a data pointer.
LEMMA Misfits ==
  ASSUME HeldKnown, held.kind = "handle", held.to # held.at, ChecksRole
  PROVE  \/ held.to = Null /\ held.at \in NullHandles /\ Flaw(held.to) = "null"
         \/ held.to # Null /\ FaultExcused(<<Flaw(held.to), held.at>>)
<1>1. HandleFits(held) /\ held.at \in DOMAIN Types
  BY DEF HeldKnown, ValueKnown
<1>2. CASE held.to = Gone /\ held.at \in Mortal
  <2>1. Flaw(held.to) = "gone" /\ held.to # Null
    BY <1>2, TargetsAssumption DEF Flaw
  <2> QED
    BY <1>2, <2>1 DEF FaultExcused
<1>3. CASE held.to = Null /\ held.at \in NullHandles
  BY <1>3, TargetsAssumption DEF Flaw
<1>4. CASE held.to = Stray /\ Types[held.at].inline
  <2>1. Flaw(held.to) = "stray" /\ held.to # Null
    BY <1>4, TargetsAssumption DEF Flaw
  <2> QED
    BY <1>1, <1>4, <2>1 DEF FaultExcused
<1> QED
  BY <1>1, <1>2, <1>3, <1>4 DEF HandleFits

\* The use of such a handle, other than a data source, faults in a known way.
LEMMA MisfitEnds ==
  ASSUME HeldKnown, held.kind = "handle", held.to # held.at,
         held.to = Null => held.at # "wlr-data-source",
         Fault(<<Flaw(held.to), held.at>>)
  PROVE  Ends
<1>1. ChecksRole => FaultExcused(<<Flaw(held.to), held.at>>)
  <2>1. \A at \in NullHandles : at # "wlr-data-source" => FaultExcused(<<"null", at>>)
    BY DEF NullHandles, FaultExcused
  <2> QED
    BY <2>1, Misfits
<1> QED
  BY <1>1, FaultEnds

\* A call with a handle of NULL, of a structure that is lost or of an object
\* that has ended faults in the known ways; no other call does.
LEMMA InvokeWithHandleEnds ==
  ASSUME HeldKnown, NEW c \in Calls, InvokeWithHandle(c)
  PROVE  Ends
<1>0. held.kind = "handle" /\ held.at \in c.takes
  BY DEF InvokeWithHandle
<1>1. \/ Result(c)
      \/ /\ held.to # held.at
         /\ held.to = Null => <<c.name, held.at>> \notin NullOk
         /\ Fault(<<Flaw(held.to), held.at>>)
  BY DEF InvokeWithHandle
<1>2. CASE /\ held.to # held.at
           /\ held.to = Null => <<c.name, held.at>> \notin NullOk
           /\ Fault(<<Flaw(held.to), held.at>>)
  <2>1. held.to = Null => held.at # "wlr-data-source"
    BY <1>0, <1>2, CallsAreKnown DEF CallsKnown, CallKnown, NullOk
  <2> QED
    BY <1>0, <1>2, <2>1, MisfitEnds
<1> QED
  BY <1>1, <1>2, ResultEnds

LEMMA InvokeWithWordEnds ==
  ASSUME HeldKnown, NEW c \in Calls, InvokeWithWord(c)
  PROVE  Ends
<1>0. PICK n \in HeldWords : \E x \in Values[n.conv] : held = Word(n, x)
  BY DEF HeldKnown, ValueKnown, InvokeWithWord
<1>1. PICK x \in Values[n.conv] : held = Word(n, x)
  BY <1>0
<1>2. held.q = n.q /\ held.v = ToJanet(n.conv, x) /\ held.c = x
  BY <1>1 DEF Word
<1>3. PICK m \in c.words :
        /\ SameQuantity(n.q, m.q)
        /\ IF (ToC(m.conv, ToJanet(n.conv, x)) - x) % (2 * Half32) = 0
           THEN Result(c) ELSE Lost(c.name, x)
  BY <1>2 DEF InvokeWithWord
<1>4. CASE Result(c)
  BY <1>4, ResultEnds
<1>5. CASE /\ (ToC(m.conv, ToJanet(n.conv, x)) - x) % (2 * Half32) # 0
           /\ Lost(c.name, x)
  <2>1. m \notin Taken32
    BY <1>3, <1>5, WideKept
  <2>2. m \in Words16 /\ c.name = "wlr-xwayland-surface-configure"
    BY <2>1, CallsAreKnown DEF CallsKnown, CallKnown
  <2>3. x \notin 0 .. Half16 - 1
    BY <1>3, <1>5, <2>2, NarrowKept
  <2>4. held' = Nil /\ outcome' = <<"lost", c.name, x>>
    BY <1>5 DEF Lost
  <2>5. WordsKept'
    BY <2>2, <2>3, <2>4 DEF WordsKept
  <2>6. OutcomeKnown'
    BY <2>4, <2>5 DEF OutcomeKnown, LookupsSucceed, FaultsKnown
  <2>7. ValueKnown(held)' /\ PointerKnown'
    BY <2>4, ValuesKnown DEF ValueKnown, PointerKnown
  <2> QED
    BY <2>6, <2>7 DEF Ends
<1> QED
  BY <1>3, <1>4, <1>5

LEMMA DeliverEnds ==
  ASSUME HeldKnown, NEW e \in DOMAIN Sends, Deliver(e[1], e[2])
  PROVE  Ends
<1> DEFINE at == Asks(e[1], e[2])
<1>1. Sends[<<e[1], e[2]>>] = at /\ at \in DOMAIN Types
  BY SendsAsked, NamesOfTypes DEF Asked
<1>2. \/ Known(HomeOf(at), at) /\ Continue(Handle(at, Sends[<<e[1], e[2]>>]))
      \/ ~ Known(HomeOf(at), at) /\ Panic(<<"lookup", at>>)
  BY DEF Deliver
<1>3. UNCHANGED loaded
  BY DEF Deliver
<1> HIDE DEF at
<1>4. CASE Continue(Handle(at, Sends[<<e[1], e[2]>>]))
  BY <1>1, <1>4, HandleEnds
<1>5. CASE ~ Known(HomeOf(at), at) /\ Panic(<<"lookup", at>>)
  BY <1>1, <1>3, <1>5, TypeFound, LookupEnds
<1> QED
  BY <1>2, <1>4, <1>5

LEMMA FollowEnds ==
  ASSUME HeldKnown, NEW k \in Keywords, Follow(k)
  PROVE  Ends
<1>1. PICK T : T = held.at
  OBVIOUS
<1>2. loaded \subseteq Modules /\ T \in DOMAIN Types /\ held.kind = "handle"
  BY <1>1 DEF HeldKnown, ValueKnown, Follow
<1>3. k \in DOMAIN Types[T].get /\ UNCHANGED <<loaded, slot>>
  BY <1>1 DEF Follow
<1>4. MemberKnown(T, k, Types[T].get[k]) /\ T # "wlr-data-source"
  BY <1>2, <1>3, TypesAreKnown DEF TypesKnown, TypeKnown, GetterKnown
<1>5. \/ held.to # T /\ Fault(<<Flaw(held.to), T>>)
      \/ ReadAs(T, k, Types[T].get[k])
      \/ T \in Unterminated /\ Fault(<<"unterminated", T>>)
  BY <1>1 DEF Follow
<1>6. SlotKnown
  BY DEF HeldKnown
<1>7. CASE held.to # T /\ Fault(<<Flaw(held.to), T>>)
  BY <1>1, <1>2, <1>4, <1>7, MisfitEnds
<1>8. CASE ReadAs(T, k, Types[T].get[k])
  BY <1>2, <1>3, <1>4, <1>6, <1>8, ReadEnds
<1>9. CASE T \in Unterminated /\ Fault(<<"unterminated", T>>)
  <2>1. FaultExcused(<<"unterminated", T>>)
    BY <1>9 DEF Unterminated, FaultExcused
  <2> QED
    BY <1>9, <2>1, FaultEnds
<1> QED
  BY <1>5, <1>7, <1>8, <1>9

\* The data pointer keeps what it can keep, or is left as it was.
LEMMA StoreEnds ==
  ASSUME HeldKnown, held.kind = "handle", held.at # "wlr-data-source",
         NEW content, content = Empty \/ Leads(content), Store(content),
         UNCHANGED loaded
  PROVE  Ends /\ SlotKnown'
<1>1. CASE held.to = held.at
  <2>1. slot' = content /\ held' = held /\ outcome' = <<"ok">>
    BY <1>1 DEF Store, Continue
  <2>2. ValueKnown(held)' /\ PointerKnown'
    BY <2>1 DEF HeldKnown, ValueKnown, PointerKnown
  <2>3. OutcomeKnown'
    BY <2>1 DEF OutcomeKnown, LookupsSucceed, WordsKept, FaultsKnown
  <2>4. SlotKnown'
    BY <2>1 DEF SlotKnown, Leads
  <2> QED
    BY <2>2, <2>3, <2>4 DEF Ends
<1>2. CASE held.to # held.at
  <2>1. slot' = slot /\ Fault(<<Flaw(held.to), held.at>>)
    BY <1>2 DEF Store
  <2>2. Ends
    BY <1>2, <2>1, MisfitEnds
  <2>3. SlotKnown'
    BY <2>1 DEF HeldKnown, SlotKnown, Leads
  <2> QED
    BY <2>2, <2>3
<1> QED
  BY <1>1, <1>2

LEMMA PutDataEnds ==
  ASSUME HeldKnown, PutData
  PROVE  Ends /\ SlotKnown'
<1>1. held.kind = "handle" /\ loaded' = loaded
  BY DEF PutData
<1>2. held.at # "wlr-data-source"
  <2>1. "data" \in DOMAIN Types[held.at].put /\ held.at \in DOMAIN Types
    BY <1>1 DEF PutData, HeldKnown, ValueKnown
  <2> QED
    BY <2>1, TypesAreKnown DEF TypesKnown, TypeKnown
<1>3. \/ Store(Empty)
      \/ Store([put |-> Table, to |-> Table])
      \/ \E at \in Kept : Store([put |-> at, to |-> DataPointer(at)])
      \/ slot' = slot /\ Panic(<<"data">>)
  BY DEF PutData
<1>4. CASE Store(Empty)
  BY <1>1, <1>2, <1>4, StoreEnds
<1>5. CASE Store([put |-> Table, to |-> Table])
  <2>1. Leads([put |-> Table, to |-> Table])
    BY DEF Leads
  <2> QED
    BY <1>1, <1>2, <1>5, <2>1, StoreEnds
<1>6. ASSUME NEW at \in Kept, Store([put |-> at, to |-> DataPointer(at)])
      PROVE  Ends /\ SlotKnown'
  <2>1. Leads([put |-> at, to |-> DataPointer(at)])
    BY KeptAssumption DEF Leads
  <2> QED
    BY <1>1, <1>2, <1>6, <2>1, StoreEnds
<1>7. CASE slot' = slot /\ Panic(<<"data">>)
  BY <1>7, PanicEnds DEF SlotKnown, HeldKnown, Leads
<1> QED
  BY <1>3, <1>4, <1>5, <1>6, <1>7

\* A raw pointer goes into the data pointer as it is.
LEMMA PutPointerEnds ==
  ASSUME HeldKnown, PutPointer
  PROVE  Ends /\ SlotKnown'
<1>1. /\ held.kind = "pointer" /\ slot' = [put |-> held.put, to |-> held.to]
      /\ held' = held /\ outcome' = <<"ok">>
  BY DEF PutPointer, Continue
<1>2. Leads(held)
  BY <1>1 DEF HeldKnown, PointerKnown
<1>3. SlotKnown'
  BY <1>1, <1>2 DEF SlotKnown, Leads
<1>4. ValueKnown(held)' /\ PointerKnown'
  BY <1>1, <1>2 DEF ValueKnown, PointerKnown, Leads
<1>5. OutcomeKnown'
  BY <1>1 DEF OutcomeKnown, LookupsSucceed, WordsKept, FaultsKnown
<1> QED
  BY <1>3, <1>4, <1>5 DEF Ends

\* What is taken out of the data pointer is what was put there, dead or alive.
LEMMA TakeDataEnds ==
  ASSUME HeldKnown, TakeData
  PROVE  Ends
<1>1. PICK at, to : at = held.put /\ to = held.to
  OBVIOUS
<1>2. \/ to = Gone /\ Fault(<<"gone", Table>>)
      \/ Continue(Nil)
      \/ at # Table /\ Known(HomeOf(at), at) /\ Continue(Handle(at, to))
      \/ at # Table /\ ~ Known(HomeOf(at), at) /\ Panic(<<"lookup", at>>)
  BY <1>1 DEF TakeData
<1>3. Leads(held) /\ at # Frame /\ loaded' = loaded
  BY <1>1 DEF TakeData, HeldKnown, PointerKnown
<1>4. ASSUME at # Table
      PROVE  /\ at \in DOMAIN Types
             /\ to = DataPointer(at) \/ (to = Gone /\ at \in Mortal)
  BY <1>1, <1>3, <1>4 DEF Leads
<1>5. CASE to = Gone /\ Fault(<<"gone", Table>>)
  <2>1. FaultExcused(<<"gone", Table>>)
    BY DEF FaultExcused
  <2> QED
    BY <1>5, <2>1, FaultEnds
<1>6. CASE at # Table /\ Known(HomeOf(at), at) /\ Continue(Handle(at, to))
  <2>1. to = at \/ (to = Stray /\ Types[at].inline) \/ (to = Gone /\ at \in Mortal)
    BY <1>4, <1>6 DEF DataPointer
  <2> QED
    BY <1>4, <1>6, <2>1, HandleEnds
<1>7. CASE at # Table /\ ~ Known(HomeOf(at), at) /\ Panic(<<"lookup", at>>)
  BY <1>3, <1>4, <1>7, TypeFound, LookupEnds
<1> QED
  BY <1>2, <1>5, <1>6, <1>7, NilEnds

\* A listener reads what wl-signal-emit sends while the emission lasts.
LEMMA EmitEnds == Emit => Ends
<1>1. Leads(Pointer(Frame, Frame))
  BY DEF Leads, Pointer
<1> QED
  BY <1>1, PointerEnds DEF Emit

LEMMA GetListenerDataEnds == GetListenerData => Ends
<1>1. FaultExcused(<<"gone", Frame>>)
  BY DEF FaultExcused
<1> QED
  BY <1>1, FaultEnds, NilEnds DEF GetListenerData

LEMMA ToArrayEnds ==
  ASSUME HeldKnown, NEW at \in DOMAIN LinkOf, ToArray(at)
  PROVE  Ends
<1>1. at \in DOMAIN Types
  <2>1. Names(LinkOf) \subseteq TypeNames
    BY TableNames DEF LinkOf, TypeNames
  <2> QED
    BY <2>1, NamesOfTypes DEF Names
<1>2. \/ Known(HomeOf(at), at) /\ Continue(Handle(at, at))
      \/ Continue(Nil)
      \/ held.to # held.at /\ Fault(<<Flaw(held.to), held.at>>)
      \/ ~ Known(HomeOf(at), at) /\ Panic(<<"lookup", at>>)
  BY DEF ToArray
<1>3. loaded' = loaded
  BY DEF ToArray
<1>4. CASE Continue(Handle(at, at))
  BY <1>1, <1>4, HandleEnds
<1>5. CASE ~ Known(HomeOf(at), at) /\ Panic(<<"lookup", at>>)
  BY <1>1, <1>3, <1>5, TypeFound, LookupEnds
<1>6. CASE held.to # held.at /\ Fault(<<Flaw(held.to), held.at>>)
  <2>1. held.kind = "handle" /\ held.at = "wl-list"
    BY DEF ToArray
  <2> QED
    BY <1>6, <2>1, MisfitEnds
<1> QED
  BY <1>2, <1>4, <1>5, <1>6, NilEnds

\* The end of an object leaves handles and pointers that lead nowhere.
LEMMA PerishEnds ==
  ASSUME HeldKnown, Perish
  PROVE  Ends /\ SlotKnown'
<1>0. outcome' = <<"ok">>
  BY DEF Perish
<1>1. OutcomeKnown'
  BY <1>0 DEF OutcomeKnown, LookupsSucceed, WordsKept, FaultsKnown
<1>2. ASSUME NEW pointer, Leads(pointer), pointer.to \in Mortal \cup {Table, Frame},
             NEW dead, dead.put = pointer.put, dead.to = Gone
      PROVE  Leads(dead)
  BY <1>2, TargetsAssumption DEF Leads, DataPointer, Mortal
<1>3. ASSUME held.kind = "handle", held.to \in Mortal, slot' = slot,
             held' = [kind |-> "handle", at |-> held.at, to |-> Gone,
                      elem |-> held.elem]
      PROVE  Ends /\ SlotKnown'
  <2>1. held.at \in DOMAIN Types /\ (ChecksRole => HandleFits(held))
    BY <1>3 DEF HeldKnown, ValueKnown
  <2>2. ChecksRole => held.at \in Mortal
    BY <1>3, <2>1, TargetsAssumption DEF HandleFits, Mortal
  <2>3. ValueKnown(held)' /\ PointerKnown'
    BY <1>3, <2>1, <2>2 DEF ValueKnown, PointerKnown, HandleFits
  <2> QED
    BY <1>1, <1>3, <2>3 DEF Ends, HeldKnown, SlotKnown, Leads
<1>4. ASSUME held.kind = "pointer", held.to \in Mortal \cup {Table, Frame},
             held' = Pointer(held.put, Gone), slot' = slot
      PROVE  Ends /\ SlotKnown'
  <2>1. Leads(Pointer(held.put, Gone))
    BY <1>2, <1>4 DEF HeldKnown, PointerKnown, Pointer
  <2>2. ValueKnown(held)' /\ PointerKnown'
    BY <1>4, <2>1 DEF ValueKnown, PointerKnown, Pointer, Leads
  <2> QED
    BY <1>1, <1>4, <2>2 DEF Ends, HeldKnown, SlotKnown, Leads
<1>5. ASSUME slot.to \in Mortal \cup {Table, Frame},
             slot' = [put |-> slot.put, to |-> Gone], held' = held
      PROVE  Ends /\ SlotKnown'
  <2>1. Leads(slot)
    BY <1>5, TargetsAssumption DEF HeldKnown, SlotKnown, Empty, Mortal
  <2>2. Leads([put |-> slot.put, to |-> Gone])
    BY <1>2, <1>5, <2>1
  <2>3. SlotKnown'
    BY <1>5, <2>2 DEF SlotKnown, Leads
  <2>4. ValueKnown(held)' /\ PointerKnown'
    BY <1>5 DEF HeldKnown, ValueKnown, PointerKnown, Leads
  <2> QED
    BY <1>1, <2>3, <2>4 DEF Ends
<1> QED
  BY <1>3, <1>4, <1>5 DEF Perish

----------------------------------------------------------------------------
\* Every step keeps the invariant.

\* The steps that leave the modules and the data pointer alone.
Rests == UNCHANGED <<loaded, slot>>

LEMMA NextKnown ==
  ASSUME HeldKnown, OutcomeKnown, [Next]_vars
  PROVE  HeldKnown' /\ OutcomeKnown'
<1>1. ASSUME Ends, Rests
      PROVE  HeldKnown' /\ OutcomeKnown'
  <2>1. SlotKnown' /\ loaded' = loaded
    BY <1>1 DEF HeldKnown, SlotKnown, Leads, Rests
  <2> QED
    BY <1>1, <2>1 DEF HeldKnown, Ends
<1>2. ASSUME NEW m \in Modules, Import(m)
      PROVE  HeldKnown' /\ OutcomeKnown'
  <2>1. loaded' \subseteq Modules /\ slot' = slot
    BY <1>2 DEF Import, HeldKnown
  <2>2. Continue(Nil) \/ Fault(<<"functions", "util">>)
    BY <1>2 DEF Import
  <2>3. FaultExcused(<<"functions", "util">>)
    BY DEF FaultExcused
  <2>4. Ends
    BY <2>2, <2>3, NilEnds, FaultEnds
  <2> QED
    BY <2>1, <2>4 DEF HeldKnown, SlotKnown, Leads, Ends
<1>3. CASE Drop
  BY <1>1, <1>3, NilEnds DEF Drop, Rests
<1>4. ASSUME NEW c \in Calls, InvokeWithHandle(c)
      PROVE  HeldKnown' /\ OutcomeKnown'
  <2>1. Rests
    BY <1>4 DEF InvokeWithHandle, Rests
  <2> QED
    BY <1>1, <1>4, <2>1, InvokeWithHandleEnds
<1>5. ASSUME NEW c \in Calls, InvokeWithWord(c)
      PROVE  HeldKnown' /\ OutcomeKnown'
  <2>1. Rests
    BY <1>5 DEF InvokeWithWord, Rests
  <2> QED
    BY <1>1, <1>5, <2>1, InvokeWithWordEnds
<1>6. ASSUME NEW c \in Calls, Invoke(c)
      PROVE  HeldKnown' /\ OutcomeKnown'
  BY <1>1, <1>6, ResultEnds DEF Invoke, Rests
<1>7. ASSUME NEW e \in DOMAIN Sends, Deliver(e[1], e[2])
      PROVE  HeldKnown' /\ OutcomeKnown'
  <2>1. Rests
    BY <1>7 DEF Deliver, Rests
  <2> QED
    BY <1>1, <1>7, <2>1, DeliverEnds
<1>8. ASSUME NEW k \in Keywords, Follow(k)
      PROVE  HeldKnown' /\ OutcomeKnown'
  <2>1. Rests
    BY <1>8 DEF Follow, Rests
  <2> QED
    BY <1>1, <1>8, <2>1, FollowEnds
<1>9. CASE PutData
  <2>1. loaded' = loaded
    BY <1>9 DEF PutData
  <2> QED
    BY <1>9, <2>1, PutDataEnds DEF HeldKnown, Ends
<1>10. CASE TakeData
  <2>1. Rests
    BY <1>10 DEF TakeData, Rests
  <2> QED
    BY <1>1, <1>10, <2>1, TakeDataEnds
<1>11. ASSUME NEW at \in DOMAIN LinkOf, ToArray(at)
       PROVE  HeldKnown' /\ OutcomeKnown'
  <2>1. Rests
    BY <1>11 DEF ToArray, Rests
  <2> QED
    BY <1>1, <1>11, <2>1, ToArrayEnds
<1>12. CASE UNCHANGED vars
  <2>1. HeldKnown'
    BY <1>12 DEF vars, HeldKnown, ValueKnown, SlotKnown, PointerKnown, Leads
  <2>2. OutcomeKnown'
    BY <1>12 DEF vars, OutcomeKnown, LookupsSucceed, WordsKept, FaultsKnown
  <2> QED
    BY <2>1, <2>2
<1>13. CASE Emit
  BY <1>1, <1>13, EmitEnds DEF Emit, Rests
<1>14. CASE GetListenerData
  BY <1>1, <1>14, GetListenerDataEnds DEF GetListenerData, Rests
<1>15. CASE PutPointer
  <2>1. loaded' = loaded
    BY <1>15 DEF PutPointer
  <2> QED
    BY <1>15, <2>1, PutPointerEnds DEF HeldKnown, Ends
<1>16. CASE Perish
  <2>1. loaded' = loaded
    BY <1>16 DEF Perish
  <2> QED
    BY <1>16, <2>1, PerishEnds DEF HeldKnown, Ends
<1> QED
  BY <1>2, <1>3, <1>4, <1>5, <1>6, <1>7, <1>8, <1>9, <1>10, <1>11, <1>12,
     <1>13, <1>14, <1>15, <1>16 DEF Next

LEMMA Invariant == Spec => [](HeldKnown /\ OutcomeKnown)
<1>1. Init => HeldKnown /\ OutcomeKnown
  BY InitKnown
<1>2. HeldKnown /\ OutcomeKnown /\ [Next]_vars => (HeldKnown /\ OutcomeKnown)'
  BY NextKnown
<1> QED
  BY <1>1, <1>2, PTL DEF Spec

\* Every handle that the program holds is of one of the types that the
\* modules define, so that a member is looked up in a table that there is,
\* every integer it holds was read from C in a known conversion, and a raw
\* pointer leads to what was put there, or to where that was.
THEOREM HeldIsKnown == Spec => []HeldKnown
BY Invariant, PTL

\* For a program that reads an xdg-surface's role before its toplevel or its
\* popup, as handle-xdg-shell-new-surface does: whatever way a handle came, out of
\* a member, an event, a list, a call or a data pointer, its type is the
\* type of the C object behind it as long as that lives, or it is one of the
\* three handles of NULL or stands for a structure of the Janet heap that
\* went through a data pointer.  Every conversion through void pointers in wlr.c and util.c
\* keeps the type.
THEOREM HandlesAreRight ==
  ASSUME ChecksRole
  PROVE  Spec => []HandlesFit
<1>1. HeldKnown => HandlesFit
  BY DEF HeldKnown, ValueKnown, HandleFits, HandlesFit, NullHandles
<1> QED
  BY <1>1, Invariant, PTL

\* For such a program, which also takes every raw pointer for what it is:
\* while the object in question lives, the wrappers come to undefined
\* behaviour only through the three tables without an end, a pointer device
\* without an output's name, and the handles of NULL and of structures that
\* HandlesFit excepts; all other undefined behaviour of theirs is the use of
\* a C object, a table or a frame after its end.  No object is ever taken
\* for one of another type.
THEOREM FaultsAreKnown ==
  ASSUME ChecksRole
  PROVE  Spec => []FaultsKnown
<1>1. OutcomeKnown => FaultsKnown
  BY DEF OutcomeKnown
<1> QED
  BY <1>1, Invariant, PTL

\* In whatever order a program imports the modules, and whatever it calls
\* and reads, a type is found by name once the module of its prefix has been
\* imported, but for the size hints of X11 windows and four types of wlr
\* that nobody registers.
THEOREM LookupsWork == Spec => []LookupsSucceed
<1>1. OutcomeKnown => LookupsSucceed
  BY DEF OutcomeKnown
<1> QED
  BY <1>1, Invariant, PTL

\* For integers of any width: what a program reads from wlroots, xkb and xcb
\* and passes on to a call arrives as the same 32 bits, whatever way it
\* takes, unless it is the position or the size of an X11 window with a
\* sign or with more than 15 bits (wlr.c:3916 casts without a check).
THEOREM WordsArrive == Spec => []WordsKept
<1>1. OutcomeKnown => WordsKept
  BY DEF OutcomeKnown
<1> QED
  BY <1>1, Invariant, PTL
=============================================================================
