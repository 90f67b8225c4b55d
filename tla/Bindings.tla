------------------------------ MODULE Bindings ------------------------------
(***************************************************************************)
(* A Janet program and the wrappers of wlr.c, wl.c, xkb.c, xcb.c, util.c   *)
(* and jl.h between it and C.  The program imports modules in any order,   *)
(* calls functions, reads members of what it holds, receives events, walks *)
(* lists and keeps a value in a C object's data pointer.  It holds one     *)
(* value at a time; other arguments of a call are taken to be right.       *)
(*                                                                         *)
(* A handle is a Janet value of the type at; to is the type of the C       *)
(* object behind it.  The code converts through void pointers, so nothing  *)
(* but these definitions makes the two agree.  The object may end at any   *)
(* time, and nothing tells the handle or the data pointer.  What callbacks *)
(* do to a call under way is the subject of WlCallbacks, SignalEmission    *)
(* and SceneTrees: here a call with right arguments does no harm.          *)
(***************************************************************************)
EXTENDS BindingTypes, BindingCalls, Conversions, FiniteSets

CONSTANTS Null, Stray, Gone,         \* targets: no object, no known object,
                                     \* an object that has ended
          Table, Frame, None,        \* a Janet table, a value in a frame of
                                     \* C; and no element type
          Kept,                      \* types whose handles become :data
          ChecksRole                 \* the program reads :role first

\* The other targets are told apart and are no types; what becomes :data is
\* a handle of one of the types.
ASSUME TargetsAssumption ==
  /\ Null \notin {Stray, Gone, Table, Frame} /\ Stray \notin {Gone, Table, Frame}
  /\ Gone \notin {Table, Frame} /\ Table # Frame
  /\ {Null, Stray, Gone, Table, Frame} \cap DOMAIN Types = {}
ASSUME KeptAssumption    == Kept \subseteq DOMAIN Types
ASSUME RoleAssumption    == ChecksRole \in BOOLEAN

VARIABLES loaded,   \* the modules imported so far
          held,     \* the value the program works on
          slot,     \* a C object's data pointer, and what was put there
          outcome   \* how the last step ended

vars == <<loaded, held, slot, outcome>>

Nil == [kind |-> "nil"]
Handle(at, to) == [kind |-> "handle", at |-> at, to |-> to, elem |-> None]
ListOf(elem)   == [kind |-> "handle", at |-> "wl-list", to |-> "wl-list", elem |-> elem]
Word(n, c)     == [kind |-> "word", q |-> n.q, conv |-> n.conv,
                   v |-> ToJanet(n.conv, c), c |-> c]
Pointer(put, to) == [kind |-> "pointer", put |-> put, to |-> to]

\* The types with an object of C behind their handles.  The handles of the
\* others are nothing but a structure on the Janet heap.
Mortal == DOMAIN Types \ {"box", "xkb-rule-names", "intern-atom-cookie-t", "timespec"}

\* Why a handle of another type than its object's cannot be used.
Flaw(to) == CASE to = Null -> "null" [] to = Gone -> "gone" [] OTHER -> "stray"

\* After undefined behaviour there is nothing to go on with.
Stopped == [kind |-> "stopped"]

Empty == [put |-> None, to |-> Null]

Init ==
  /\ loaded = {}
  /\ held = Nil
  /\ slot = Empty
  /\ outcome = <<"ok">>

----------------------------------------------------------------------------
\* How a step ends.

Continue(value) == /\ held' = value
                   /\ outcome' = <<"ok">>

\* janet_panicf: the callback or the fiber gives up, the program goes on.
Panic(what) == /\ held' = Nil
               /\ outcome' = <<"panic", what>>

\* Undefined behaviour: a crash at best.
Fault(where) == /\ held' = Stopped
                /\ outcome' = <<"fault", where>>

\* An integer reaches C as another one.
Lost(call, c) == /\ held' = Nil
                 /\ outcome' = <<"lost", call, c>>

----------------------------------------------------------------------------
\* What C has: the types of wlroots' members and events.

\* Members named like the wlroots structure that they point to.
Namesakes ==
  [surface |-> "wlr-surface", output |-> "wlr-output", scene |-> "wlr-scene",
   seat |-> "wlr-seat", keyboard |-> "wlr-keyboard", pointer |-> "wlr-pointer",
   renderer |-> "wlr-renderer", compositor |-> "wlr-compositor"]

\* The type of the object that member k of a T points to.
MemberType(T, k) ==
  CASE k \in {"seat"} /\ T \in {"wlr-xdg-toplevel-resize-event",
                                "wlr-xdg-toplevel-move-event"} -> "wlr-seat-client"
    [] k = "surface" /\ T \in {"wlr-xwayland-resize-event",
                               "wlr-xwayland-minimize-event",
                               "wlr-xwayland-surface-configure-event"}
         -> "wlr-xwayland-surface"
    [] k = "parent" /\ T = "wlr-scene-node" -> "wlr-scene-tree"
    [] k = "parent" /\ T = "wlr-xwayland-surface" -> "wlr-xwayland-surface"
    [] k = "parent" /\ T = "wlr-xdg-popup" -> "wlr-surface"
    [] k = "base" /\ T = "wlr-xdg-toplevel" -> "wlr-xdg-surface"
    [] k = "base" /\ T # "wlr-xdg-toplevel" -> "wlr-input-device"
    [] k = "toplevel" -> "wlr-xdg-toplevel"
    [] k = "popup" -> "wlr-xdg-popup"
    [] k \in {"focused-client", "seat-client"} -> "wlr-seat-client"
    [] k = "focused-surface" -> "wlr-surface"
    [] k = "source" -> "wlr-data-source"
    [] k = "images" -> "wlr-xcursor-image"
    [] k = "buffer" -> "wlr-scene-buffer"
    [] k = "size-hints" -> "xcb-size-hints-t"
    [] k \in {"xkb-state", "wl-display"} -> k
    [] k = "tree" -> "wlr-scene-tree"
    [] k = "node" -> "wlr-scene-node"
    [] k \in {"current", "pending"} -> "wlr-surface-state"
    [] k = "pointer-state" -> "wlr-seat-pointer-state"
    [] k = "keyboard-state" -> "wlr-seat-keyboard-state"
    [] k = "modifiers" -> "wlr-keyboard-modifiers"
    [] OTHER -> Namesakes[k]

\* An xdg-surface has one pointer for its toplevel or its popup, by role.
Targets(T, k) ==
  IF T = "wlr-xdg-surface" /\ k \in {"toplevel", "popup"} /\ ~ ChecksRole
  THEN {"wlr-xdg-toplevel", "wlr-xdg-popup"}
  ELSE {MemberType(T, k)}

\* Members that C always sets.
NeverNull ==
  {<<"wlr-scene-output", "output">>, <<"wlr-scene-output", "scene">>,
   <<"wlr-xdg-toplevel", "base">>,
   <<"wlr-seat-pointer-request-set-cursor-event", "seat-client">>}

\* Functions of C that take NULL.
NullOk ==
  {<<"wlr-cursor-set-surface", "wlr-surface">>,
   <<"wlr-seat-set-selection", "wlr-data-source">>}

\* The elements of a list; None for structures without an abstract type.
Elements(T, k) ==
  CASE T = "wlr-output-layout" -> "wlr-output-layout-output"
    [] T = "wlr-scene" -> "wlr-scene-output"
    [] k = "popups" -> "wlr-xdg-popup"
    [] k = "modes" -> "wlr-output-mode"
    [] k = "cursors" -> "wlr-output-cursor"
    [] k = "children" -> "wlr-scene-node"
    [] OTHER -> None

\* What wlroots sends with each signal that tinyjl listens to for its data,
\* and the type tinyjl takes it for.
Sends ==
  <<"wlr-keyboard", "events.key">> :> "wlr-keyboard-key-event"
    @@ <<"wlr-backend", "events.new_output">> :> "wlr-output"
    @@ <<"wlr-backend", "events.new_input">> :> "wlr-input-device"
    @@ <<"wlr-seat", "events.request_set_cursor">>
         :> "wlr-seat-pointer-request-set-cursor-event"
    @@ <<"wlr-seat", "events.request_set_selection">>
         :> "wlr-seat-request-set-selection-event"
    @@ <<"wlr-xdg-toplevel", "events.request_move">> :> "wlr-xdg-toplevel-move-event"
    @@ <<"wlr-xdg-toplevel", "events.request_resize">>
         :> "wlr-xdg-toplevel-resize-event"
    @@ <<"wlr-xdg-shell", "events.new_surface">> :> "wlr-xdg-surface"
    @@ <<"wlr-cursor", "events.motion">> :> "wlr-pointer-motion-event"
    @@ <<"wlr-cursor", "events.motion_absolute">>
         :> "wlr-pointer-motion-absolute-event"
    @@ <<"wlr-cursor", "events.button">> :> "wlr-pointer-button-event"
    @@ <<"wlr-cursor", "events.axis">> :> "wlr-pointer-axis-event"
    @@ <<"wlr-xwayland", "events.new_surface">> :> "wlr-xwayland-surface"
    @@ <<"wlr-xwayland-surface", "events.request_configure">>
         :> "wlr-xwayland-surface-configure-event"
    @@ <<"wlr-xwayland-surface", "events.request_resize">>
         :> "wlr-xwayland-resize-event"

Asks(on, signal) ==
  CASE on = "wlr-keyboard" -> "wlr-keyboard-key-event"
    [] signal = "events.new_output" -> "wlr-output"
    [] signal = "events.new_input" -> "wlr-input-device"
    [] signal = "events.request_set_cursor" ->
         "wlr-seat-pointer-request-set-cursor-event"
    [] signal = "events.request_set_selection" ->
         "wlr-seat-request-set-selection-event"
    [] signal = "events.request_move" -> "wlr-xdg-toplevel-move-event"
    [] on = "wlr-xdg-toplevel" /\ signal = "events.request_resize" ->
         "wlr-xdg-toplevel-resize-event"
    [] on = "wlr-xdg-shell" -> "wlr-xdg-surface"
    [] signal = "events.motion" -> "wlr-pointer-motion-event"
    [] signal = "events.motion_absolute" -> "wlr-pointer-motion-absolute-event"
    [] signal = "events.button" -> "wlr-pointer-button-event"
    [] signal = "events.axis" -> "wlr-pointer-axis-event"
    [] signal = "events.request_configure" -> "wlr-xwayland-surface-configure-event"
    [] on = "wlr-xwayland-surface" /\ signal = "events.request_resize" ->
         "wlr-xwayland-resize-event"
    [] on = "wlr-xwayland" -> "wlr-xwayland-surface"

----------------------------------------------------------------------------
\* The operations.

\* A type is found by its prefixed name once its module has registered it.
Known(prefix, at) == prefix \in loaded /\ at \in Registers[prefix]

\* The program can have a handle of this type besides the one it holds.
Available(at) == HomeOf(at) \in loaded

\* An entry point registers types and functions.  The table of functions of
\* util has no empty entry to end it: what lies behind it is read as one.
Import(m) ==
  /\ held = Nil
  /\ m \notin loaded
  /\ \/ loaded' = loaded \cup {m} /\ Continue(Nil)
     \/ m = "util" /\ Fault(<<"functions", "util">>) /\ UNCHANGED loaded
  /\ UNCHANGED slot

Drop ==
  /\ held \notin {Nil, Stopped}
  /\ Continue(Nil)
  /\ UNCHANGED <<loaded, slot>>

\* What comes back from a call.
Result(c) ==
  \/ \E at \in c.gives.types : Continue(Handle(at, at))
  \/ \E n \in c.gives.words : \E x \in Values[n.conv] : Continue(Word(n, x))
  \/ c.gives.null = "nil" /\ Continue(Nil)
  \/ c.gives.null = "panic" /\ Panic(<<"creation">>)

\* The quantities that the program takes for one another: it places X11
\* windows in the coordinates of the layout.
SameQuantity(q, r) ==
  q = r \/ (q = "layout" /\ r \in {"x11-position", "x11-size"})

Callable(c) == c.module \in loaded /\ \A at \in c.takes : Available(at)

\* A call with the handle that the program holds among its arguments; a
\* handle whose type is another one is refused by janet_getabstract.
InvokeWithHandle(c) ==
  /\ Callable(c)
  /\ held.kind = "handle" /\ held.at \in c.takes
  /\ IF held.to = held.at \/ (held.to = Null /\ <<c.name, held.at>> \in NullOk)
     THEN Result(c) ELSE Fault(<<Flaw(held.to), held.at>>)
  /\ UNCHANGED <<loaded, slot>>

\* A call with the integer that the program holds.
InvokeWithWord(c) ==
  /\ Callable(c)
  /\ held.kind = "word"
  /\ \E n \in c.words :
       /\ SameQuantity(held.q, n.q)
       /\ IF (ToC(n.conv, held.v) - held.c) % (2 * Half32) = 0
          THEN Result(c) ELSE Lost(c.name, held.c)
  /\ UNCHANGED <<loaded, slot>>

\* A call with other arguments.
Invoke(c) ==
  /\ Callable(c)
  /\ held = Nil
  /\ Result(c)
  /\ UNCHANGED <<loaded, slot>>

\* get-abstract-listener-data in a handler of tinyjl: the type is looked up
\* by the name that the handler gives, and the pointer is taken for it.
Deliver(on, signal) ==
  LET at == Asks(on, signal) IN
  /\ held = Nil
  /\ {"wl", "wlr", "util"} \subseteq loaded
  /\ signal \in DOMAIN Types[on].get
  /\ IF Known(HomeOf(at), at) THEN Continue(Handle(at, Sends[<<on, signal>>]))
                              ELSE Panic(<<"lookup", at>>)
  /\ UNCHANGED <<loaded, slot>>

\* What a listener gets from wl-signal-emit: where the emitter's C function
\* keeps the value it sends.
Emit ==
  /\ held = Nil
  /\ "wl" \in loaded
  /\ Continue(Pointer(Frame, Frame))
  /\ UNCHANGED <<loaded, slot>>

\* get-listener-data, which reads the value there.
GetListenerData ==
  /\ held.kind = "pointer" /\ held.put = Frame
  /\ "util" \in loaded
  /\ IF held.to = Gone THEN Fault(<<"gone", Frame>>) ELSE Continue(Nil)
  /\ UNCHANGED <<loaded, slot>>

\* The value of member k of a T, which the getter reads as kind says.
Inner(T, k, kind) ==
  CASE kind.at = "wl-list" -> ListOf(Elements(T, k))
    [] kind.at = "wl-signal" -> Handle("wl-signal", "wl-signal")
    [] OTHER -> Handle(kind.at, MemberType(T, k))

Wraps(T, k, at, tested) ==
  \/ \E to \in Targets(T, k) : Continue(Handle(at, to))
  \/ /\ <<T, k>> \notin NeverNull
     /\ Continue(IF tested THEN Nil ELSE Handle(at, Null))

ReadAs(T, k, kind) ==
  CASE kind.is = "inside" ->
         IF kind.at \in {"wl-list", "wl-signal"} /\ ~ Known("wl", kind.at)
         THEN Panic(<<"lookup", kind.at>>)
         ELSE Continue(Inner(T, k, kind))
    [] kind.is = "ref" -> Wraps(T, k, kind.at, kind.tested)
    [] kind.is = "named" ->
         \/ IF Known(kind.prefix, kind.at) THEN Wraps(T, k, kind.at, kind.tested)
            ELSE Panic(<<"lookup", kind.at>>)
         \/ kind.tested /\ Continue(Nil)
    [] kind.is = "string" ->
         Continue(Nil) \/ (~ kind.tested /\ Fault(<<"string", T, k>>))
    [] kind.is = "number" ->
         \E x \in Values[kind.conv] : Continue(Word(kind, x))
    [] kind.is = "data" ->
         Continue(IF slot.to = Null THEN Nil ELSE Pointer(slot.put, slot.to))
    [] kind.is = "plain" -> Continue(Nil)

\* (obj :k), in the order of the getters: signals, lists, names.  A search
\* that fails in a table without an end goes on into what lies behind it.
Keywords == UNION {DOMAIN Types[T].get : T \in DOMAIN Types}

Follow(k) ==
  LET T == held.at IN
  /\ held.kind = "handle" /\ k \in DOMAIN Types[T].get
  /\ IF held.to # T THEN Fault(<<Flaw(held.to), T>>)
     ELSE \/ ReadAs(T, k, Types[T].get[k])
          \/ /\ T \in Unterminated /\ Types[T].get[k] \notin {Signal, List}
             /\ Fault(<<"unterminated", T>>)
  /\ UNCHANGED <<loaded, slot>>

\* (put obj :data value): jl_value_to_data_pointer takes nil, a table, or
\* the first word of an abstract value that four of the modules made.
DataPointer(at) == IF Types[at].inline THEN Stray ELSE at

Store(content) ==
  IF held.to = held.at THEN slot' = content /\ Continue(held)
                       ELSE UNCHANGED slot /\ Fault(<<Flaw(held.to), held.at>>)

PutData ==
  /\ held.kind = "handle" /\ "data" \in DOMAIN Types[held.at].put
  /\ \/ Store(Empty)
     \/ Store([put |-> Table, to |-> Table])
     \/ \E at \in Kept :
          /\ Available(at)
          /\ IF HomeOf(at) \in {"wl", "wlr", "xkb", "util"}
             THEN Store([put |-> at, to |-> DataPointer(at)])
             ELSE UNCHANGED slot /\ Panic(<<"data">>)
  /\ UNCHANGED loaded

\* The same with a raw pointer, which goes into the data pointer as it is.
PutPointer ==
  /\ held.kind = "pointer"
  /\ \E at \in DOMAIN Types : "data" \in DOMAIN Types[at].put /\ Available(at)
  /\ slot' = [put |-> held.put, to |-> held.to]
  /\ Continue(held)
  /\ UNCHANGED loaded

\* pointer-to-table and pointer-to-abstract-object: the program converts to
\* what it put there.  A table that the collector has freed cannot even be
\* held; a handle of an object that has ended can.
TakeData ==
  /\ held.kind = "pointer" /\ held.put # Frame
  /\ "util" \in loaded
  /\ CASE held.put = Table -> IF held.to = Gone THEN Fault(<<"gone", Table>>)
                                                ELSE Continue(Nil)
       [] OTHER -> IF Known(HomeOf(held.put), held.put)
                   THEN Continue(Handle(held.put, held.to))
                   ELSE Panic(<<"lookup", held.put>>)
  /\ UNCHANGED <<loaded, slot>>

\* wl-list-to-array with the type of the elements and one of the members
\* through which the table says that it can be linked.
ToArray(at) ==
  /\ held.kind = "handle" /\ held.at = "wl-list"
  /\ "util" \in loaded
  /\ at = held.elem
  /\ IF Known(HomeOf(at), at) /\ at \in DOMAIN LinkOf
     THEN IF held.to = held.at
          THEN Continue(Handle(at, held.elem)) \/ Continue(Nil)
          ELSE Fault(<<Flaw(held.to), held.at>>)
     ELSE Panic(<<"lookup", at>>)
  /\ UNCHANGED <<loaded, slot>>

\* An object ends behind the program's back: destroyed or released by the
\* program or by wlroots, a table freed by the collector while only a data
\* pointer refers to it, an emission over.
Perish ==
  /\ \/ /\ held.kind = "handle" /\ held.to \in Mortal
        /\ held' = [kind |-> "handle", at |-> held.at, to |-> Gone,
                    elem |-> held.elem]
        /\ UNCHANGED slot
     \/ /\ held.kind = "pointer" /\ held.to \in Mortal \cup {Table, Frame}
        /\ held' = Pointer(held.put, Gone)
        /\ UNCHANGED slot
     \/ /\ slot.to \in Mortal \cup {Table, Frame}
        /\ slot' = [put |-> slot.put, to |-> Gone]
        /\ held # Stopped
        /\ UNCHANGED held
  /\ outcome' = <<"ok">>
  /\ UNCHANGED loaded

Next ==
  \/ \E m \in Modules : Import(m)
  \/ Drop
  \/ \E c \in Calls : InvokeWithHandle(c) \/ InvokeWithWord(c) \/ Invoke(c)
  \/ \E e \in DOMAIN Sends : Deliver(e[1], e[2])
  \/ Emit
  \/ GetListenerData
  \/ \E k \in Keywords : Follow(k)
  \/ PutData
  \/ PutPointer
  \/ TakeData
  \/ \E at \in DOMAIN LinkOf : ToArray(at)
  \/ Perish

Spec == Init /\ [][Next]_vars

----------------------------------------------------------------------------
\* A handle's type is the type of the C object behind it, as long as that
\* lives, whatever way it came: out of a member, an event, a list, a call, a
\* data pointer.  Three members give a handle of NULL where others give nil,
\* and a structure that is on the Janet heap itself does not survive a data
\* pointer.
HandlesFit ==
  held.kind = "handle" =>
    \/ held.to = held.at
    \/ held.to = Gone /\ held.at \in Mortal
    \/ held.to = Null /\ held.at \in {"wlr-surface", "wlr-data-source", "xkb-state"}
    \/ held.to = Stray /\ Types[held.at].inline

\* How the wrappers come to undefined behaviour while the object in question
\* lives: one of the three tables without an end, a pointer device without
\* an output's name, a handle of NULL out of one of the three members, a
\* structure of the Janet heap out of a data pointer.  Anything else is the
\* use of an object after its end, which no wrapper checks: it takes a
\* handle with an object of C behind it, or a data pointer to a table or
\* into a frame.
FaultsKnown ==
  outcome[1] = "fault" =>
    \/ outcome[2] \in {<<"functions", "util">>, <<"unterminated", "wlr-scene">>,
                       <<"unterminated", "wlr-xdg-surface">>,
                       <<"string", "wlr-pointer", "output-name">>}
    \/ outcome[2] \in {<<"null", "wlr-surface">>, <<"null", "xkb-state">>}
    \/ \E at \in DOMAIN Types : Types[at].inline /\ outcome[2] = <<"stray", at>>
    \/ \E at \in Mortal \cup {Table, Frame} : outcome[2] = <<"gone", at>>

\* A type that is looked up by name is found as soon as its module has been
\* imported, but for the size hints of X11 windows, which are looked up
\* under xkb and registered by xcb, and for four types of wlr.
LookupsSucceed ==
  (outcome[1] = "panic" /\ outcome[2][1] = "lookup") =>
    \/ outcome[2][2] = "xkb-size-hints-t"
    \/ outcome[2][2] \in {"wlr-seat-client", "wlr-xcursor-image", "wlr-xcursor",
                          "wlr-layer-shell-v1"}
    \/ HomeOf(outcome[2][2]) \notin loaded

\* An integer that the program reads and passes on reaches C as the same 32
\* bits, a serial above the signed range included.  The position or the
\* size of an X11 window does not if it has more than 15 bits.
WordsKept ==
  outcome[1] = "lost" =>
    /\ outcome[2] = "wlr-xwayland-surface-configure"
    /\ outcome[3] \notin 0 .. Half16 - 1
=============================================================================
