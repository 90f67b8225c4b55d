# janetland, in TLA+

janetland binds libwayland, wlroots, xkbcommon and xcb to the Janet language, and
`example/tinyjl.janet` is a Wayland compositor written with it. This directory models the
parts that keep state and make decisions: how C callbacks and a garbage-collected heap live
together, how two event loops are driven as one, what the bindings make of C's types and
integers, and what the compositor does with views, their places, keyboards, focus and the
cursor. TLC checks small instances; TLAPS proves the theorems listed below for
every value of the constants.

## The system

| Part | State it keeps | Operations | Talks to |
| --- | --- | --- | --- |
| `wl.c` callbacks | `jwl_listener_t`, `jwl_event_source_t` handles on the Janet heap, GC roots | `wl-signal-add/-remove`, `wl-event-loop-add-fd/-timer/-signal/-idle`, `wl-event-source-remove`, the C callbacks, `gcmark` methods | libwayland points into the handles; callbacks run Janet functions with `janet_pcall` |
| `wl.c` signals | the listener list of a `wl_signal` | add, remove, `wl-signal-emit`, wlroots' own emissions | callbacks re-enter all of it |
| `wl.c` loop-stream | a Janet stream over the Wayland loop's descriptor, the waiting fiber | `wl-event-loop-fd-to-stream`, `:dispatch`, `:close`, the poll's callback | the Janet event loop, `wl_event_loop_dispatch` |
| tinyjl life cycle | `:running`, the loop-stream, the REPL server | `main`, `server-run`, `server-stop`, signal handlers | loop-stream, REPL fibers, handlers |
| tinyjl desktop | `:views`, `:grabbed-view`, `:cursor-mode`, `:last-button-event` | map, unmap, destroy, focus, move and resize requests, buttons, key bindings | the wlroots seat |
| tinyjl geometry | a view's position, `:maximized`, `:fullscreen`, the grab's boxes | cursor motion in a grab, maximize and fullscreen requests | wlroots configures, client commits |
| tinyjl X11 scene trees | `(xw-surface :data)`, `:scene-tree`, a node's `:data`, listeners on windows and nodes | map, unmap and destroy of X11 windows | the wlroots scene graph, the collector |
| tinyjl keyboards | `:keyboards`, listeners, xkb contexts and keymaps | new and destroyed devices, keys, modifiers, key bindings | the wlroots seat, xkbcommon |
| tinyjl outputs | a table of two listeners per output | new and destroyed outputs, frames | signals |
| `jl.h`, `util.c` | data pointers of C objects, Janet's registry of types | wrap, unwrap, look up a type, walk a list, convert integers | everything |
| `wlr.c`, `xkb.c`, `xcb.c`, and the tables of `*_abs_types.h` | none but C's objects | getters, setters and functions, each with the types it converts `void *` from and to | wlroots, xkbcommon, xcb |

What makes it hard:

* **Memory.** libwayland keeps a pointer into a collectable object that the collector does
  not know; closures are kept by roots that are counted by hand; a callback's fiber is not
  marked at all, and only a nested lock keeps the collector away.
* **Re-entrance.** A callback may add, remove and emit on the very list that is being walked.
* **Two event loops.** The Janet poll is edge-triggered and tells only who waits at that
  moment; the Wayland loop is dispatched from inside the Janet loop's callback; other fibers
  (a REPL, a signal handler) change the server's state between any two awaits.
* **Clients.** They map, unmap and vanish in any order and in the middle of a grab, and
  commit a size some time after they were asked for it.
* **Devices.** Two keyboards share a seat and one client's idea of what is down; either may
  go with keys down.
* **Untyped pointers.** More than 200 getters and functions convert through `void *`; a type is
  sometimes found by name at run time, in a registry that fills as modules are imported.

What each part owes: nothing C points to is swept, and what is no longer registered is
(callbacks); each emission calls each listener once and no removed one (signals); no event
waits for a wakeup that never comes, no fiber is resumed twice (loop-stream); a stop holds
and is completed, and what is queued leaves (life cycle); the list of views, the focus and the grab
agree with what is mapped (desktop); the server, the scene and the X server agree where a
view is, the cursor keeps what it holds, and a box comes back (geometry); no client keeps a
key or lacks a modifier, and each xkb reference is given back once (keyboards); a handle has
the type of the object behind it as long as that lives, and 32 bits arrive as 32 bits (bindings); no `:data` pointer leads to what was freed, and listeners
go with what they listen to (scene trees).

## Modules

| Module | Models | State and its code |
| --- | --- | --- |
| `Registration` | abstract: a registered callback is the one called, between registration and removal, an idle one once | |
| `WlCallbacks` | `wl.c` registration, invocation, removal and the collector | `native` is libwayland's view of a handle; `roots` is `janet_gcroot`; `held`, `env` are what the program refers to; `frames` the C callbacks on the stack; `gc_suspend` is Janet's lock |
| `Emission` | abstract: each emission owes its listeners a call, in order | `present` the listeners, `before` their order, `todo` whom an emission owes a call |
| `SignalEmission` | `wl_signal_emit_mutable` (wlroots) and `wl_signal_emit` (`wl-signal-emit`) over the linked list | `list` with the markers of the emissions, `emissions` the walks on the stack |
| `LoopStream` | the loop-stream and the two event loops under it | `edge` is an unreported readiness of the poll, `reader` the fiber with an `ev_callback`, `tasks` Janet's queue |
| `ServerLoop` | `main`, `server-run`, `server-stop` | extends `LoopStream`: each step of the server is a step of the loop or leaves it alone; `pc`, `running`, `asked`, `outbox` |
| `Desktop` | views, focus, activation and grab | `views`, `grabbed`, `mode`, `lastbtn` are the server's; `focused`, `pointer`, `keyboard`, `active` are the seat's and the clients' |
| `SceneTrees` | the scene trees of X11 windows | `tree` and `under` are the nodes (`tree[w] = "none"` is a nil `:data`), `viewLinked` and `sceneLinked` the listeners of the view and of the tree, `calls` the handlers that the emission under way has yet to call, `collected` the views that were freed |
| `Geometry` | one view on one axis: moves, resizes, maximize, fullscreen, X11 configures | `x` is `(view :x)`, `node` the scene's and `xw` the X server's idea of it; `geo` is what the client committed, `asked` what it has yet to; `saved` the boxes of `:maximized` and `:fullscreen`; `grab` what `begin-interactive` stores; `grip`, `fixed`, `free` are history |
| `Keyboards` | `handle-backend-new-input` to `handle-wlr-input-device-destroy`, keys and modifiers | `listed` is `:keyboards`, `listening` the linked listeners, `xkb` the reference counts, `down` and `alt` wlroots' keyboards, `seat` its keyboard and what the focused client was told |
| `FieldKinds`, `BindingKeys` | the vocabulary of the getters, and the tables of signals and lists in `wlr_abs_types.h` | |
| `BindingFields`, `BindingTypes`, `BindingCalls` | what every getter reads, every abstract type, every function | one definition per getter, keyword by keyword |
| `Conversions` | integers between C and Janet, of any width | |
| `Bindings` | a program that imports, calls, reads, receives events, walks lists and keeps data pointers | `held` is a Janet value and what is behind it, which may end at any time (`Perish`), `slot` a data pointer, `outcome` how the last step ended: well, with a panic, in undefined behaviour, or with another integer |
| `*_proofs` | theorems about the module of that name | |
| `MC*` | instances for TLC | |

`ServerLoop` composes with `LoopStream` (by extension, and `ServerSpec => Spec` is checked
and proved). `WlCallbacks` and `SignalEmission` look at the same listeners from two sides,
memory and order; each leaves the other's side out, and both treat a callback as able to do
anything the program can. `Desktop`, `SceneTrees`, `Geometry` and `Keyboards` look at the same
server from four sides: lists, focus and grab, where a view may lack a tree (`MapOrphan`) and
the seat a keyboard (`KeyboardChanges`); trees, listeners and pointers; where one view is, with
the grab's arithmetic; keyboards, for which a view is a surface that may have the focus.
`Bindings` is composed of the tables, `Conversions` and a program that uses them; what the
wrapped objects do is in the other modules.

Code outside the repository (libwayland, Janet, wlroots) is modelled as the code here uses
it, and such definitions are marked external in `PROJECT.json`: Janet's collector
(`Collect`, `Marks`), its task queue and poll, libwayland's two walks over a list, the seat's
focus.

## Runs

| Run | Instance | Shows |
| --- | --- | --- |
| `wl_callbacks` | 1 function shared by 2 handles, 1 stream, nesting 2 | `LinkedAlive`, `RunningIntact`: nothing C points to or runs is swept. `SuspendIsDepth`, `RootsBalanced`: lock and roots balance on every path. `EdgesAlive`: the heap is closed. Implements `Registration`; a closure nobody needs is reclaimed (`ClosuresReclaimed`) |
| `wl_callbacks_idle` | 1 function, 1 handle | violated: removing an idle source that has run works on memory libwayland has freed, while `wl.c:557-558` says that the removal always succeeds |
| `signal_emission` | 3 listeners, nesting 3 | implements `Emission`; no removed listener is called (`RemovedNotCalled`); every emission ends, but one of `wl-signal-emit` in front of which listeners are added for ever (`EmissionEnds`) |
| `signal_emission_next` | 3 listeners, nesting 2 | violated: `wl-signal-emit` calls a listener that its predecessor's callback has removed, while `wl.c:897` says that `wl-signal-remove` removes it |
| `loop_stream` | 3 fibers, 3 pending events | `OnePlace`, `NoLostWakeup`, `ClosedForAll`, and every event is dispatched (`EventsDispatched`) |
| `server_loop` | 4 fibers, 2 pending events | `StopHolds`, `FlushedBeforeSleep`; implements `LoopStream`; a server that was asked to stop is torn down to the end once it has an event (`StopCompletes`), and what a REPL connection queues leaves with the next one (`OutputLeaves`) |
| `desktop` | 2 toplevels, 1 X11 view, 2 buttons, four sets of lifted rules | `FocusFollowsOrder`, `OneActive`, `GrabIsMapped`, `GrabIsHeld`, each under the rules it names; `ViewsAreMapped` under none |
| `scene_trees` | 3 X11 windows | `DataAlive`: a node leads to the view of a window that exists, not collected. `NothingLinked`: no listener is left on what is gone. `ShownIsMapped`: what is enabled is what is mapped. `LostWithParent`: only a parent's tree takes a live window's tree along |
| `scene_trees_orphans` | the same | violated: a window that maps again after the window above it was destroyed reuses a tree that was destroyed, while `tinyjl.janet:66` says that it is the one made when the window was last mapped |
| `geometry` | 2 outputs of 2 pixels; whole, half and quarter positions; 4, 3 or 2 turns | `PlacesAgree`, `MoveKeepsGrip` to half a pixel, `ResizeKeepsEdge` to a pixel and also past the other edge, `BoxComesBack` |
| `keyboards` | 2 keyboards, 2 surfaces, 3 keys | `NoStuckKeys`, `KeysCarryModifiers`, `XkbBalanced` also when xkbcommon fails, `KeyboardsListed` |
| `bindings` | every type and function; integers of 4 and 3 bits; values of every type in data pointers | `HandlesFit`: a handle's type is its object's. `FaultsKnown`: the wrappers come to undefined behaviour at the places it names or by the use of what has ended, never by taking one object for another. `LookupsSucceed`. `WordsKept`: only positions and sizes of X11 windows are cut |

Every property has a mutant of a mapped definition in `PROJECT.json` that breaks it: a root
not taken, a lock given back on success only, a listener linked at the wrong end, a flush
skipped, a view not raised, a box saved after the move, a key's release taken by a binding, a
getter that wraps a member under another type.

### Bounds

* Two handles are what one shared closure needs for its count of roots to matter, and what a
  removal from inside another callback needs; nesting 2 is a callback inside a callback, the
  least at which a saved lock differs from the current one. The theorems lift the bounds.
* Three listeners are a previous, a current and a next one, and one that was removed may be
  added again: a name stands for the objects that `wl-signal-add` makes one after the other, so
  that a walk can go on for ever; nesting 3 puts the markers of an
  emission around those of two others.
* One pending event is enough to lose a wakeup; three let events arrive before, during and
  after a dispatch. The theorems lift the bound.
* Three views are one that leaves, one that gets the focus and one that the focus must skip;
  the X11 one may refuse the focus. Two buttons are what releasing one of two needs.
* Three windows are a window, its parent and its parent's: a tree that goes with a tree that
  goes with a third. The theorems lift the bound.
* Two outputs of two pixels have a border between them and room for a view on both; a quarter
  of a pixel is the largest fraction that rounding treats as less than a half, and sizes of
  one and two let an edge be dragged onto and past the other. Four turns are a map, a saved
  box, a request of the client's and a grab; the finer positions have three and two, which a
  map and a grab need.
* Two keyboards are one that is the seat's and one that is not; two surfaces let a binding
  move the focus while its key is down; three keys are the modifier, one that is bound with it
  and one that is not. The theorems lift the first two bounds.
* Integers of four and three bits have a sign bit and a bit more in the wider one; casts are
  written with half their range as a constant, and the theorems lift it. Values of every
  type become `:data`, so that only the width of the integers is a bound.

`geometry`, `keyboards`, `scene_trees` and `bindings` do not look for deadlock: `MaxTurns` ends
the first, a crash the second, a destroyed tree's use or the last window's end the third, and
undefined behaviour the fourth.

### Fairness

* `WlCallbacks`: the collector runs if it may again and again, as Janet collects on
  allocation, and callbacks return. `ClosuresReclaimed` assumes besides that the program
  comes back to its main loop.
* `SignalEmission`: a walk goes on when no callback runs, and a callback at each depth comes
  back when it can again and again; a callback that emits for ever is excluded by strong
  fairness at its depth, as Janet would exhaust its C stack. Nothing excludes callbacks that add
  listeners for ever: `wl_signal_emit_mutable()` stops at its marker all the same, and
  `wl_signal_emit()` does not, so `EmissionEnds` says of an emission that it ends or that
  listeners are added in front of a walk of `wl-signal-emit` again and again, in it or inside
  of it (`AddsToWalk`).
* `LoopStream`, `ServerLoop`: Janet resumes scheduled fibers and polls when its queue is
  empty; a running fiber reaches its next await. `EventsDispatched` assumes that the queue is
  empty again and again. No event is assumed to come: a signal handler or a REPL line that puts
  `:running` to false does not wake `server-run`, so `StopCompletes` and `OutputLeaves` begin
  where the server is not asleep with nothing to report (`NothingToDo`), and from there on what
  Janet does must be enough.

### What the program must do

Some constants name a rule the code relies on and does not enforce. A run with the rule
switched on shows the property that holds under it; where a document claims more, a run with
the rule switched off shows the violation. In `Desktop`, `Geometry` and `Keyboards` the rules
are names, `Lifts` gives the sets of rules of which one does not hold throughout a behaviour,
and a property says which rules it needs (`Keeping`); each is checked with the rules lifted
that it does not name, together or in turn.

| Constant or rule | What the program, its user or its clients do |
| --- | --- |
| `RemovesSpentIdle` | an idle source that has run is not removed |
| (`Forget`, `Return`) | the program keeps a registered handle reachable, from a global or from a table the callback closes over, as tinyjl does |
| (`SignalRemove`, `SourceRemove`) | a registration is removed once: `wl.c` 729-741 and 548-567 would drop a second root and work on NULL links or a freed source |
| (`Invoke`) | a callback does not dispatch the loop itself: `wl-event-loop-dispatch` and `-dispatch-idle` (`wl.c` 221-243) are not refused there, and the second would run the idle source again that is running |
| `RemovesNext` | a callback under `wl-signal-emit` does not remove the listener that comes next |
| `AwaitsElsewhere` | the fiber that dispatches awaits nothing else between two calls |
| (`Destroy`) | a loop is not destroyed behind the back of a fiber that waits on its stream, or from inside its own dispatch |
| `OrphansMap` | an X11 window whose tree, or whose parent's, was destroyed does not map again |
| `ChecksRole` | `(surface :toplevel)` and `:popup` are read of an xdg surface with that role, as tinyjl does: the getter reads a union |
| (`Deliver`, `TakeData`) | a raw pointer is converted to the type of what it points to: an event's to the event's, a `:data` to what was put there, and `get-listener-data` is for what `wl-signal-emit` sent |
| `Desktop` "keyboard" | the seat keeps a keyboard: `OneActive`, `GrabIsHeld`, `FocusFollowsOrder` |
| `Desktop` "alt" | Alt does not change while a button is held: `GrabIsHeld` |
| `Desktop` "moves" | clients ask to move or resize mapped toplevels only: `GrabIsMapped` |
| `Desktop` "surface" | a `wl_surface` does not outlive its role: `FocusFollowsOrder` |
| `Desktop` "parents" | an X11 window maps after the window it is transient for: `FocusFollowsOrder` |
| `Geometry` "placed" | an X11 window maps where `(view :x)` is, at first 0: all four, as a grab starts from `(view :x)` and not from the node |
| `Geometry` "children" | an X11 window has no parent, or one at 0: `PlacesAgree`, as the code uses layout and parent's coordinates for `(view :x)` in turns |
| `Geometry` "hasty" | no box is saved, and no X11 window is moved, before the client has committed the last size it was asked for: `BoxComesBack` |
| `Geometry` "interleaved" | maximize and fullscreen are not on at the same time: `BoxComesBack` |
| `Keyboards` "sets" | `wlr_keyboard_set_keymap` succeeds: every keyboard that is listened to has a state and no key crashes (`XkbBalanced`) |
| `Keyboards` "compiles" | xkbcommon makes a context and a keymap: a keyboard that goes leaves no reference behind (`XkbBalanced`) |

Without "keyboard" several views stay activated; without "alt" a toplevel is grabbed with no
button held; without "moves" a grab survives the view; without "surface" no view is focused
while the role-less surface has the focus; without "parents" a view without a tree is on top
of the list and cannot be focused. Without "interleaved" the one of maximize and fullscreen
that ends last restores the other's box. No document of the repository says otherwise, so
these are hazards and not findings. `ViewsAreMapped`, `NoStuckKeys`, `KeysCarryModifiers` and
`KeyboardsListed` need no rule.

### What else the code does

The models contain, and the properties allow for, what follows; a reader who changes the code
may want to know.

* The tables of `util.c`'s functions (158) and of the lists of `wlr-scene` and
  `wlr-xdg-surface` (`wlr_abs_types.h` 123, 294) have no entry that ends them; `FaultsKnown`
  names them.
* `(surface :pending)` gives the current state (`wlr.c` 1230).
* `jl.h` asks whether a handle is one of this library's by prefix and omits `xcb/`; the type of
  `:size-hints` is looked up under `xkb/` and registered under `xcb/`; `LookupsSucceed` names
  it.
* The members `(event :surface)` of set-cursor, `(event :source)` of set-selection and
  `(keyboard :xkb-state)` make a handle of NULL where others give nil; `HandlesFit` names them. A
  pointer device whose `:output-name` is NULL is read as a string.
* The result of `wlr-keyboard-set-keymap` is not looked at (`tinyjl.janet` 417). A panic in
  `server-new-keyboard` leaves the context it made, and skips the seat's capabilities.
* The seat keeps the keyboard capability after its last keyboard, until the next input device.
* The release of a key whose press was a binding goes to the client, which is what keeps
  `NoStuckKeys` true; a keyboard that is unplugged with Alt down leaves the client with Alt
  until the next keyboard speaks.
* A handle, a data pointer and the argument of `wl-signal-emit` outlive what they point to, and
  nothing checks them: a destroyed node, a keymap given back, a source removed, a table the
  collector took, a frame of C that is left. `FaultsKnown` allows for it wherever there is
  something in C behind a handle, and the findings about idle sources and orphaned trees are of
  this kind.
* A REPL connection that was accepted before the teardown can use the display after it
  (`tinyjl.janet` 34-35); `ReplSends` goes on there.
* A scene node without a tree makes `desktop-view-at` walk from nil (143);
  `handle-xwayland-ready` keeps its connection when it fails (826).

## Proofs

`WlCallbacks_proofs`: for any finite set of handles, any functions and streams and any nesting.
The invariant `IInv` adds to the checked ones that the program can reach every linked handle
(`HandleKept`: from a global, from its own closure, or from a running frame) and that a fresh
object has no history (`FieldsOK`). It is needed because `LinkedAlive` alone says nothing of
how the handle survives a collection: the closure is rooted, marking the closure marks its
environment, and the handle is there or in a global. `CollectStep` is that argument. Under a
callback there is no collection at all (`SuspendIsDepth`), which is why `RunningIntact`
holds of objects nothing marks. `RootsBalanced` counts registrations: adding one handle to
the owners adds one root. `Refinement` maps frames and handles to `Registration`, and the
invariant gives the function that is called.

`ServerLoop_proofs` begins with the loop-stream, for any fibers and any bound on pending events. `Places` says where a
fiber may be; `Attended` that as long as the stream is open its dispatcher is running,
waiting or scheduled, hence a poll, which needs an empty queue and no running fiber, finds it
waiting and never consumes a readiness in vain. `NoWakeupLost` is stated under
`~ AwaitsElsewhere`.

Then every step of the server is a step of `LoopStream`
(`ServerImplementsLoopStream`), so the invariants above are the server's too
(`ServerWakesUp`). `Starting` says that no fiber but main and the server's has been scheduled
before the stream is made, which is why `put :running true` undoes no stop.

`SceneTrees_proofs`: for any set of windows, parents and order of events, with and without
`OrphansMap`. `Stage` says that between events every window is `AtRest`, and that during an
emission all but one are, and which handlers are then still to be called on that one: the four
properties talk about the moments between events, and only the handlers that are pending make
the next such moment come out right. `LinksFollowTrees` ties the listeners of a tree to the tree. `SubtreesGrow`
carries `LostWithParent` over the creation of trees. `SceneTrees` ends where a destroyed tree
is used, so the theorems hold up to that point.

`Desktop_proofs`: for any views, any of them X11, any number of buttons and any rules lifted.
`Listed`, the type invariant with `ViewsAreMapped`, is inductive by itself and needs no rule;
it rests on lemmas that say that `remove-element` and `array/push` keep a list free of
duplicates and change its set of elements by one. The other four are not inductive: `OneActive`
needs that nothing is activated which lost the focus, mapped or not (`Activated`);
`FocusFollowsOrder` that what has the focus has been activated, and that under its rules every
mapped view has a tree and no surface has lost its role (`Follows`); `GrabIsHeld` that a last
button event of "pressed" means a button held and Alt up (`ButtonIsHeld`).

`Keyboards_proofs`: for any keyboards, surfaces and rules lifted. `SetUpMakes` computes what
the handler's five calls leave of a keymap and a context: one reference each, or nothing.
`XkbFollows` then says which of three holdings a keyboard has, by whether it is listened to,
and gives `XkbBalanced`. `Agrees` is stronger than `NoStuckKeys`: what a client takes for
pressed is down on a keyboard that is *listened to*, because the release of another would not
be forwarded, and its Alt is that of the seat's keyboard, which gives `KeysCarryModifiers` as
well.

`Geometry_proofs`: for any width of the outputs, any sizes, places and fractions of a pixel, and any
rules lifted. `InPlace` is stronger than `PlacesAgree` where fewer rules hold: the node of a
toplevel is where `(view :x)` is even before it maps and whatever is lifted. `Grabbed` says that the
numbers a grab has stored are those of the view it began with, for a grab reads them once and
uses them after the window has done what it likes. `MoveKeepsGrip` and `ResizeKeepsEdge` are then
arithmetic of `math/round`: `RoundNearest` says that it is off by half a pixel at most, and `RoundSum`
that the rounded parts of a whole number of pixels add up to it or to one more. `BoxKept` says
where the box is that a view has when it is on its own: on the view (`OwnBox`), or in exactly one
of `:maximized` and `:fullscreen` (`SavedBox`); `BoxComesBack` is what `OwnBox` says of a view whose
client has committed what it was asked for.

`SignalEmission_proofs`: for any listeners and any nesting. `Linkage` says what the list holds,
each element once, in which order: the added listeners, and for each emission of wlroots its two
markers around what is left to it. It needs no rule. `Pointers` says that what
`wl_signal_emit()` has saved is still linked, and that it is not a marker of an emission that ends
before this one, for then the pointer would dangle; it holds under `~ RemovesNext` only, and the run
`signal_emission_next` shows what becomes of it otherwise. `RemovedStaysSilent` follows: what is called is
linked. `EmissionImplemented` computes what each operation on links does to the listeners
that are ahead of each walk, by the lemmas `AtTail`, `AtHead`, `Swapped` and `Unlinked` on the
order of a list; a step over another emission's marker is none of `Emission`'s. `Emission` has a
set of listeners and a relation where the list has a sequence, because only that
the listeners come before one another matters, and not where the markers stand among them.

`Bindings_proofs`: for integers of any width and any choice of what becomes `:data`. Serials and
times come back as the same bits, and no two serials look the same in Janet; a position or a
size arrives at an X11 window exactly if it fits in 16 bits. What a program can do with them, and
with handles, depends on the tables, so the tables are proved about first, row by row.
`GettersKnown` says of every getter that each member is wrapped as the type of the object that
the member points to, that `NULL` is tested for except where it does not come or where
`HandlesFit` names the handle it gives, that one string alone is not tested, that a type is looked
up under its own prefix except for the size hints, and that integers are of thirteen kinds
(`HeldWords`). `CallsAreKnown` says what calls give and take: eleven kinds of integers (`Taken32`),
or those of `wlr-xwayland-surface-configure`, and the data source in one place only, where `NULL`
is allowed. `SendsAsked` says that each handler of tinyjl names the type of the event that it
gets, `HomeRegisters` that a type is registered under the prefix of its name, four of them apart.
`SameConversion` finds that a quantity is taken in the conversion in which it was read, but for
the hotspot of a cursor's image.

The invariant `HeldKnown` adds two things to `HandlesFit`. A handle's type is one that there is, for
a member is looked up in the table of its type; and a raw pointer leads to what was put there, or to where that was before it ended (`Leads`;
`TakeDataEnds` is where it is used).
Without them a handle out of a data pointer could be of any type. It is carried through every
way a step can end (`Ends`): with a value, a panic, a fault, and a lost integer only in
`InvokeWithWordEnds`. `Perish` is a step like the others: it
leaves the type of a handle alone, and only a handle with an object behind it can lose one
(`Mortal`). `Misfits` then says of a handle that does not fit which use of it faults and how.
`HandlesAreRight` and `FaultsAreKnown` have a program in mind that reads the
role of an xdg-surface first (`ChecksRole`), as `handle-xdg-shell-new-surface` does; without it they
are false, for the toplevel and the popup of an xdg-surface are one pointer. `LookupsWork` and
`WordsArrive` need no such program. The tables are made with `:>` and `@@` of `FieldKinds`, which
mean what those of module `TLC` do and which a proof can expand.

The assumptions are those the modules state of their constants: the kinds of objects do not
overlap, there are finitely many handles, the fibers are distinct, nil is no view and no
keyboard, 16 bits are no more than 32, `NULL`, stray, gone, a table and a frame are no types and are told apart, and only handles of
types that there are can be kept in a data pointer.

## Only model-checked

Liveness (`ClosuresReclaimed`, `EmissionEnds`, `EventsDispatched`, `StopCompletes`,
`OutputLeaves`) is out of the prover's reach. Every invariant and every action property of a passing run is a
theorem as well.

## Not modelled

* The log function (`wlr.c` 125-250): it formats text and calls a rooted Janet function.
* Keyword and flag tables of `types.h`: a lookup that finds its keyword or panics. Booleans,
  doubles and strings pass through `Bindings` as `Plain`.
* What a callback is given and returns, beyond the objects it keeps alive and the type of the
  event.
* A second Wayland loop passed to the methods of a loop-stream, which the code refuses by
  comparing descriptors; descriptor numbers, and with them the double close after
  `wl-display-destroy`; a handler that closes the stream of the loop that runs it.
* Which call or event ends which C object: in `Bindings` any object may end at any time, and the
  members of one that lives are taken to live; what ends with what is in `SceneTrees`,
  `Keyboards` and `WlCallbacks` where tinyjl depends on it.
* The vertical axis of `Geometry`, which is computed like the horizontal one and apart from it.
* Outputs' listeners, which come and go as keyboards' do; popups, stacking and subsurface trees,
  rendering, axis and frame events, cursors' images, clipboard.
* Starting Xwayland and interning atoms: one blocking call after the other. What the wrappers of
  `xcb.c` do with types and integers is in `Bindings`.
* The build script, the protocol XML, `misc/` and the REPL client.

## Plan

1. Popups and stacking: the order of the nodes under a parent against the list of views.
2. The log function's root, and outputs with their listeners, as instances of what
   `WlCallbacks` and `Keyboards` have.
