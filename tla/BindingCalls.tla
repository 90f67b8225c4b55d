---------------------------- MODULE BindingCalls ----------------------------
(***************************************************************************)
(* The C functions that Janet calls.  A call takes handles of some types   *)
(* and integers that stand for some quantities, in C's conversion, and     *)
(* gives nothing of interest, an integer, or a handle.  Booleans, doubles, *)
(* strings and keywords are left out.                                      *)
(***************************************************************************)
EXTENDS FieldKinds

Gives(types, null, words) == [types |-> types, null |-> null, words |-> words]

\* NULL from C is a panic, becomes nil, or does not come.
Creates(at) == Gives({at}, "panic", {})
Finds(at)   == Gives({at}, "nil", {})
Makes(at)   == Gives({at}, "never", {})
Nothing     == Gives({}, "nil", {})

Call(module, name, takes, words, gives) ==
  [module |-> module, name |-> name, takes |-> takes, words |-> words,
   gives |-> gives]

Wlr(name, takes, words, gives) == Call("wlr", name, takes, words, gives)

Layout == Number("int", "layout")
Time   == Number("u64", "time")
Serial == Number("serial", "serial")

\* The 32-bit serial of what was sent, as a signed integer.
GivesSerial == Gives({}, "nil", {Serial})

BoxCall == {Wlr("box", {}, {Layout}, Makes("box"))}

StartCalls ==
  {Wlr("wlr-backend-autocreate", {"wl-display"}, {}, Creates("wlr-backend")),
   Wlr("wlr-backend-destroy", {"wlr-backend"}, {}, Nothing),
   Wlr("wlr-backend-start", {"wlr-backend"}, {}, Nothing),
   Wlr("wlr-renderer-autocreate", {"wlr-backend"}, {}, Creates("wlr-renderer")),
   Wlr("wlr-renderer-init-wl-display", {"wlr-renderer", "wl-display"}, {}, Nothing),
   Wlr("wlr-allocator-autocreate", {"wlr-backend", "wlr-renderer"}, {},
       Creates("wlr-allocator")),
   Wlr("wlr-compositor-create", {"wl-display", "wlr-renderer"}, {},
       Creates("wlr-compositor")),
   Wlr("wlr-subcompositor-create", {"wl-display"}, {}, Creates("wlr-subcompositor")),
   Wlr("wlr-data-device-manager-create", {"wl-display"}, {},
       Creates("wlr-data-device-manager"))}

LayoutCalls ==
  {Wlr("wlr-output-layout-create", {}, {}, Creates("wlr-output-layout")),
   Wlr("wlr-output-layout-destroy", {"wlr-output-layout"}, {}, Nothing),
   Wlr("wlr-output-layout-get", {"wlr-output-layout", "wlr-output"}, {},
       Finds("wlr-output-layout-output")),
   Wlr("wlr-output-layout-get-box", {"wlr-output-layout", "wlr-output"}, {},
       Makes("box"))}
  \cup {Wlr(name, {"wlr-output-layout", "wlr-output"}, {}, Nothing) :
          name \in {"wlr-output-layout-add-auto", "wlr-output-layout-remove"}}
  \cup {Wlr(name, {"wlr-output-layout", "wlr-output"}, {Layout}, Nothing) :
          name \in {"wlr-output-layout-add", "wlr-output-layout-move"}}

LayoutPointCalls ==
  {Wlr("wlr-output-layout-output-at", {"wlr-output-layout"}, {}, Finds("wlr-output")),
   Wlr("wlr-output-layout-contains-point", {"wlr-output-layout", "wlr-output"},
       {Layout}, Nothing),
   Wlr("wlr-output-layout-intersects", {"wlr-output-layout", "wlr-output", "box"},
       {}, Nothing)}
  \cup {Wlr(name, {"wlr-output-layout", "wlr-output"}, {}, Nothing) :
          name \in {"wlr-output-layout-output-coords",
                    "wlr-output-layout-closest-point"}}

LayoutNeighbourCalls ==
  {Wlr("wlr-output-layout-get-center-output", {"wlr-output-layout"}, {},
       Finds("wlr-output"))}
  \cup {Wlr(name, {"wlr-output-layout", "wlr-output"}, {}, Finds("wlr-output")) :
          name \in {"wlr-output-layout-adjacent-output",
                    "wlr-output-layout-farthest-output"}}

SceneCalls ==
  {Wlr("wlr-scene-create", {}, {}, Creates("wlr-scene")),
   Wlr("wlr-scene-attach-output-layout", {"wlr-scene", "wlr-output-layout"}, {},
       Nothing)}

XdgShellCall ==
  {Wlr("wlr-xdg-shell-create", {"wl-display"}, {Number("serial", "version")},
       Creates("wlr-xdg-shell"))}

CursorCalls ==
  {Wlr("wlr-cursor-create", {}, {}, Creates("wlr-cursor")),
   Wlr("wlr-cursor-attach-output-layout", {"wlr-cursor", "wlr-output-layout"}, {},
       Nothing),
   Wlr("wlr-cursor-set-surface", {"wlr-cursor", "wlr-surface"},
       {Number("int", "hotspot")}, Nothing),
   Wlr("wlr-cursor-destroy", {"wlr-cursor"}, {}, Nothing),
   Wlr("wlr-xcursor-manager-create", {}, {Number("serial", "size")},
       Creates("wlr-xcursor-manager")),
   Wlr("wlr-xcursor-manager-load", {"wlr-xcursor-manager"}, {}, Nothing)}
  \cup {Wlr(name, {"wlr-cursor", "wlr-input-device"}, {}, Nothing) :
          name \in {"wlr-cursor-move", "wlr-cursor-warp-absolute",
                    "wlr-cursor-attach-input-device"}}

XcursorCalls ==
  {Wlr("wlr-xcursor-manager-get-xcursor", {"wlr-xcursor-manager"}, {},
       Creates("wlr-xcursor")),
   Wlr("wlr-xcursor-manager-set-cursor-image",
       {"wlr-xcursor-manager", "wlr-cursor"}, {}, Nothing)}

KeyboardCalls ==
  {Wlr("wlr-keyboard-from-input-device", {"wlr-input-device"}, {},
       Creates("wlr-keyboard")),
   Wlr("wlr-keyboard-set-keymap", {"wlr-keyboard", "xkb-keymap"}, {}, Nothing),
   Wlr("wlr-keyboard-set-repeat-info", {"wlr-keyboard"}, {Number("int", "rate")},
       Nothing),
   Wlr("wlr-keyboard-get-modifiers", {"wlr-keyboard"}, {}, Nothing)}

SeatKeyboardCalls ==
  {Wlr("wlr-seat-create", {"wl-display"}, {}, Creates("wlr-seat")),
   Wlr("wlr-seat-set-keyboard", {"wlr-seat", "wlr-keyboard"}, {}, Nothing),
   Wlr("wlr-seat-keyboard-notify-modifiers",
       {"wlr-seat", "wlr-keyboard-modifiers"}, {}, Nothing),
   Wlr("wlr-seat-keyboard-notify-key", {"wlr-seat"},
       {Time, Number("u64", "keycode")}, Nothing),
   Wlr("wlr-seat-keyboard-notify-enter",
       {"wlr-seat", "wlr-surface", "wlr-keyboard-modifiers"},
       {Number("u64", "keycode")}, Nothing),
   Wlr("wlr-seat-keyboard-notify-clear-focus", {"wlr-seat"}, {}, Nothing)}

SeatPointerCalls ==
  {Wlr("wlr-seat-pointer-notify-button", {"wlr-seat"},
       {Time, Number("u64", "button")}, GivesSerial),
   Wlr("wlr-seat-pointer-notify-axis", {"wlr-seat"},
       {Time, Number("int", "discrete")}, Nothing),
   Wlr("wlr-seat-pointer-notify-enter", {"wlr-seat", "wlr-surface"}, {}, Nothing),
   Wlr("wlr-seat-pointer-notify-motion", {"wlr-seat"}, {Time}, Nothing)}
  \cup {Wlr(name, {"wlr-seat"}, {}, Nothing) :
          name \in {"wlr-seat-pointer-notify-frame",
                    "wlr-seat-pointer-notify-clear-focus",
                    "wlr-seat-pointer-clear-focus"}}

SeatCalls ==
  {Wlr("wlr-seat-set-capabilities", {"wlr-seat"}, {}, Nothing),
   Wlr("wlr-seat-set-selection", {"wlr-seat", "wlr-data-source"}, {Serial}, Nothing),
   Wlr("wlr-seat-get-keyboard", {"wlr-seat"}, {}, Finds("wlr-keyboard")),
   Wlr("wlr-seat-destroy", {"wlr-seat"}, {}, Nothing)}

OutputCalls ==
  {Wlr("wlr-output-init-render", {"wlr-output", "wlr-allocator", "wlr-renderer"},
       {}, Nothing),
   Wlr("wlr-output-preferred-mode", {"wlr-output"}, {}, Creates("wlr-output-mode")),
   Wlr("wlr-output-set-mode", {"wlr-output", "wlr-output-mode"}, {}, Nothing)}
  \cup {Wlr(name, {"wlr-output"}, {}, Nothing) :
          name \in {"wlr-output-enable", "wlr-output-commit", "wlr-output-destroy"}}

SurfaceCalls ==
  {Wlr("wlr-surface-send-frame-done", {"wlr-surface", "timespec"}, {}, Nothing),
   Wlr("wlr-xdg-surface-from-wlr-surface", {"wlr-surface"}, {},
       Creates("wlr-xdg-surface")),
   Wlr("wlr-xwayland-surface-from-wlr-surface", {"wlr-surface"}, {},
       Creates("wlr-xwayland-surface"))}
  \cup {Wlr(name, {"wlr-surface"}, {}, Finds("wlr-surface")) :
          name \in {"wlr-surface-get-root-surface", "wlr-surface-surface-at"}}
  \cup {Wlr(name, {"wlr-surface"}, {}, Nothing) :
          name \in {"wlr-surface-is-xwayland-surface", "wlr-surface-is-xdg-surface"}}
  \cup {Wlr(name, {"wlr-surface", "wlr-output"}, {}, Nothing) :
          name \in {"wlr-surface-send-enter", "wlr-surface-send-leave"}}

XdgCalls ==
  {Wlr("wlr-xdg-surface-schedule-configure", {"wlr-xdg-surface"}, {}, GivesSerial),
   Wlr("wlr-xdg-surface-get-geometry", {"wlr-xdg-surface"}, {}, Makes("box")),
   Wlr("wlr-xdg-toplevel-set-size", {"wlr-xdg-toplevel"}, {Layout}, GivesSerial)}
  \cup {Wlr(name, {"wlr-xdg-toplevel"}, {}, GivesSerial) :
          name \in {"wlr-xdg-toplevel-set-activated", "wlr-xdg-toplevel-set-maximized",
                    "wlr-xdg-toplevel-set-fullscreen", "wlr-xdg-toplevel-set-resizing",
                    "wlr-xdg-toplevel-set-tiled"}}

SceneTreeCalls ==
  {Wlr("wlr-scene-xdg-surface-create", {"wlr-scene-tree", "wlr-xdg-surface"}, {},
       Creates("wlr-scene-tree")),
   Wlr("wlr-scene-tree-create", {"wlr-scene-tree"}, {}, Creates("wlr-scene-tree")),
   Wlr("wlr-scene-tree-from-node", {"wlr-scene-node"}, {}, Creates("wlr-scene-tree")),
   Wlr("wlr-scene-surface-create", {"wlr-scene-tree", "wlr-surface"}, {},
       Creates("wlr-scene-surface")),
   Wlr("wlr-scene-subsurface-tree-create", {"wlr-scene-tree", "wlr-surface"}, {},
       Creates("wlr-scene-tree"))}

SceneNodeCalls ==
  {Wlr("wlr-scene-node-at", {"wlr-scene-node"}, {}, Finds("wlr-scene-node")),
   Wlr("wlr-scene-node-reparent", {"wlr-scene-node", "wlr-scene-tree"}, {}, Nothing),
   Wlr("wlr-scene-node-coords", {"wlr-scene-node"}, {}, Gives({}, "nil", {Layout})),
   Wlr("wlr-scene-node-set-position", {"wlr-scene-node"}, {Layout}, Nothing)}
  \cup {Wlr(name, {"wlr-scene-node"}, {}, Nothing) :
          name \in {"wlr-scene-node-destroy", "wlr-scene-node-set-enabled",
                    "wlr-scene-node-place-above", "wlr-scene-node-place-below",
                    "wlr-scene-node-raise-to-top", "wlr-scene-node-lower-to-bottom"}}

SceneOutputCalls ==
  {Wlr("wlr-scene-get-scene-output", {"wlr-scene", "wlr-output"}, {},
       Creates("wlr-scene-output")),
   Wlr("wlr-scene-output-commit", {"wlr-scene-output"}, {}, Nothing),
   Wlr("wlr-scene-output-send-frame-done", {"wlr-scene-output", "timespec"}, {},
       Nothing),
   Wlr("wlr-scene-buffer-from-node", {"wlr-scene-node"}, {},
       Creates("wlr-scene-buffer"))}

SceneSurfaceCall ==
  {Wlr("wlr-scene-surface-from-buffer", {"wlr-scene-buffer"}, {},
       Finds("wlr-scene-surface"))}

XwaylandCalls ==
  {Wlr("wlr-xwayland-create", {"wl-display", "wlr-compositor"}, {},
       Creates("wlr-xwayland")),
   Wlr("wlr-xwayland-destroy", {"wlr-xwayland"}, {}, Nothing),
   Wlr("wlr-xwayland-set-seat", {"wlr-xwayland", "wlr-seat"}, {}, Nothing),
   Wlr("wlr-xwayland-set-cursor", {"wlr-xwayland"},
       {Number("u64", "pixels"), Number("int", "hotspot")}, Nothing)}

XwaylandSurfaceCalls ==
  {Wlr("wlr-xwayland-surface-configure", {"wlr-xwayland-surface"},
       {Number("int16", "x11-position"), Number("word16", "x11-size")}, Nothing)}
  \cup {Wlr(name, {"wlr-xwayland-surface"}, {}, Nothing) :
          name \in {"wlr-xwayland-or-surface-wants-focus",
                    "wlr-xwayland-surface-activate",
                    "wlr-xwayland-surface-set-maximized",
                    "wlr-xwayland-surface-set-minimized",
                    "wlr-xwayland-surface-set-fullscreen",
                    "wlr-xwayland-surface-close", "wlr-xwayland-surface-restack"}}

LayerShellCall ==
  {Wlr("wlr-layer-shell-v1-create", {"wl-display"}, {}, Creates("wlr-layer-shell-v1"))}

DisplayCalls ==
  {Call("wl", "wl-display-create", {}, {}, Creates("wl-display")),
   Call("wl", "wl-display-get-event-loop", {"wl-display"}, {},
        Creates("wl-event-loop"))}
  \cup {Call("wl", name, {"wl-display"}, {}, Nothing) :
          name \in {"wl-display-terminate", "wl-display-destroy",
                    "wl-display-destroy-clients", "wl-display-run",
                    "wl-display-add-socket-auto", "wl-display-flush-clients"}}

ListCalls ==
  {Call("wl", name, {"wl-list"}, {}, Nothing) :
     name \in {"wl-list-empty", "wl-list-length"}}

SignalCalls ==
  {Call("wl", "wl-signal-add", {"wl-signal"}, {}, Makes("listener")),
   Call("wl", "wl-signal-remove", {"listener"}, {}, Nothing)}

ContextCalls ==
  {Call("xkb", "xkb-context-new", {}, {}, Creates("xkb-context")),
   Call("xkb", "xkb-context-unref", {"xkb-context"}, {}, Nothing)}

RuleNamesCall == {Call("xkb", "xkb-rule-names", {}, {}, Makes("xkb-rule-names"))}

KeymapCalls ==
  {Call("xkb", "xkb-keymap-new-from-names", {"xkb-context", "xkb-rule-names"}, {},
        Creates("xkb-keymap")),
   Call("xkb", "xkb-keymap-unref", {"xkb-keymap"}, {}, Nothing)}

SymbolsCall ==
  {Call("xkb", "xkb-state-key-get-syms", {"xkb-state"}, {Number("u64", "keycode")},
        Nothing)}

ConnectionCalls ==
  {Call("xcb", "xcb-connect", {}, {}, Makes("xcb-connection-t")),
   Call("xcb", "xcb-disconnect", {"xcb-connection-t"}, {}, Nothing),
   Call("xcb", "xcb-connection-has-error", {"xcb-connection-t"}, {}, Nothing)}

AtomCalls ==
  {Call("xcb", "xcb-intern-atom", {"xcb-connection-t"}, {},
        Makes("intern-atom-cookie-t")),
   Call("xcb", "xcb-intern-atom-reply", {"xcb-connection-t", "intern-atom-cookie-t"},
        {}, Gives({"xcb-intern-atom-reply-t", "xcb-generic-error-t"}, "nil", {}))}

ClockCall == {Call("util", "clock-gettime", {}, {}, Creates("timespec"))}

Calls ==
  BoxCall \cup StartCalls \cup LayoutCalls \cup LayoutPointCalls
    \cup LayoutNeighbourCalls \cup SceneCalls \cup XdgShellCall \cup CursorCalls
    \cup XcursorCalls \cup KeyboardCalls \cup SeatKeyboardCalls
    \cup SeatPointerCalls \cup SeatCalls \cup OutputCalls \cup SurfaceCalls
    \cup XdgCalls \cup SceneTreeCalls \cup SceneNodeCalls \cup SceneOutputCalls
    \cup SceneSurfaceCall \cup XwaylandCalls \cup XwaylandSurfaceCalls
    \cup LayerShellCall \cup DisplayCalls \cup ListCalls \cup SignalCalls
    \cup ContextCalls \cup RuleNamesCall \cup KeymapCalls \cup SymbolsCall
    \cup ConnectionCalls \cup AtomCalls \cup ClockCall
=============================================================================
