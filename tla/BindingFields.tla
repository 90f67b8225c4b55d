--------------------------- MODULE BindingFields ---------------------------
(***************************************************************************)
(* What (obj :key) reads, for every abstract type of wlr.c and for those   *)
(* of xcb.c, one getter after the other.  The tables are in the order of   *)
(* the lookup: @@ prefers its left side, as the C code returns at the      *)
(* first match.                                                            *)
(***************************************************************************)
EXTENDS FieldKinds, BindingKeys

Coordinates == Each({"x", "y", "width", "height"}, Number("int", "layout"))

BoxGet == Coordinates

BackendGet == Each(BackendSignals, Signal)

OutputLayoutGet ==
  Each(OutputLayoutSignals, Signal) @@ Each(OutputLayoutLists, List)

SceneGet ==
  Each(SceneLists, List) @@ "tree" :> Inside("wlr-scene-tree")

SceneOutputGet ==
  Each(SceneOutputSignals, Signal)
    @@ "output" :> Unchecked("wlr-output")
    @@ "scene" :> Unchecked("wlr-scene")
    @@ Each({"x", "y"}, Number("int", "layout"))

XdgShellGet == Each(XdgShellSignals, Signal)

XdgPopupGet_XdgParent ==
  Each(XdgPopupSignals, Signal) @@ "parent" :> Ref("wlr-xdg-surface")

XdgPopupGet ==
  Each(XdgPopupSignals, Signal) @@ "parent" :> Ref("wlr-surface")

XdgToplevelGet ==
  Each(XdgToplevelSignals, Signal) @@ "base" :> Unchecked("wlr-xdg-surface")

ToplevelResizeEventGet ==
  "toplevel" :> Ref("wlr-xdg-toplevel") @@ "seat" :> Ref("wlr-seat-client")
    @@ "serial" :> Number("serial", "serial") @@ "edges" :> Plain

ToplevelMoveEventGet ==
  "toplevel" :> Ref("wlr-xdg-toplevel") @@ "seat" :> Ref("wlr-seat-client")
    @@ "serial" :> Number("serial", "serial")

XdgSurfaceGet ==
  Each(XdgSurfaceSignals, Signal) @@ Each(XdgSurfaceLists, List)
    @@ "role" :> Plain
    @@ "toplevel" :> Ref("wlr-xdg-toplevel") @@ "popup" :> Ref("wlr-xdg-popup")
    @@ "surface" :> Ref("wlr-surface") @@ "data" :> Data

SurfaceGet ==
  Each(SurfaceSignals, Signal)
    @@ "renderer" :> Ref("wlr-renderer")
    @@ Each({"sx", "sy"}, Number("int", "layout"))
    @@ "current" :> Inside("wlr-surface-state")
    @@ "pending" :> Inside("wlr-surface-state")
    @@ "data" :> Data

SurfaceStateGet ==
  Each({"committed", "seq"}, Plain)
    @@ Each({"dx", "dy", "scale", "width", "height", "buffer-width",
             "buffer-height"}, Number("int", "layout"))

CursorGet ==
  Each(CursorSignals, Signal) @@ Each({"x", "y"}, Plain) @@ "data" :> Data

XcursorImageGet ==
  Each({"width", "height"}, Number("u64", "pixels"))
    @@ Each({"hotspot-x", "hotspot-y"}, Number("serial", "hotspot"))
    @@ Each({"delay", "buffer"}, Plain)

\* The array of images is a reference to each; the loop ends at image-count.
XcursorGet ==
  "images" :> Ref("wlr-xcursor-image") @@ "name" :> String
    @@ Each({"image-count", "total-delay"}, Plain)

SeatGet ==
  Each(SeatSignals, Signal)
    @@ "pointer-state" :> Inside("wlr-seat-pointer-state")
    @@ "keyboard-state" :> Inside("wlr-seat-keyboard-state")

OutputGet ==
  Each(OutputSignals, Signal) @@ Each(OutputLists, List) @@ "data" :> Data

OutputModeGet ==
  Each({"width", "height", "refresh"}, Number("int", "layout"))
    @@ "preferred" :> Plain @@ "picture-aspect-ratio" :> Plain

SceneTreeGet ==
  Each(SceneTreeLists, List) @@ "node" :> Inside("wlr-scene-node")

SceneNodeGet_RootUnchecked ==
  Each(SceneNodeSignals, Signal) @@ "type" :> Plain
    @@ "parent" :> Unchecked("wlr-scene-tree") @@ "enabled" :> Plain
    @@ Each({"x", "y"}, Number("int", "layout")) @@ "data" :> Data

SceneNodeGet ==
  Each(SceneNodeSignals, Signal) @@ "type" :> Plain
    @@ "parent" :> Ref("wlr-scene-tree") @@ "enabled" :> Plain
    @@ Each({"x", "y"}, Number("int", "layout")) @@ "data" :> Data

InputDeviceGet ==
  Each(InputDeviceSignals, Signal) @@ "type" :> Plain
    @@ Each({"vendor", "product"}, Number("serial", "id"))
    @@ "name" :> String @@ "data" :> Data

PointerGet ==
  Each(PointerSignals, Signal) @@ "base" :> Inside("wlr-input-device")
    @@ "output-name" :> RawString @@ "data" :> Data

KeyboardModifiersGet ==
  Each({"depressed", "latched", "locked", "group"}, Plain)

KeyboardKeyEventGet ==
  "time-msec" :> Number("u64", "time") @@ "keycode" :> Number("u64", "keycode")
    @@ "update-state" :> Plain @@ "state" :> Plain

KeyboardGet ==
  Each(KeyboardSignals, Signal) @@ "base" :> Inside("wlr-input-device")
    @@ "keymap-string" :> Plain
    @@ "xkb-state" :> Named("xkb", "xkb-state", FALSE)
    @@ "keycodes" :> Number("u64", "keycode")
    @@ "modifiers" :> Inside("wlr-keyboard-modifiers") @@ "data" :> Data

PointerMotionEventGet ==
  "pointer" :> Ref("wlr-pointer") @@ "time-msec" :> Number("u64", "time")
    @@ Each({"delta-x", "delta-y", "unaccel-dx", "unaccel-dy"}, Plain)

PointerMotionAbsoluteEventGet ==
  "pointer" :> Ref("wlr-pointer") @@ "time-msec" :> Number("u64", "time")
    @@ Each({"x", "y"}, Plain)

PointerButtonEventGet ==
  "pointer" :> Ref("wlr-pointer") @@ "time-msec" :> Number("u64", "time")
    @@ "button" :> Number("u64", "button") @@ "state" :> Plain

PointerAxisEventGet ==
  "pointer" :> Ref("wlr-pointer") @@ "time-msec" :> Number("u64", "time")
    @@ "source" :> Plain @@ "orientation" :> Plain
    @@ "delta" :> Plain @@ "delta-discrete" :> Number("int", "discrete")

SeatPointerStateGet ==
  Each(SeatPointerStateSignals, Signal) @@ "seat" :> Ref("wlr-seat")
    @@ "focused-client" :> Ref("wlr-seat-client")
    @@ "focused-surface" :> Ref("wlr-surface") @@ Each({"sx", "sy"}, Plain)

SeatKeyboardStateGet ==
  Each(SeatKeyboardStateSignals, Signal) @@ "seat" :> Ref("wlr-seat")
    @@ "keyboard" :> Ref("wlr-keyboard")
    @@ "focused-client" :> Ref("wlr-seat-client")
    @@ "focused-surface" :> Ref("wlr-surface")

SetCursorEventGet ==
  "seat-client" :> Unchecked("wlr-seat-client")
    @@ "surface" :> Unchecked("wlr-surface")
    @@ "serial" :> Number("serial", "serial")
    @@ Each({"hotspot-x", "hotspot-y"}, Number("int", "hotspot"))

SetSelectionEventGet ==
  "source" :> Unchecked("wlr-data-source")
    @@ "serial" :> Number("serial", "serial")

SceneSurfaceGet ==
  "buffer" :> Ref("wlr-scene-buffer") @@ "surface" :> Ref("wlr-surface")

XwaylandGet ==
  Each(XwaylandSignals, Signal) @@ "display-name" :> String
    @@ "wl-display" :> Named("wl", "wl-display", TRUE)
    @@ "compositor" :> Ref("wlr-compositor") @@ "seat" :> Ref("wlr-seat")
    @@ "data" :> Data

XwaylandSurfaceGet ==
  Each(XwaylandSurfaceSignals, Signal) @@ "surface" :> Ref("wlr-surface")
    @@ Each({"x", "y"}, Number("int16", "x11-position"))
    @@ Each({"width", "height"}, Number("word16", "x11-size"))
    @@ Each({"title", "class", "instance", "role", "startup-id"}, String)
    @@ "parent" :> Ref("wlr-xwayland-surface")
    @@ "size-hints" :> Named("xkb", "xkb-size-hints-t", TRUE)
    @@ Each({"override-redirect", "mapped", "pid", "window-type",
             "window-type-len", "protocols", "protocols-len", "modal",
             "fullscreen", "maximized-vert", "maximized-horz", "minimized",
             "has-alpha"}, Plain)
    @@ "data" :> Data

XwaylandConfigureEventGet ==
  "surface" :> Ref("wlr-xwayland-surface")
    @@ Each({"x", "y"}, Number("int16", "x11-position"))
    @@ Each({"width", "height"}, Number("word16", "x11-size"))
    @@ "mask" :> Plain

XwaylandResizeEventGet ==
  "surface" :> Ref("wlr-xwayland-surface") @@ "edges" :> Plain

XwaylandMinimizeEventGet ==
  "surface" :> Ref("wlr-xwayland-surface") @@ "minimize" :> Plain

LayerShellGet == Each(LayerShellSignals, Signal) @@ "data" :> Data

InternAtomReplyGet == "atom" :> Number("u64", "atom")

GenericErrorGet == "error-code" :> Plain

SizeHintsGet ==
  "flags" :> Plain
    @@ Each({"x", "y", "width", "height", "min-width", "min-height",
             "max-width", "max-height", "width-inc", "height-inc",
             "min-aspect-num", "min-aspect-den", "max-aspect-num",
             "max-aspect-den", "base-width", "base-height", "win-gravity"},
            Plain)
=============================================================================
