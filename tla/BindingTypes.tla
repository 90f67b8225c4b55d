---------------------------- MODULE BindingTypes ----------------------------
(***************************************************************************)
(* The abstract types of the five native modules.  A type has a getter and *)
(* the keywords its setter accepts; its Janet values hold a pointer to the *)
(* C object or, when inline, the C structure itself.                       *)
(***************************************************************************)
EXTENDS BindingFields

NoKeys == [k \in {} |-> Plain]

\* A wrapped pointer with a getter and a setter, without a setter, without
\* either, and a structure that is itself on the Janet heap.
Settable(get, put)   == [get |-> get, put |-> put, inline |-> FALSE]
Readable(get)        == Settable(get, NoKeys)
Opaque               == Readable(NoKeys)
Held(get, put)       == [get |-> get, put |-> put, inline |-> TRUE]

BoxPut              == Coordinates
XdgSurfacePut       == "data" :> Data
SurfacePut          == Each({"sx", "sy"}, Number("int", "layout")) @@ "data" :> Data
OutputPut           == "data" :> Data
SceneNodePut        == "data" :> Data
XwaylandSurfacePut  == "data" :> Data

ServerTypes ==
  "box" :> Held(BoxGet, BoxPut) @@ "wlr-backend" :> Readable(BackendGet)
    @@ Each({"wlr-renderer", "wlr-allocator", "wlr-compositor",
             "wlr-subcompositor", "wlr-data-device-manager"}, Opaque)

LayoutTypes ==
  "wlr-output-layout" :> Readable(OutputLayoutGet)
    @@ "wlr-output-layout-output" :> Opaque
    @@ "wlr-scene" :> Readable(SceneGet)
    @@ "wlr-scene-output" :> Readable(SceneOutputGet)
    @@ "wlr-xdg-shell" :> Readable(XdgShellGet)

SurfaceTypes ==
  "wlr-surface" :> Settable(SurfaceGet, SurfacePut)
    @@ "wlr-surface-state" :> Readable(SurfaceStateGet)
    @@ "wlr-xdg-popup" :> Readable(XdgPopupGet)
    @@ "wlr-xdg-toplevel" :> Readable(XdgToplevelGet)
    @@ "wlr-xdg-toplevel-resize-event" :> Readable(ToplevelResizeEventGet)
    @@ "wlr-xdg-toplevel-move-event" :> Readable(ToplevelMoveEventGet)
    @@ "wlr-xdg-surface" :> Settable(XdgSurfaceGet, XdgSurfacePut)

CursorTypes ==
  "wlr-cursor" :> Readable(CursorGet) @@ "wlr-xcursor-manager" :> Opaque
    @@ "wlr-xcursor-image" :> Readable(XcursorImageGet)
    @@ "wlr-xcursor" :> Readable(XcursorGet)

SeatTypes == "wlr-seat" :> Readable(SeatGet) @@ "wlr-seat-client" :> Opaque

OutputTypes ==
  "wlr-output" :> Settable(OutputGet, OutputPut)
    @@ "wlr-output-mode" :> Readable(OutputModeGet)
    @@ "wlr-output-cursor" :> Opaque

SceneTypes ==
  "wlr-scene-tree" :> Readable(SceneTreeGet)
    @@ "wlr-scene-node" :> Settable(SceneNodeGet, SceneNodePut)
    @@ "wlr-scene-buffer" :> Opaque
    @@ "wlr-scene-surface" :> Readable(SceneSurfaceGet)

InputTypes ==
  "wlr-input-device" :> Readable(InputDeviceGet)
    @@ "wlr-pointer" :> Readable(PointerGet)
    @@ "wlr-pointer-motion-event" :> Readable(PointerMotionEventGet)
    @@ "wlr-pointer-motion-absolute-event"
         :> Readable(PointerMotionAbsoluteEventGet)
    @@ "wlr-pointer-button-event" :> Readable(PointerButtonEventGet)
    @@ "wlr-pointer-axis-event" :> Readable(PointerAxisEventGet)

SeatStateTypes ==
  "wlr-seat-pointer-state" :> Readable(SeatPointerStateGet)
    @@ "wlr-seat-keyboard-state" :> Readable(SeatKeyboardStateGet)
    @@ "wlr-seat-pointer-request-set-cursor-event" :> Readable(SetCursorEventGet)
    @@ "wlr-seat-request-set-selection-event" :> Readable(SetSelectionEventGet)
    @@ "wlr-data-source" :> Opaque

KeyboardTypes ==
  "wlr-keyboard-modifiers" :> Readable(KeyboardModifiersGet)
    @@ "wlr-keyboard-key-event" :> Readable(KeyboardKeyEventGet)
    @@ "wlr-keyboard" :> Readable(KeyboardGet)

XwaylandTypes ==
  "wlr-xwayland" :> Readable(XwaylandGet)
    @@ "wlr-xwayland-surface" :> Settable(XwaylandSurfaceGet, XwaylandSurfacePut)
    @@ "wlr-xwayland-resize-event" :> Readable(XwaylandResizeEventGet)
    @@ "wlr-xwayland-minimize-event" :> Readable(XwaylandMinimizeEventGet)
    @@ "wlr-xwayland-surface-configure-event" :> Readable(XwaylandConfigureEventGet)
    @@ "wlr-layer-shell-v1" :> Readable(LayerShellGet)

WlrTypes ==
  ServerTypes @@ LayoutTypes @@ SurfaceTypes @@ CursorTypes @@ SeatTypes
    @@ OutputTypes @@ SceneTypes @@ InputTypes @@ SeatStateTypes
    @@ KeyboardTypes @@ XwaylandTypes

WlTypes ==
  Each({"wl-event-loop", "wl-list", "wl-signal", "wl-display"}, Opaque)
    @@ Each({"event-source", "listener"}, Held(NoKeys, NoKeys))

XkbTypes ==
  Each({"xkb-context", "xkb-keymap", "xkb-state"}, Opaque)
    @@ "xkb-rule-names" :> Held(NoKeys, NoKeys)

XcbTypes ==
  "xcb-connection-t" :> Opaque @@ "intern-atom-cookie-t" :> Held(NoKeys, NoKeys)
    @@ "xcb-intern-atom-reply-t" :> Readable(InternAtomReplyGet)
    @@ "xcb-generic-error-t" :> Readable(GenericErrorGet)
    @@ "xcb-size-hints-t" :> Readable(SizeHintsGet)

UtilTypes == "timespec" :> Held(NoKeys, NoKeys)

Types == WlrTypes @@ WlTypes @@ XkbTypes @@ XcbTypes @@ UtilTypes

RegisteredByWlr_NoResize ==
  DOMAIN WlrTypes \ {"wlr-seat-client", "wlr-xcursor-image", "wlr-xcursor",
                     "wlr-layer-shell-v1", "wlr-xwayland-resize-event"}

\* What a module's entry point registers under its own prefix, for lookups
\* by name: all its types, but for four of wlr.
RegisteredByWlr ==
  DOMAIN WlrTypes \ {"wlr-seat-client", "wlr-xcursor-image", "wlr-xcursor",
                     "wlr-layer-shell-v1"}

Registers ==
  [wl   |-> DOMAIN WlTypes,  wlr  |-> RegisteredByWlr, xkb |-> DOMAIN XkbTypes,
   xcb  |-> DOMAIN XcbTypes, util |-> DOMAIN UtilTypes]

Modules == DOMAIN Registers

\* The module whose prefix the name of a type has.
HomeOf(at) ==
  IF at \in DOMAIN WlrTypes THEN "wlr"
  ELSE CHOOSE m \in Modules \ {"wlr"} : at \in Registers[m]

\* The link that wl-list-to-array knows for a type of elements.
LinkOf ==
  Each({"wlr-output-mode", "wlr-output-cursor", "wlr-output-layout-output",
        "wlr-xdg-surface", "wlr-xdg-popup", "wlr-scene-node",
        "wlr-scene-output"}, "link")
    @@ "wlr-xwayland-surface" :> "parent_link"
=============================================================================
