---------------------------- MODULE BindingKeys -----------------------------
(***************************************************************************)
(* The tables of wlr_abs_types.h: for every type, the keywords that stand  *)
(* for the wl_signals and the wl_lists embedded in the C structure.  The   *)
(* macros paste the name of the C member, so a keyword cannot be paired    *)
(* with the offset of another member.                                      *)
(***************************************************************************)
EXTENDS Sequences

Events(ks) == {"events." \o k : k \in ks}

Swipe == {"swipe_begin", "swipe_update", "swipe_end"}
Pinch == {"pinch_begin", "pinch_update", "pinch_end"}
Motions == {"motion", "motion_absolute", "button", "axis", "frame"}

BackendSignals == Events({"destroy", "new_input", "new_output"})

OutputLayoutSignals == Events({"add", "change", "destroy"})
OutputLayoutLists   == {"outputs"}

SceneLists         == {"outputs"}
SceneOutputSignals == Events({"destroy"})

XdgShellSignals == Events({"new_surface", "destroy"})

SurfaceSignals == Events({"client_commit", "commit", "new_subsurface", "destroy"})

XdgPopupSignals == Events({"reposition"})

XdgToplevelSignals ==
  Events({"request_maximize", "request_fullscreen", "request_minimize",
          "request_move", "request_resize", "request_show_window_menu",
          "set_parent", "set_title", "set_app_id"})

XdgSurfaceSignals ==
  Events({"destroy", "ping_timeout", "new_popup", "map", "unmap",
          "configure", "ack_configure"})
XdgSurfaceLists == {"popups", "configure_list"}

CursorSignals ==
  Events(Motions \cup Swipe \cup Pinch \cup
         {"hold_begin", "hold_end", "touch_up", "touch_down", "touch_motion",
          "touch_cancel", "touch_frame", "tablet_tool_axis",
          "tablet_tool_proximity", "tablet_tool_tip", "tablet_tool_button"})

SeatSignals ==
  Events({"pointer_grab_begin", "pointer_grab_end", "keyboard_grab_begin",
          "keyboard_grab_end", "touch_grab_begin", "touch_grab_end",
          "request_set_cursor", "request_set_selection", "set_selection",
          "request_set_primary_selection", "set_primary_selection",
          "request_start_drag", "start_drag", "destroy"})

OutputSignals ==
  Events({"frame", "damage", "needs_frame", "precommit", "commit", "present",
          "bind", "enable", "mode", "description", "destroy"})
OutputLists == {"resources", "modes", "cursors"}

SceneTreeLists   == {"children"}
SceneNodeSignals == Events({"destroy"})

InputDeviceSignals == Events({"destroy"})

PointerSignals ==
  Events(Motions \cup Swipe \cup Pinch \cup {"hold_begin", "hold_end"})

SeatPointerStateSignals  == Events({"focus_change"})
SeatKeyboardStateSignals == Events({"focus_change"})

KeyboardSignals == Events({"key", "modifiers", "keymap", "repeat_info"})

XwaylandSignals == Events({"ready", "new_surface", "remove_startup_info"})

\* The structure has a list of children too, with a table of its own; the
\* getter consults the table of signals only.
XwaylandSurfaceSignals ==
  Events({"destroy", "request_configure", "request_move", "request_resize",
          "request_minimize", "request_maximize", "request_fullscreen",
          "request_activate", "map", "unmap", "set_title", "set_class",
          "set_role", "set_parent", "set_pid", "set_startup_id",
          "set_window_type", "set_hints", "set_decorations",
          "set_override_redirect", "set_geometry", "ping_timeout"})

LayerShellSignals == Events({"new_surface", "destroy"})

\* Two tables of lists lack the empty entry that ends a search: a keyword
\* that none of their entries has is compared with what lies behind them.
Unterminated == {"wlr-scene", "wlr-xdg-surface"}
=============================================================================
