----------------------------- MODULE SceneTrees -----------------------------
(***************************************************************************)
(* The scene trees that tinyjl keeps for X11 windows: which tree a window  *)
(* gets, who destroys it, which listeners are linked to the signals of a   *)
(* window and of its node, and what the untyped :data pointers lead to.    *)
(*                                                                         *)
(* A window gets one tree, as (xw-surface :data) is never reset: the tree  *)
(* of w is named by w, and tree[w] = "none" says that (xw-surface :data)   *)
(* and (view :scene-tree) are nil. The node's :data is the view of w.      *)
(* Stacking, positions and the subsurface trees are left out.              *)
(***************************************************************************)
EXTENDS Sequences, SequencesExt

CONSTANTS
  Windows,     (* X11 windows, and their views                             *)
  None,        (* nil                                                      *)
  OrphansMap   (* do windows map when their tree, or their parent's, was   *)
               (* destroyed with a window above it                         *)

ASSUME SceneTreesAssumption == None \notin Windows /\ OrphansMap \in BOOLEAN

VARIABLES
  state,       (* what has become of a window                              *)
  parent,      (* (xw-surface :parent)                                     *)
  tree,        (* what has become of its tree                              *)
  under,       (* the window whose tree it was put under, or the root's    *)
  enabled,     (* the trees whose node is enabled                          *)
  viewLinked,  (* the windows that the listeners of their view are on      *)
  sceneLinked, (* the windows that the four listeners of their tree are on *)
  collected,   (* the views that the garbage collector has freed           *)
  calls        (* the handlers that the emission under way has yet to call *)

windowVars == <<state, parent>>
treeVars   == <<tree, under, enabled>>
linkVars   == <<viewLinked, sceneLinked>>
vars       == <<windowVars, treeVars, linkVars, collected, calls>>

Handlers == {"viewMap", "sceneMap", "sceneUnmap", "viewDestroy", "sceneDestroy"}

TypeOK ==
  /\ state \in [Windows -> {"none", "unmapped", "mapped", "gone"}]
  /\ parent \in [Windows -> Windows \cup {None}]
  /\ tree \in [Windows -> {"none", "alive", "destroyed"}]
  /\ under \in [Windows -> Windows \cup {None}]
  /\ {enabled, viewLinked, sceneLinked, collected} \subseteq SUBSET Windows
  /\ calls \in Seq(Handlers \X Windows)

Init ==
  /\ state = [w \in Windows |-> "none"] /\ parent = [w \in Windows |-> None]
  /\ tree = [w \in Windows |-> "none"] /\ under = [w \in Windows |-> None]
  /\ enabled = {} /\ viewLinked = {} /\ sceneLinked = {}
  /\ collected = {}
  /\ calls = <<>>

-----------------------------------------------------------------------------
(* Windows *)

Quiet == calls = <<>>

Live(w) == state[w] \in {"unmapped", "mapped"}

(* An emission calls the listeners in the order they were added.            *)
IfLinked(linked, handler, w) == IF w \in linked THEN << <<handler, w>> >> ELSE <<>>

(* handle-xwayland-new-surface                                              *)
NewWindow(w) ==
  /\ Quiet /\ state[w] = "none"
  /\ state' = [state EXCEPT ![w] = "unmapped"]
  /\ viewLinked' = viewLinked \cup {w}
  /\ UNCHANGED <<parent, treeVars, sceneLinked, collected, calls>>

(* WM_TRANSIENT_FOR is set, changed or removed.                             *)
SetParent(w, p) ==
  /\ Quiet /\ Live(w)
  /\ p # w /\ (p # None => Live(p))
  /\ parent' = [parent EXCEPT ![w] = p]
  /\ UNCHANGED <<state, treeVars, linkVars, collected, calls>>

(* handle-surface-map raises when the parent's :data is nil.                *)
ParentIsBare(w) == parent[w] # None /\ tree[parent[w]] = "none"

(* Else it uses the window's own tree, or makes one under the parent's.     *)
FindsTree(w) ==
  \/ ParentIsBare(w)
  \/ tree[w] = "alive"
  \/ tree[w] = "none" /\ (parent[w] # None => tree[parent[w]] = "alive")

MapWindow(w) ==
  /\ Quiet /\ state[w] = "unmapped"
  /\ FindsTree(w) \/ OrphansMap
  /\ state' = [state EXCEPT ![w] = "mapped"]
  /\ calls' = IfLinked(viewLinked, "viewMap", w) \o IfLinked(sceneLinked, "sceneMap", w)
  /\ UNCHANGED <<parent, treeVars, linkVars, collected>>

(* The view's listener, handle-surface-unmap, leaves the tree alone.        *)
Unmapping(w) == IfLinked(sceneLinked, "sceneUnmap", w)

UnmapWindow(w) ==
  /\ Quiet /\ state[w] = "mapped"
  /\ state' = [state EXCEPT ![w] = "unmapped"]
  /\ calls' = Unmapping(w)
  /\ UNCHANGED <<parent, treeVars, linkVars, collected>>

(* A window is unmapped, then destroyed; its children stay.                 *)
DestroyWindow(w) ==
  /\ Quiet /\ Live(w)
  /\ state' = [state EXCEPT ![w] = "gone"]
  /\ parent' = [v \in Windows |-> IF w \in {v, parent[v]} THEN None ELSE parent[v]]
  /\ calls' = (IF state[w] = "mapped" THEN Unmapping(w) ELSE <<>>)
                \o IfLinked(viewLinked, "viewDestroy", w)
                \o IfLinked(sceneLinked, "sceneDestroy", w)
  /\ UNCHANGED <<treeVars, linkVars, collected>>

-----------------------------------------------------------------------------
(* Handlers *)

Calls(handler, w) ==
  /\ ~ Quiet /\ Head(calls) = <<handler, w>>
  /\ calls' = Tail(calls)

(* scene-xwayland-surface-create, with (xw-surface :data) nil               *)
CreateTree(w) ==
  /\ tree' = [tree EXCEPT ![w] = "alive"]
  /\ under' = [under EXCEPT ![w] = parent[w]]
  /\ sceneLinked' = sceneLinked \cup {w}

(* The model ends where a tree that was destroyed is used.                  *)
ViewMap(w) ==
  /\ FindsTree(w)
  /\ Calls("viewMap", w)
  /\ IF ParentIsBare(w) THEN UNCHANGED <<treeVars, sceneLinked>>
     ELSE /\ IF tree[w] = "none" THEN CreateTree(w) ELSE UNCHANGED <<tree, under, sceneLinked>>
          /\ enabled' = enabled \cup {w}
  /\ UNCHANGED <<windowVars, viewLinked, collected>>

SceneMap_Not(w) ==
  /\ Calls("sceneMap", w)
  /\ UNCHANGED <<windowVars, treeVars, linkVars, collected>>

SceneMap(w) ==
  /\ Calls("sceneMap", w)
  /\ enabled' = enabled \cup {w}
  /\ UNCHANGED <<windowVars, tree, under, linkVars, collected>>

SceneUnmap_Destroys(w) ==
  /\ Calls("sceneUnmap", w)
  /\ tree' = [tree EXCEPT ![w] = "destroyed"]
  /\ enabled' = enabled \ {w} /\ sceneLinked' = sceneLinked \ {w}
  /\ UNCHANGED <<windowVars, under, viewLinked, collected>>

SceneUnmap(w) ==
  /\ Calls("sceneUnmap", w)
  /\ enabled' = enabled \ {w}
  /\ UNCHANGED <<windowVars, tree, under, linkVars, collected>>

(* handle-xwayland-surface-destroy                                          *)
ViewDestroy(w) ==
  /\ Calls("viewDestroy", w)
  /\ viewLinked' = viewLinked \ {w}
  /\ UNCHANGED <<windowVars, treeVars, sceneLinked, collected>>

(* The trees that are under the tree of w, itself included                  *)
Subtree(w) ==
  {v \in Windows : \A S \in SUBSET Windows :
     w \in S /\ (\A u \in Windows : under[u] \in S => u \in S) => v \in S}

(* The destroy listener of a node removes the four listeners of its tree.   *)
NodesDestroyed_Own(w) ==
  /\ tree' = [v \in Windows |-> IF v \in Subtree(w) THEN "destroyed" ELSE tree[v]]
  /\ enabled' = enabled \ Subtree(w)
  /\ sceneLinked' = sceneLinked \ {w}

NodesDestroyed_Never(w) == UNCHANGED <<tree, enabled, sceneLinked>>

(* wlr-scene-node-destroy: a node goes with all that is under it, and the   *)
(* destroy listener of each removes the four listeners of its tree.         *)
NodesDestroyed(w) ==
  /\ tree' = [v \in Windows |-> IF v \in Subtree(w) THEN "destroyed" ELSE tree[v]]
  /\ enabled' = enabled \ Subtree(w)
  /\ sceneLinked' = sceneLinked \ Subtree(w)

SceneDestroy(w) ==
  /\ Calls("sceneDestroy", w)
  /\ NodesDestroyed(w)
  /\ UNCHANGED <<windowVars, under, viewLinked, collected>>

(* A view is rooted by the closures of its listeners; while it is in        *)
(* (server :views) or grabbed they are linked. The node's :data is no root. *)
Collect(w) ==
  /\ state[w] # "none" /\ w \notin viewLinked /\ w \notin collected
  /\ collected' = collected \cup {w}
  /\ UNCHANGED <<windowVars, treeVars, linkVars, calls>>

-----------------------------------------------------------------------------

Next ==
  \/ \E w \in Windows : NewWindow(w)
  \/ \E w \in Windows, p \in Windows \cup {None} : SetParent(w, p)
  \/ \E w \in Windows : MapWindow(w)
  \/ \E w \in Windows : UnmapWindow(w)
  \/ \E w \in Windows : DestroyWindow(w)
  \/ \E w \in Windows : ViewMap(w)
  \/ \E w \in Windows : SceneMap(w)
  \/ \E w \in Windows : SceneUnmap(w)
  \/ \E w \in Windows : ViewDestroy(w)
  \/ \E w \in Windows : SceneDestroy(w)
  \/ \E w \in Windows : Collect(w)

Spec == Init /\ [][Next]_vars

-----------------------------------------------------------------------------
(* Properties *)

(* jl_value_to_data_pointer, desktop-view-at: when the cursor looks a view  *)
(* up through a node's :data, the view has not been collected, and it is    *)
(* the view of a window that exists.                                        *)
DataAlive == Quiet => \A w \in Windows : tree[w] = "alive" => Live(w) /\ w \notin collected

(* handle-xwayland-surface-destroy and the listeners of the tree: a window  *)
(* that is gone has no listener left on its signals, and a tree that was    *)
(* destroyed with its parent's has none left either.                        *)
NothingLinked ==
  Quiet => \A w \in Windows :
    /\ state[w] = "gone" => w \notin viewLinked \cup sceneLinked
    /\ tree[w] = "destroyed" => w \notin sceneLinked

(* handle-surface-map, scene-xwayland-surface-create: between events the    *)
(* trees that are enabled are those of the mapped windows, whichever of two *)
(* listeners enabled them, and also when handle-surface-map raised.         *)
ShownIsMapped ==
  Quiet => \A w \in Windows : tree[w] = "alive" => (w \in enabled <=> state[w] = "mapped")

(* The destroy listener of scene-xwayland-surface-create: a window loses    *)
(* its tree only with the tree of a destroyed window it was put under.      *)
LostWithParent ==
  \A w \in Windows : Live(w) /\ tree[w] = "destroyed" =>
    \E v \in Windows \ {w} : state[v] = "gone" /\ w \in Subtree(v)

(* scene-xwayland-surface-create, "Reuse the node we created when this      *)
(* surface got mapped last time": the node is there to be reused.           *)
ReusedTreeLives ==
  \A w \in Windows :
    Contains(calls, <<"viewMap", w>>) /\ tree[w] # "none" /\ ~ ParentIsBare(w) => tree[w] = "alive"
=============================================================================
