-------------------------- MODULE SceneTrees_proofs -------------------------
(***************************************************************************)
(* Proofs about SceneTrees, for any set of windows: what holds between two *)
(* events follows from what may be pending while an emission is under way. *)
(***************************************************************************)
EXTENDS SceneTrees, SequenceTheorems, TLAPS

Alive(w) == tree[w] = "alive"

(* What holds of every window but the one whose signal is being emitted     *)
AtRest(w) ==
  /\ w \in viewLinked <=> Live(w)
  /\ Alive(w) => Live(w) /\ (w \in enabled <=> state[w] = "mapped")

(* What holds of that one: the handlers that are still to be called         *)
Mapping(w) ==
  /\ state[w] = "mapped" /\ w \in viewLinked
  /\ \/ ~ Alive(w) /\ calls = << <<"viewMap", w>> >>
     \/ Alive(w) /\ calls = << <<"viewMap", w>>, <<"sceneMap", w>> >>
     \/ Alive(w) /\ calls = << <<"sceneMap", w>> >>

Unmapped(w) ==
  /\ state[w] = "unmapped" /\ w \in viewLinked
  /\ Alive(w) /\ calls = << <<"sceneUnmap", w>> >>

Dying(w) ==
  /\ state[w] = "gone"
  /\ \/ ~ Alive(w) /\ w \in viewLinked /\ calls = << <<"viewDestroy", w>> >>
     \/ /\ Alive(w) /\ w \in viewLinked
        /\ calls = << <<"sceneUnmap", w>>, <<"viewDestroy", w>>, <<"sceneDestroy", w>> >>
     \/ /\ Alive(w) /\ w \in viewLinked
        /\ calls = << <<"viewDestroy", w>>, <<"sceneDestroy", w>> >>
     \/ Alive(w) /\ w \notin viewLinked /\ calls = << <<"sceneDestroy", w>> >>

Emitting(w) == Mapping(w) \/ Unmapped(w) \/ Dying(w)

Stage ==
  \/ Quiet /\ \A w \in Windows : AtRest(w)
  \/ \E w \in Windows : Emitting(w) /\ \A v \in Windows \ {w} : AtRest(v)

LinksFollowTrees == sceneLinked = {w \in Windows : Alive(w)}

CollectedAreGone == \A w \in collected : state[w] = "gone" /\ w \notin viewLinked

(* The types of all but `calls', which Stage gives                          *)
Types ==
  /\ state \in [Windows -> {"none", "unmapped", "mapped", "gone"}]
  /\ parent \in [Windows -> Windows \cup {None}]
  /\ tree \in [Windows -> {"none", "alive", "destroyed"}]
  /\ under \in [Windows -> Windows \cup {None}]
  /\ enabled \subseteq Windows /\ viewLinked \subseteq Windows
  /\ sceneLinked \subseteq Windows /\ collected \subseteq Windows

IInv == Types /\ Stage /\ LinksFollowTrees /\ CollectedAreGone

-----------------------------------------------------------------------------

(* The tree of a window is in its own subtree.                              *)
LEMMA InOwnSubtree == \A w \in Windows : w \in Subtree(w) /\ Subtree(w) \subseteq Windows
  BY DEF Subtree

(* The listeners of two signals, of which some are linked                   *)
LEMMA Concatenations ==
  ASSUME NEW S, NEW a \in S, NEW b \in S, NEW c \in S
  PROVE  /\ <<a>> \o <<b>> = <<a, b>>
         /\ <<a>> \o <<>> = <<a>> /\ <<>> \o <<a>> = <<a>>
         /\ <<a, b>> \o <<c>> = <<a, b, c>>
         /\ <<>> \o <<>> = <<>>
<1>1. <<a>> \o <<b>> = <<a, b>>
  <2>1. <<a>> \in Seq(S) /\ <<b>> \in Seq(S) /\ <<a, b>> \in Seq(S)
    OBVIOUS
  <2>2. <<a>> \o <<b>> \in Seq(S) /\ Len(<<a>> \o <<b>>) = Len(<<a, b>>)
    BY <2>1, ConcatProperties
  <2>3. \A i \in 1 .. Len(<<a, b>>) : (<<a>> \o <<b>>)[i] = <<a, b>>[i]
    BY <2>1, ConcatProperties
  <2> QED
    BY <2>1, <2>2, <2>3, SeqEqual
<1>2. <<a>> \o <<>> = <<a>>
  OBVIOUS
<1>3. <<>> \o <<a>> = <<a>>
  OBVIOUS
<1>4. <<a, b>> \o <<c>> = <<a, b, c>>
  <2>1. <<a, b>> \in Seq(S) /\ <<c>> \in Seq(S) /\ <<a, b, c>> \in Seq(S)
    OBVIOUS
  <2>2. <<a, b>> \o <<c>> \in Seq(S) /\ Len(<<a, b>> \o <<c>>) = Len(<<a, b, c>>)
    BY <2>1, ConcatProperties
  <2>3. \A i \in 1 .. Len(<<a, b, c>>) : (<<a, b>> \o <<c>>)[i] = <<a, b, c>>[i]
    BY <2>1, ConcatProperties
  <2> QED
    BY <2>1, <2>2, <2>3, SeqEqual
<1>5. <<>> \o <<>> = <<>>
  OBVIOUS
<1> QED
  BY <1>1, <1>2, <1>3, <1>4, <1>5

(* The handlers that are still to be called when the first has been         *)
LEMMA Heads ==
  /\ \A a : Head(<<a>>) = a /\ Tail(<<a>>) = <<>>
  /\ \A a, b : Head(<<a, b>>) = a /\ Tail(<<a, b>>) = <<b>>
  /\ \A a, b, c : Head(<<a, b, c>>) = a /\ Tail(<<a, b, c>>) = <<b, c>>
  OBVIOUS

LEMMA InitIInv == Init => IInv
  BY DEF Init, IInv, Types, Stage, Quiet, AtRest, Alive, Live, LinksFollowTrees, CollectedAreGone

LEMMA NewWindowStep ==
  ASSUME IInv, NEW w \in Windows, NewWindow(w)
  PROVE  IInv'
<1> USE DEF NewWindow, windowVars, treeVars, linkVars
<1>1. Types'
  BY DEF IInv, Types
<1>2. Quiet' /\ \A v \in Windows : AtRest(v)'
  BY DEF IInv, Types, Stage, Quiet, AtRest, Alive, Live, Emitting, Mapping, Unmapped, Dying
<1>3. LinksFollowTrees' /\ CollectedAreGone'
  BY DEF IInv, Types, LinksFollowTrees, CollectedAreGone, Alive
<1> QED
  BY <1>1, <1>2, <1>3 DEF IInv, Stage

LEMMA SetParentStep ==
  ASSUME IInv, NEW w \in Windows, NEW p \in Windows \cup {None}, SetParent(w, p)
  PROVE  IInv'
<1> USE DEF SetParent, treeVars, linkVars
<1>1. Types' /\ LinksFollowTrees' /\ CollectedAreGone'
  BY DEF IInv, Types, LinksFollowTrees, CollectedAreGone, Alive
<1>2. Stage'
  BY DEF IInv, Stage, Quiet, AtRest, Alive, Live, Emitting, Mapping, Unmapped, Dying
<1> QED
  BY <1>1, <1>2 DEF IInv

LEMMA MapWindowStep ==
  ASSUME IInv, NEW w \in Windows, MapWindow(w)
  PROVE  IInv'
<1> USE DEF MapWindow, treeVars, linkVars
<1>1. Types' /\ LinksFollowTrees' /\ CollectedAreGone'
  BY DEF IInv, Types, LinksFollowTrees, CollectedAreGone, Alive
<1>2. \A v \in Windows : AtRest(v)
  BY DEF IInv, Stage, Quiet, Emitting, Mapping, Unmapped, Dying
<1>3. w \in viewLinked /\ (w \in sceneLinked <=> Alive(w))
  BY <1>2 DEF AtRest, Live, IInv, LinksFollowTrees
<1>4. Mapping(w)'
  <2> DEFINE view  == <<"viewMap", w>>
             scene == <<"sceneMap", w>>
  <2>1. calls' = IF Alive(w) THEN <<view, scene>> ELSE <<view>>
    <3>1. <<view>> \o <<scene>> = <<view, scene>> /\ <<view>> \o <<>> = <<view>>
      BY Concatenations, view \in {view, scene}, scene \in {view, scene}
    <3> QED
      BY <1>3, <3>1 DEF IfLinked
  <2> QED
    BY <1>3, <2>1 DEF Mapping, Alive, IInv, Types
<1>5. \A v \in Windows \ {w} : AtRest(v)'
  BY <1>2 DEF AtRest, Live, Alive, IInv, Types
<1> QED
  BY <1>1, <1>4, <1>5 DEF IInv, Stage, Emitting

LEMMA UnmapWindowStep ==
  ASSUME IInv, NEW w \in Windows, UnmapWindow(w)
  PROVE  IInv'
<1> USE DEF UnmapWindow, Unmapping, IfLinked, treeVars, linkVars
<1>1. Types' /\ LinksFollowTrees' /\ CollectedAreGone'
  BY DEF IInv, Types, LinksFollowTrees, CollectedAreGone, Alive
<1>2. \A v \in Windows : AtRest(v)
  BY DEF IInv, Stage, Quiet, Emitting, Mapping, Unmapped, Dying
<1>3. \A v \in Windows \ {w} : AtRest(v)'
  BY <1>2 DEF AtRest, Live, Alive, IInv, Types
<1>4. CASE Alive(w)
  <2>1. Unmapped(w)'
    BY <1>2, <1>4 DEF Unmapped, AtRest, Live, Alive, IInv, Types, LinksFollowTrees
  <2> QED
    BY <1>1, <1>3, <2>1 DEF IInv, Stage, Emitting
<1>5. CASE ~ Alive(w)
  <2>1. Quiet' /\ AtRest(w)'
    BY <1>2, <1>5 DEF Quiet, AtRest, Live, Alive, IInv, Types, LinksFollowTrees
  <2> QED
    BY <1>1, <1>3, <2>1 DEF IInv, Stage
<1> QED
  BY <1>4, <1>5

LEMMA DestroyWindowStep ==
  ASSUME IInv, NEW w \in Windows, DestroyWindow(w)
  PROVE  IInv'
<1> USE DEF DestroyWindow, treeVars, linkVars
<1>1. Types' /\ LinksFollowTrees' /\ CollectedAreGone'
  BY DEF IInv, Types, LinksFollowTrees, CollectedAreGone, Alive
<1>2. \A v \in Windows : AtRest(v)
  BY DEF IInv, Stage, Quiet, Emitting, Mapping, Unmapped, Dying
<1>3. w \in viewLinked /\ (w \in sceneLinked <=> Alive(w))
  BY <1>2 DEF AtRest, Live, IInv, LinksFollowTrees
<1>4. Dying(w)'
  <2> DEFINE unmap == <<"sceneUnmap", w>>
             view  == <<"viewDestroy", w>>
             scene == <<"sceneDestroy", w>>
  <2>1. calls' = IF ~ Alive(w) THEN <<view>>
                 ELSE IF state[w] = "mapped" THEN <<unmap, view, scene>>
                 ELSE <<view, scene>>
    <3> DEFINE All == {unmap, view, scene}
    <3>1. /\ <<view>> \o <<scene>> = <<view, scene>>
          /\ <<view>> \o <<>> = <<view>> /\ <<>> \o <<view>> = <<view>>
          /\ <<unmap>> \o <<view>> = <<unmap, view>>
          /\ <<unmap, view>> \o <<scene>> = <<unmap, view, scene>>
          /\ <<>> \o <<>> = <<>>
      <4> HIDE DEF unmap, view, scene
      <4> QED
        BY Concatenations, unmap \in All, view \in All, scene \in All
    <3> QED
      BY <1>3, <3>1 DEF IfLinked, Unmapping
  <2> QED
    BY <1>3, <2>1 DEF Dying, Alive, IInv, Types
<1>5. \A v \in Windows \ {w} : AtRest(v)'
  BY <1>2 DEF AtRest, Live, Alive, IInv, Types
<1> QED
  BY <1>1, <1>4, <1>5 DEF IInv, Stage, Emitting

-----------------------------------------------------------------------------
(* The handlers *)

(* The handler that is called is one of those that were pending.            *)
LEMMA Pending ==
  ASSUME IInv, NEW w \in Windows, NEW h \in Handlers, Calls(h, w)
  PROVE  /\ \A v \in Windows \ {w} : AtRest(v)
         /\ \/ /\ h = "viewMap" /\ state[w] = "mapped" /\ w \in viewLinked
               /\ calls' = IF Alive(w) THEN << <<"sceneMap", w>> >> ELSE <<>>
            \/ /\ h = "sceneMap" /\ state[w] = "mapped" /\ w \in viewLinked /\ Alive(w)
               /\ calls' = <<>>
            \/ /\ h = "sceneUnmap" /\ state[w] = "unmapped" /\ w \in viewLinked /\ Alive(w)
               /\ calls' = <<>>
            \/ /\ h = "sceneUnmap" /\ state[w] = "gone" /\ w \in viewLinked /\ Alive(w)
               /\ calls' = << <<"viewDestroy", w>>, <<"sceneDestroy", w>> >>
            \/ /\ h = "viewDestroy" /\ state[w] = "gone"
               /\ calls' = IF Alive(w) THEN << <<"sceneDestroy", w>> >> ELSE <<>>
            \/ /\ h = "sceneDestroy" /\ state[w] = "gone" /\ w \notin viewLinked
               /\ calls' = <<>>
<1>1. PICK u \in Windows : Emitting(u) /\ \A v \in Windows \ {u} : AtRest(v)
  BY DEF IInv, Stage, Calls
<1>2. u = w
  BY <1>1, Heads DEF Emitting, Mapping, Unmapped, Dying, Calls
<1>3. \A x, y, z \in Handlers :
        /\ calls = << <<x, w>> >> => h = x /\ calls' = <<>>
        /\ calls = << <<x, w>>, <<y, w>> >> => h = x /\ calls' = << <<y, w>> >>
        /\ calls = << <<x, w>>, <<y, w>>, <<z, w>> >> =>
             h = x /\ calls' = << <<y, w>>, <<z, w>> >>
  <2> SUFFICES ASSUME NEW x \in Handlers, NEW y \in Handlers, NEW z \in Handlers
               PROVE  /\ calls = << <<x, w>> >> => h = x /\ calls' = <<>>
                      /\ calls = << <<x, w>>, <<y, w>> >> => h = x /\ calls' = << <<y, w>> >>
                      /\ calls = << <<x, w>>, <<y, w>>, <<z, w>> >> =>
                           h = x /\ calls' = << <<y, w>>, <<z, w>> >>
    OBVIOUS
  <2>1. Head(calls) = <<h, w>> /\ calls' = Tail(calls)
    BY DEF Calls
  <2>2. <<h, w>> = <<x, w>> => h = x
    OBVIOUS
  <2>3. calls = << <<x, w>> >> => h = x /\ calls' = <<>>
    BY <2>1, <2>2, Heads
  <2>4. calls = << <<x, w>>, <<y, w>> >> => h = x /\ calls' = << <<y, w>> >>
    BY <2>1, <2>2, Heads
  <2>5. calls = << <<x, w>>, <<y, w>>, <<z, w>> >> =>
          h = x /\ calls' = << <<y, w>>, <<z, w>> >>
    BY <2>1, <2>2, Heads
  <2> QED
    BY <2>3, <2>4, <2>5
<1>4. CASE Mapping(w)
  BY <1>1, <1>2, <1>3, <1>4 DEF Mapping, Handlers
<1>5. CASE Unmapped(w)
  BY <1>1, <1>2, <1>3, <1>5 DEF Unmapped, Handlers
<1>6. CASE Dying(w)
  BY <1>1, <1>2, <1>3, <1>6 DEF Dying, Handlers
<1> QED
  BY <1>1, <1>2, <1>4, <1>5, <1>6 DEF Emitting

LEMMA ViewMapStep ==
  ASSUME IInv, NEW w \in Windows, ViewMap(w)
  PROVE  IInv'
<1> USE DEF ViewMap, windowVars, treeVars
<1>1. /\ \A v \in Windows \ {w} : AtRest(v)
      /\ state[w] = "mapped" /\ w \in viewLinked
      /\ calls' = IF Alive(w) THEN << <<"sceneMap", w>> >> ELSE <<>>
  BY Pending DEF Handlers
<1>2. Types' /\ LinksFollowTrees' /\ CollectedAreGone'
  BY DEF IInv, Types, LinksFollowTrees, CollectedAreGone, Alive, CreateTree
<1>3. \A v \in Windows \ {w} : AtRest(v)'
  BY <1>1 DEF AtRest, Live, Alive, IInv, Types, CreateTree
<1>4. CASE Alive(w)
  <2>1. Mapping(w)'
    BY <1>1, <1>4 DEF Mapping, Alive, CreateTree
  <2> QED
    BY <1>2, <1>3, <2>1 DEF IInv, Stage, Emitting
<1>5. CASE ~ Alive(w)
  <2>1. Quiet' /\ AtRest(w)'
    BY <1>1, <1>5 DEF Quiet, AtRest, Live, Alive, IInv, Types, CreateTree, FindsTree
  <2> QED
    BY <1>2, <1>3, <2>1 DEF IInv, Stage
<1> QED
  BY <1>4, <1>5

LEMMA SceneMapStep ==
  ASSUME IInv, NEW w \in Windows, SceneMap(w)
  PROVE  IInv'
<1> USE DEF SceneMap, windowVars, linkVars
<1>1. /\ \A v \in Windows \ {w} : AtRest(v)
      /\ state[w] = "mapped" /\ w \in viewLinked /\ calls' = <<>>
  BY Pending DEF Handlers
<1>2. Types' /\ LinksFollowTrees' /\ CollectedAreGone'
  BY DEF IInv, Types, LinksFollowTrees, CollectedAreGone, Alive
<1>3. Quiet' /\ \A v \in Windows : AtRest(v)'
  BY <1>1 DEF Quiet, AtRest, Live, Alive
<1> QED
  BY <1>2, <1>3 DEF IInv, Stage

LEMMA SceneUnmapStep ==
  ASSUME IInv, NEW w \in Windows, SceneUnmap(w)
  PROVE  IInv'
<1> USE DEF SceneUnmap, windowVars, linkVars
<1>1. /\ \A v \in Windows \ {w} : AtRest(v)
      /\ w \in viewLinked /\ Alive(w)
      /\ \/ state[w] = "unmapped" /\ calls' = <<>>
         \/ /\ state[w] = "gone"
            /\ calls' = << <<"viewDestroy", w>>, <<"sceneDestroy", w>> >>
  BY Pending DEF Handlers
<1>2. Types' /\ LinksFollowTrees' /\ CollectedAreGone'
  BY DEF IInv, Types, LinksFollowTrees, CollectedAreGone, Alive
<1>3. \A v \in Windows \ {w} : AtRest(v)'
  BY <1>1 DEF AtRest, Live, Alive
<1>4. CASE state[w] = "unmapped"
  <2>1. Quiet' /\ AtRest(w)'
    BY <1>1, <1>4 DEF Quiet, AtRest, Live, Alive
  <2> QED
    BY <1>2, <1>3, <2>1 DEF IInv, Stage
<1>5. CASE state[w] = "gone"
  <2>1. Dying(w)'
    BY <1>1, <1>5 DEF Dying, Alive
  <2> QED
    BY <1>2, <1>3, <2>1 DEF IInv, Stage, Emitting
<1> QED
  BY <1>1, <1>4, <1>5

LEMMA ViewDestroyStep ==
  ASSUME IInv, NEW w \in Windows, ViewDestroy(w)
  PROVE  IInv'
<1> USE DEF ViewDestroy, windowVars, treeVars
<1>1. /\ \A v \in Windows \ {w} : AtRest(v)
      /\ state[w] = "gone"
      /\ calls' = IF Alive(w) THEN << <<"sceneDestroy", w>> >> ELSE <<>>
  BY Pending DEF Handlers
<1>2. Types' /\ LinksFollowTrees' /\ CollectedAreGone'
  BY DEF IInv, Types, LinksFollowTrees, CollectedAreGone, Alive
<1>3. \A v \in Windows \ {w} : AtRest(v)'
  BY <1>1 DEF AtRest, Live, Alive
<1>4. CASE Alive(w)
  <2>1. Dying(w)'
    BY <1>1, <1>4 DEF Dying, Alive
  <2> QED
    BY <1>2, <1>3, <2>1 DEF IInv, Stage, Emitting
<1>5. CASE ~ Alive(w)
  <2>1. Quiet' /\ AtRest(w)'
    BY <1>1, <1>5 DEF Quiet, AtRest, Live, Alive
  <2> QED
    BY <1>2, <1>3, <2>1 DEF IInv, Stage
<1> QED
  BY <1>4, <1>5

LEMMA SceneDestroyStep ==
  ASSUME IInv, NEW w \in Windows, SceneDestroy(w)
  PROVE  IInv'
<1> USE DEF SceneDestroy, NodesDestroyed, windowVars
<1>1. /\ \A v \in Windows \ {w} : AtRest(v)
      /\ state[w] = "gone" /\ w \notin viewLinked /\ calls' = <<>>
  BY Pending DEF Handlers
<1>2. \A v \in Windows : Alive(v)' <=> Alive(v) /\ v \notin Subtree(w)
  BY DEF Alive, IInv, Types
<1>3. Types'
  BY DEF IInv, Types
<1>4. LinksFollowTrees'
  BY <1>2 DEF IInv, Types, LinksFollowTrees
<1>5. CollectedAreGone'
  BY DEF IInv, CollectedAreGone
<1>6. Quiet' /\ \A v \in Windows : AtRest(v)'
  BY <1>1, <1>2, InOwnSubtree DEF Quiet, AtRest, Live
<1> QED
  BY <1>3, <1>4, <1>5, <1>6 DEF IInv, Stage

LEMMA CollectStep ==
  ASSUME IInv, NEW w \in Windows, Collect(w)
  PROVE  IInv'
<1> USE DEF Collect, windowVars, treeVars, linkVars
<1>1. state[w] = "gone"
  BY DEF IInv, Types, Stage, AtRest, Live, Emitting, Mapping, Unmapped, Dying
<1>2. Types' /\ LinksFollowTrees' /\ CollectedAreGone'
  BY <1>1 DEF IInv, Types, LinksFollowTrees, CollectedAreGone, Alive
<1>3. Stage'
  BY DEF IInv, Stage, Quiet, AtRest, Live, Alive, Emitting, Mapping, Unmapped, Dying
<1> QED
  BY <1>2, <1>3 DEF IInv

LEMMA StutterStep ==
  ASSUME IInv, UNCHANGED vars
  PROVE  IInv'
BY DEF IInv, Types, Stage, LinksFollowTrees, CollectedAreGone, Quiet, AtRest, Live, Alive,
       Emitting, Mapping, Unmapped, Dying, vars, windowVars, treeVars, linkVars

THEOREM Inductive == Spec => []IInv
<1>1. IInv /\ [Next]_vars => IInv'
  BY NewWindowStep, SetParentStep, MapWindowStep, UnmapWindowStep, DestroyWindowStep,
     ViewMapStep, SceneMapStep, SceneUnmapStep, ViewDestroyStep, SceneDestroyStep,
     CollectStep, StutterStep DEF Next
<1> QED
  BY <1>1, InitIInv, PTL DEF Spec

-----------------------------------------------------------------------------
(* The properties *)

(* jl_value_to_data_pointer, desktop-view-at: a view that is looked up      *)
(* through the :data of a node is there.                                    *)
THEOREM DataStaysAlive == Spec => []DataAlive
<1>1. IInv => DataAlive
  BY DEF IInv, Stage, Quiet, AtRest, Live, Alive, Emitting, Mapping, Unmapped, Dying,
         CollectedAreGone, DataAlive
<1> QED
  BY <1>1, Inductive, PTL

(* handle-xwayland-surface-destroy and the destroy listener of a tree leave *)
(* no listener on the signals of a window that is gone.                     *)
THEOREM NothingStaysLinked == Spec => []NothingLinked
<1>1. IInv => NothingLinked
  BY DEF IInv, Stage, Quiet, AtRest, Live, Alive, Emitting, Mapping, Unmapped, Dying,
         LinksFollowTrees, NothingLinked
<1> QED
  BY <1>1, Inductive, PTL

(* handle-surface-map and the map and unmap listeners of a tree: what is    *)
(* shown is what is mapped.                                                 *)
THEOREM MappedIsShown == Spec => []ShownIsMapped
<1>1. IInv => ShownIsMapped
  BY DEF IInv, Stage, Quiet, AtRest, Alive, Emitting, Mapping, Unmapped, Dying, ShownIsMapped
<1> QED
  BY <1>1, Inductive, PTL

(* The states have the types that the module states.                        *)
THEOREM TypesHold == Spec => []TypeOK
<1>1. ASSUME IInv PROVE TypeOK
  <2>1. CASE Quiet
    BY <1>1, <2>1 DEF IInv, Types, TypeOK, Quiet
  <2>2. CASE ~ Quiet
    <3>1. PICK w \in Windows : Emitting(w)
      BY <1>1, <2>2 DEF IInv, Stage
    <3> DEFINE Call == Handlers \X Windows
    <3>2. \A a, b, c \in Call : {<<a>>, <<a, b>>, <<a, b, c>>} \subseteq Seq(Call)
      OBVIOUS
    <3>3. \A h \in Handlers : <<h, w>> \in Call
      OBVIOUS
    <3>4. PICK a \in Call, b \in Call, c \in Call : calls \in {<<a>>, <<a, b>>, <<a, b, c>>}
      <4> HIDE DEF Call
      <4> QED
        BY <3>1, <3>3 DEF Emitting, Mapping, Unmapped, Dying, Handlers
    <3>5. calls \in Seq(Call)
      BY <3>2, <3>4
    <3> QED
      BY <1>1, <3>5 DEF IInv, Types, TypeOK
  <2> QED
    BY <2>1, <2>2
<1> QED
  BY <1>1, Inductive, PTL

-----------------------------------------------------------------------------
(* Who destroys a tree *)

(* A window that has no tree is under none.                                 *)
BareIsNowhere ==
  \A w \in Windows :
    /\ tree[w] = "none" => under[w] = None
    /\ state[w] = "none" => tree[w] = "none"

(* What is in a subtree, but for its root, was put under something.         *)
LEMMA SubtreeIsUnder ==
  ASSUME NEW w \in Windows, NEW v \in Subtree(w), v # w
  PROVE  under[v] \in Windows
<1> DEFINE S == {w} \cup {u \in Windows : under[u] \in Windows}
<1>1. S \in SUBSET Windows /\ w \in S /\ \A u \in Windows : under[u] \in S => u \in S
  OBVIOUS
<1> QED
  BY <1>1 DEF Subtree

(* Putting a tree somewhere takes no tree out of a subtree.                 *)
LEMMA SubtreesGrow ==
  ASSUME \A u \in Windows : under[u] \in Windows => under'[u] = under[u]
  PROVE  \A v \in Windows : Subtree(v) \subseteq Subtree(v)'
<1> SUFFICES ASSUME NEW v \in Windows, NEW x \in Subtree(v),
                    NEW S \in SUBSET Windows, v \in S,
                    \A u \in Windows : under'[u] \in S => u \in S
             PROVE  x \in S
  BY DEF Subtree
<1>1. \A u \in Windows : under[u] \in S => u \in S
  OBVIOUS
<1> QED
  BY <1>1 DEF Subtree

(* A step that destroys no tree and brings back no window keeps the         *)
(* explanations there are.                                                  *)
LEMMA LostKept ==
  ASSUME LostWithParent,
         \A u \in Windows : under[u] \in Windows => under'[u] = under[u],
         \A v \in Windows : state[v] = "gone" => state'[v] = "gone",
         \A w \in Windows : Live(w)' /\ tree'[w] = "destroyed" => Live(w) /\ tree[w] = "destroyed"
  PROVE  LostWithParent'
<1> SUFFICES ASSUME NEW w \in Windows, Live(w)', tree'[w] = "destroyed"
             PROVE  \E v \in Windows \ {w} : state'[v] = "gone" /\ w \in Subtree(v)'
  BY DEF LostWithParent
<1>1. PICK v \in Windows \ {w} : state[v] = "gone" /\ w \in Subtree(v)
  BY DEF LostWithParent
<1> QED
  BY <1>1, SubtreesGrow

LEMMA LostStep ==
  ASSUME IInv, BareIsNowhere, LostWithParent, [Next]_vars
  PROVE  BareIsNowhere' /\ LostWithParent'
<1>1. ASSUME NEW w \in Windows, NewWindow(w)
      PROVE  BareIsNowhere' /\ LostWithParent'
  BY <1>1, LostKept DEF NewWindow, treeVars, IInv, Types, BareIsNowhere, Live
<1>2. ASSUME NEW w \in Windows, NEW p \in Windows \cup {None}, SetParent(w, p)
      PROVE  BareIsNowhere' /\ LostWithParent'
  BY <1>2, LostKept DEF SetParent, treeVars, BareIsNowhere, Live
<1>3. ASSUME NEW w \in Windows, MapWindow(w) \/ UnmapWindow(w) \/ DestroyWindow(w)
      PROVE  BareIsNowhere' /\ LostWithParent'
  BY <1>3, LostKept DEF MapWindow, UnmapWindow, DestroyWindow, treeVars, IInv, Types,
                        BareIsNowhere, Live
<1>4. ASSUME NEW w \in Windows, ViewMap(w)
      PROVE  BareIsNowhere' /\ LostWithParent'
  <2>1. state[w] = "mapped"
    BY <1>4, Pending DEF ViewMap, Handlers
  <2> QED
    BY <1>4, <2>1, SceneTreesAssumption, LostKept
       DEF ViewMap, CreateTree, windowVars, treeVars, IInv, Types, BareIsNowhere, Live
<1>5. ASSUME NEW w \in Windows,
             SceneMap(w) \/ SceneUnmap(w) \/ ViewDestroy(w) \/ Collect(w)
      PROVE  BareIsNowhere' /\ LostWithParent'
  BY <1>5, LostKept DEF SceneMap, SceneUnmap, ViewDestroy, Collect, windowVars, treeVars,
                        BareIsNowhere, Live
<1>6. ASSUME NEW w \in Windows, SceneDestroy(w)
      PROVE  BareIsNowhere' /\ LostWithParent'
  <2> USE <1>6 DEF SceneDestroy, NodesDestroyed, windowVars
  <2>1. state[w] = "gone"
    BY Pending DEF Handlers
  <2>2. \A v \in Windows : Subtree(v)' = Subtree(v)
    BY DEF Subtree
  <2>3. \A v \in Windows : tree'[v] = IF v \in Subtree(w) THEN "destroyed" ELSE tree[v]
    OBVIOUS
  <2>4. BareIsNowhere'
    BY <2>1, <2>3, SubtreeIsUnder, SceneTreesAssumption DEF BareIsNowhere
  <2>5. LostWithParent'
    BY <2>1, <2>2, <2>3 DEF LostWithParent, Live
  <2> QED
    BY <2>4, <2>5
<1>7. CASE UNCHANGED vars
  BY <1>7, LostKept DEF vars, windowVars, treeVars, BareIsNowhere, Live
<1> QED
  BY <1>1, <1>2, <1>3, <1>4, <1>5, <1>6, <1>7 DEF Next

(* scene-xwayland-surface-create: a live window loses its tree only with    *)
(* the tree of a window above it that is gone.                              *)
THEOREM LostOnlyWithParent == Spec => []LostWithParent
<1>1. Init => BareIsNowhere /\ LostWithParent
  BY DEF Init, BareIsNowhere, LostWithParent, Live
<1> QED
  BY <1>1, Inductive, LostStep, PTL DEF Spec
=============================================================================
