----------------------------- MODULE WlCallbacks -----------------------------
(***************************************************************************)
(* Registration, invocation and removal of the Janet callbacks of wl.c,    *)
(* over Janet's garbage-collected heap.                                    *)
(*                                                                         *)
(* A registration allocates a handle (jwl_listener_t, jwl_event_source_t)  *)
(* as a Janet abstract object and hands a pointer INTO it to libwayland.   *)
(* The collector does not see that pointer: wl.c roots the function (and   *)
(* the stream) and leaves it to the program to keep the handle reachable.  *)
(* A callback runs in a fiber of its own that the collector does not mark  *)
(* either; janet_gclock() keeps it away while callbacks run.               *)
(*                                                                         *)
(* Not in the model: the arguments and the integer result of a callback,   *)
(* and the order in which a signal calls its listeners (SignalEmission).   *)
(***************************************************************************)
EXTENDS Naturals, Sequences, FiniteSets

CONSTANTS
  Fns,               (* Janet functions                                    *)
  Handles,           (* listener and event source objects                  *)
  Streams,           (* Janet streams an fd source may be made from        *)
  None,              (* the NULL pointer                                   *)
  Garbage,           (* what a pointer into swept memory reads             *)
  MaxDepth,          (* bound on the nesting of callbacks                  *)
  RemovesSpentIdle   (* does the program remove an idle source that has    *)
                     (* run, after the dispatch in which libwayland frees  *)
                     (* it                                                 *)

ASSUME ObjectsAssumption ==
  /\ Fns \cap Handles = {} /\ Fns \cap Streams = {} /\ Handles \cap Streams = {}
  /\ None \notin Fns \cup Handles \cup Streams
  /\ Garbage \notin Fns \cup Handles \cup Streams
  /\ IsFiniteSet(Handles)
  /\ MaxDepth \in Nat
  /\ RemovesSpentIdle \in BOOLEAN

Obj    == Fns \cup Handles \cup Streams
Pinned == Fns \cup Streams                  \* what wl.c ever roots

(* A "source" is an fd, timer or signal source: wl.c registers, runs and    *)
(* removes the three alike, but for the stream an fd source may carry.      *)
Kinds == {"listener", "source", "idle"}

VARIABLES
  (* Janet's heap *)
  live,        (* allocated and not swept                                  *)
  swept,       (* reclaimed by the collector                               *)
  roots,       (* how often janet_gcroot() holds an object                 *)
  held,        (* what the main fiber and the globals refer to             *)
  env,         (* function -> what its closure environment reaches         *)
  gc_suspend,  (* janet_vm.gc_suspend                                      *)
  (* the fields of the handles *)
  kind, cb_fn, stream,
  (* libwayland's view *)
  native,      (* handle -> state of the wl_listener or wl_event_source    *)
  frames       (* the callbacks being run, innermost last                  *)

heapVars   == <<live, swept, roots, held, env, gc_suspend>>
handleVars == <<kind, cb_fn, stream>>
vars       == <<heapVars, handleVars, native, frames>>

(* One callback from C: `saved' is the handle janet_gclock() returned and   *)
(* `locals' what only the callback's own fiber refers to.                   *)
Frame == [handle : Handles, fn : Fns \cup {Garbage}, saved : Nat, locals : SUBSET Obj]

TypeOK ==
  /\ live \subseteq Obj /\ swept \subseteq Obj /\ live \cap swept = {}
  /\ roots \in [Pinned -> Nat]
  /\ held \subseteq Obj
  /\ env \in [Fns -> SUBSET Handles]
  /\ gc_suspend \in Nat
  /\ kind \in [Handles -> Kinds]
  /\ cb_fn \in [Handles -> Fns \cup {None}]
  /\ stream \in [Handles -> Streams \cup {None}]
  /\ native \in [Handles -> {"unused", "linked", "removed", "spent", "corrupt"}]
  /\ frames \in Seq(Frame)

Init ==
  /\ live = {} /\ swept = {} /\ held = {}
  /\ roots = [o \in Pinned |-> 0]
  /\ env = [f \in Fns |-> {}]
  /\ gc_suspend = 0
  /\ kind = [h \in Handles |-> "listener"]
  /\ cb_fn = [h \in Handles |-> None]
  /\ stream = [h \in Handles |-> None]
  /\ native = [h \in Handles |-> "unused"]
  /\ frames = <<>>

-----------------------------------------------------------------------------
(* The program's references *)

Fresh(o) == o \notin live \cup swept
Top      == frames[Len(frames)]
Visible  == held \cup (IF frames = <<>> THEN {} ELSE Top.locals)

(* The running code gets a reference: on the main fiber, or in the fiber of *)
(* the innermost callback.                                                  *)
Obtain(os) ==
  IF frames = <<>>
  THEN held' = held \cup os /\ UNCHANGED frames
  ELSE /\ frames' = [frames EXCEPT ![Len(frames)] = [Top EXCEPT !.locals = Top.locals \cup os]]
       /\ UNCHANGED held

(* How a program keeps a handle: in a global, or in a table the registered  *)
(* function closes over (`put view :...-listener' in tinyjl.janet).         *)
Captured(h) == cb_fn[h] \in Fns /\ h \in env[cb_fn[h]]

NewFn(f) ==
  /\ Fresh(f)
  /\ live' = live \cup {f}
  /\ Obtain({f})
  /\ UNCHANGED <<swept, roots, env, gc_suspend, handleVars, native>>

NewStream(st) ==
  /\ Fresh(st)
  /\ live' = live \cup {st}
  /\ Obtain({st})
  /\ UNCHANGED <<swept, roots, env, gc_suspend, handleVars, native>>

(* The program stores a handle in a table function f closes over.           *)
Capture(f, h) ==
  /\ f \in Visible /\ h \in Visible \cap Handles
  /\ env' = [env EXCEPT ![f] = @ \cup {h}]
  /\ UNCHANGED <<live, swept, roots, held, gc_suspend, handleVars, native, frames>>

(* A callback stores an object where the main program finds it.             *)
Store(o) ==
  /\ frames # <<>> /\ o \in Top.locals
  /\ held' = held \cup {o}
  /\ UNCHANGED <<live, swept, roots, env, gc_suspend, handleVars, native, frames>>

(* The program drops a reference, but never the last one to a handle that   *)
(* libwayland still points into.                                            *)
Forget(o) ==
  /\ o \in held
  /\ o \in Handles /\ native[o] = "linked" => Captured(o)
  /\ held' = held \ {o}
  /\ UNCHANGED <<live, swept, roots, env, gc_suspend, handleVars, native, frames>>

-----------------------------------------------------------------------------
(* Registration and removal *)

(* janet_gcroot() and janet_gcunroot() push and drop one occurrence.        *)
Root(os)   == [o \in Pinned |-> IF o \in os THEN roots[o] + 1 ELSE roots[o]]
Unroot(os) == [o \in Pinned |-> IF o \in os /\ roots[o] > 0
                                THEN roots[o] - 1 ELSE roots[o]]

Pins_StreamOnly(f, st) == {st} \ {None}

(* What a registration roots and its removal unroots.                       *)
Pins(f, st) == {f, st} \ {None}

AddFails_RootsFirst(h, st) ==
  /\ Fresh(h)
  /\ st \in Visible \cup {None}
  /\ live' = live \cup {h}
  /\ kind' = [kind EXCEPT ![h] = "source"]
  /\ stream' = [stream EXCEPT ![h] = st]
  /\ roots' = Root({st} \ {None})
  /\ UNCHANGED <<swept, held, env, gc_suspend, cb_fn, native, frames>>

(* A failing add panics with the handle allocated and nothing else done.    *)
AddFails(h, st) ==
  /\ Fresh(h)
  /\ st \in Visible \cup {None}
  /\ live' = live \cup {h}
  /\ kind' = [kind EXCEPT ![h] = "source"]
  /\ stream' = [stream EXCEPT ![h] = st]
  /\ UNCHANGED <<swept, roots, held, env, gc_suspend, cb_fn, native, frames>>

Add(h, k, f, st) ==
  /\ Fresh(h)
  /\ f \in Visible
  /\ live' = live \cup {h}
  /\ kind' = [kind EXCEPT ![h] = k]
  /\ cb_fn' = [cb_fn EXCEPT ![h] = f]
  /\ stream' = [stream EXCEPT ![h] = st]
  /\ native' = [native EXCEPT ![h] = "linked"]
  /\ roots' = Root(Pins(f, st))
  /\ Obtain({h})
  /\ UNCHANGED <<swept, env, gc_suspend>>

(* wl-signal-add and wl-event-loop-add-destroy-listener                     *)
SignalAdd(h, f) == Add(h, "listener", f, None)

(* wl-event-loop-add-fd, from a descriptor or a stream, -add-timer and      *)
(* -add-signal.                                                             *)
SourceAdd(h, f, st) == st \in Visible \cup {None} /\ Add(h, "source", f, st)

(* wl-event-loop-add-idle                                                   *)
IdleAdd(h, f) == Add(h, "idle", f, None)

SignalRemove_KeepsRoot(h) ==
  /\ h \in Visible \cap Handles
  /\ kind[h] = "listener" /\ native[h] = "linked"
  /\ native' = [native EXCEPT ![h] = "removed"]
  /\ UNCHANGED <<heapVars, handleVars, frames>>

(* wl-signal-remove.                                                        *)
(* A rule of the program: it removes a registration once. Nothing in wl.c   *)
(* refuses a second removal: wl_list_remove() would follow the NULL links   *)
(* that the first one left, wl_event_source_remove() work on a source that  *)
(* may be freed, and janet_gcunroot() drop another registration's root.     *)
SignalRemove(h) ==
  /\ h \in Visible \cap Handles
  /\ kind[h] = "listener" /\ native[h] = "linked"
  /\ native' = [native EXCEPT ![h] = "removed"]
  /\ roots' = Unroot(Pins(cb_fn[h], None))
  /\ UNCHANGED <<live, swept, held, env, gc_suspend, handleVars, frames>>

(* wl-event-source-remove. libwayland takes an idle source out of its loop  *)
(* after the callback and frees it in the next dispatch; jwl_event_source_t *)
(* keeps the pointer, and a removal from then on touches freed memory.      *)
SourceRemove(h) ==
  /\ h \in Visible \cap Handles
  /\ kind[h] # "listener"
  /\ \/ native[h] = "linked"
     \/ native[h] = "spent" /\ RemovesSpentIdle
  /\ native' = [native EXCEPT ![h] = IF @ = "linked" THEN "removed" ELSE "corrupt"]
  /\ roots' = Unroot(Pins(cb_fn[h], stream[h]))
  /\ UNCHANGED <<live, swept, held, env, gc_suspend, handleVars, frames>>

-----------------------------------------------------------------------------
(* Callbacks *)

Locked_Not == gc_suspend

(* janet_gclock()                                                           *)
Locked == gc_suspend + 1

(* The C callback reads the function from the handle: from garbage, if the  *)
(* handle or the function has been swept.                                   *)
Called(h) == IF h \in live /\ cb_fn[h] \in live THEN {cb_fn[h]} ELSE Fns \cup {Garbage}

(* The arguments of the callback: the listener itself, or the stream.       *)
Arguments(h) == IF kind[h] = "listener" THEN {h} ELSE {stream[h]} \ {None}

(* libwayland calls a linked handle; signals may be emitted from inside any *)
(* callback. A rule of the program: a callback does not dispatch the loop   *)
(* itself (wl-event-loop-dispatch and -dispatch-idle are not refused there, *)
(* but would call an idle source again that is being called), so that event *)
(* sources are called from the main fiber only.                             *)
Invoke(h) ==
  /\ native[h] = "linked"
  /\ kind[h] # "listener" => frames = <<>>
  /\ Len(frames) < MaxDepth
  /\ \E f \in Called(h) :
       frames' = Append(frames,
         [handle |-> h, fn |-> f, saved |-> gc_suspend,
          locals |-> Arguments(h) \cup (IF f \in Fns THEN {f} \cup env[f] ELSE {})])
  /\ gc_suspend' = Locked
  /\ UNCHANGED <<live, swept, roots, held, env, handleVars, native>>

Unlocked_OnSuccess(outcome) == IF outcome = "ok" THEN Top.saved ELSE gc_suspend

(* janet_gcunlock(locked), whatever janet_pcall() returned.                 *)
Unlocked(outcome) == Top.saved

(* libwayland removes an idle source when its callback has returned.        *)
Finished(h) ==
  IF kind[h] = "idle" /\ native[h] = "linked"
  THEN [native EXCEPT ![h] = "spent"] ELSE native

(* The callback returns, raises or awaits: its fiber is gone for C, and     *)
(* with it what only the fiber referred to.                                 *)
Return(outcome) ==
  /\ frames # <<>>
  /\ \A h \in Top.locals \cap Handles :
       native[h] = "linked" => h \in held \/ Captured(h)
  /\ frames' = SubSeq(frames, 1, Len(frames) - 1)
  /\ gc_suspend' = Unlocked(outcome)
  /\ native' = Finished(Top.handle)
  /\ UNCHANGED <<live, swept, roots, held, env, handleVars>>

-----------------------------------------------------------------------------
(* The collector *)

Marks_NoHandles(o) == IF o \in Fns THEN env[o] ELSE {}

(* What marking an object marks next: a closure's environment, and the      *)
(* gcmark methods of the two handle types.                                  *)
Marks(o) ==
  IF o \in Fns THEN env[o]
  ELSE IF o \in Handles THEN {cb_fn[o], stream[o]} \ {None}
  ELSE {}

(* Marking starts at the roots and the main fiber, not at the fibers of     *)
(* running callbacks.                                                       *)
Base == {o \in Pinned : roots[o] > 0} \cup held

Closed(S) == \A o \in S : Marks(o) \subseteq S

ReachableFrom(B) ==
  {o \in Obj : \A S \in SUBSET Obj : B \subseteq S /\ Closed(S) => o \in S}

Reachable == ReachableFrom(Base)

Survivors == live \cap Reachable

(* janet_collect(): nothing happens while the collector is suspended.       *)
Collect ==
  /\ gc_suspend = 0
  /\ live' = Survivors
  /\ swept' = swept \cup (live \ Reachable)
  /\ UNCHANGED <<roots, held, env, gc_suspend, handleVars, native, frames>>

-----------------------------------------------------------------------------

Program ==
  \/ \E f \in Fns : NewFn(f)
  \/ \E st \in Streams : NewStream(st)
  \/ \E f \in Fns, h \in Handles : Capture(f, h)
  \/ \E o \in Obj : Store(o)
  \/ \E o \in Obj : Forget(o)
  \/ \E h \in Handles, st \in Streams \cup {None} : AddFails(h, st)
  \/ \E h \in Handles, f \in Fns : SignalAdd(h, f)
  \/ \E h \in Handles, f \in Fns, st \in Streams \cup {None} : SourceAdd(h, f, st)
  \/ \E h \in Handles, f \in Fns : IdleAdd(h, f)
  \/ \E h \in Handles : SignalRemove(h)
  \/ \E h \in Handles : SourceRemove(h)

Outcomes == {"ok", "error", "event"}

Next ==
  \/ Program
  \/ \E h \in Handles : Invoke(h)
  \/ \E outcome \in Outcomes : Return(outcome)
  \/ Collect

Spec == Init /\ [][Next]_vars

(* janet_collect() runs whenever the main loop has allocated enough, and a  *)
(* callback is an ordinary Janet call that comes back to C.                 *)
FairSpec ==
  /\ Spec
  /\ SF_vars(Collect)
  /\ WF_vars(\E outcome \in Outcomes : Return(outcome))

-----------------------------------------------------------------------------
(* Properties *)

(* wl_signal_add / wl_event_loop_add_*: as long as libwayland points into a *)
(* handle, the handle, its function and its stream have not been swept,     *)
(* although nothing roots the handle itself.                                *)
LinkedAlive ==
  \A h \in Handles : native[h] = "linked" =>
    /\ h \in live
    /\ cb_fn[h] \in live
    /\ stream[h] # None => stream[h] \in live

(* jwl_listener_notify_callback and the event loop callbacks: what a        *)
(* running callback refers to survives until it returns, although the       *)
(* collector does not mark its fiber and it may have removed itself.        *)
RunningIntact ==
  \A i \in 1..Len(frames) :
    /\ frames[i].handle \in live
    /\ frames[i].fn \in live
    /\ frames[i].locals \subseteq live

(* janet_gclock / janet_gcunlock: the collector is suspended exactly while  *)
(* callbacks run, whatever their outcome and nesting.                       *)
SuspendIsDepth ==
  /\ gc_suspend = Len(frames)
  /\ \A i \in 1..Len(frames) : frames[i].saved = i - 1

(* Does the registration of h still own a root of o?                        *)
Owns(h, o) == native[h] \in {"linked", "spent"} /\ o \in {cb_fn[h], stream[h]}

(* janet_gcroot / janet_gcunroot: an object is rooted once for every        *)
(* registration that is linked, or is an idle source that has run: the      *)
(* root of such a source is released by nothing but wl-event-source-remove. *)
RootsBalanced ==
  \A o \in Pinned : roots[o] = Cardinality({h \in Handles : Owns(h, o)})

(* method_event_source_gcmark, method_listener_gcmark: no object on the     *)
(* heap refers to a swept one.                                              *)
EdgesAlive ==
  /\ \A f \in Fns \cap live : env[f] \subseteq live
  /\ \A h \in Handles \cap live : {cb_fn[h], stream[h]} \ {None} \subseteq live

(* The comment in cfun_wl_event_source_remove: wl_event_source_remove()     *)
(* always succeeds.                                                         *)
RemoveAlwaysSucceeds ==
  \A h \in Handles : native[h] # "corrupt"

(* What the invariants above rest on: the program can reach every linked    *)
(* handle, and a fresh object has no history.                               *)
HandleKept ==
  \A h \in Handles : native[h] = "linked" =>
    \/ h \in held
    \/ Captured(h)
    \/ \E i \in 1..Len(frames) : h \in frames[i].locals

FieldsOK ==
  /\ held \subseteq live
  /\ \A f \in Fns : Fresh(f) => env[f] = {}
  /\ \A h \in Handles : Fresh(h) => native[h] = "unused" /\ cb_fn[h] = None
  /\ \A h \in Handles : native[h] \in {"linked", "spent"} => cb_fn[h] \in Fns
  /\ \A h \in Handles : kind[h] = "listener" => stream[h] = None

(* The inductive invariant. *)
IInv ==
  /\ TypeOK
  /\ FieldsOK
  /\ HandleKept
  /\ RootsBalanced
  /\ LinkedAlive
  /\ RunningIntact
  /\ SuspendIsDepth
  /\ EdgesAlive

(* WlCallbacks implements Registration: the C callback runs the function    *)
(* that was registered, between registration and removal.                   *)
RegistrationOf(h) ==
  IF native[h] = "unused" THEN [state |-> "unused"]
  ELSE IF native[h] = "linked"
       THEN [state |-> "registered", fn |-> cb_fn[h], once |-> kind[h] = "idle"]
       ELSE [state |-> "gone"]

Abstract == INSTANCE Registration WITH
  reg     <- [h \in Handles |-> RegistrationOf(h)],
  running <- [i \in 1..Len(frames) |-> <<frames[i].handle, frames[i].fn>>]

ImplementsRegistration == Abstract!Spec

(* wl-signal-remove / wl-event-source-remove give back all that the         *)
(* registration took: a closure that the program has forgotten and that no  *)
(* registration needs any more is reclaimed, provided the program comes     *)
(* back to its main loop.                                                   *)
Needed == held \cup UNION {{cb_fn[h], stream[h]} \ {None} :
                           h \in {g \in Handles : native[g] \in {"linked", "spent"}}}

Abandoned(f) == f \in live /\ frames = <<>> /\ f \notin ReachableFrom(Needed)

ClosuresReclaimed ==
  []<>(frames = <<>>) => \A f \in Fns : [](Abandoned(f) => <>(f \in swept))
=============================================================================
