----------------------------- MODULE LoopStream -----------------------------
(***************************************************************************)
(* A Wayland event loop driven from the Janet event loop: the descriptor   *)
(* of the first is a stream of the second, and a fiber that calls          *)
(* (:dispatch stream loop) sleeps until it is readable.                    *)
(*                                                                         *)
(* Janet runs one fiber at a time, from a queue of tasks, until it awaits; *)
(* it polls only with the queue empty. Its poll is edge-triggered: a       *)
(* readiness is reported once, to the fiber that waits then.               *)
(*                                                                         *)
(* Not in the model: a second Wayland loop handed to the methods, and the  *)
(* -1 of a failed dispatch, which is scheduled like any other count.       *)
(***************************************************************************)
EXTENDS Naturals, Sequences, SequencesExt

CONSTANTS
  Fibers,           (* the fibers of the program                           *)
  Dispatcher,       (* the one that calls :dispatch                        *)
  None,             (* no fiber                                            *)
  MaxPending,       (* bound on the events waiting in the Wayland loop     *)
  AwaitsElsewhere   (* does the dispatcher ever await anything else        *)

ASSUME FibersAssumption ==
  /\ Dispatcher \in Fibers /\ None \notin Fibers
  /\ MaxPending \in Nat
  /\ AwaitsElsewhere \in BOOLEAN

VARIABLES
  (* the Wayland event loop *)
  loop,          (* "alive" or "destroyed"                                 *)
  pending,       (* events a wl_event_loop_dispatch() would find           *)
  dispatching,   (* is wl_event_loop_dispatch() running                    *)
  (* the stream over its descriptor *)
  stream,        (* "none", "open" or "closed"                             *)
  reader,        (* the fiber with an ev_callback on the stream            *)
  (* the Janet event loop *)
  edge,          (* has the poll a readiness to report                     *)
  reports,       (* events of one poll not yet given to the ev_callback    *)
  tasks,         (* scheduled fibers, with what they resume with           *)
  current        (* the running fiber                                      *)

loopVars   == <<loop, pending, dispatching>>
streamVars == <<stream, reader>>
janetVars  == <<edge, reports, tasks, current>>
vars       == <<loopVars, streamVars, janetVars>>

Values == {"count", "closed", "other"}

TypeOK ==
  /\ loop \in {"alive", "destroyed"}
  /\ pending \in 0..MaxPending
  /\ dispatching \in BOOLEAN
  /\ stream \in {"none", "open", "closed"}
  /\ reader \in Fibers \cup {None}
  /\ edge \in BOOLEAN
  /\ reports \in 0..1
  /\ tasks \in Seq([fiber : Fibers, value : Values])
  /\ current \in Fibers \cup {None}

Init ==
  /\ loop = "alive" /\ dispatching = FALSE
  /\ pending = 0
  /\ stream = "none" /\ reader = None
  /\ edge = FALSE /\ reports = 0
  /\ tasks = <<>>
  /\ current \in Fibers

-----------------------------------------------------------------------------

Queued(f) == \E k \in DOMAIN tasks : tasks[k].fiber = f
Asleep(f) == current # f /\ reader # f /\ ~ Queued(f)
Polling   == current = None /\ ~ dispatching /\ tasks = <<>>

Schedule(f, value) == tasks' = Append(tasks, [fiber |-> f, value |-> value])

(* Something happens on a source of the Wayland loop.                       *)
Event ==
  /\ loop = "alive" /\ pending < MaxPending
  /\ pending' = pending + 1
  /\ edge' = (stream = "open")
  /\ UNCHANGED <<loop, dispatching, streamVars, reports, tasks, current>>

(* A sleeping fiber becomes runnable for a reason of its own.               *)
Wake(f) ==
  /\ Asleep(f)
  /\ Schedule(f, "other")
  /\ UNCHANGED <<loopVars, streamVars, edge, reports, current>>

(* The running fiber awaits something else than the stream: the dispatcher, *)
(* once :dispatch has told it -1.                                           *)
Sleep(f) ==
  /\ current = f
  /\ f = Dispatcher => AwaitsElsewhere \/ loop = "destroyed"
  /\ current' = None
  /\ UNCHANGED <<loopVars, streamVars, edge, reports, tasks>>

Resume ==
  /\ current = None /\ ~ dispatching /\ tasks # <<>>
  /\ current' = Head(tasks).fiber
  /\ tasks' = Tail(tasks)
  /\ UNCHANGED <<loopVars, streamVars, edge, reports>>

(* (:dispatch stream loop). The INIT event of janet_async_start() does      *)
(* nothing: what is pending already is not looked at. On a closed stream    *)
(* the method returns -1 at once, and its caller goes on.                   *)
Dispatch(f) ==
  /\ current = f
  /\ stream = "open" /\ loop = "alive"
  /\ reader' = f
  /\ current' = None
  /\ UNCHANGED <<loopVars, stream, edge, reports, tasks>>

(* wl-event-loop-fd-to-stream, by the dispatcher: Janet's poll looks at a   *)
(* descriptor when it is registered.                                        *)
FdToStream(f) ==
  /\ current = f /\ f = Dispatcher
  /\ loop = "alive" /\ stream = "none"
  /\ stream' = "open"
  /\ edge' = (pending > 0)
  /\ UNCHANGED <<loopVars, reader, reports, tasks, current>>

Canceled_Left == UNCHANGED <<tasks, reader>>

(* The CLOSE event: the fiber that waits is cancelled.                      *)
Canceled ==
  IF reader = None THEN UNCHANGED <<tasks, reader>>
  ELSE Schedule(reader, "closed") /\ reader' = None

(* (:close stream loop)                                                     *)
Close(f) ==
  /\ current = f
  /\ stream = "open" /\ loop = "alive"
  /\ loop' = "destroyed" /\ pending' = 0
  /\ stream' = "closed" /\ edge' = FALSE
  /\ Canceled
  /\ UNCHANGED <<dispatching, reports, current>>

(* wl-event-loop-destroy and wl-display-destroy close the descriptor behind *)
(* the stream's back: not while a fiber waits, and a program that has done  *)
(* it uses the stream no more.                                              *)
Destroy(f) ==
  /\ current = f
  /\ loop = "alive" /\ reader = None
  /\ loop' = "destroyed" /\ pending' = 0
  /\ edge' = FALSE
  /\ UNCHANGED <<dispatching, streamVars, reports, tasks, current>>

Poll_SchedulesOnly ==
  /\ Polling
  /\ edge
  /\ edge' = FALSE
  /\ IF reader = None
     THEN UNCHANGED <<dispatching, reports>>
     ELSE dispatching' = TRUE /\ reports' \in 0..1
  /\ UNCHANGED <<loop, pending, streamVars, tasks, current>>

(* janet_loop1() polls. The ev_callback of the waiting fiber enters         *)
(* wl_event_loop_dispatch(), which takes what it finds; ERR and HUP may     *)
(* have been reported together with READ.                                   *)
Poll ==
  /\ Polling
  /\ edge
  /\ edge' = FALSE
  /\ IF reader = None
     THEN UNCHANGED <<dispatching, pending, reports>>
     ELSE /\ dispatching' = TRUE
          /\ pending' = 0
          /\ reports' \in 0..1
  /\ UNCHANGED <<loop, streamVars, tasks, current>>

Ended_Not == reader

(* janet_async_end()                                                        *)
Ended == None

Dispatched_NoSchedule ==
  /\ dispatching
  /\ reader' = Ended
  /\ dispatching' = FALSE
  /\ reports' = 0
  /\ UNCHANGED <<loop, pending, stream, edge, tasks, current>>

(* The callback schedules the fiber and ends its wait: an event of the same *)
(* poll finds no ev_callback any more.                                      *)
Dispatched ==
  /\ dispatching
  /\ Schedule(reader, "count")
  /\ reader' = Ended
  /\ dispatching' = (reports > 0 /\ Ended # None)
  /\ reports' = 0
  /\ UNCHANGED <<loop, pending, stream, edge, current>>

Next ==
  \/ Event
  \/ \E f \in Fibers : Wake(f)
  \/ \E f \in Fibers : Sleep(f)
  \/ Resume
  \/ \E f \in Fibers : FdToStream(f)
  \/ Dispatch(Dispatcher)
  \/ \E f \in Fibers : Close(f)
  \/ \E f \in Fibers : Destroy(f)
  \/ Poll
  \/ Dispatched

Spec == Init /\ [][Next]_vars

(* The Janet loop runs its tasks and polls, and every fiber comes to its    *)
(* next await.                                                              *)
Fairness ==
  /\ WF_vars(Resume)
  /\ SF_vars(Poll)
  /\ WF_vars(Dispatched)
  /\ WF_vars(FdToStream(Dispatcher))
  /\ WF_vars(Dispatch(Dispatcher))
  /\ \A f \in Fibers : WF_vars(Sleep(f))

FairSpec == Spec /\ Fairness

-----------------------------------------------------------------------------
(* Properties *)

(* wl_event_loop_stream_dispatch_callback: a fiber is running, asleep on    *)
(* the stream or scheduled, and scheduled once. No poll, however many       *)
(* events it reports, resumes it twice.                                     *)
OnePlace ==
  /\ \A j, k \in DOMAIN tasks : tasks[j].fiber = tasks[k].fiber => j = k
  /\ \A k \in DOMAIN tasks : tasks[k].fiber \notin {current, reader}
  /\ current = reader => current = None

(* method_wl_event_loop_stream_dispatch: a fiber never sleeps on the stream *)
(* while events wait for it and nothing is left to report them, provided    *)
(* the dispatcher awaits nothing else between two calls.                    *)
NoLostWakeup == reader # None /\ ~ dispatching /\ pending > 0 => edge

(* method_wl_event_loop_stream_close: nobody is left asleep on a closed     *)
(* stream, and no dispatch runs, or will, on a destroyed loop.              *)
ClosedForAll ==
  /\ reader # None => stream = "open" /\ loop = "alive"
  /\ dispatching => reader # None

(* Every event is dispatched, or lost with the loop, unless the other       *)
(* fibers schedule each other for ever and keep Janet from polling.         *)
EventsDispatched ==
  []<>Polling => (stream = "open" /\ pending > 0 ~> pending = 0)
=============================================================================
