-------------------------- MODULE ServerLoop_proofs --------------------------
(***************************************************************************)
(* The stream over the Wayland loop, for any fibers and any number of      *)
(* pending events: no fiber is resumed twice, closing leaves nobody        *)
(* asleep, and no wakeup is lost if the dispatcher awaits nothing else.    *)
(*                                                                         *)
(* The server uses its loop-stream as LoopStream allows, so what is proved *)
(* of LoopStream holds of it; it obeys a stop, flushes before it sleeps    *)
(* and touches no destroyed display.                                       *)
(***************************************************************************)
EXTENDS ServerLoop, SequenceTheorems, TLAPS

-----------------------------------------------------------------------------
(* The stream, whatever program uses it *)

Task == [fiber : Fibers, value : Values]

(* Who may run, sleep and be scheduled. *)
Places ==
  /\ OnePlace
  /\ ClosedForAll
  /\ reader \in {None, Dispatcher}
  /\ dispatching => current = None

(* As long as the stream is of use, its dispatcher comes back to it, so no  *)
(* poll consumes a readiness that nobody waits for.                         *)
Useful == stream = "open" /\ loop = "alive"

Attended ==
  /\ edge => Useful
  /\ Useful => current = Dispatcher \/ reader = Dispatcher \/ Queued(Dispatcher)
  /\ Useful /\ pending > 0 => edge

IInv == TypeOK /\ Places

LEMMA QueueAppend ==
  ASSUME tasks \in Seq(Task), NEW g \in Fibers, NEW v \in Values, Schedule(g, v)
  PROVE  /\ tasks' \in Seq(Task)
         /\ \A f \in Fibers : Queued(f)' <=> Queued(f) \/ f = g
         /\ DOMAIN tasks' = 1..Len(tasks) + 1
         /\ \A k \in DOMAIN tasks : tasks'[k] = tasks[k]
         /\ tasks'[Len(tasks) + 1].fiber = g
<1>1. [fiber |-> g, value |-> v] \in Task
  BY DEF Task
<1> QED
  BY <1>1 DEF Schedule, Queued

LEMMA QueueElement ==
  ASSUME tasks \in Seq(Task), NEW k \in DOMAIN tasks
  PROVE  tasks[k].fiber \in Fibers
<1>1. tasks[k] \in Task
  OBVIOUS
<1> QED
  BY <1>1 DEF Task

LEMMA QueueTail ==
  ASSUME tasks \in Seq(Task), tasks # <<>>, tasks' = Tail(tasks)
  PROVE  /\ tasks' \in Seq(Task)
         /\ Head(tasks) \in Task /\ Head(tasks) = tasks[1]
         /\ DOMAIN tasks = 1..Len(tasks) /\ 1 \in DOMAIN tasks
         /\ DOMAIN tasks' = 1..Len(tasks) - 1
         /\ \A k \in DOMAIN tasks' : k + 1 \in DOMAIN tasks /\ tasks'[k] = tasks[k + 1]
OBVIOUS

-----------------------------------------------------------------------------

LEMMA NoneIsPending == 0 \in 0..MaxPending
BY FibersAssumption

LEMMA InitIInv == Init => IInv /\ Attended
<1> SUFFICES ASSUME Init PROVE IInv /\ Attended
  OBVIOUS
<1>1. tasks \in Seq([fiber : Fibers, value : Values]) /\ Len(tasks) = 0 /\ DOMAIN tasks = {}
  BY EmptySeq DEF Init
<1>2. TypeOK
  <2>1. /\ loop = "alive" /\ dispatching = FALSE /\ pending = 0 /\ stream = "none"
        /\ reader = None /\ edge = FALSE /\ reports = 0 /\ current \in Fibers
    BY DEF Init
  <2>2. pending \in 0..MaxPending
    BY <2>1, NoneIsPending
  <2>3. tasks \in Seq([fiber : Fibers, value : Values])
    BY <1>1
  <2>4. reports \in 0..1
    BY <2>1
  <2> QED
    BY <2>1, <2>2, <2>3, <2>4 DEF TypeOK
<1>3. Places
  BY <1>1, FibersAssumption DEF Init, Places, OnePlace, ClosedForAll
<1> QED
  BY <1>2, <1>3 DEF Init, IInv, Attended, Useful

(* A fiber that is in no place is scheduled. *)
LEMMA ScheduleOnePlace ==
  ASSUME tasks \in Seq(Task), OnePlace, NEW g \in Fibers, NEW v \in Values,
         Schedule(g, v), ~ Queued(g), current' = current, current # g,
         reader' \in {None, reader}, reader' # g
  PROVE  OnePlace'
<1> USE FibersAssumption
<1>1. /\ DOMAIN tasks' = 1..Len(tasks) + 1
      /\ DOMAIN tasks = 1..Len(tasks) /\ Len(tasks) \in Nat
      /\ \A k \in DOMAIN tasks : tasks'[k] = tasks[k]
      /\ tasks'[Len(tasks) + 1].fiber = g
  BY QueueAppend
<1>2. \A k \in DOMAIN tasks : tasks[k].fiber \in Fibers
  BY QueueElement
<1>3. \A k \in DOMAIN tasks' : k \in DOMAIN tasks \/ k = Len(tasks) + 1
  BY <1>1
<1>4. \A k \in DOMAIN tasks : tasks[k].fiber # g
  BY DEF Queued
<1>5. \A j, k \in DOMAIN tasks' : tasks'[j].fiber = tasks'[k].fiber => j = k
  BY <1>1, <1>3, <1>4 DEF OnePlace
<1>6. \A k \in DOMAIN tasks' : tasks'[k].fiber \notin {current', reader'}
  BY <1>1, <1>2, <1>3 DEF OnePlace
<1>7. current' = reader' => current' = None
  BY DEF OnePlace
<1> QED
  BY <1>5, <1>6, <1>7 DEF OnePlace

LEMMA ResumeStep ==
  ASSUME IInv, Resume
  PROVE  IInv' /\ \A f \in Fibers : Queued(f) => Queued(f)' \/ current' = f
<1> USE FibersAssumption DEF IInv
<1>1. tasks \in Seq(Task) /\ tasks # <<>> /\ tasks' = Tail(tasks)
  BY DEF TypeOK, Task, Resume
<1>2. /\ tasks' \in Seq(Task)
      /\ Head(tasks) \in Task /\ Head(tasks) = tasks[1]
      /\ DOMAIN tasks = 1..Len(tasks) /\ 1 \in DOMAIN tasks /\ Len(tasks) \in Nat
      /\ DOMAIN tasks' = 1..Len(tasks) - 1
      /\ \A k \in DOMAIN tasks' : k + 1 \in DOMAIN tasks /\ tasks'[k] = tasks[k + 1]
  BY <1>1, QueueTail
<1>3. current' = tasks[1].fiber /\ current' \in Fibers /\ current' # reader
  BY <1>2 DEF Resume, Task, Places, OnePlace
<1>4. TypeOK'
  BY <1>2, <1>3 DEF TypeOK, Resume, Task, loopVars, streamVars
<1>5. \A k \in DOMAIN tasks' : k \in Nat /\ k + 1 # 1
  BY <1>2
<1>6. OnePlace'
  BY <1>2, <1>3, <1>5 DEF Places, OnePlace, Resume, streamVars
<1>7. Places'
  BY <1>6 DEF Places, ClosedForAll, Resume, loopVars, streamVars
<1>8. ASSUME NEW f \in Fibers, Queued(f), current' # f PROVE Queued(f)'
  <2>1. PICK k \in DOMAIN tasks : tasks[k].fiber = f
    BY <1>8 DEF Queued
  <2>2. k # 1 /\ k - 1 \in DOMAIN tasks' /\ k - 1 + 1 = k
    BY <1>2, <1>3, <1>8, <2>1
  <2> QED
    BY <1>2, <2>1, <2>2 DEF Queued
<1> QED
  BY <1>4, <1>7, <1>8

(* Every step but Resume. *)
LEMMA OtherStep ==
  ASSUME IInv, [Next]_vars, ~ Resume
  PROVE  IInv'
<1> USE FibersAssumption DEF IInv
<1>0. tasks \in Seq(Task)
  BY DEF TypeOK, Task
<1>1. CASE Event
  <2>1. TypeOK'
    BY <1>1 DEF Event, TypeOK, streamVars
  <2> QED
    BY <1>1, <2>1 DEF Event, Places, OnePlace, ClosedForAll, streamVars
<1>2. ASSUME NEW f \in Fibers, Wake(f) PROVE IInv'
  <2>1. "other" \in Values
    BY DEF Values
  <2>2. tasks' \in Seq(Task)
    BY <1>0, <1>2, <2>1, QueueAppend DEF Wake
  <2>3. TypeOK'
    BY <1>2, <2>2 DEF Wake, TypeOK, Task, loopVars, streamVars
  <2>4. OnePlace'
    BY <1>0, <1>2, <2>1, ScheduleOnePlace DEF Wake, Asleep, Places, streamVars
  <2> QED
    BY <1>2, <2>3, <2>4 DEF Wake, Places, ClosedForAll, loopVars, streamVars
<1>3. ASSUME NEW f \in Fibers, Sleep(f) PROVE IInv'
  <2>1. TypeOK'
    BY <1>3 DEF Sleep, TypeOK, loopVars, streamVars
  <2>2. \A k \in DOMAIN tasks : tasks[k].fiber \in Fibers
    BY <1>0, QueueElement
  <2> QED
    BY <1>3, <2>1, <2>2 DEF Sleep, Places, OnePlace, ClosedForAll, loopVars, streamVars
<1>4. ASSUME NEW f \in Fibers, FdToStream(f) PROVE IInv'
  <2>1. TypeOK'
    BY <1>4 DEF FdToStream, TypeOK, loopVars
  <2> QED
    BY <1>4, <2>1 DEF FdToStream, Places, OnePlace, ClosedForAll, loopVars
<1>5. CASE Dispatch(Dispatcher)
  <2>1. TypeOK'
    BY <1>5 DEF Dispatch, TypeOK, loopVars
  <2>2. \A k \in DOMAIN tasks : tasks[k].fiber \in Fibers
    BY <1>0, QueueElement
  <2>3. OnePlace'
    BY <1>5, <2>2 DEF Dispatch, Places, OnePlace
  <2> QED
    BY <1>5, <2>1, <2>3 DEF Dispatch, Places, ClosedForAll, loopVars
<1>6. ASSUME NEW f \in Fibers, Close(f) PROVE IInv'
  <2>1. ~ dispatching
    BY <1>6 DEF Close, Places
  <2>2. CASE reader = None
    <3>1. UNCHANGED <<tasks, reader, current, dispatching, reports>>
      BY <1>6, <2>2 DEF Close, Canceled
    <3>2. TypeOK'
      BY <1>6, <3>1, NoneIsPending DEF Close, TypeOK
    <3> QED
      BY <2>1, <2>2, <3>1, <3>2 DEF Places, OnePlace, ClosedForAll
  <2>3. CASE reader # None
    <3>1. reader \in Fibers /\ Schedule(reader, "closed") /\ reader' = None
      BY <1>6, <2>3 DEF Close, Canceled, Places
    <3>2. "closed" \in Values
      BY DEF Values
    <3>3. tasks' \in Seq(Task)
      BY <1>0, <3>1, <3>2, QueueAppend
    <3>4. TypeOK'
      BY <1>6, <3>1, <3>3, NoneIsPending DEF Close, TypeOK, Task
    <3>5. ~ Queued(reader) /\ current # reader /\ current' = current
      BY <1>6, <2>3 DEF Close, Places, OnePlace, Queued
    <3>6. OnePlace'
      BY <1>0, <2>3, <3>1, <3>2, <3>5, ScheduleOnePlace DEF Places
    <3> QED
      BY <1>6, <2>1, <3>1, <3>4, <3>6 DEF Close, Places, ClosedForAll
  <2> QED
    BY <2>2, <2>3
<1>7. ASSUME NEW f \in Fibers, Destroy(f) PROVE IInv'
  <2>1. TypeOK'
    BY <1>7, NoneIsPending DEF Destroy, TypeOK, streamVars
  <2> QED
    BY <1>7, <2>1 DEF Destroy, Places, OnePlace, ClosedForAll, streamVars
<1>8. CASE Poll
  <2>1. TypeOK'
    BY <1>8, NoneIsPending DEF Poll, TypeOK, streamVars
  <2> QED
    BY <1>8, <2>1 DEF Poll, Polling, Places, OnePlace, ClosedForAll, streamVars
<1>9. CASE Dispatched
  <2>1. reader \in Fibers /\ reader # None /\ Schedule(reader, "count") /\ reader' = None
    BY <1>9 DEF Dispatched, Ended, Places, ClosedForAll, TypeOK
  <2>2. "count" \in Values
    BY DEF Values
  <2>3. tasks' \in Seq(Task)
    BY <1>0, <2>1, <2>2, QueueAppend
  <2>4. ~ dispatching'
    BY <1>9 DEF Dispatched, Ended
  <2>5. TypeOK'
    BY <1>9, <2>1, <2>3, <2>4 DEF Dispatched, TypeOK, Task
  <2>6. ~ Queued(reader) /\ current # reader /\ current' = current
    BY <1>9, <2>1 DEF Dispatched, Places, OnePlace, Queued
  <2>7. OnePlace'
    BY <1>0, <2>1, <2>2, <2>6, ScheduleOnePlace DEF Places
  <2> QED
    BY <1>9, <2>1, <2>4, <2>5, <2>7 DEF Dispatched, Places, ClosedForAll
<1>10. CASE UNCHANGED vars
  BY <1>10 DEF vars, loopVars, streamVars, janetVars, TypeOK, Places, OnePlace, ClosedForAll
<1> QED
  BY <1>1, <1>2, <1>3, <1>4, <1>5, <1>6, <1>7, <1>8, <1>9, <1>10 DEF Next

-----------------------------------------------------------------------------
(* Lost wakeups *)

LEMMA AttendedStep ==
  ASSUME ~ AwaitsElsewhere, IInv, Attended, [Next]_vars
  PROVE  Attended'
<1> USE FibersAssumption DEF IInv, Useful
<1>0. tasks \in Seq(Task) /\ pending \in Nat
  BY DEF TypeOK, Task
<1>1. CASE Event
  BY <1>0, <1>1 DEF Event, Attended, Queued, streamVars
<1>2. ASSUME NEW f \in Fibers, Wake(f) PROVE Attended'
  <2>1. Queued(Dispatcher) => Queued(Dispatcher)'
    BY <1>0, <1>2, QueueAppend DEF Wake, Values
  <2> QED
    BY <1>2, <2>1 DEF Wake, Attended, loopVars, streamVars
<1>3. ASSUME NEW f \in Fibers, Sleep(f) PROVE Attended'
  BY <1>3 DEF Sleep, Attended, Queued, loopVars, streamVars, TypeOK
<1>4. CASE Resume
  <2>1. Queued(Dispatcher) => Queued(Dispatcher)' \/ current' = Dispatcher
    BY <1>4, ResumeStep
  <2>2. current = None /\ UNCHANGED <<loop, pending, stream, reader, edge>>
    BY <1>4 DEF Resume, loopVars, streamVars
  <2> QED
    BY <2>1, <2>2 DEF Attended
<1>5. ASSUME NEW f \in Fibers, FdToStream(f) PROVE Attended'
  BY <1>0, <1>5 DEF FdToStream, Attended, Queued, loopVars
<1>6. CASE Dispatch(Dispatcher)
  BY <1>6 DEF Dispatch, Attended, loopVars
<1>7. ASSUME NEW f \in Fibers, Close(f) PROVE Attended'
  BY <1>7 DEF Close, Attended
<1>8. ASSUME NEW f \in Fibers, Destroy(f) PROVE Attended'
  BY <1>8 DEF Destroy, Attended
<1>9. CASE Poll
  <2>1. Useful
    BY <1>9 DEF Poll, Attended
  <2>2. ~ Queued(Dispatcher) /\ current = None
    BY <1>9 DEF Poll, Polling, Queued
  <2>3. reader = Dispatcher
    BY <2>1, <2>2 DEF Attended
  <2>4. pending' = 0 /\ edge' = FALSE /\ reader' = reader
    BY <1>9, <2>3 DEF Poll, streamVars
  <2> QED
    BY <2>3, <2>4 DEF Attended
<1>10. CASE Dispatched
  <2>1. reader = Dispatcher
    BY <1>10 DEF Dispatched, Places, ClosedForAll
  <2>2. Queued(Dispatcher)'
    BY <1>0, <1>10, <2>1, QueueAppend DEF Dispatched, Values
  <2> QED
    BY <1>10, <2>2 DEF Dispatched, Attended
<1>11. CASE UNCHANGED vars
  BY <1>11 DEF vars, loopVars, streamVars, janetVars, Attended, Queued
<1> QED
  BY <1>1, <1>2, <1>3, <1>4, <1>5, <1>6, <1>7, <1>8, <1>9, <1>10, <1>11 DEF Next

-----------------------------------------------------------------------------
(* What follows for LoopStream *)

LEMMA Invariance == Spec => []IInv
<1>1. IInv /\ [Next]_vars => IInv'
  BY ResumeStep, OtherStep
<1> QED
  BY InitIInv, <1>1, PTL DEF Spec

(* The type invariant.                                                      *)
THEOREM LoopTypeCorrect == Spec => []TypeOK
<1>1. IInv => TypeOK
  BY DEF IInv
<1> QED
  BY Invariance, <1>1, PTL

(* wl_event_loop_stream_dispatch_callback schedules a fiber that waits, and *)
(* ends its wait: no fiber is ever scheduled twice, or while it runs.       *)
THEOREM NeverResumedTwice == Spec => []OnePlace
<1>1. IInv => OnePlace
  BY DEF IInv, Places
<1> QED
  BY Invariance, <1>1, PTL

(* method_wl_event_loop_stream_close wakes the fiber that waits: nobody is  *)
(* asleep on a closed stream or in a destroyed loop.                        *)
THEOREM NobodyLeftAsleep == Spec => []ClosedForAll
<1>1. IInv => ClosedForAll
  BY DEF IInv, Places
<1> QED
  BY Invariance, <1>1, PTL

(* method_wl_event_loop_stream_dispatch: although it ignores what is        *)
(* pending when it starts to wait, no wakeup is lost to a dispatcher that   *)
(* awaits nothing else while the stream is open.                            *)
THEOREM NoWakeupLost ==
  ASSUME ~ AwaitsElsewhere
  PROVE  Spec => []NoLostWakeup
<1>1. IInv /\ Attended /\ [Next]_vars => Attended'
  BY AttendedStep
<1>2. IInv /\ Attended => NoLostWakeup
  BY DEF IInv, Attended, Places, ClosedForAll, NoLostWakeup, Useful
<1> QED
  BY InitIInv, Invariance, <1>1, <1>2, PTL DEF Spec

-----------------------------------------------------------------------------

LEMMA ServerFibers ==
  /\ Dispatcher \in Fibers /\ Main \in Fibers /\ Signal \in Fibers /\ Repl \in Fibers
  /\ None \notin {Dispatcher, Main, Signal, Repl}
  /\ Dispatcher \notin {Main, Signal, Repl}
  /\ Main \notin {Signal, Repl}
BY FibersAssumption, ServerAssumption

-----------------------------------------------------------------------------
(* The server is such a program *)

LEMMA ServeStep == Serve => [Next]_vars
<1> SUFFICES ASSUME Serve PROVE [Next]_vars
  OBVIOUS
<1> USE ServerFibers
<1>1. CASE Enter
  BY <1>1 DEF Enter, Next
<1>2. CASE Test \/ FlushClients \/ DestroyXwayland \/ DestroyClients \/ CloseRepl
  BY <1>2 DEF Test, FlushClients, DestroyXwayland, DestroyClients, CloseRepl
<1>3. CASE ServerDispatch
  BY <1>3 DEF ServerDispatch, Next
<1>4. CASE DestroyDisplay
  BY <1>4 DEF DestroyDisplay, Next
<1>5. CASE RemoveSocket
  BY <1>5 DEF RemoveSocket, Next
<1> QED
  BY <1>1, <1>2, <1>3, <1>4, <1>5 DEF Serve

LEMMA ServerStep == [ServerNext]_allVars => [Next]_vars
<1> SUFFICES ASSUME [ServerNext]_allVars PROVE [Next]_vars
  OBVIOUS
<1> USE ServerFibers
<1>1. CASE StartFails
  BY <1>1 DEF StartFails, Next
<1>2. CASE Spawn
  BY <1>2 DEF Spawn, Next
<1>3. CASE MainReturns
  BY <1>3 DEF MainReturns, Next
<1>4. CASE Serve
  BY <1>4, ServeStep
<1>5. CASE Start \/ HandlerStops \/ HandlerSends \/ FiberStops \/ ReplSends
  BY <1>5 DEF Start, HandlerStops, HandlerSends, FiberStops, ReplSends
<1>6. CASE Arrives
  BY <1>6 DEF Arrives, Next
<1>7. CASE Janet
  BY <1>7 DEF Janet, Next
<1>8. CASE UNCHANGED allVars
  BY <1>8 DEF allVars
<1> QED
  BY <1>1, <1>2, <1>3, <1>4, <1>5, <1>6, <1>7, <1>8 DEF ServerNext

(* server-run makes, uses and gives up its loop-stream as LoopStream lets a *)
(* program do: in particular it awaits nothing else between two calls of    *)
(* :dispatch, which is what keeps it from losing a wakeup.                  *)
THEOREM ServerImplementsLoopStream == ServerSpec => ImplementsLoopStream
<1>1. ServerInit => Init
  BY DEF ServerInit
<1> QED
  BY <1>1, ServerStep, PTL DEF ServerSpec, ImplementsLoopStream, Spec

-----------------------------------------------------------------------------
(* The inductive invariant of the server *)

(* Until server-run has made its stream, no fiber but main and its own has  *)
(* ever been scheduled, so nobody can have asked for a stop.                *)
OnlyServer == \A k \in DOMAIN tasks : tasks[k].fiber = Dispatcher

Starting ==
  /\ pc \in {"start", "spawn"} => current = Main /\ tasks = <<>>
  /\ pc = "sigaction" => current = Main /\ tasks # <<>> /\ OnlyServer
  /\ pc = "enter" =>
       \/ current = None /\ tasks # <<>> /\ OnlyServer
       \/ current = Dispatcher
  /\ pc \in {"start", "spawn", "sigaction", "enter"} => ~ dispatching /\ ~ asked /\ reader = None

Stops ==
  /\ StopHolds
  /\ pc \in {"test", "flush", "dispatch"} => running \/ asked

Flushed ==
  /\ FlushedBeforeSleep
  /\ pc = "dispatch" => "handler" \notin outbox
  /\ pc \in {"flush", "dispatch"} => current = Dispatcher

ServerInv == Starting /\ Stops /\ Flushed

LEMMA InitServerInv == ServerInit => ServerInv
BY ServerFibers
   DEF ServerInit, Init, ServerInv, Starting, Stops, StopHolds, Flushed, FlushedBeforeSleep,
       Teardown

LEMMA ServerInvStep ==
  ASSUME IInv, ServerInv, [ServerNext]_allVars
  PROVE  ServerInv'
<1> USE ServerFibers DEF ServerInv
<1>0. /\ tasks \in Seq(Task)
      /\ dispatching => current = None
      /\ dispatching => reader # None
  BY DEF IInv, TypeOK, Places, ClosedForAll, Task
<1>1. CASE StartFails
  BY <1>1 DEF StartFails, Goto, Destroy, Starting, Stops, StopHolds, Flushed,
              FlushedBeforeSleep, Teardown, streamVars
<1>2. CASE Start
  BY <1>2 DEF Start, Goto, Starting, Stops, StopHolds, Flushed, FlushedBeforeSleep,
              Teardown, vars, loopVars, streamVars, janetVars
<1>3. CASE Spawn
  <2>1. pc = "spawn" /\ pc' = "sigaction" /\ current = Main /\ tasks = <<>>
    BY <1>3 DEF Spawn, Goto, Starting
  <2>2. tasks' = <<[fiber |-> Dispatcher, value |-> "other"]>>
    BY <1>3, <2>1 DEF Spawn, Wake, Schedule
  <2>3. tasks' # <<>> /\ OnlyServer'
    BY <2>2 DEF OnlyServer
  <2>4. UNCHANGED <<loopVars, streamVars, current, running, asked, outbox>>
    BY <1>3 DEF Spawn, Wake
  <2> QED
    BY <2>1, <2>3, <2>4 DEF Starting, Stops, StopHolds, Flushed, FlushedBeforeSleep,
              Teardown, loopVars, streamVars
<1>4. CASE MainReturns
  BY <1>4 DEF MainReturns, Goto, Sleep, Starting, OnlyServer, Stops, StopHolds, Flushed,
              FlushedBeforeSleep, Teardown, loopVars, streamVars
<1>5. CASE Enter
  BY <1>5 DEF Enter, Goto, FdToStream, Starting, Stops, StopHolds, Flushed,
              FlushedBeforeSleep, Teardown, loopVars
<1>6. CASE Test
  BY <1>0, <1>6 DEF Test, Starting, Stops, StopHolds, Flushed, FlushedBeforeSleep,
              Teardown, vars, loopVars, streamVars, janetVars
<1>7. CASE FlushClients
  BY <1>0, <1>7 DEF FlushClients, Serving, Goto, Starting, Stops, StopHolds, Flushed,
              FlushedBeforeSleep, Teardown, vars, loopVars, streamVars, janetVars
<1>8. CASE ServerDispatch
  BY <1>8 DEF ServerDispatch, Goto, Dispatch, Starting, Stops, StopHolds, Flushed,
              FlushedBeforeSleep, Teardown, loopVars
<1>9. CASE DestroyXwayland \/ DestroyClients \/ CloseRepl
  BY <1>9 DEF DestroyXwayland, DestroyClients, CloseRepl, Serving, Goto, Starting, Stops,
              StopHolds, Flushed, FlushedBeforeSleep, Teardown, vars, loopVars,
              streamVars, janetVars
<1>10. CASE DestroyDisplay
  BY <1>10 DEF DestroyDisplay, Goto, Destroy, Starting, Stops, StopHolds, Flushed,
              FlushedBeforeSleep, Teardown, streamVars
<1>11. CASE RemoveSocket
  BY <1>11 DEF RemoveSocket, Goto, Sleep, Starting, Stops, StopHolds, Flushed,
              FlushedBeforeSleep, Teardown, loopVars, streamVars
<1>12. CASE HandlerStops \/ FiberStops
  BY <1>0, <1>12 DEF HandlerStops, FiberStops, ServerStop, Starting, OnlyServer, Stops,
              StopHolds, Flushed, FlushedBeforeSleep, Teardown, vars, loopVars,
              streamVars, janetVars
<1>13. CASE HandlerSends \/ ReplSends
  BY <1>0, <1>13 DEF HandlerSends, ReplSends, Starting, OnlyServer, Stops, StopHolds,
              Flushed, FlushedBeforeSleep, Teardown, vars, loopVars, streamVars,
              janetVars
<1>14. CASE Arrives
  <2>1. pc \notin {"start", "spawn", "sigaction", "enter"}
    BY <1>14 DEF Arrives, Polling, Starting
  <2>2. UNCHANGED <<pc, running, asked, outbox, loop, dispatching, reader, current>>
    BY <1>14 DEF Arrives, Wake, serverVars, loopVars, streamVars
  <2> QED
    BY <2>1, <2>2 DEF Starting, Stops, StopHolds, Flushed, FlushedBeforeSleep, Teardown
<1>15. CASE Janet
  <2>1. UNCHANGED <<pc, running, asked, outbox>>
    BY <1>15 DEF Janet, serverVars
  <2>2. CASE Event
    BY <2>1, <2>2 DEF Event, Starting, OnlyServer, Stops, StopHolds, Flushed,
              FlushedBeforeSleep, Teardown, streamVars
  <2>3. CASE Resume
    <3>1. current = None /\ tasks # <<>> /\ current' = tasks[1].fiber /\ 1 \in DOMAIN tasks
      BY <1>0, <2>3, QueueTail DEF Resume
    <3>2. UNCHANGED <<loop, dispatching, reader>>
      BY <2>3 DEF Resume, loopVars, streamVars
    <3>3. pc \notin {"start", "spawn", "sigaction", "flush", "dispatch"}
      BY <3>1 DEF Starting, Flushed
    <3>4. pc = "enter" => current' = Dispatcher
      BY <3>1 DEF Starting, OnlyServer
    <3> QED
      BY <2>1, <3>2, <3>3, <3>4 DEF Starting, Stops, StopHolds, Flushed, FlushedBeforeSleep,
              Teardown
  <2>4. CASE Poll
    <3>1. pc \notin {"start", "spawn", "sigaction", "enter"}
      BY <2>4 DEF Poll, Polling, Starting
    <3>2. UNCHANGED <<loop, reader, current>> /\ (~ dispatching' => ~ dispatching)
      BY <2>4 DEF Poll, Polling, streamVars
    <3> QED
      BY <2>1, <3>1, <3>2 DEF Starting, Stops, StopHolds, Flushed, FlushedBeforeSleep,
              Teardown
  <2>5. CASE Dispatched
    <3>1. pc \notin {"start", "spawn", "sigaction", "enter"}
      BY <2>5 DEF Dispatched, Starting
    <3>2. reader' = None /\ UNCHANGED <<loop, current>>
      BY <2>5 DEF Dispatched, Ended
    <3> QED
      BY <2>1, <3>1, <3>2 DEF Starting, Stops, StopHolds, Flushed, FlushedBeforeSleep,
              Teardown
  <2>6. CASE Sleep(Signal) \/ Sleep(Repl)
    <3>1. pc \notin {"start", "spawn", "sigaction", "enter", "flush", "dispatch"}
      BY <2>6 DEF Sleep, Starting, Flushed
    <3>2. UNCHANGED <<loop, dispatching, reader>>
      BY <2>6 DEF Sleep, loopVars, streamVars
    <3> QED
      BY <2>1, <3>1, <3>2 DEF Starting, Stops, StopHolds, Flushed, FlushedBeforeSleep,
              Teardown
  <2> QED
    BY <1>15, <2>2, <2>3, <2>4, <2>5, <2>6 DEF Janet
<1>16. CASE UNCHANGED allVars
  BY <1>16 DEF allVars, serverVars, vars, loopVars, streamVars, janetVars, Starting,
              OnlyServer, Stops, StopHolds, Flushed, FlushedBeforeSleep, Teardown
<1> QED
  BY <1>1, <1>2, <1>3, <1>4, <1>5, <1>6, <1>7, <1>8, <1>9, <1>10, <1>11, <1>12, <1>13,
     <1>14, <1>15, <1>16 DEF ServerNext, Serve

LEMMA ServerInvariance == ServerSpec => []ServerInv
<1>1. ServerSpec => []IInv
  BY ServerImplementsLoopStream, Invariance, PTL DEF ImplementsLoopStream
<1>2. IInv /\ ServerInv /\ [ServerNext]_allVars => ServerInv'
  BY ServerInvStep
<1> QED
  BY <1>1, <1>2, InitServerInv, PTL DEF ServerSpec

-----------------------------------------------------------------------------
(* Theorems *)

(* server-run: a stop, by a key, a signal or the REPL, is never undone, and *)
(* the server is torn down only when there was one.                         *)
THEOREM StopIsObeyed == ServerSpec => []StopHolds
<1>1. ServerInv => StopHolds
  BY DEF ServerInv, Stops
<1> QED
  BY ServerInvariance, <1>1, PTL

(* server-run: what the handlers of a dispatch have queued is flushed       *)
(* before the server sleeps in :dispatch again.                             *)
THEOREM NoSleepBeforeFlush == ServerSpec => []FlushedBeforeSleep
<1>1. ServerInv => FlushedBeforeSleep
  BY DEF ServerInv, Flushed
<1> QED
  BY ServerInvariance, <1>1, PTL

(* The server loses no wakeup, and its fiber is never resumed twice.        *)
THEOREM ServerWakesUp ==
  ASSUME ~ AwaitsElsewhere
  PROVE  ServerSpec => [](NoLostWakeup /\ OnePlace)
<1>1. Spec => []NoLostWakeup
  BY NoWakeupLost
<1> QED
  BY <1>1, NeverResumedTwice, ServerImplementsLoopStream, PTL DEF ImplementsLoopStream
=============================================================================
