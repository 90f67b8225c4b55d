----------------------------- MODULE ServerLoop -----------------------------
(***************************************************************************)
(* The life of the tinyjl server: main starts it, server-run drives the    *)
(* Wayland loop through a LoopStream until somebody has put :running to    *)
(* false, and tears everything down.                                       *)
(*                                                                         *)
(* The server is stopped by a key binding, from a handler that a dispatch  *)
(* runs, or by the fiber of a signal or of a REPL connection.              *)
(***************************************************************************)
EXTENDS LoopStream

CONSTANTS Main, Signal, Repl      (* the fibers besides the dispatcher      *)

ASSUME ServerAssumption ==
  /\ Fibers = {Dispatcher, Main, Signal, Repl}
  /\ Dispatcher \notin {Main, Signal, Repl}
  /\ Main \notin {Signal, Repl} /\ Signal # Repl

VARIABLES
  pc,         (* where main, then server-run, has got to                   *)
  running,    (* (server :running)                                         *)
  asked,      (* has anybody asked the server to stop                      *)
  outbox      (* who has queued events to the clients since the last flush *)

serverVars == <<pc, running, asked, outbox>>
allVars    == <<vars, serverVars>>

Teardown == {"xwayland", "clients", "display", "repl", "rm", "done"}

ServerTypeOK ==
  /\ TypeOK
  /\ pc \in {"start", "spawn", "sigaction", "failed", "enter", "test", "flush", "dispatch"}
            \cup Teardown
  /\ running \in BOOLEAN /\ asked \in BOOLEAN
  /\ outbox \subseteq {"handler", "repl"}

(* main has set the server up and its REPL listens.                         *)
ServerInit ==
  /\ Init /\ current = Main
  /\ pc = "start"
  /\ running = FALSE /\ asked = FALSE
  /\ outbox = {}

-----------------------------------------------------------------------------

Goto(from, to) == pc = from /\ pc' = to

(* wlr-backend-start fails: main destroys the display and returns, the REPL *)
(* stays.                                                                   *)
StartFails ==
  /\ Goto("start", "failed")
  /\ Destroy(Main)
  /\ UNCHANGED <<running, asked, outbox>>

Start ==
  /\ Goto("start", "spawn") /\ current = Main
  /\ UNCHANGED <<vars, running, asked, outbox>>

(* (ev/spawn (server-run server))                                           *)
Spawn ==
  /\ Goto("spawn", "sigaction") /\ current = Main
  /\ Wake(Dispatcher)
  /\ UNCHANGED <<running, asked, outbox>>

(* The handlers of SIGINT and SIGTERM are installed, main returns.          *)
MainReturns ==
  /\ \/ Goto("sigaction", "enter")
     \/ pc = "failed" /\ UNCHANGED pc
  /\ Sleep(Main)
  /\ UNCHANGED <<running, asked, outbox>>

Serving(from, to) == current = Dispatcher /\ Goto(from, to)

(* server-run makes the loop-stream, puts :running to true and enters its   *)
(* loop.                                                                    *)
Enter ==
  /\ Goto("enter", "test")
  /\ FdToStream(Dispatcher)
  /\ running' = TRUE
  /\ UNCHANGED <<asked, outbox>>

Test_Rearms ==
  /\ current = Dispatcher /\ pc = "test"
  /\ pc' = IF running THEN "flush" ELSE "xwayland"
  /\ running' = TRUE
  /\ UNCHANGED <<vars, asked, outbox>>

Test_SkipsFlush ==
  /\ current = Dispatcher /\ pc = "test"
  /\ pc' = IF running THEN "dispatch" ELSE "xwayland"
  /\ UNCHANGED <<vars, running, asked, outbox>>

Test_Forever == Serving("test", "flush") /\ UNCHANGED <<vars, running, asked, outbox>>

Test ==
  /\ current = Dispatcher /\ pc = "test"
  /\ pc' = IF running THEN "flush" ELSE "xwayland"
  /\ UNCHANGED <<vars, running, asked, outbox>>

FlushClients_Awaits ==
  /\ Serving("flush", "dispatch")
  /\ outbox' = {}
  /\ current' = None
  /\ UNCHANGED <<loopVars, streamVars, edge, reports, tasks, running, asked>>

FlushClients ==
  /\ Serving("flush", "dispatch")
  /\ outbox' = {}
  /\ UNCHANGED <<vars, running, asked>>

ServerDispatch_Again ==
  /\ Goto("dispatch", "dispatch")
  /\ Dispatch(Dispatcher)
  /\ UNCHANGED <<running, asked, outbox>>

ServerDispatch ==
  /\ Goto("dispatch", "test")
  /\ Dispatch(Dispatcher)
  /\ UNCHANGED <<running, asked, outbox>>

DestroyXwayland ==
  /\ Serving("xwayland", "clients")
  /\ UNCHANGED <<vars, running, asked, outbox>>

DestroyClients ==
  /\ Serving("clients", "display")
  /\ UNCHANGED <<vars, running, asked, outbox>>

(* The display destroys its event loop, and with it the descriptor the      *)
(* loop-stream still has.                                                   *)
DestroyDisplay ==
  /\ Goto("display", "repl")
  /\ Destroy(Dispatcher)
  /\ UNCHANGED <<running, asked, outbox>>

CloseRepl ==
  /\ Serving("repl", "rm")
  /\ UNCHANGED <<vars, running, asked, outbox>>

(* The socket is removed and server-run returns.                            *)
RemoveSocket ==
  /\ Goto("rm", "done")
  /\ Sleep(Dispatcher)
  /\ UNCHANGED <<running, asked, outbox>>

-----------------------------------------------------------------------------
(* Everybody else *)

ServerStop == running' = FALSE /\ asked' = TRUE /\ UNCHANGED <<pc, outbox>>

(* Handlers run inside a dispatch: handle-keybinding may stop the server,   *)
(* others queue events to clients.                                          *)
HandlerStops == dispatching /\ ServerStop /\ UNCHANGED vars

HandlerSends ==
  /\ dispatching
  /\ outbox' = outbox \cup {"handler"}
  /\ UNCHANGED <<vars, pc, running, asked>>

FiberStops == current \in {Signal, Repl} /\ ServerStop /\ UNCHANGED vars

(* What is typed at a REPL connection queues events to clients, or makes    *)
(* wlroots do so. Nothing keeps it from that when the display is gone: the  *)
(* listening socket is closed after it, and the connections are not.        *)
ReplSends ==
  /\ current = Repl
  /\ outbox' = outbox \cup {"repl"}
  /\ UNCHANGED <<vars, pc, running, asked>>

(* A signal, if main has installed its handlers; a REPL connection, or more *)
(* input on it. Both come out of the poll of the Janet loop.                *)
Arrives ==
  /\ Polling
  /\ \E f \in {Signal, Repl} : (f = Signal => pc # "failed") /\ Wake(f)
  /\ UNCHANGED serverVars

Janet ==
  /\ Event \/ Resume \/ Poll \/ Dispatched \/ Sleep(Signal) \/ Sleep(Repl)
  /\ UNCHANGED serverVars

Serve ==
  \/ Enter \/ Test \/ FlushClients \/ ServerDispatch
  \/ DestroyXwayland \/ DestroyClients \/ DestroyDisplay \/ CloseRepl \/ RemoveSocket

ServerNext ==
  \/ StartFails \/ Start \/ Spawn \/ MainReturns
  \/ Serve
  \/ HandlerStops \/ HandlerSends
  \/ FiberStops \/ ReplSends
  \/ Arrives
  \/ Janet

ServerSpec == ServerInit /\ [][ServerNext]_allVars

ServerFairSpec ==
  /\ ServerSpec
  /\ WF_allVars(Serve)
  /\ WF_allVars(Janet /\ Resume)
  /\ SF_allVars(Janet /\ Poll)
  /\ WF_allVars(Janet /\ Dispatched)
  /\ \A f \in {Signal, Repl} : WF_allVars(Janet /\ Sleep(f))

-----------------------------------------------------------------------------
(* Properties *)

(* server-run, main: no request to stop is undone by the `put :running      *)
(* true' of a server that starts later, and the server is torn down only    *)
(* when somebody has asked.                                                 *)
StopHolds ==
  /\ asked => ~ running
  /\ pc \in Teardown => asked

(* server-run: what handlers have queued to the clients is flushed before   *)
(* the server sleeps again.                                                 *)
FlushedBeforeSleep ==
  reader = Dispatcher /\ ~ dispatching => "handler" \notin outbox

(* The server uses the stream as LoopStream lets a program use it.          *)
ImplementsLoopStream == Spec

(* server-run sleeps in :dispatch and there is no event to wake it.         *)
NothingToDo == reader = Dispatcher /\ ~ dispatching /\ pending = 0

(* server-stop: whoever has asked, from a handler or between two events,    *)
(* the server is torn down to the end once it has an event to dispatch. A   *)
(* signal alone does not wake the fiber that sleeps.                        *)
StopCompletes == asked /\ pc # "failed" /\ ~ NothingToDo ~> pc = "done"

(* server-run: what handlers and REPL connections have queued is flushed    *)
(* as soon as there is an event to dispatch, or the clients are destroyed.  *)
OutputLeaves ==
  outbox # {} /\ pc # "failed" /\ ~ NothingToDo ~> outbox = {} \/ pc \in Teardown
=============================================================================
