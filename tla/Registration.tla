---------------------------- MODULE Registration ----------------------------
(***************************************************************************)
(* What janetland promises to a Janet program that registers a callback,   *)
(* whatever the source of the event (a wl_signal or a wl_event_loop): the  *)
(* callback that runs is the function that was registered, it runs only    *)
(* between its registration and its removal, an idle callback runs to its  *)
(* end once, and callbacks nest like calls.                                *)
(*                                                                         *)
(* WlCallbacks implements this specification over a garbage-collected      *)
(* heap.                                                                   *)
(***************************************************************************)
EXTENDS Naturals, Sequences

CONSTANTS
  Fns,        (* Janet functions                                           *)
  Handles     (* what a registration returns: listeners and event sources  *)

VARIABLES
  reg,        (* handle -> how far its registration has got                *)
  running     (* the callbacks being run, outermost first                  *)

regVars == <<reg, running>>

Unused == [state |-> "unused"]
Gone   == [state |-> "gone"]
Registered == [state : {"registered"}, fn : Fns, once : BOOLEAN]

TypeOK ==
  /\ reg \in [Handles -> {Unused, Gone} \cup Registered]
  /\ running \in Seq(Handles \X Fns)

Init ==
  /\ reg = [h \in Handles |-> Unused]
  /\ running = <<>>

Register(h, f, once) ==
  /\ reg[h] = Unused
  /\ reg' = [reg EXCEPT ![h] = [state |-> "registered", fn |-> f, once |-> once]]
  /\ UNCHANGED running

Unregister(h) ==
  /\ reg[h] \in Registered
  /\ reg' = [reg EXCEPT ![h] = Gone]
  /\ UNCHANGED running

(* Only a registered handle is called, and with the function it carries.   *)
Call(h) ==
  /\ reg[h] \in Registered
  /\ running' = Append(running, <<h, reg[h].fn>>)
  /\ UNCHANGED reg

(* The innermost callback ends; a one-shot registration ends with it.      *)
Finish ==
  /\ running # <<>>
  /\ running' = SubSeq(running, 1, Len(running) - 1)
  /\ LET h == running[Len(running)][1]
     IN  reg' = IF reg[h] \in Registered /\ reg[h].once
                THEN [reg EXCEPT ![h] = Gone]
                ELSE reg

Next ==
  \/ \E h \in Handles, f \in Fns, once \in BOOLEAN : Register(h, f, once)
  \/ \E h \in Handles : Unregister(h)
  \/ \E h \in Handles : Call(h)
  \/ Finish

Spec == Init /\ [][Next]_regVars
=============================================================================
