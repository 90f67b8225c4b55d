--------------------------- MODULE SignalEmission ---------------------------
(***************************************************************************)
(* The listeners of one wl_signal and the emissions that walk over them    *)
(* while the Janet callbacks they run add listeners, remove listeners and  *)
(* emit again.                                                             *)
(*                                                                         *)
(* wlroots emits its signals with wl_signal_emit_mutable(), which walks    *)
(* with two markers linked into the list; wl-signal-emit of wl.c calls     *)
(* wl_signal_emit(), which saves a pointer to the next listener.           *)
(*                                                                         *)
(* The list is the sequence of what is linked, the head left out. What the *)
(* callbacks do to the collector is in WlCallbacks.                        *)
(***************************************************************************)
EXTENDS Naturals, Sequences, SequencesExt

CONSTANTS
  Listeners,     (* the jwl_listener_t objects wl-signal-add may return    *)
  None,          (* no listener                                            *)
  ListHead,      (* a pointer to the list head                             *)
  Null,          (* the pointers of an unlinked element                    *)
  MaxDepth,      (* bound on the nesting of emissions                      *)
  RemovesNext    (* does a callback of wl-signal-emit remove the listener  *)
                 (* that comes next                                        *)

ASSUME EmissionAssumption ==
  /\ MaxDepth \in Nat
  /\ RemovesNext \in BOOLEAN
  /\ {None, ListHead, Null} \cap Listeners = {} /\ ListHead # Null
  /\ ({None, ListHead, Null} \cup Listeners) \cap [marker : {"cursor", "end"}, of : Nat] = {}

VARIABLES
  list,        (* what is linked, in the order of the links                *)
  state,       (* listener -> what the program did with it                 *)
  emissions    (* the emissions under way, innermost last: the way it      *)
               (* walks, the pointer that wl_signal_emit() saved, and the  *)
               (* listener whose callback has not returned                 *)

vars == <<list, state, emissions>>

Depths    == 1..MaxDepth
Cursor(i) == [marker |-> "cursor", of |-> i]
End(i)    == [marker |-> "end", of |-> i]

Init ==
  /\ list = <<>>
  /\ state = [l \in Listeners |-> "new"]
  /\ emissions = <<>>

-----------------------------------------------------------------------------

Top   == Last(emissions)
Depth == Len(emissions)

(* Janet code is running: the main program, or the innermost callback.      *)
Calling == emissions # <<>> => Top.running # None

Position(e) == CHOOSE k \in DOMAIN list : list[k] = e

(* The next pointer of an element: wl_list_remove() sets it to NULL.        *)
After(e) ==
  IF ~ Contains(list, e) THEN Null
  ELSE IF Position(e) = Len(list) THEN ListHead
  ELSE list[Position(e) + 1]

First == IF list = <<>> THEN ListHead ELSE list[1]

(* A listener that is nobody's: a few of them stand for the objects that    *)
(* the program makes one after the other.                                   *)
Fresh(l) ==
  /\ state[l] # "added"
  /\ \A i \in DOMAIN emissions : l \notin {emissions[i].next, emissions[i].running}

SignalAdd_Front(l) ==
  /\ Calling
  /\ Fresh(l)
  /\ state' = [state EXCEPT ![l] = "added"]
  /\ list' = <<l>> \o list
  /\ UNCHANGED emissions

(* wl-signal-add: every call makes a new listener, linked at the tail.      *)
SignalAdd(l) ==
  /\ Calling
  /\ Fresh(l)
  /\ state' = [state EXCEPT ![l] = "added"]
  /\ list' = Append(list, l)
  /\ UNCHANGED emissions

SignalRemove_KeepsLink(l) ==
  /\ Calling
  /\ state[l] = "added"
  /\ state' = [state EXCEPT ![l] = "removed"]
  /\ UNCHANGED <<list, emissions>>

(* wl-signal-remove, by any callback, of any listener.                      *)
SignalRemove(l) ==
  /\ Calling
  /\ state[l] = "added"
  /\ \A i \in DOMAIN emissions : emissions[i].next = l => RemovesNext
  /\ state' = [state EXCEPT ![l] = "removed"]
  /\ list' = RemoveFirst(list, l)
  /\ UNCHANGED emissions

(* wlroots emits the signal: from the event loop, or from a function that a *)
(* callback has called.                                                     *)
EmitMutable ==
  /\ Calling /\ Depth < MaxDepth
  /\ list' = <<Cursor(Depth + 1)>> \o Append(list, End(Depth + 1))
  /\ emissions' = Append(emissions, [walk |-> "mutable", next |-> None, running |-> None])
  /\ UNCHANGED state

(* wl-signal-emit                                                           *)
SignalEmit ==
  /\ Calling /\ Depth < MaxDepth
  /\ emissions' = Append(emissions, [walk |-> "saved", next |-> First, running |-> None])
  /\ UNCHANGED <<list, state>>

Update(walk) == emissions' = [emissions EXCEPT ![Depth] = walk]

(* The callback of a marker does nothing.                                   *)
Notified(e) == IF e \in Listeners THEN e ELSE None

StepMutable_Stays ==
  /\ ~ Calling /\ Top.walk = "mutable"
  /\ LET e == After(Cursor(Depth))
     IN  /\ e # End(Depth)
         /\ Update([Top EXCEPT !.running = Notified(e)])
  /\ UNCHANGED <<list, state>>

(* The cursor is moved past the next element, then the element is called.   *)
StepMutable ==
  /\ ~ Calling /\ Top.walk = "mutable"
  /\ LET k == Position(Cursor(Depth))
         e == After(Cursor(Depth))
     IN  /\ e # End(Depth)
         /\ list' = [list EXCEPT ![k] = e, ![k + 1] = Cursor(Depth)]
         /\ Update([Top EXCEPT !.running = Notified(e)])
  /\ UNCHANGED state

(* The pointer that follows is saved, then the element is called. Nothing   *)
(* is defined once the walk has reached NULL.                               *)
StepSaved ==
  /\ ~ Calling /\ Top.walk = "saved"
  /\ Top.next \notin {ListHead, Null}
  /\ Update([Top EXCEPT !.next = After(Top.next), !.running = Notified(Top.next)])
  /\ UNCHANGED <<list, state>>

(* jwl_listener_notify_callback returns, whatever janet_pcall() returned.   *)
Return ==
  /\ emissions # <<>> /\ Calling
  /\ Update([Top EXCEPT !.running = None])
  /\ UNCHANGED <<list, state>>

FinishMutable ==
  /\ ~ Calling /\ Top.walk = "mutable"
  /\ After(Cursor(Depth)) = End(Depth)
  /\ list' = RemoveFirst(RemoveFirst(list, Cursor(Depth)), End(Depth))
  /\ emissions' = Front(emissions)
  /\ UNCHANGED state

FinishSaved ==
  /\ ~ Calling /\ Top.walk = "saved"
  /\ Top.next = ListHead
  /\ emissions' = Front(emissions)
  /\ UNCHANGED <<list, state>>

Walking == StepMutable \/ StepSaved \/ FinishMutable \/ FinishSaved

Next ==
  \/ \E l \in Listeners : SignalAdd(l)
  \/ \E l \in Listeners : SignalRemove(l)
  \/ EmitMutable
  \/ SignalEmit
  \/ Return
  \/ Walking

Spec == Init /\ [][Next]_vars

(* libwayland keeps walking, and a callback at any depth comes back to it.  *)
FairSpec ==
  /\ Spec
  /\ WF_vars(Walking)
  /\ \A i \in Depths : SF_vars(Depth = i /\ Return)

-----------------------------------------------------------------------------
(* Properties *)

(* cfun_wl_signal_remove: once wl-signal-remove has returned no emission    *)
(* calls the listener, not even one that was under way.                     *)
Calls(l) ==
  /\ emissions # <<>> /\ Len(emissions') = Depth
  /\ Top.running = None /\ Top'.running = l

RemovedNotCalled ==
  [][\A l \in Listeners : Calls(l) => state[l] # "removed"]_vars

(* The order of the links.                                                  *)
Precedes(s, e, f) == \E j \in DOMAIN s : s[j] = f /\ \E i \in 1..j - 1 : s[i] = e

(* What is left to a walk: the listeners between its markers, or from the   *)
(* saved pointer to the end of the list.                                    *)
Ahead(i) ==
  IF emissions[i].walk = "mutable"
  THEN {l \in Listeners : Precedes(list, Cursor(i), l) /\ Precedes(list, l, End(i))}
  ELSE {l \in Listeners : l = emissions[i].next \/ Precedes(list, emissions[i].next, l)}

Linked == {l \in Listeners : Contains(list, l)}

Before == {p \in Linked \X Linked : Precedes(list, p[1], p[2])}

Owed == [i \in 1..Depth |-> [todo    |-> Ahead(i),
                             open    |-> emissions[i].walk = "saved",
                             running |-> emissions[i].running]]

Abstract == INSTANCE Emission WITH
  present <- Linked, before <- Before, emissions <- Owed

(* The linked list implements Emission: every listener that stays is called *)
(* once by every emission that found it, in order; one that was added       *)
(* during a wlroots emission waits for the next.                            *)
ImplementsEmission == Abstract!Spec

(* A listener is added while wl-signal-emit walks, as the i-th emission or  *)
(* inside of it: it is linked where that walk has not been yet.             *)
AddsToWalk(i) ==
  /\ \E j \in i..Depth : emissions[j].walk = "saved"
  /\ \E l \in Listeners : SignalAdd(l)

(* cfun_wl_signal_emit, jwl_listener_notify_callback: every emission comes  *)
(* to its end. One of wlroots does whatever its callbacks add, remove and   *)
(* emit that way, for it stops at the marker it has put behind the          *)
(* listeners it found; wl-signal-emit has none, and need not end as long as *)
(* listeners are added in front of it.                                      *)
EmissionEnds ==
  \A i \in Depths : \/ Depth >= i ~> Depth < i
                    \/ []<><<AddsToWalk(i)>>_vars
=============================================================================
