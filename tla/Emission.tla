------------------------------ MODULE Emission ------------------------------
(***************************************************************************)
(* What the emission of a signal promises to its listeners: each emission  *)
(* owes a call to every listener it found, in the order they were added;   *)
(* a removed listener is owed none by any emission under way; a listener   *)
(* added meanwhile is owed one only by an open emission, which may take it *)
(* or leave it.  SignalEmission implements this over a linked list.        *)
(***************************************************************************)
EXTENDS Naturals, Sequences, SequencesExt

CONSTANTS
  Listeners,
  None

VARIABLES
  present,     (* the listeners                                            *)
  before,      (* pairs of a listener and one that was added after it      *)
  emissions    (* the emissions under way, innermost last                  *)

emVars == <<present, before, emissions>>

Emissions == [todo : SUBSET Listeners, open : BOOLEAN, running : Listeners \cup {None}]

Init == present = {} /\ before = {} /\ emissions = <<>>

Top == Last(emissions)

Calling == emissions # <<>> => Top.running # None

(* The open emissions of `late' take the new listener.                      *)
Add(l) ==
  /\ Calling
  /\ l \notin present
  /\ present' = present \cup {l}
  /\ before' = before \cup (present \X {l})
  /\ \E late \in SUBSET {i \in DOMAIN emissions : emissions[i].open} :
       emissions' = [i \in DOMAIN emissions |->
         IF i \in late THEN [emissions[i] EXCEPT !.todo = @ \cup {l}]
                       ELSE emissions[i]]

Drop(l) ==
  /\ Calling
  /\ l \in present
  /\ present' = present \ {l}
  /\ before' = before \cap (present' \X present')
  /\ emissions' = [i \in DOMAIN emissions |->
       [emissions[i] EXCEPT !.todo = @ \ {l}]]

Emit(open) ==
  /\ Calling
  /\ emissions' = Append(emissions, [todo |-> present, open |-> open, running |-> None])
  /\ UNCHANGED <<present, before>>

(* The listener that is owed a call and comes before the others gets it.    *)
Call(l) ==
  /\ emissions # <<>> /\ Top.running = None
  /\ l \in Top.todo /\ \A k \in Top.todo : <<k, l>> \notin before
  /\ emissions' = [emissions EXCEPT ![Len(emissions)] =
       [todo |-> Top.todo \ {l}, open |-> Top.open, running |-> l]]
  /\ UNCHANGED <<present, before>>

Return ==
  /\ emissions # <<>> /\ Top.running # None
  /\ emissions' = [emissions EXCEPT ![Len(emissions)] = [Top EXCEPT !.running = None]]
  /\ UNCHANGED <<present, before>>

(* An emission ends when it owes nothing more.                              *)
Finish ==
  /\ emissions # <<>> /\ Top.running = None /\ Top.todo = {}
  /\ emissions' = Front(emissions)
  /\ UNCHANGED <<present, before>>

Next ==
  \/ \E l \in Listeners : Add(l) \/ Drop(l) \/ Call(l)
  \/ \E open \in BOOLEAN : Emit(open)
  \/ Return
  \/ Finish

Spec == Init /\ [][Next]_emVars
=============================================================================
