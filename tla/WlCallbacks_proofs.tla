-------------------------- MODULE WlCallbacks_proofs --------------------------
(***************************************************************************)
(* The safety of WlCallbacks for every set of functions, handles and       *)
(* streams and every nesting depth: no pointer that libwayland, a running  *)
(* callback or another heap object holds is ever dangling.                 *)
(***************************************************************************)
EXTENDS WlCallbacks, FiniteSetTheorems, SequenceTheorems, TLAPS

-----------------------------------------------------------------------------
(* The three ways an action changes the callback stack *)

(* The running code gets new references.                                   *)
LEMMA ObtainEffect ==
  ASSUME TypeOK, NEW os \in SUBSET Obj, Obtain(os)
  PROVE  /\ frames' \in Seq(Frame)
         /\ Len(frames') = Len(frames)
         /\ held \subseteq held' /\ held' \subseteq held \cup os
         /\ \A i \in 1..Len(frames) :
              /\ frames'[i].handle = frames[i].handle
              /\ frames'[i].fn = frames[i].fn
              /\ frames'[i].saved = frames[i].saved
              /\ frames[i].locals \subseteq frames'[i].locals
              /\ frames'[i].locals \subseteq frames[i].locals \cup os
         /\ \/ os \subseteq held'
            \/ \E i \in 1..Len(frames) : os \subseteq frames'[i].locals
<1>1. CASE frames = <<>>
  BY <1>1 DEF Obtain, TypeOK
<1>2. CASE frames # <<>>
  <2> DEFINE n == Len(frames)
             new == [Top EXCEPT !.locals = Top.locals \cup os]
  <2>1. frames \in Seq(Frame)
    BY DEF TypeOK
  <2>2. n \in 1..Len(frames)
    BY <1>2, <2>1, EmptySeq
  <2>3. frames[n] \in Frame
    BY <2>1, <2>2, ElementOfSeq
  <2>4. /\ new \in Frame
        /\ new.handle = frames[n].handle
        /\ new.fn = frames[n].fn
        /\ new.saved = frames[n].saved
        /\ new.locals = frames[n].locals \cup os
    BY <2>3 DEF Frame, Top
  <2>5. frames' = [frames EXCEPT ![n] = new] /\ UNCHANGED held
    BY <1>2 DEF Obtain
  <2>6. /\ frames' \in Seq(Frame)
        /\ Len(frames') = Len(frames)
        /\ \A j \in 1..Len(frames) : frames'[j] = IF j = n THEN new ELSE frames[j]
    <3> HIDE DEF n, new
    <3> QED BY <2>1, <2>2, <2>4, <2>5, ExceptSeq
  <2> QED
    BY <2>2, <2>4, <2>5, <2>6
<1> QED BY <1>1, <1>2

(* A callback starts. *)
LEMMA PushEffect ==
  ASSUME TypeOK, NEW fr \in Frame, frames' = Append(frames, fr)
  PROVE  /\ frames' \in Seq(Frame)
         /\ Len(frames') = Len(frames) + 1
         /\ \A i \in 1..Len(frames) : frames'[i] = frames[i]
         /\ frames'[Len(frames) + 1] = fr
BY AppendProperties DEF TypeOK

(* The innermost callback ends. *)
LEMMA PopEffect ==
  ASSUME TypeOK, frames # <<>>, frames' = SubSeq(frames, 1, Len(frames) - 1)
  PROVE  /\ frames' \in Seq(Frame)
         /\ Len(frames') = Len(frames) - 1
         /\ Len(frames) \in Nat \ {0}
         /\ Top \in Frame
         /\ \A i \in 1..Len(frames') : frames'[i] = frames[i]
<1>1. frames \in Seq(Frame) /\ Len(frames) \in Nat \ {0}
  BY EmptySeq DEF TypeOK
<1>2. \A i \in 1..Len(frames) : frames[i] \in Frame
  BY <1>1, ElementOfSeq
<1>3. /\ SubSeq(frames, 1, Len(frames) - 1) \in Seq(Frame)
      /\ Len(SubSeq(frames, 1, Len(frames) - 1)) = Len(frames) - 1
      /\ \A i \in 1..Len(frames) - 1 : SubSeq(frames, 1, Len(frames) - 1)[i] = frames[i]
  <2> DEFINE n == Len(frames) - 1
  <2>1. 1 \in Int /\ n \in Int /\ \A i \in 1..n : frames[i] \in Frame
    BY <1>1, <1>2
  <2>2. /\ SubSeq(frames, 1, n) \in Seq(Frame)
        /\ Len(SubSeq(frames, 1, n)) = IF 1 <= n THEN n - 1 + 1 ELSE 0
        /\ \A i \in 1..n - 1 + 1 : SubSeq(frames, 1, n)[i] = frames[1 + i - 1]
    <3> HIDE DEF n
    <3> QED BY <2>1, SubSeqProperties
  <2>3. /\ n \in Nat
        /\ (IF 1 <= n THEN n - 1 + 1 ELSE 0) = n
        /\ n - 1 + 1 = n
        /\ \A i \in 1..n : 1 + i - 1 = i
    <3>1. \A k \in Nat \ {0} : k - 1 \in Nat
      OBVIOUS
    <3>2. n \in Nat
      BY <1>1, <3>1
    <3> HIDE DEF n
    <3> QED BY <3>2
  <2> DEFINE t == SubSeq(frames, 1, n)
  <2>4. t \in Seq(Frame) /\ Len(t) = n
    <3> HIDE DEF n
    <3> QED BY <2>2, <2>3
  <2>5. ASSUME NEW i \in 1..n PROVE t[i] = frames[i]
    <3> HIDE DEF n
    <3>1. i \in 1..n - 1 + 1 /\ 1 + i - 1 = i
      BY <2>3
    <3>2. t[i] = frames[1 + i - 1]
      BY <2>2, <3>1
    <3> QED BY <3>1, <3>2
  <2> QED
    BY <2>4, <2>5
<1> QED
  BY <1>1, <1>2, <1>3 DEF Top

-----------------------------------------------------------------------------
(* Reachability *)

LEMMA ReachBase == \A o \in Base \cap Obj : o \in Reachable
BY DEF Reachable, ReachableFrom

LEMMA ReachStep == \A o \in Reachable : \A p \in Marks(o) \cap Obj : p \in Reachable
BY DEF Reachable, ReachableFrom, Closed

(* Counting the registrations that own a root *)

LEMMA OwnersFinite ==
  ASSUME NEW o
  PROVE  /\ IsFiniteSet({h \in Handles : Owns(h, o)})
         /\ Cardinality({h \in Handles : Owns(h, o)}) \in Nat
<1>1. {h \in Handles : Owns(h, o)} \in SUBSET Handles
  OBVIOUS
<1>2. IsFiniteSet(Handles)
  BY ObjectsAssumption
<1>3. IsFiniteSet({h \in Handles : Owns(h, o)})
  BY <1>1, <1>2, FS_Subset
<1> QED
  BY <1>3, FS_CardinalityType

(* An owned object is rooted. *)
LEMMA OwnedRooted ==
  ASSUME RootsBalanced, NEW h \in Handles, NEW o \in Pinned, Owns(h, o)
  PROVE  roots[o] \in Nat /\ roots[o] > 0
<1> DEFINE S == {g \in Handles : Owns(g, o)}
<1>1. roots[o] = Cardinality(S)
  BY DEF RootsBalanced
<1>2. IsFiniteSet(S) /\ Cardinality(S) \in Nat
  BY OwnersFinite
<1>3. S # {}
  OBVIOUS
<1>4. Cardinality(S) # 0
  BY <1>2, <1>3, FS_EmptySet
<1> QED
  BY <1>1, <1>2, <1>4

(* Registrations and roots that do not change stay balanced. *)
LEMMA BalanceUnchanged ==
  ASSUME RootsBalanced, UNCHANGED <<roots, handleVars, native>>
  PROVE  RootsBalanced'
BY DEF RootsBalanced, Owns, handleVars

-----------------------------------------------------------------------------
(* The invariant holds initially *)

LEMMA InitIInv == Init => IInv
<1> SUFFICES ASSUME Init PROVE IInv
  OBVIOUS
<1>1. frames = <<>> /\ frames \in Seq(Frame) /\ Len(frames) = 0
  BY EmptySeq DEF Init
<1>2. TypeOK
  BY <1>1 DEF Init, TypeOK, Kinds, Pinned
<1>3. RootsBalanced
  <2>1. \A o \in Pinned : {h \in Handles : Owns(h, o)} = {}
    BY DEF Init, Owns
  <2> QED
    BY <2>1, FS_EmptySet DEF Init, RootsBalanced
<1> QED
  BY <1>1, <1>2, <1>3, ObjectsAssumption
     DEF Init, IInv, FieldsOK, HandleKept, LinkedAlive, RunningIntact, SuspendIsDepth,
         EdgesAlive

-----------------------------------------------------------------------------
(* The program's references *)

(* A new function or stream.                                               *)
LEMMA NewObjectStep ==
  ASSUME IInv, NEW o \in Pinned, Fresh(o), live' = live \cup {o}, Obtain({o}),
         UNCHANGED <<swept, roots, env, gc_suspend, handleVars, native>>
  PROVE  IInv'
<1> USE DEF IInv
<1>1. o \in Obj /\ o \notin Handles
  BY ObjectsAssumption DEF Obj, Pinned
<1>2. /\ frames' \in Seq(Frame)
      /\ Len(frames') = Len(frames)
      /\ held \subseteq held' /\ held' \subseteq held \cup {o}
      /\ \A i \in 1..Len(frames) :
           /\ frames'[i].handle = frames[i].handle
           /\ frames'[i].fn = frames[i].fn
           /\ frames'[i].saved = frames[i].saved
           /\ frames[i].locals \subseteq frames'[i].locals
           /\ frames'[i].locals \subseteq frames[i].locals \cup {o}
  BY <1>1, ObtainEffect
<1>3. TypeOK'
  BY <1>1, <1>2 DEF TypeOK, Fresh, handleVars
<1>4. FieldsOK'
  BY <1>1, <1>2 DEF FieldsOK, Fresh, handleVars
<1>5. HandleKept'
  BY <1>2 DEF HandleKept, Captured, handleVars
<1>6. RootsBalanced'
  BY BalanceUnchanged
<1>7. LinkedAlive'
  BY DEF LinkedAlive, handleVars
<1>8. RunningIntact'
  BY <1>2 DEF RunningIntact
<1>9. SuspendIsDepth'
  BY <1>2 DEF SuspendIsDepth
<1>10. EdgesAlive'
  BY <1>1 DEF EdgesAlive, handleVars, FieldsOK, Fresh
<1> QED
  BY <1>3, <1>4, <1>5, <1>6, <1>7, <1>8, <1>9, <1>10

(* What the running code refers to has not been swept.                     *)
LEMMA VisibleAlive == IInv => Visible \subseteq live
<1> SUFFICES ASSUME IInv PROVE Visible \subseteq live
  OBVIOUS
<1> USE DEF IInv
<1>1. CASE frames = <<>>
  BY <1>1 DEF Visible, FieldsOK
<1>2. CASE frames # <<>>
  <2>1. Len(frames) \in 1..Len(frames)
    BY <1>2, EmptySeq DEF TypeOK
  <2> QED
    BY <1>2, <2>1 DEF Visible, Top, FieldsOK, RunningIntact
<1> QED BY <1>1, <1>2

LEMMA CaptureStep ==
  ASSUME IInv, NEW f \in Fns, NEW h \in Handles, Capture(f, h)
  PROVE  IInv'
<1> USE DEF IInv
<1>1. Visible \subseteq live
  BY VisibleAlive
<1>2. f \in live /\ h \in live
  BY <1>1 DEF Capture
<1>3. TypeOK'
  BY DEF TypeOK, Capture, handleVars
<1>4. FieldsOK'
  BY <1>2 DEF FieldsOK, Fresh, Capture, handleVars, TypeOK
<1>5. HandleKept'
  BY DEF HandleKept, Captured, Capture, handleVars, TypeOK
<1>6. RootsBalanced'
  BY BalanceUnchanged DEF Capture
<1>7. LinkedAlive' /\ RunningIntact' /\ SuspendIsDepth'
  BY DEF LinkedAlive, RunningIntact, SuspendIsDepth, Capture, handleVars
<1>8. EdgesAlive'
  BY <1>2 DEF EdgesAlive, Capture, handleVars, TypeOK
<1> QED
  BY <1>3, <1>4, <1>5, <1>6, <1>7, <1>8

LEMMA StoreStep ==
  ASSUME IInv, NEW o \in Obj, Store(o)
  PROVE  IInv'
<1> USE DEF IInv
<1>1. o \in live
  BY VisibleAlive DEF Store, Visible
<1>2. TypeOK' /\ FieldsOK'
  BY <1>1 DEF TypeOK, FieldsOK, Fresh, Store, handleVars
<1>3. HandleKept'
  BY DEF HandleKept, Captured, Store, handleVars
<1>4. RootsBalanced'
  BY BalanceUnchanged DEF Store
<1>5. LinkedAlive' /\ RunningIntact' /\ SuspendIsDepth' /\ EdgesAlive'
  BY DEF LinkedAlive, RunningIntact, SuspendIsDepth, EdgesAlive, Store, handleVars
<1> QED
  BY <1>2, <1>3, <1>4, <1>5

LEMMA ForgetStep ==
  ASSUME IInv, NEW o \in Obj, Forget(o)
  PROVE  IInv'
<1> USE DEF IInv
<1>1. TypeOK' /\ FieldsOK'
  BY DEF TypeOK, FieldsOK, Fresh, Forget, handleVars
<1>2. HandleKept'
  BY DEF HandleKept, Captured, Forget, handleVars
<1>3. RootsBalanced'
  BY BalanceUnchanged DEF Forget
<1>4. LinkedAlive' /\ RunningIntact' /\ SuspendIsDepth' /\ EdgesAlive'
  BY DEF LinkedAlive, RunningIntact, SuspendIsDepth, EdgesAlive, Forget, handleVars
<1> QED
  BY <1>1, <1>2, <1>3, <1>4

-----------------------------------------------------------------------------
(* Registration *)

LEMMA AddFailsStep ==
  ASSUME IInv, NEW h \in Handles, NEW st \in Streams \cup {None}, AddFails(h, st)
  PROVE  IInv'
<1> USE DEF IInv, AddFails
<1>1. st # None => st \in live
  BY VisibleAlive
<1>2. native[h] = "unused" /\ cb_fn[h] = None
  BY DEF FieldsOK
<1>3. h \in Obj
  BY DEF Obj
<1>4. TypeOK'
  BY <1>3 DEF TypeOK, Fresh, Kinds
<1>5. FieldsOK'
  BY ObjectsAssumption DEF FieldsOK, Fresh, TypeOK
<1>6. HandleKept'
  BY DEF HandleKept, Captured
<1>7. RootsBalanced'
  <2>1. \A g \in Handles, o \in Pinned : Owns(g, o)' <=> Owns(g, o)
    BY <1>2 DEF Owns, TypeOK
  <2>2. \A o \in Pinned :
          {g \in Handles : Owns(g, o)}' = {g \in Handles : Owns(g, o)}
    BY <2>1
  <2> QED
    BY <2>2 DEF RootsBalanced
<1>8. LinkedAlive'
  BY <1>2 DEF LinkedAlive, TypeOK
<1>9. RunningIntact' /\ SuspendIsDepth'
  BY DEF RunningIntact, SuspendIsDepth
<1>10. EdgesAlive'
  BY <1>1, <1>2, ObjectsAssumption DEF EdgesAlive, TypeOK
<1> QED
  BY <1>4, <1>5, <1>6, <1>7, <1>8, <1>9, <1>10

(* A successful registration of any kind.                                  *)
LEMMA AddStep ==
  ASSUME IInv, NEW h \in Handles, NEW k \in Kinds, NEW f \in Fns,
         NEW st \in Streams \cup {None}, st \in Visible \cup {None},
         k = "listener" => st = None,
         Add(h, k, f, st)
  PROVE  IInv'
<1> USE DEF IInv, Add
<1>1. f \in live /\ (st # None => st \in live)
  BY VisibleAlive
<1>2. native[h] = "unused" /\ cb_fn[h] = None
  BY DEF FieldsOK
<1>3. h \in Obj /\ h \notin Fns /\ h \notin live
  BY ObjectsAssumption DEF Obj, Fresh
<1>4. /\ frames' \in Seq(Frame)
      /\ Len(frames') = Len(frames)
      /\ held \subseteq held' /\ held' \subseteq held \cup {h}
      /\ \A i \in 1..Len(frames) :
           /\ frames'[i].handle = frames[i].handle
           /\ frames'[i].fn = frames[i].fn
           /\ frames'[i].saved = frames[i].saved
           /\ frames[i].locals \subseteq frames'[i].locals
           /\ frames'[i].locals \subseteq frames[i].locals \cup {h}
      /\ \/ h \in held'
         \/ \E i \in 1..Len(frames) : h \in frames'[i].locals
  BY <1>3, ObtainEffect
<1>5. roots' \in [Pinned -> Nat]
  BY DEF Root, TypeOK
<1>6. TypeOK'
  BY <1>3, <1>4, <1>5 DEF TypeOK, Fresh
<1>7. FieldsOK'
  BY <1>3, <1>4 DEF FieldsOK, Fresh, TypeOK
<1>8. HandleKept'
  <2> SUFFICES ASSUME NEW g \in Handles, native'[g] = "linked"
               PROVE  \/ g \in held'
                      \/ Captured(g)'
                      \/ \E i \in 1..Len(frames') : g \in frames'[i].locals
    BY DEF HandleKept
  <2>1. CASE g = h
    BY <2>1, <1>4
  <2>2. CASE g # h
    BY <2>2, <1>4 DEF HandleKept, Captured, TypeOK
  <2> QED BY <2>1, <2>2
<1>9. RootsBalanced'
  <2> SUFFICES ASSUME NEW o \in Pinned
               PROVE  roots'[o] = Cardinality({g \in Handles : Owns(g, o)'})
    BY DEF RootsBalanced
  <2> DEFINE S == {g \in Handles : Owns(g, o)}
             T == {g \in Handles : Owns(g, o)'}
  <2>1. roots[o] = Cardinality(S) /\ IsFiniteSet(S) /\ Cardinality(S) \in Nat
    BY OwnersFinite DEF RootsBalanced
  <2>2. \A g \in Handles : g # h => (Owns(g, o)' <=> Owns(g, o))
    BY DEF Owns, TypeOK
  <2>3. ~ Owns(h, o)
    BY <1>2 DEF Owns
  <2>4. Owns(h, o)' <=> o \in {f, st}
    BY DEF Owns, TypeOK
  <2>5. o # None
    BY ObjectsAssumption DEF Pinned
  <2>6. CASE o \in {f, st}
    <3>1. T = S \cup {h} /\ h \notin S
      BY <2>2, <2>3, <2>4, <2>6
    <3>2. Cardinality(S \cup {h}) = Cardinality(S) + 1
      BY <2>1, <3>1, FS_AddElement
    <3>3. roots'[o] = roots[o] + 1
      BY <2>5, <2>6 DEF Root, Pins
    <3> QED BY <2>1, <3>1, <3>2, <3>3
  <2>7. CASE o \notin {f, st}
    <3>1. T = S
      BY <2>2, <2>3, <2>4, <2>7
    <3>2. roots'[o] = roots[o]
      BY <2>7 DEF Root, Pins
    <3> QED BY <2>1, <3>1, <3>2
  <2> QED BY <2>6, <2>7
<1>10. LinkedAlive'
  BY <1>1 DEF LinkedAlive, TypeOK
<1>11. RunningIntact' /\ SuspendIsDepth'
  BY <1>4 DEF RunningIntact, SuspendIsDepth
<1>12. EdgesAlive'
  BY <1>1, <1>3 DEF EdgesAlive, TypeOK
<1> QED
  BY <1>6, <1>7, <1>8, <1>9, <1>10, <1>11, <1>12

-----------------------------------------------------------------------------
(* Removal *)

LEMMA RemoveStep ==
  ASSUME IInv, NEW h \in Handles, native[h] \in {"linked", "spent"},
         NEW x \in {"removed", "corrupt"},
         native' = [native EXCEPT ![h] = x],
         roots' = Unroot(Pins(cb_fn[h], stream[h])),
         UNCHANGED <<live, swept, held, env, gc_suspend, handleVars, frames>>
  PROVE  IInv'
<1> USE DEF IInv, handleVars
<1>1. roots' \in [Pinned -> Nat]
  BY DEF Unroot, TypeOK
<1>2. TypeOK'
  BY <1>1 DEF TypeOK
<1>3. FieldsOK'
  BY DEF FieldsOK, Fresh, TypeOK
<1>4. HandleKept'
  BY DEF HandleKept, Captured, TypeOK
<1>5. RootsBalanced'
  <2> SUFFICES ASSUME NEW o \in Pinned
               PROVE  roots'[o] = Cardinality({g \in Handles : Owns(g, o)'})
    BY DEF RootsBalanced
  <2> DEFINE S == {g \in Handles : Owns(g, o)}
             T == {g \in Handles : Owns(g, o)'}
  <2>1. roots[o] = Cardinality(S) /\ IsFiniteSet(S) /\ Cardinality(S) \in Nat
    BY OwnersFinite DEF RootsBalanced
  <2>2. \A g \in Handles : g # h => (Owns(g, o)' <=> Owns(g, o))
    BY DEF Owns, TypeOK
  <2>3. ~ Owns(h, o)'
    BY DEF Owns, TypeOK
  <2>4. o # None
    BY ObjectsAssumption DEF Pinned
  <2>5. CASE Owns(h, o)
    <3>1. T = S \ {h} /\ h \in S
      BY <2>2, <2>3, <2>5
    <3>2. Cardinality(S \ {h}) = Cardinality(S) - 1
      BY <2>1, <3>1, FS_RemoveElement
    <3>3. roots[o] > 0
      BY <2>5, OwnedRooted
    <3>4. roots'[o] = roots[o] - 1
      BY <2>4, <2>5, <3>3 DEF Unroot, Pins, Owns
    <3> QED BY <2>1, <3>1, <3>2, <3>4
  <2>6. CASE ~ Owns(h, o)
    <3>1. T = S
      BY <2>2, <2>3, <2>6
    <3>2. roots'[o] = roots[o]
      BY <2>6 DEF Unroot, Pins, Owns
    <3> QED BY <2>1, <3>1, <3>2
  <2> QED BY <2>5, <2>6
<1>6. LinkedAlive' /\ RunningIntact' /\ SuspendIsDepth' /\ EdgesAlive'
  BY DEF LinkedAlive, RunningIntact, SuspendIsDepth, EdgesAlive, TypeOK
<1> QED
  BY <1>2, <1>3, <1>4, <1>5, <1>6

LEMMA SignalRemoveStep ==
  ASSUME IInv, NEW h \in Handles, SignalRemove(h)
  PROVE  IInv'
<1>1. stream[h] = None
  BY DEF SignalRemove, IInv, FieldsOK
<1> QED
  BY <1>1, RemoveStep DEF SignalRemove

LEMMA SourceRemoveStep ==
  ASSUME IInv, NEW h \in Handles, SourceRemove(h)
  PROVE  IInv'
<1> DEFINE x == IF native[h] = "linked" THEN "removed" ELSE "corrupt"
<1>1. x \in {"removed", "corrupt"} /\ native' = [native EXCEPT ![h] = x]
  BY DEF SourceRemove
<1> HIDE DEF x
<1> QED
  BY <1>1, RemoveStep DEF SourceRemove

-----------------------------------------------------------------------------
(* Callbacks *)

LEMMA InvokeStep ==
  ASSUME IInv, NEW h \in Handles, Invoke(h)
  PROVE  IInv'
<1> USE DEF IInv
<1>1. h \in live /\ cb_fn[h] \in live /\ cb_fn[h] \in Fns
  BY DEF Invoke, LinkedAlive, FieldsOK
<1>2. stream[h] # None => stream[h] \in live
  BY DEF Invoke, LinkedAlive
<1> DEFINE f == cb_fn[h]
           fr == [handle |-> h, fn |-> f, saved |-> gc_suspend,
                  locals |-> Arguments(h) \cup {f} \cup env[f]]
<1>3. frames' = Append(frames, fr) /\ gc_suspend' = gc_suspend + 1
  BY <1>1 DEF Invoke, Called, Locked
<1>4. fr.locals \subseteq live
  BY <1>1, <1>2 DEF Arguments, EdgesAlive
<1>5. fr \in Frame
  BY <1>1, <1>4 DEF Frame, TypeOK
<1>6. /\ frames' \in Seq(Frame)
      /\ Len(frames') = Len(frames) + 1
      /\ \A i \in 1..Len(frames) : frames'[i] = frames[i]
      /\ frames'[Len(frames) + 1] = fr
  BY <1>3, <1>5, PushEffect
<1>7. UNCHANGED <<live, swept, roots, held, env, handleVars, native>>
  BY DEF Invoke
<1>8. Len(frames) \in Nat
  BY DEF TypeOK
<1>9. TypeOK' /\ FieldsOK'
  BY <1>3, <1>6, <1>7 DEF TypeOK, FieldsOK, Fresh, handleVars
<1>10. HandleKept'
  BY <1>6, <1>7, <1>8 DEF HandleKept, Captured, handleVars
<1>11. RootsBalanced'
  BY <1>7, BalanceUnchanged
<1>12. LinkedAlive' /\ EdgesAlive'
  BY <1>7 DEF LinkedAlive, EdgesAlive, handleVars
<1>13. RunningIntact'
  BY <1>1, <1>4, <1>6, <1>7, <1>8 DEF RunningIntact
<1>14. SuspendIsDepth'
  BY <1>3, <1>6, <1>8 DEF SuspendIsDepth
<1> QED
  BY <1>9, <1>10, <1>11, <1>12, <1>13, <1>14

LEMMA ReturnStep ==
  ASSUME IInv, NEW outcome \in Outcomes, Return(outcome)
  PROVE  IInv'
<1> USE DEF IInv
<1>1. /\ frames' \in Seq(Frame)
      /\ Len(frames') = Len(frames) - 1
      /\ Len(frames) \in Nat \ {0}
      /\ Top \in Frame
      /\ \A i \in 1..Len(frames') : frames'[i] = frames[i]
  BY PopEffect DEF Return
<1>2. UNCHANGED <<live, swept, roots, held, env, handleVars>>
  BY DEF Return
<1>3. gc_suspend' = Len(frames) - 1
  BY <1>1 DEF Return, Unlocked, Top, SuspendIsDepth
<1>4. Top.handle \in Handles
  BY <1>1 DEF Frame
<1>5. /\ native' \in [Handles -> {"unused", "linked", "removed", "spent", "corrupt"}]
      /\ \A h \in Handles : native'[h] # native[h] =>
                              native[h] = "linked" /\ native'[h] = "spent"
  BY <1>4 DEF Return, Finished, TypeOK
<1>6. TypeOK'
  BY <1>1, <1>2, <1>3, <1>5 DEF TypeOK, handleVars
<1>7. FieldsOK'
  BY <1>2, <1>5 DEF FieldsOK, Fresh, handleVars
<1>8. HandleKept'
  <2> SUFFICES ASSUME NEW h \in Handles, native'[h] = "linked"
               PROVE  \/ h \in held \/ Captured(h)
                      \/ \E i \in 1..Len(frames') : h \in frames'[i].locals
    BY <1>2 DEF HandleKept, Captured, handleVars
  <2>1. native[h] = "linked"
    BY <1>5
  <2>2. CASE \E i \in 1..Len(frames) : h \in frames[i].locals
    <3> PICK i \in 1..Len(frames) : h \in frames[i].locals
      BY <2>2
    <3>1. CASE i = Len(frames)
      BY <2>1, <3>1 DEF Return, Top
    <3>2. CASE i # Len(frames)
      BY <1>1, <3>2
    <3> QED BY <3>1, <3>2
  <2> QED
    BY <2>1, <2>2 DEF HandleKept
<1>9. RootsBalanced'
  <2>1. \A g \in Handles, o \in Pinned : Owns(g, o)' <=> Owns(g, o)
    BY <1>2, <1>5 DEF Owns, handleVars
  <2>2. \A o \in Pinned :
          {g \in Handles : Owns(g, o)}' = {g \in Handles : Owns(g, o)}
    BY <2>1
  <2> QED
    BY <1>2, <2>2 DEF RootsBalanced
<1>10. LinkedAlive' /\ EdgesAlive'
  BY <1>2, <1>5 DEF LinkedAlive, EdgesAlive, handleVars
<1>11. RunningIntact'
  BY <1>1, <1>2 DEF RunningIntact
<1>12. SuspendIsDepth'
  BY <1>1, <1>3 DEF SuspendIsDepth
<1> QED
  BY <1>6, <1>7, <1>8, <1>9, <1>10, <1>11, <1>12

-----------------------------------------------------------------------------
(* The collector *)

LEMMA CollectStep ==
  ASSUME IInv, Collect
  PROVE  IInv'
<1> USE DEF IInv
<1>1. /\ live' = live \cap Reachable
      /\ swept' = swept \cup (live \ Reachable)
      /\ UNCHANGED <<roots, held, env, gc_suspend, handleVars, native, frames>>
  BY DEF Collect, Survivors
<1>2. Len(frames) = 0
  BY DEF Collect, SuspendIsDepth
<1>3. held \subseteq live'
  BY <1>1, ReachBase DEF Base, FieldsOK, TypeOK
<1>4. \A o \in live' : Marks(o) \cap live \subseteq live'
  BY <1>1, ReachStep DEF TypeOK
<1>5. TypeOK'
  BY <1>1 DEF TypeOK, handleVars
<1>6. FieldsOK'
  BY <1>1, <1>3 DEF FieldsOK, Fresh, handleVars
<1>7. HandleKept'
  BY <1>1 DEF HandleKept, Captured, handleVars
<1>8. RootsBalanced'
  BY <1>1, BalanceUnchanged
<1>9. EdgesAlive'
  <2>1. \A f \in Fns \cap live' : env[f] \subseteq live'
    BY <1>1, <1>4 DEF Marks, EdgesAlive
  <2>2. \A h \in Handles \cap live' : {cb_fn[h], stream[h]} \ {None} \subseteq live'
    BY <1>1, <1>4, ObjectsAssumption DEF Marks, EdgesAlive
  <2> QED
    BY <1>1, <2>1, <2>2 DEF EdgesAlive, handleVars
<1>10. LinkedAlive'
  <2> SUFFICES ASSUME NEW h \in Handles, native[h] = "linked"
               PROVE  /\ h \in live' /\ cb_fn[h] \in live'
                      /\ stream[h] # None => stream[h] \in live'
    BY <1>1 DEF LinkedAlive, handleVars
  <2>1. cb_fn[h] \in Fns /\ cb_fn[h] \in live /\ h \in live
    BY DEF FieldsOK, LinkedAlive
  <2>2. cb_fn[h] \in Pinned /\ roots[cb_fn[h]] > 0
    BY <2>1, OwnedRooted DEF Owns, Pinned
  <2>3. cb_fn[h] \in live'
    BY <1>1, <2>1, <2>2, ReachBase DEF Base, Obj
  <2>4. h \in live'
    <3>1. h \in held \/ h \in env[cb_fn[h]]
      BY <1>2 DEF HandleKept, Captured
    <3> QED
      BY <1>3, <1>4, <2>1, <2>3, <3>1 DEF Marks
  <2>5. stream[h] # None => stream[h] \in live'
    BY <2>4, <1>9, <1>1 DEF EdgesAlive, handleVars
  <2> QED BY <2>3, <2>4, <2>5
<1>11. RunningIntact' /\ SuspendIsDepth'
  BY <1>1, <1>2 DEF RunningIntact, SuspendIsDepth
<1> QED
  BY <1>5, <1>6, <1>7, <1>8, <1>9, <1>10, <1>11

-----------------------------------------------------------------------------
(* The theorems *)

LEMMA NextIInv == IInv /\ [Next]_vars => IInv'
<1> SUFFICES ASSUME IInv, [Next]_vars PROVE IInv'
  OBVIOUS
<1>1. CASE \E f \in Fns : NewFn(f)
  BY <1>1, NewObjectStep DEF NewFn, Pinned
<1>2. CASE \E st \in Streams : NewStream(st)
  BY <1>2, NewObjectStep DEF NewStream, Pinned
<1>3. CASE \E f \in Fns, h \in Handles : Capture(f, h)
  BY <1>3, CaptureStep
<1>4. CASE \E o \in Obj : Store(o) \/ Forget(o)
  BY <1>4, StoreStep, ForgetStep
<1>5. CASE \E h \in Handles, st \in Streams \cup {None} : AddFails(h, st)
  BY <1>5, AddFailsStep
<1>6. CASE \E h \in Handles, f \in Fns : SignalAdd(h, f)
  BY <1>6, AddStep DEF SignalAdd, Kinds
<1>7. CASE \E h \in Handles, f \in Fns, st \in Streams \cup {None} : SourceAdd(h, f, st)
  BY <1>7, AddStep DEF SourceAdd, Kinds
<1>8. CASE \E h \in Handles, f \in Fns : IdleAdd(h, f)
  BY <1>8, AddStep DEF IdleAdd, Kinds
<1>9. CASE \E h \in Handles : SignalRemove(h) \/ SourceRemove(h)
  BY <1>9, SignalRemoveStep, SourceRemoveStep
<1>10. CASE \E h \in Handles : Invoke(h)
  BY <1>10, InvokeStep
<1>11. CASE \E outcome \in Outcomes : Return(outcome)
  BY <1>11, ReturnStep
<1>12. CASE Collect
  BY <1>12, CollectStep
<1>13. CASE UNCHANGED vars
  <2>1. RootsBalanced'
    BY <1>13, BalanceUnchanged DEF IInv, vars, heapVars
  <2> QED
    BY <1>13, <2>1
       DEF vars, heapVars, handleVars, IInv, TypeOK, FieldsOK, Fresh, HandleKept, Captured,
           LinkedAlive, RunningIntact, SuspendIsDepth, EdgesAlive
<1> QED
  BY <1>1, <1>2, <1>3, <1>4, <1>5, <1>6, <1>7, <1>8, <1>9, <1>10, <1>11, <1>12, <1>13
     DEF Next, Program

(* The inductive invariant holds of every behaviour.                       *)
THEOREM Invariance == Spec => []IInv
<1>1. IInv /\ [Next]_vars => IInv'
  BY NextIInv
<1> QED
  BY InitIInv, <1>1, PTL DEF Spec

(* Every variable keeps its type.                                          *)
THEOREM TypeCorrect == Spec => []TypeOK
<1>1. IInv => TypeOK
  BY DEF IInv
<1> QED
  BY Invariance, <1>1, PTL

(* libwayland never holds a dangling pointer to a handle, and a handle it   *)
(* holds never has a dangling function or stream, although wl.c roots only  *)
(* the function and the stream.                                             *)
THEOREM NoDanglingRegistration == Spec => []LinkedAlive
<1>1. IInv => LinkedAlive
  BY DEF IInv
<1> QED
  BY Invariance, <1>1, PTL

(* Nothing a running callback refers to is swept under it, even when it has *)
(* removed its own registration.                                            *)
THEOREM NoSweepUnderCallback == Spec => []RunningIntact
<1>1. IInv => RunningIntact
  BY DEF IInv
<1> QED
  BY Invariance, <1>1, PTL

(* The gclock/gcunlock pairs nest: the collector is suspended exactly while *)
(* callbacks run.                                                           *)
THEOREM LockBalance == Spec => []SuspendIsDepth
<1>1. IInv => SuspendIsDepth
  BY DEF IInv
<1> QED
  BY Invariance, <1>1, PTL

(* Roots and registrations correspond one to one, shared functions          *)
(* included.                                                                *)
THEOREM RootBalance == Spec => []RootsBalanced
<1>1. IInv => RootsBalanced
  BY DEF IInv
<1> QED
  BY Invariance, <1>1, PTL

(* No object on the Janet heap refers to a swept one.                      *)
THEOREM HeapClosed == Spec => []EdgesAlive
<1>1. IInv => EdgesAlive
  BY DEF IInv
<1> QED
  BY Invariance, <1>1, PTL

-----------------------------------------------------------------------------
(* WlCallbacks implements Registration *)

Reg     == [h \in Handles |-> RegistrationOf(h)]
RunningOf(fs) == [i \in 1..Len(fs) |-> <<fs[i].handle, fs[i].fn>>]
Running == RunningOf(frames)

LEMMA RunningIsSeq ==
  ASSUME NEW fs \in Seq(Frame)
  PROVE  /\ RunningOf(fs) \in Seq(Handles \X (Fns \cup {Garbage}))
         /\ Len(RunningOf(fs)) = Len(fs)
<1>1. \A i \in 1..Len(fs) : fs[i] \in Frame
  BY ElementOfSeq
<1>2. Len(fs) \in Nat
  OBVIOUS
<1>3. \A i \in 1..Len(fs) :
        <<fs[i].handle, fs[i].fn>> \in Handles \X (Fns \cup {Garbage})
  BY <1>1 DEF Frame
<1> QED
  BY <1>2, <1>3 DEF RunningOf

(* Steps that touch neither the registrations nor the functions on the     *)
(* callback stack stutter.                                                 *)
LEMMA StutterStep ==
  ASSUME UNCHANGED <<native, cb_fn, kind>>, Len(frames') = Len(frames),
         \A i \in 1..Len(frames) :
           frames'[i].handle = frames[i].handle /\ frames'[i].fn = frames[i].fn
  PROVE  UNCHANGED <<Reg, Running>>
BY DEF Reg, RegistrationOf, Running, RunningOf

LEMMA RefineInit == Init => Abstract!Init
<1> SUFFICES ASSUME Init PROVE Abstract!Init
  OBVIOUS
<1>1. Running = <<>>
  <2>1. frames = <<>> /\ frames \in Seq(Frame) /\ Len(frames) = 0
    BY EmptySeq DEF Init
  <2>2. Running \in Seq(Handles \X (Fns \cup {Garbage})) /\ Len(Running) = 0
    BY <2>1, RunningIsSeq DEF Running
  <2> QED
    BY <2>2, EmptySeq
<1>2. Reg = [h \in Handles |-> [state |-> "unused"]]
  BY DEF Init, Reg, RegistrationOf
<1> QED
  BY <1>1, <1>2 DEF Abstract!Init, Abstract!Unused, Reg, Running, RunningOf

LEMMA RefineAdd ==
  ASSUME IInv, NEW h \in Handles, NEW k \in Kinds, NEW f \in Fns,
         NEW st \in Streams \cup {None}, Add(h, k, f, st)
  PROVE  Abstract!Register(h, f, k = "idle")
<1>1. native[h] = "unused" /\ h \in Obj
  BY DEF IInv, FieldsOK, Add, Obj
<1>2. /\ Len(frames') = Len(frames)
      /\ \A i \in 1..Len(frames) :
           frames'[i].handle = frames[i].handle /\ frames'[i].fn = frames[i].fn
  BY <1>1, ObtainEffect DEF IInv, Add
<1>3. Running' = Running
  BY <1>2 DEF Running, RunningOf
<1>4. Reg[h] = Abstract!Unused
  BY <1>1 DEF Reg, RegistrationOf, Abstract!Unused
<1>5. Reg' = [Reg EXCEPT ![h] = [state |-> "registered", fn |-> f, once |-> k = "idle"]]
  BY DEF Reg, RegistrationOf, Add, IInv, TypeOK
<1> QED
  BY <1>3, <1>4, <1>5 DEF Abstract!Register, Reg, Running, RunningOf

LEMMA RegisteredIfLinked ==
  ASSUME IInv, NEW h \in Handles
  PROVE  native[h] = "linked" <=> Reg[h] \in Abstract!Registered
<1>1. native[h] = "linked" => cb_fn[h] \in Fns
  BY DEF IInv, FieldsOK
<1>2. native[h] = "linked" => Reg[h] \in Abstract!Registered
  BY <1>1 DEF Reg, RegistrationOf, Abstract!Registered
<1>3. Reg[h] \in Abstract!Registered => Reg[h].state = "registered"
  BY DEF Abstract!Registered
<1>4. native[h] # "linked" => Reg[h].state # "registered"
  BY DEF Reg, RegistrationOf
<1> QED
  BY <1>2, <1>3, <1>4

LEMMA RefineRemove ==
  ASSUME IInv, NEW h \in Handles, SignalRemove(h) \/ SourceRemove(h)
  PROVE  Abstract!Unregister(h) \/ UNCHANGED <<Reg, Running>>
<1>1. UNCHANGED <<cb_fn, kind, frames>>
  BY DEF SignalRemove, SourceRemove, handleVars
<1>2. Running' = Running
  BY <1>1 DEF Running, RunningOf
<1>3. CASE native[h] = "linked"
  <2>1. native' = [native EXCEPT ![h] = "removed"]
    BY <1>3 DEF SignalRemove, SourceRemove
  <2>2. Reg' = [Reg EXCEPT ![h] = Abstract!Gone]
    BY <1>1, <2>1 DEF Reg, RegistrationOf, Abstract!Gone, IInv, TypeOK
  <2>3. Reg[h] \in Abstract!Registered
    BY <1>3, RegisteredIfLinked
  <2> QED
    BY <1>2, <2>2, <2>3 DEF Abstract!Unregister, Reg, Running, RunningOf
<1>4. CASE native[h] # "linked"
  <2>1. native[h] = "spent" /\ native' = [native EXCEPT ![h] = "corrupt"]
    BY <1>4 DEF SignalRemove, SourceRemove
  <2>2. Reg' = Reg
    BY <1>1, <2>1 DEF Reg, RegistrationOf, IInv, TypeOK
  <2> QED BY <1>2, <2>2
<1> QED BY <1>3, <1>4

LEMMA RefineInvoke ==
  ASSUME IInv, NEW h \in Handles, Invoke(h)
  PROVE  Abstract!Call(h)
<1>1. /\ native[h] = "linked" /\ cb_fn[h] \in Fns
      /\ h \in live /\ cb_fn[h] \in live
  BY DEF Invoke, IInv, LinkedAlive, FieldsOK
<1> DEFINE fr == [handle |-> h, fn |-> cb_fn[h], saved |-> gc_suspend,
                  locals |-> Arguments(h) \cup {cb_fn[h]} \cup env[cb_fn[h]]]
           e  == <<h, Reg[h].fn>>
           S  == Handles \X (Fns \cup {Garbage})
<1>2. frames' = Append(frames, fr) /\ UNCHANGED <<native, cb_fn, kind>>
  BY <1>1 DEF Invoke, Called, handleVars
<1>3. Reg[h].fn = cb_fn[h] /\ Reg' = Reg
  BY <1>1, <1>2 DEF Reg, RegistrationOf
<1>4. frames' \in Seq(Frame) /\ frames \in Seq(Frame)
  <2>1. IInv'
    BY InvokeStep
  <2> QED BY <2>1 DEF IInv, TypeOK
<1>5. /\ Len(frames') = Len(frames) + 1
      /\ \A i \in 1..Len(frames) : frames'[i] = frames[i]
      /\ frames'[Len(frames) + 1] = fr
  BY <1>2, <1>4
<1>6. Running \in Seq(S) /\ Len(Running) = Len(frames)
  BY <1>4, RunningIsSeq DEF Running
<1>7. e \in S
  BY <1>1, <1>3
<1>8. /\ Append(Running, e) \in Seq(S)
      /\ Len(Append(Running, e)) = Len(frames) + 1
      /\ \A i \in 1..Len(frames) : Append(Running, e)[i] = Running[i]
      /\ Append(Running, e)[Len(frames) + 1] = e
  <2> HIDE DEF e, S
  <2> QED BY <1>6, <1>7, AppendProperties
<1>9. Running' \in Seq(S) /\ Len(Running') = Len(frames) + 1
  BY <1>4, <1>5, RunningIsSeq DEF Running
<1>10. \A i \in 1..Len(frames) + 1 : Running'[i] = Append(Running, e)[i]
  <2> SUFFICES ASSUME NEW i \in 1..Len(frames) + 1
               PROVE  Running'[i] = Append(Running, e)[i]
    OBVIOUS
  <2>1. i = Len(frames) + 1 \/ i \in 1..Len(frames)
    <3>1. \A n \in Nat : \A j \in 1..n + 1 : j = n + 1 \/ j \in 1..n
      OBVIOUS
    <3>2. Len(frames) \in Nat
      BY <1>4
    <3> QED BY <3>1, <3>2
  <2>2. CASE i = Len(frames) + 1
    BY <1>3, <1>5, <1>8, <2>1, <2>2 DEF Running, RunningOf
  <2>3. CASE i \in 1..Len(frames)
    BY <1>5, <1>8, <2>1, <2>3 DEF Running, RunningOf
  <2> QED BY <2>1, <2>2, <2>3
<1>11. Running' = Append(Running, e)
  <2> HIDE DEF e, S
  <2> QED BY <1>8, <1>9, <1>10, SeqEqual
<1>12. Reg[h] \in Abstract!Registered
  BY <1>1, RegisteredIfLinked
<1> QED
  BY <1>3, <1>11, <1>12 DEF Abstract!Call, Reg, Running, RunningOf

LEMMA RefineReturn ==
  ASSUME IInv, NEW outcome \in Outcomes, Return(outcome)
  PROVE  Abstract!Finish
<1> DEFINE n == Len(frames) - 1
           S == Handles \X (Fns \cup {Garbage})
           h == Top.handle
<1>1. /\ frames' \in Seq(Frame) /\ frames \in Seq(Frame)
      /\ Len(frames') = n
      /\ Len(frames) \in Nat \ {0}
      /\ Top \in Frame
      /\ \A i \in 1..n : frames'[i] = frames[i]
  BY PopEffect DEF Return, IInv, TypeOK
<1>2. /\ Running \in Seq(S) /\ Len(Running) = Len(frames)
      /\ Running' \in Seq(S) /\ Len(Running') = n
  BY <1>1, RunningIsSeq DEF Running
<1>3. n \in Nat
  <2>1. \A k \in Nat \ {0} : k - 1 \in Nat
    OBVIOUS
  <2> QED BY <1>1, <2>1
<1>4. \A i \in 1..n : Running[i] = Running'[i]
  <2>1. \A i \in 1..n : i \in 1..Len(frames)
    BY <1>1
  <2> QED BY <1>1, <2>1 DEF Running, RunningOf
<1>5. Running' = SubSeq(Running, 1, n)
  <2>1. \A i \in 1..n : Running[i] \in S
    <3>1. \A i \in 1..n : Running'[i] \in S
      BY <1>2, ElementOfSeq
    <3> QED BY <1>4, <3>1
  <2>2. /\ SubSeq(Running, 1, n) \in Seq(S)
        /\ Len(SubSeq(Running, 1, n)) = IF 1 <= n THEN n - 1 + 1 ELSE 0
        /\ \A i \in 1..n - 1 + 1 : SubSeq(Running, 1, n)[i] = Running[1 + i - 1]
    <3> HIDE DEF n, S
    <3> QED BY <1>3, <2>1, SubSeqProperties
  <2>3. /\ (IF 1 <= n THEN n - 1 + 1 ELSE 0) = n
        /\ n - 1 + 1 = n
        /\ \A i \in 1..n : 1 + i - 1 = i
    <3> HIDE DEF n
    <3> QED BY <1>3
  <2>4. ASSUME NEW i \in 1..n PROVE SubSeq(Running, 1, n)[i] = Running'[i]
    <3> HIDE DEF n, S
    <3>1. SubSeq(Running, 1, n)[i] = Running[1 + i - 1]
      BY <2>2, <2>3
    <3> QED BY <1>4, <2>3, <3>1
  <2> HIDE DEF n, S
  <2> QED BY <1>2, <2>2, <2>3, <2>4, SeqEqual
<1>6. Running # <<>>
  BY <1>1, <1>2
<1>7. Running[Len(Running)][1] = h /\ h \in Handles
  <2>1. Len(frames) \in 1..Len(frames)
    BY <1>1
  <2> QED BY <1>1, <1>2, <2>1 DEF Running, RunningOf, Top, Frame
<1>8. UNCHANGED <<cb_fn, kind>> /\ native' = Finished(h)
  BY DEF Return, handleVars
<1>9. Reg' = IF Reg[h] \in Abstract!Registered /\ Reg[h].once
             THEN [Reg EXCEPT ![h] = Abstract!Gone]
             ELSE Reg
  <2>1. native[h] = "linked" <=> Reg[h] \in Abstract!Registered
    BY <1>7, RegisteredIfLinked
  <2>2. native[h] = "linked" => (Reg[h].once <=> kind[h] = "idle")
    BY <1>7 DEF Reg, RegistrationOf
  <2>3. CASE native[h] = "linked" /\ kind[h] = "idle"
    <3>1. native' = [native EXCEPT ![h] = "spent"]
      BY <1>8, <2>3 DEF Finished
    <3>2. Reg' = [Reg EXCEPT ![h] = Abstract!Gone]
      BY <1>7, <1>8, <3>1 DEF Reg, RegistrationOf, Abstract!Gone, IInv, TypeOK
    <3> QED BY <2>1, <2>2, <2>3, <3>2
  <2>4. CASE ~ (native[h] = "linked" /\ kind[h] = "idle")
    <3>1. native' = native
      BY <1>8, <2>4 DEF Finished
    <3>2. Reg' = Reg
      BY <1>8, <3>1 DEF Reg, RegistrationOf
    <3> QED BY <2>1, <2>2, <2>4, <3>2
  <2> QED BY <2>3, <2>4
<1>10. Len(Running) - 1 = n
  BY <1>2
<1> QED
  BY <1>5, <1>6, <1>7, <1>9, <1>10 DEF Abstract!Finish, Reg, Running, RunningOf

LEMMA RefineStutter ==
  ASSUME IInv,
         \/ \E f \in Fns : NewFn(f)
         \/ \E st \in Streams : NewStream(st)
         \/ \E f \in Fns, h \in Handles : Capture(f, h)
         \/ \E o \in Obj : Store(o) \/ Forget(o)
         \/ \E h \in Handles, st \in Streams \cup {None} : AddFails(h, st)
         \/ Collect
         \/ UNCHANGED vars
  PROVE  UNCHANGED <<Reg, Running>>
<1>1. CASE (\E f \in Fns : NewFn(f)) \/ (\E st \in Streams : NewStream(st))
  <2> PICK o \in Pinned : Obtain({o}) /\ UNCHANGED <<handleVars, native>>
    BY <1>1 DEF NewFn, NewStream, Pinned
  <2>1. {o} \in SUBSET Obj
    BY DEF Obj, Pinned
  <2> QED
    BY <2>1, ObtainEffect, StutterStep DEF IInv, handleVars
<1>2. CASE \E h \in Handles, st \in Streams \cup {None} : AddFails(h, st)
  <2> PICK h \in Handles, st \in Streams \cup {None} : AddFails(h, st)
    BY <1>2
  <2>1. native[h] = "unused"
    BY DEF AddFails, IInv, FieldsOK
  <2> QED
    BY <2>1 DEF AddFails, Reg, RegistrationOf, Running, IInv, TypeOK
<1>3. CASE \/ \E f \in Fns, h \in Handles : Capture(f, h)
           \/ \E o \in Obj : Store(o) \/ Forget(o)
           \/ Collect
           \/ UNCHANGED vars
  BY <1>3, StutterStep DEF Capture, Store, Forget, Collect, vars, heapVars, handleVars
<1> QED BY <1>1, <1>2, <1>3

LEMMA RefineNext ==
  IInv /\ [Next]_vars => [Abstract!Next]_(Abstract!regVars)
<1> SUFFICES ASSUME IInv, [Next]_vars
             PROVE  Abstract!Next \/ UNCHANGED <<Reg, Running>>
  BY DEF Abstract!regVars, Reg, Running, RunningOf
<1>1. ASSUME NEW h \in Handles, NEW k \in Kinds, NEW f \in Fns,
             NEW st \in Streams \cup {None}, Add(h, k, f, st)
      PROVE  Abstract!Next
  BY <1>1, RefineAdd DEF Abstract!Next
<1>2. CASE \/ \E h \in Handles, f \in Fns : SignalAdd(h, f) \/ IdleAdd(h, f)
           \/ \E h \in Handles, f \in Fns, st \in Streams \cup {None} : SourceAdd(h, f, st)
  BY <1>1, <1>2 DEF SignalAdd, IdleAdd, SourceAdd, Kinds
<1>3. CASE \E h \in Handles : SignalRemove(h) \/ SourceRemove(h)
  BY <1>3, RefineRemove DEF Abstract!Next
<1>4. CASE \E h \in Handles : Invoke(h)
  BY <1>4, RefineInvoke DEF Abstract!Next
<1>5. CASE \E outcome \in Outcomes : Return(outcome)
  BY <1>5, RefineReturn DEF Abstract!Next
<1> QED
  BY <1>2, <1>3, <1>4, <1>5, RefineStutter DEF Next, Program

(* A program sees its callbacks as Registration describes them: whatever    *)
(* the collector does, C calls the function that was registered, between    *)
(* its registration and its removal, and an idle callback once.             *)
THEOREM Refinement == Spec => ImplementsRegistration
<1>1. Init => Abstract!Init
  BY RefineInit
<1>2. IInv /\ [Next]_vars => [Abstract!Next]_(Abstract!regVars)
  BY RefineNext
<1> QED
  BY <1>1, <1>2, Invariance, PTL DEF Spec, ImplementsRegistration, Abstract!Spec
=============================================================================
