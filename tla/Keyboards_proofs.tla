-------------------------- MODULE Keyboards_proofs --------------------------
(***************************************************************************)
(* Proofs about Keyboards, for any keyboards and surfaces and any rules    *)
(* that are lifted.                                                        *)
(***************************************************************************)
EXTENDS Keyboards, Integers, SequenceTheorems, TLAPS

-----------------------------------------------------------------------------
(* remove-element and array/push on arrays that hold each element once *)

(* remove-element of what the array has takes it, and nothing else.         *)
LEMMA RemoveOne ==
  ASSUME NEW S, NEW s \in Seq(S), NEW e, IsInjective(s), Contains(s, e)
  PROVE  /\ RemoveFirst(s, e) \in Seq(S)
         /\ Len(RemoveFirst(s, e)) = Len(s) - 1
         /\ IsInjective(RemoveFirst(s, e))
         /\ ToSet(RemoveFirst(s, e)) = ToSet(s) \ {e}
<1>1. PICK i \in 1..Len(s) : s[i] = e
  BY DEF Contains
<1> DEFINE I == {j \in 1..Len(s) : s[j] = e}
           r == [j \in 1..Len(s) - 1 |-> IF j < i THEN s[j] ELSE s[j + 1]]
<1>2. I = {i}
  BY <1>1 DEF IsInjective
<1>3. Min(I) = i
  BY <1>2 DEF Min
<1>4. RemoveFirst(s, e) = RemoveAt(s, i)
  BY <1>1, <1>2, <1>3 DEF RemoveFirst, SelectInSeq
<1>5. RemoveAt(s, i) = r
  <2> DEFINE a == SubSeq(s, 1, i - 1)
             b == SubSeq(s, i + 1, Len(s))
  <2>1. a \in Seq(S) /\ Len(a) = i - 1 /\ \A j \in 1..i - 1 : a[j] = s[j]
    BY SubSeqProperties
  <2>2. b \in Seq(S) /\ Len(b) = Len(s) - i /\ \A j \in 1..Len(s) - i : b[j] = s[i + j]
    BY SubSeqProperties
  <2> HIDE DEF a, b
  <2>3. /\ a \o b \in Seq(S)
        /\ Len(a \o b) = Len(s) - 1
        /\ \A j \in 1..Len(s) - 1 : (a \o b)[j] = IF j < i THEN a[j] ELSE b[j - (i - 1)]
    <3>1. a \in Seq(S) /\ b \in Seq(S)
      BY <2>1, <2>2
    <3>2. /\ a \o b \in Seq(S)
          /\ Len(a \o b) = Len(a) + Len(b)
          /\ \A j \in 1..Len(a) + Len(b) :
               (a \o b)[j] = IF j =< Len(a) THEN a[j] ELSE b[j - Len(a)]
      BY <3>1, ConcatProperties
    <3>3. Len(a) = i - 1 /\ Len(b) = Len(s) - i
      BY <2>1, <2>2
    <3> QED BY <3>2, <3>3
  <2>4. r \in Seq(S) /\ Len(r) = Len(a \o b) /\ \A j \in 1..Len(r) : r[j] = (a \o b)[j]
    <3>1. \A j \in 1..Len(s) - 1 : r[j] = IF j < i THEN s[j] ELSE s[j + 1]
      OBVIOUS
    <3>2. r \in Seq(S) /\ Len(r) = Len(s) - 1
      OBVIOUS
    <3> HIDE DEF r
    <3> QED BY <2>1, <2>2, <2>3, <3>1, <3>2
  <2>5. r = a \o b
    BY <2>3, <2>4, SeqEqual
  <2> QED BY <2>5 DEF RemoveAt, a, b
<1> HIDE DEF I
<1>6. r \in Seq(S) /\ Len(r) = Len(s) - 1
  OBVIOUS
<1>7. IsInjective(r)
  BY <1>1 DEF IsInjective
<1>8. ToSet(r) = ToSet(s) \ {e}
  <2>1. ASSUME NEW j \in DOMAIN r PROVE r[j] \in ToSet(s) \ {e}
    BY <1>1 DEF IsInjective, ToSet
  <2>2. ASSUME NEW k \in DOMAIN s, s[k] # e PROVE \E j \in DOMAIN r : r[j] = s[k]
    <3>1. CASE k < i
      BY <3>1
    <3>2. CASE k > i
      <4>1. k - 1 \in DOMAIN r /\ r[k - 1] = s[k]
        BY <3>2
      <4> QED BY <4>1
    <3> QED BY <1>1, <2>2, <3>1, <3>2
  <2> QED BY <2>1, <2>2 DEF ToSet
<1> QED BY <1>4, <1>5, <1>6, <1>7, <1>8

(* remove-element of what the array does not have does nothing.             *)
LEMMA RemoveNone ==
  ASSUME NEW S, NEW s \in Seq(S), NEW e, ~ Contains(s, e)
  PROVE  RemoveFirst(s, e) = s /\ e \notin ToSet(s)
BY DEF RemoveFirst, Contains, ToSet

(* remove-element, in one.                                                  *)
LEMMA RemoveElement ==
  ASSUME NEW S, NEW s \in Seq(S), NEW e, IsInjective(s)
  PROVE  /\ RemoveFirst(s, e) \in Seq(S)
         /\ IsInjective(RemoveFirst(s, e))
         /\ ToSet(RemoveFirst(s, e)) = ToSet(s) \ {e}
<1>1. CASE Contains(s, e)
  BY <1>1, RemoveOne
<1>2. CASE ~ Contains(s, e)
  BY <1>2, RemoveNone
<1> QED BY <1>1, <1>2

(* array/push of what the array does not have.                              *)
LEMMA PushElement ==
  ASSUME NEW S, NEW s \in Seq(S), NEW e \in S, IsInjective(s), e \notin ToSet(s)
  PROVE  /\ Append(s, e) \in Seq(S)
         /\ IsInjective(Append(s, e))
         /\ ToSet(Append(s, e)) = ToSet(s) \cup {e}
         /\ Append(s, e) # <<>> /\ Last(Append(s, e)) = e
<1>1. /\ Append(s, e) \in Seq(S) /\ Len(Append(s, e)) = Len(s) + 1
      /\ \A i \in 1..Len(s) : Append(s, e)[i] = s[i]
      /\ Append(s, e)[Len(s) + 1] = e
  OBVIOUS
<1>2. \A i \in 1..Len(s) : s[i] # e
  BY DEF ToSet
<1> DEFINE t == Append(s, e)
<1>3. DOMAIN t = 1..Len(s) + 1 /\ DOMAIN s = 1..Len(s)
  BY <1>1
<1> HIDE DEF t
<1>4. IsInjective(t)
  BY <1>1, <1>2, <1>3 DEF IsInjective, t
<1>5. ToSet(t) = ToSet(s) \cup {e}
  BY <1>1, <1>3 DEF ToSet, t
<1>6. t # <<>> /\ Last(t) = e
  BY <1>1 DEF Last, t
<1> QED BY <1>1, <1>4, <1>5, <1>6 DEF t

(* The last element of an array, if there is one, is in it.                 *)
LEMMA LastElement ==
  ASSUME NEW S, NEW s \in Seq(S)
  PROVE  /\ s # <<>> => Last(s) \in ToSet(s) /\ Last(s) \in S
         /\ s = <<>> <=> ToSet(s) = {}
         /\ ToSet(s) \subseteq S
         /\ \A e : Contains(s, e) <=> e \in ToSet(s)
<1>1. DOMAIN s = 1..Len(s) /\ Len(s) \in Nat /\ (s = <<>> <=> Len(s) = 0)
  OBVIOUS
<1>2. ASSUME s # <<>>
      PROVE  Last(s) \in ToSet(s)
  <2>1. Len(s) \in DOMAIN s
    BY <1>1, <1>2
  <2> QED BY <2>1 DEF ToSet, Last
<1>3. ASSUME s = <<>>
      PROVE  ToSet(s) = {}
  <2>1. DOMAIN s = {}
    BY <1>1, <1>3
  <2> QED BY <2>1 DEF ToSet
<1>4. ToSet(s) \subseteq S
  BY DEF ToSet
<1>5. \A e : Contains(s, e) <=> e \in ToSet(s)
  BY <1>1 DEF ToSet, Contains
<1> QED BY <1>2, <1>3, <1>4, <1>5

-----------------------------------------------------------------------------

(* What a keyboard may have: a keymap that holds its context and a state;   *)
(* or a context that the handler made before it ended.                      *)
Made   == [context |-> 1, keymap |-> 1, state |-> TRUE, freed |-> FALSE]
Leaked == [context |-> 1, keymap |-> 0, state |-> FALSE, freed |-> FALSE]

Seats == [keyboard : Keyboards \cup {None}, focused : Surfaces \cup {None},
          keys : SUBSET Keys, alt : BOOLEAN]

Types ==
  /\ plugged \subseteq Keyboards /\ listening \subseteq plugged
  /\ listed \in Seq(Keyboards)
  /\ xkb \in [Keyboards -> {NoXkb, Made, Leaked}]
  /\ down \in [Keyboards -> SUBSET Keys]
  /\ alt \subseteq Keyboards
  /\ seat \in Seats
  /\ crashed \in BOOLEAN

(* What a keyboard has depends on whether it is listened to, and it has     *)
(* nothing when it is gone.                                                 *)
XkbFollows ==
  /\ \A k \in listening : xkb[k] = Made \/ (xkb[k] = NoXkb /\ "sets" \in lifted)
  /\ \A k \in Keyboards \ listening :
       xkb[k] = NoXkb \/ (xkb[k] = Leaked /\ "compiles" \in lifted)
  /\ crashed => "sets" \in lifted

(* A client knows of no key but those of keyboards that are listened to,    *)
(* and has the modifiers of the keyboard that the seat has.                 *)
Agrees(s, heard, downs, alts) ==
  /\ s.keys \subseteq UNION {downs[k] : k \in heard}
  /\ s.focused = None => s.keys = {}
  /\ s.focused # None /\ s.keyboard # None => s.alt = (s.keyboard \in alts)

ClientFollows == Agrees(seat, listening, down, alt)

(* Nothing is down on a keyboard that is not there.                         *)
GoneIsUp == \A k \in Keyboards \ plugged : down[k] = {} /\ k \notin alt

(* What holds in every state, and is inductive.                             *)
IInv == Types /\ XkbFollows /\ ClientFollows /\ GoneIsUp /\ KeyboardsListed

-----------------------------------------------------------------------------
(* What is made for a keyboard, and given back                              *)

Holdings == [context : Nat, keymap : Nat, state : BOOLEAN, freed : BOOLEAN]

LEMMA HoldingsEqual ==
  ASSUME NEW g \in Holdings, NEW h \in Holdings,
         g.context = h.context, g.keymap = h.keymap, g.state = h.state, g.freed = h.freed
  PROVE  g = h
BY DEF Holdings

(* What somebody holds can be used.                                         *)
LEMMA Used ==
  ASSUME NEW h \in Holdings
  PROVE  /\ h.context # 0 => Using(h, "context") = h
         /\ h.keymap # 0 => Using(h, "keymap") = h
<1>1. ASSUME NEW thing \in {"context", "keymap"}, h[thing] # 0
      PROVE  Using(h, thing) = h
  <2>1. (h.freed \/ h[thing] = 0) = h.freed
    BY <1>1 DEF Holdings
  <2>2. Using(h, thing) = [h EXCEPT !.freed = h.freed]
    BY <2>1 DEF Using
  <2> QED BY <2>2 DEF Holdings
<1> QED BY <1>1

(* xkb-context-new, xkb-keymap-new-from-names                               *)
LEMMA News ==
  ASSUME NEW h \in Holdings
  PROVE  /\ /\ NewContext(h) \in Holdings
            /\ NewContext(h).context = 1 /\ NewContext(h).keymap = h.keymap
            /\ NewContext(h).state = h.state /\ NewContext(h).freed = h.freed
         /\ h.context # 0 =>
            /\ NewKeymap(h) \in Holdings
            /\ NewKeymap(h).context = h.context + 1 /\ NewKeymap(h).keymap = 1
            /\ NewKeymap(h).state = h.state /\ NewKeymap(h).freed = h.freed
<1>1. /\ NewContext(h) \in Holdings
      /\ NewContext(h).context = 1 /\ NewContext(h).keymap = h.keymap
      /\ NewContext(h).state = h.state /\ NewContext(h).freed = h.freed
  BY DEF NewContext, Holdings
<1>2. h.context # 0 => NewKeymap(h) = [h EXCEPT !.context = h.context + 1, !.keymap = 1]
  BY Used DEF NewKeymap
<1>3. ASSUME h.context # 0
      PROVE  /\ NewKeymap(h) \in Holdings
             /\ NewKeymap(h).context = h.context + 1 /\ NewKeymap(h).keymap = 1
             /\ NewKeymap(h).state = h.state /\ NewKeymap(h).freed = h.freed
  <2> DEFINE more == [h EXCEPT !.context = h.context + 1, !.keymap = 1]
  <2>1. h.context + 1 \in Nat
    BY DEF Holdings
  <2>2. /\ more \in Holdings
        /\ more.context = h.context + 1 /\ more.keymap = 1
        /\ more.state = h.state /\ more.freed = h.freed
    BY <2>1 DEF Holdings
  <2> HIDE DEF more
  <2>3. NewKeymap(h) = more
    BY <1>2, <1>3 DEF more
  <2> QED BY <2>2, <2>3
<1> QED BY <1>1, <1>3

(* xkb-context-unref                                                        *)
LEMMA UnrefsContext ==
  ASSUME NEW h \in Holdings, h.context # 0
  PROVE  /\ UnrefContext(h) \in Holdings
         /\ UnrefContext(h).context = h.context - 1 /\ UnrefContext(h).keymap = h.keymap
         /\ UnrefContext(h).state = h.state /\ UnrefContext(h).freed = h.freed
<1>1. UnrefContext(h) = [h EXCEPT !.context = h.context - 1]
  BY Used DEF UnrefContext
<1>2. h.context - 1 \in Nat
  BY DEF Holdings
<1> QED BY <1>1, <1>2 DEF Holdings

(* xkb-keymap-unref: the last one takes its hold of the context back.       *)
LEMMA UnrefsKeymap ==
  ASSUME NEW h \in Holdings, h.keymap # 0, h.context # 0
  PROVE  /\ UnrefKeymap(h) \in Holdings
         /\ UnrefKeymap(h).keymap = h.keymap - 1
         /\ UnrefKeymap(h).context = IF h.keymap = 1 THEN h.context - 1 ELSE h.context
         /\ UnrefKeymap(h).state = h.state /\ UnrefKeymap(h).freed = h.freed
<1> DEFINE less == [h EXCEPT !.keymap = h.keymap - 1]
<1>1. UnrefKeymap(h) = IF h.keymap = 1 THEN UnrefContext(less) ELSE less
  BY Used DEF UnrefKeymap
<1>2. h.keymap - 1 \in Nat
  BY DEF Holdings
<1>3. /\ less \in Holdings /\ less.keymap = h.keymap - 1 /\ less.context = h.context
      /\ less.state = h.state /\ less.freed = h.freed
  BY <1>2 DEF Holdings
<1> HIDE DEF less
<1> QED BY <1>1, <1>3, UnrefsContext

(* wlr-keyboard-set-keymap                                                  *)
LEMMA SetsKeymap ==
  ASSUME NEW h \in Holdings, NEW works \in BOOLEAN, h.keymap # 0
  PROVE  /\ works => /\ SetKeymap(h, works) \in Holdings
                     /\ SetKeymap(h, works).context = h.context
                     /\ SetKeymap(h, works).keymap = h.keymap + 1
                     /\ SetKeymap(h, works).state = TRUE
                     /\ SetKeymap(h, works).freed = h.freed
         /\ ~ works => SetKeymap(h, works) = h
<1>1. works => SetKeymap(h, works) = [h EXCEPT !.keymap = h.keymap + 1, !.state = TRUE]
  BY Used DEF SetKeymap
<1>2. ~ works => SetKeymap(h, works) = h
  BY Used DEF SetKeymap
<1>3. ASSUME works
      PROVE  /\ SetKeymap(h, works) \in Holdings
             /\ SetKeymap(h, works).context = h.context
             /\ SetKeymap(h, works).keymap = h.keymap + 1
             /\ SetKeymap(h, works).state = TRUE
             /\ SetKeymap(h, works).freed = h.freed
  <2>1. h.keymap + 1 \in Nat
    BY DEF Holdings
  <2> QED BY <1>1, <1>3, <2>1 DEF Holdings
<1> QED BY <1>2, <1>3

(* server-new-keyboard holds on to nothing but what the keyboard holds, and *)
(* the keyboard gives that back.                                            *)
LEMMA SetUpMakes ==
  ASSUME NEW works \in BOOLEAN
  PROVE  /\ SetUp(works) = IF works THEN Made ELSE NoXkb
         /\ NewContext(NoXkb) = Leaked
         /\ Finish(Made) = NoXkb /\ Finish(NoXkb) = NoXkb /\ Finish(Leaked) = Leaked
<1>1. /\ NoXkb \in Holdings /\ Leaked \in Holdings /\ Made \in Holdings
      /\ NoXkb.context = 0 /\ NoXkb.keymap = 0 /\ NoXkb.state = FALSE /\ NoXkb.freed = FALSE
      /\ Leaked.context = 1 /\ Leaked.keymap = 0 /\ Leaked.state = FALSE /\ Leaked.freed = FALSE
      /\ Made.context = 1 /\ Made.keymap = 1 /\ Made.state = TRUE /\ Made.freed = FALSE
  BY DEF NoXkb, Leaked, Made, Holdings
<1>2. PICK a \in Holdings : a = NewContext(NoXkb) /\ a.context = 1 /\ a.keymap = 0
                              /\ a.state = FALSE /\ a.freed = FALSE
  BY <1>1, News
<1>3. PICK b \in Holdings : b = NewKeymap(a) /\ b.context = 2 /\ b.keymap = 1
                              /\ b.state = FALSE /\ b.freed = FALSE
  BY <1>2, News
<1>4. b.keymap # 0
  BY <1>3
<1>5. ASSUME works PROVE SetUp(works) = Made
  <2>1. /\ SetKeymap(b, works) \in Holdings
        /\ SetKeymap(b, works).context = b.context
        /\ SetKeymap(b, works).keymap = b.keymap + 1
        /\ SetKeymap(b, works).state = TRUE
        /\ SetKeymap(b, works).freed = b.freed
    BY <1>3, <1>4, <1>5, SetsKeymap, Zenon
  <2>2. PICK c \in Holdings : c = SetKeymap(b, works) /\ c.context = 2 /\ c.keymap = 2
                                /\ c.state = TRUE /\ c.freed = FALSE
    BY <1>3, <2>1
  <2>3. PICK d \in Holdings : d = UnrefKeymap(c) /\ d.context = 2 /\ d.keymap = 1
                                /\ d.state = TRUE /\ d.freed = FALSE
    BY <2>2, UnrefsKeymap
  <2>4. PICK e \in Holdings : e = UnrefContext(d) /\ e.context = 1 /\ e.keymap = 1
                                /\ e.state = TRUE /\ e.freed = FALSE
    BY <2>3, UnrefsContext
  <2>5. e = Made
    BY <1>1, <2>4, HoldingsEqual
  <2> QED BY <1>2, <1>3, <2>2, <2>3, <2>4, <2>5 DEF SetUp
<1>6. ASSUME ~ works PROVE SetUp(works) = NoXkb
  <2>1. SetKeymap(b, works) = b
    BY <1>3, <1>4, <1>6, SetsKeymap, Zenon
  <2>2. PICK d \in Holdings : d = UnrefKeymap(b) /\ d.context = 1 /\ d.keymap = 0
                                /\ d.state = FALSE /\ d.freed = FALSE
    BY <1>3, UnrefsKeymap
  <2>3. PICK e \in Holdings : e = UnrefContext(d) /\ e.context = 0 /\ e.keymap = 0
                                /\ e.state = FALSE /\ e.freed = FALSE
    BY <2>2, UnrefsContext
  <2>4. e = NoXkb
    BY <1>1, <2>3, HoldingsEqual
  <2> QED BY <1>2, <1>3, <2>1, <2>2, <2>3, <2>4 DEF SetUp
<1>7. NewContext(NoXkb) = Leaked
  BY <1>1, <1>2, HoldingsEqual
<1>8. Finish(Made) = NoXkb
  <2>1. PICK d \in Holdings : d = UnrefKeymap(Made) /\ d.context = 0 /\ d.keymap = 0
                                /\ d.freed = FALSE
    BY <1>1, UnrefsKeymap
  <2>2. Finish(Made) = [d EXCEPT !.state = FALSE]
    BY <1>1, <2>1 DEF Finish
  <2> DEFINE e == [d EXCEPT !.state = FALSE]
  <2>3. /\ e \in Holdings /\ e.context = 0 /\ e.keymap = 0
        /\ e.state = FALSE /\ e.freed = FALSE
    BY <2>1 DEF Holdings
  <2> HIDE DEF e
  <2>4. e = NoXkb
    BY <1>1, <2>3, HoldingsEqual
  <2> QED BY <2>2, <2>4 DEF e
<1>9. Finish(NoXkb) = NoXkb /\ Finish(Leaked) = Leaked
  BY <1>1 DEF Finish
<1> QED BY <1>5, <1>6, <1>7, <1>8, <1>9

-----------------------------------------------------------------------------
(* The seat                                                                 *)

(* wlr-seat-set-keyboard: the seat has the keyboard, and what it focuses    *)
(* has been told the modifiers of it.                                       *)
LEMMA SetsKeyboard ==
  ASSUME NEW s \in Seats, NEW k \in Keyboards
  PROVE  /\ SetKeyboard(s, k) \in Seats
         /\ SetKeyboard(s, k).keyboard = k
         /\ SetKeyboard(s, k).focused = s.focused /\ SetKeyboard(s, k).keys = s.keys
         /\ s.keyboard = k => SetKeyboard(s, k) = s
         /\ s.keyboard # k /\ s.focused # None => SetKeyboard(s, k).alt = (k \in alt)
<1>1. CASE s.keyboard = k
  BY <1>1 DEF SetKeyboard
<1>2. CASE s.keyboard # k
  <2> DEFINE hasAlt == IF s.focused # None THEN k \in alt ELSE s.alt
             other  == [s EXCEPT !.keyboard = k, !.alt = hasAlt]
  <2>1. hasAlt \in BOOLEAN
    <3>1. s.alt \in BOOLEAN
      BY DEF Seats
    <3>2. CASE s.focused # None
      BY <3>2
    <3>3. CASE s.focused = None
      BY <3>1, <3>3
    <3> QED BY <3>2, <3>3
  <2>2. s.focused # None => hasAlt = (k \in alt)
    OBVIOUS
  <2>3. SetKeyboard(s, k) = other
    BY <1>2 DEF SetKeyboard
  <2> HIDE DEF hasAlt
  <2>4. /\ other \in Seats /\ other.keyboard = k
        /\ other.focused = s.focused /\ other.keys = s.keys /\ other.alt = hasAlt
    BY <2>1 DEF Seats
  <2> HIDE DEF other
  <2> QED BY <1>2, <2>2, <2>3, <2>4
<1> QED BY <1>1, <1>2

(* wlr-seat-keyboard-notify-key                                             *)
LEMMA NotifiesKeys ==
  ASSUME NEW s \in Seats, NEW pressed \in SUBSET Keys, NEW released \in SUBSET Keys
  PROVE  /\ NotifyKeys(s, pressed, released) \in Seats
         /\ NotifyKeys(s, pressed, released).keyboard = s.keyboard
         /\ NotifyKeys(s, pressed, released).focused = s.focused
         /\ NotifyKeys(s, pressed, released).alt = s.alt
         /\ s.focused = None => NotifyKeys(s, pressed, released).keys = s.keys
         /\ s.focused # None =>
              NotifyKeys(s, pressed, released).keys = (s.keys \cup pressed) \ released
<1>1. CASE s.focused = None
  BY <1>1 DEF NotifyKeys
<1>2. CASE s.focused # None
  <2> DEFINE told == [s EXCEPT !.keys = (s.keys \cup pressed) \ released]
  <2>1. NotifyKeys(s, pressed, released) = told
    BY <1>2 DEF NotifyKeys
  <2>2. /\ told \in Seats /\ told.keyboard = s.keyboard /\ told.focused = s.focused
        /\ told.alt = s.alt /\ told.keys = (s.keys \cup pressed) \ released
    BY DEF Seats
  <2> HIDE DEF told
  <2> QED BY <1>2, <2>1, <2>2
<1> QED BY <1>1, <1>2

(* wlr-seat-keyboard-notify-modifiers                                       *)
LEMMA NotifiesModifiers ==
  ASSUME NEW s \in Seats, NEW a \in BOOLEAN
  PROVE  /\ NotifyModifiers(s, a) \in Seats
         /\ NotifyModifiers(s, a).keyboard = s.keyboard
         /\ NotifyModifiers(s, a).focused = s.focused
         /\ NotifyModifiers(s, a).keys = s.keys
         /\ s.focused # None => NotifyModifiers(s, a).alt = a
<1>1. CASE s.focused = None
  BY <1>1 DEF NotifyModifiers
<1>2. CASE s.focused # None
  <2> DEFINE told == [s EXCEPT !.alt = a]
  <2>1. NotifyModifiers(s, a) = told
    BY <1>2 DEF NotifyModifiers
  <2>2. /\ told \in Seats /\ told.keyboard = s.keyboard /\ told.focused = s.focused
        /\ told.keys = s.keys /\ told.alt = a
    BY DEF Seats
  <2> HIDE DEF told
  <2> QED BY <1>2, <2>1, <2>2
<1> QED BY <1>1, <1>2

(* Keyboards that nobody listens to, and more keys down, change nothing.    *)
LEMMA StillAgrees ==
  ASSUME NEW s \in Seats, NEW heard \in SUBSET Keyboards, NEW more \in SUBSET Keyboards,
         heard \subseteq more,
         NEW downs, NEW others, Agrees(s, heard, downs, alt),
         \A k \in heard : downs[k] \subseteq others[k]
  PROVE  Agrees(s, more, others, alt)
BY DEF Agrees

(* focus-view                                                               *)
LEMMA FocusAgrees ==
  ASSUME NEW s \in Seats, NEW surface \in Surfaces, NEW heard \in SUBSET Keyboards,
         NEW downs \in [Keyboards -> SUBSET Keys],
         s.keyboard \in heard \cup {None},
         Agrees(s, heard, downs, alt), KeyboardsAssumption
  PROVE  /\ FocusView(s, surface, downs) \in Seats
         /\ FocusView(s, surface, downs).keyboard = s.keyboard
         /\ Agrees(FocusView(s, surface, downs), heard, downs, alt)
<1>1. CASE s.keyboard = None \/ s.focused = surface
  BY <1>1 DEF FocusView
<1>2. CASE ~ (s.keyboard = None \/ s.focused = surface)
  <2> DEFINE hasAlt  == s.keyboard \in alt
             entered == [s EXCEPT !.focused = surface, !.keys = downs[s.keyboard],
                                  !.alt = hasAlt]
  <2>1. FocusView(s, surface, downs) = entered
    BY <1>2 DEF FocusView
  <2>2. s.keyboard \in heard /\ downs[s.keyboard] \in SUBSET Keys
    BY <1>2
  <2>3. hasAlt \in BOOLEAN /\ hasAlt = (s.keyboard \in alt)
    OBVIOUS
  <2> HIDE DEF hasAlt
  <2>4. /\ entered \in Seats /\ entered.keyboard = s.keyboard
        /\ entered.focused = surface /\ entered.keys = downs[s.keyboard]
        /\ entered.alt = hasAlt
    BY <2>2, <2>3 DEF Seats
  <2>5. surface # None
    BY DEF KeyboardsAssumption
  <2> HIDE DEF entered
  <2>6. Agrees(entered, heard, downs, alt)
    BY <2>2, <2>3, <2>4, <2>5 DEF Agrees
  <2> QED BY <2>1, <2>4, <2>6
<1> QED BY <1>1, <1>2

(* A key that goes to the client with the focus, from a keyboard that is    *)
(* listened to.                                                             *)
LEMMA ForwardAgrees ==
  ASSUME NEW k \in Keyboards, NEW heard \in SUBSET Keyboards, k \in heard,
         NEW downs, NEW others,
         NEW pressed \in SUBSET Keys, NEW released \in SUBSET Keys,
         seat \in Seats, Agrees(seat, heard, downs, alt), None \notin Keyboards,
         \A i \in heard : downs[i] \ released \subseteq others[i],
         pressed \ released \subseteq others[k]
  PROVE  /\ Forward(k, pressed, released) \in Seats
         /\ Forward(k, pressed, released).keyboard = k
         /\ Agrees(Forward(k, pressed, released), heard, others, alt)
<1>1. PICK s \in Seats :
        /\ s = SetKeyboard(seat, k) /\ s.keyboard = k
        /\ s.focused = seat.focused /\ s.keys = seat.keys
        /\ s.focused # None => s.alt = (k \in alt)
  <2>1. seat.keyboard = k => SetKeyboard(seat, k) = seat
    BY SetsKeyboard
  <2>2. /\ SetKeyboard(seat, k) \in Seats /\ SetKeyboard(seat, k).keyboard = k
        /\ SetKeyboard(seat, k).focused = seat.focused
        /\ SetKeyboard(seat, k).keys = seat.keys
    BY SetsKeyboard
  <2>3. ASSUME seat.focused # None
        PROVE  SetKeyboard(seat, k).alt = (k \in alt)
    <3>1. CASE seat.keyboard = k
      BY <2>1, <2>3, <3>1 DEF Agrees
    <3>2. CASE seat.keyboard # k
      BY <2>3, <3>2, SetsKeyboard
    <3> QED BY <3>1, <3>2
  <2> QED BY <2>2, <2>3
<1>2. PICK t \in Seats :
        /\ t = NotifyKeys(s, pressed, released) /\ t.keyboard = k
        /\ t.focused = s.focused /\ t.alt = s.alt
        /\ s.focused = None => t.keys = s.keys
        /\ s.focused # None => t.keys = (s.keys \cup pressed) \ released
  <2>1. s \in Seats
    OBVIOUS
  <2>2. /\ NotifyKeys(s, pressed, released) \in Seats
        /\ NotifyKeys(s, pressed, released).keyboard = s.keyboard
        /\ NotifyKeys(s, pressed, released).focused = s.focused
        /\ NotifyKeys(s, pressed, released).alt = s.alt
        /\ s.focused = None => NotifyKeys(s, pressed, released).keys = s.keys
        /\ s.focused # None =>
             NotifyKeys(s, pressed, released).keys = (s.keys \cup pressed) \ released
    BY ONLY <2>1, NotifiesKeys, pressed \in SUBSET Keys, released \in SUBSET Keys
  <2>3. s.keyboard = k
    BY <1>1
  <2> QED BY <2>2, <2>3
<1>3. Forward(k, pressed, released) = t
  BY <1>1, <1>2 DEF Forward
<1>4. t.focused # None => t.alt = (k \in alt)
  BY <1>1, <1>2
<1>5. t.focused = None => t.keys = {}
  BY <1>1, <1>2 DEF Agrees
<1>6. t.keys \subseteq UNION {others[i] : i \in heard}
  <2>1. CASE t.focused = None
    BY <1>5, <2>1
  <2>2. CASE t.focused # None
    <3>1. t.keys = (seat.keys \cup pressed) \ released
      BY <1>1, <1>2, <2>2
    <3>2. seat.keys \subseteq UNION {downs[i] : i \in heard}
      BY DEF Agrees
    <3> QED BY <3>1, <3>2
  <2> QED BY <2>1, <2>2
<1> QED BY <1>2, <1>3, <1>4, <1>5, <1>6 DEF Agrees

-----------------------------------------------------------------------------
(* The steps                                                                *)

LEMMA InitHolds ==
  ASSUME Init
  PROVE  IInv
<1> USE DEF Init
<1>1. Types
  <2>1. seat \in Seats
    BY DEF Seats, Keys
  <2>2. xkb \in [Keyboards -> {NoXkb, Made, Leaked}] /\ down \in [Keyboards -> SUBSET Keys]
    OBVIOUS
  <2>3. listed \in Seq(Keyboards)
    OBVIOUS
  <2>4. crashed \in BOOLEAN /\ alt \subseteq Keyboards
    OBVIOUS
  <2>5. plugged \subseteq Keyboards /\ listening \subseteq plugged
    OBVIOUS
  <2> QED BY <2>1, <2>2, <2>3, <2>4, <2>5, Zenon DEF Types
<1>2. XkbFollows /\ GoneIsUp
  BY DEF XkbFollows, GoneIsUp
<1>3. ClientFollows
  BY DEF ClientFollows, Agrees
<1>4. KeyboardsListed
  BY DEF KeyboardsListed, ToSet, IsInjective
<1> QED BY <1>1, <1>2, <1>3, <1>4 DEF IInv

(* handle-backend-new-input, of a pointer                                   *)
LEMMA NewPointerKeeps ==
  ASSUME IInv, NewPointer
  PROVE  IInv'
<1> USE DEF IInv, NewPointer, SetCapabilities
<1>1. Types' /\ XkbFollows' /\ GoneIsUp'
  BY DEF Types, XkbFollows, GoneIsUp
<1>2. ClientFollows'
  BY DEF ClientFollows, Agrees
<1>3. listening # {} => listed # <<>>
  BY LastElement DEF Types, KeyboardsListed
<1>4. KeyboardsListed'
  BY <1>3 DEF KeyboardsListed
<1> QED BY <1>1, <1>2, <1>4

(* handle-backend-new-input, when server-new-keyboard ends                  *)
LEMMA NewKeyboardKeeps ==
  ASSUME IInv, NEW k \in Keyboards, NEW works \in BOOLEAN, NewKeyboard(k, works),
         None \notin Keyboards
  PROVE  IInv'
<1> USE DEF IInv, NewKeyboard
<1>1. k \notin listening /\ listening \subseteq Keyboards /\ listed \in Seq(Keyboards)
  BY DEF Types
<1>2. listed' \in Seq(Keyboards) /\ IsInjective(listed') /\ listed' # <<>>
      /\ ToSet(listed') = listening \cup {k}
  BY <1>1, PushElement DEF KeyboardsListed
<1>3. seat' \in Seats /\ seat'.keyboard = k
      /\ seat'.focused = seat.focused /\ seat'.keys = seat.keys
  BY SetsKeyboard DEF Types
<1>4. xkb'[k] = Made \/ (xkb'[k] = NoXkb /\ "sets" \in lifted)
  <2>1. xkb'[k] = SetUp(works)
    BY DEF Types
  <2> QED BY <2>1, SetUpMakes
<1>5. xkb' \in [Keyboards -> {NoXkb, Made, Leaked}]
      /\ \A i \in Keyboards \ {k} : xkb'[i] = xkb[i]
  <2>1. SetUp(works) \in {NoXkb, Made, Leaked}
    BY SetUpMakes
  <2> HIDE DEF IInv
  <2> QED BY <2>1 DEF IInv, Types
<1>6. Types'
  BY <1>1, <1>2, <1>3, <1>5 DEF Types
<1>7. XkbFollows'
  BY <1>1, <1>4, <1>5 DEF XkbFollows
<1>8. ClientFollows'
  <2>1. ASSUME seat.focused # None PROVE seat'.alt = (k \in alt)
    <3>1. CASE seat.keyboard = k
      BY <1>1, <3>1 DEF KeyboardsListed
    <3>2. CASE seat.keyboard # k
      BY <2>1, <3>2, SetsKeyboard DEF Types
    <3> QED BY <3>1, <3>2
  <2> QED BY <1>3, <2>1 DEF ClientFollows, Agrees
<1>9. GoneIsUp'
  BY DEF GoneIsUp
<1>10. KeyboardsListed'
  <2>1. caps'
    BY <1>2 DEF SetCapabilities
  <2> QED BY <1>1, <1>2, <1>3, <2>1 DEF KeyboardsListed
<1> QED BY <1>6, <1>7, <1>8, <1>9, <1>10

(* handle-backend-new-input, when server-new-keyboard raises                *)
LEMMA NewKeyboardFailsKeeps ==
  ASSUME IInv, NEW k \in Keyboards, NewKeyboardFails(k)
  PROVE  IInv'
<1> USE DEF IInv, NewKeyboardFails
<1>1. k \notin listening /\ listening \subseteq Keyboards
  BY DEF Types
<1>2. PICK made \in {NoXkb, Leaked} : xkb' = [xkb EXCEPT ![k] = made]
  <2>1. NewContext(NoXkb) = Leaked
    BY ONLY SetUpMakes, TRUE \in BOOLEAN
  <2> QED BY <2>1
<1>3. Types'
  BY <1>1, <1>2 DEF Types
<1>4. XkbFollows'
  BY <1>1, <1>2 DEF XkbFollows, Types
<1>5. ClientFollows' /\ GoneIsUp' /\ KeyboardsListed'
  BY <1>1 DEF ClientFollows, Agrees, GoneIsUp, KeyboardsListed
<1> QED BY <1>3, <1>4, <1>5

(* handle-surface-map and the others that focus a view                      *)
LEMMA FocusKeeps ==
  ASSUME IInv, NEW surface \in Surfaces, Focus(surface), KeyboardsAssumption
  PROVE  IInv'
<1> USE DEF IInv, Focus, devices
<1>1. /\ seat' \in Seats /\ seat'.keyboard = seat.keyboard
      /\ Agrees(seat', listening, down, alt)
  BY FocusAgrees DEF Types, ClientFollows, KeyboardsListed
<1>2. Types' /\ ClientFollows'
  BY <1>1 DEF Types, ClientFollows
<1>3. XkbFollows' /\ GoneIsUp' /\ KeyboardsListed'
  BY <1>1 DEF XkbFollows, GoneIsUp, KeyboardsListed
<1> QED BY <1>2, <1>3

(* The surface that has the focus is destroyed.                             *)
LEMMA UnfocusKeeps ==
  ASSUME IInv, Unfocus
  PROVE  IInv'
<1> USE DEF IInv, Unfocus, devices
<1>1. /\ seat' \in Seats /\ seat'.keyboard = seat.keyboard
      /\ seat'.focused = None /\ seat'.keys = {}
  BY DEF Types, Seats
<1>2. Types' /\ ClientFollows'
  BY <1>1 DEF Types, ClientFollows, Agrees
<1>3. XkbFollows' /\ GoneIsUp' /\ KeyboardsListed'
  BY <1>1 DEF XkbFollows, GoneIsUp, KeyboardsListed
<1> QED BY <1>2, <1>3

(* A key of a keyboard that is listened to: the seat in between, when the   *)
(* key has been handled and the modifiers have not.                         *)
LEMMA HandleKeyAgrees ==
  ASSUME IInv, KeyboardsAssumption, NEW k \in listening, NEW key \in Keys,
         NEW pressed \in BOOLEAN, NEW downs \in [Keyboards -> SUBSET Keys],
         \A i \in Keyboards \ {k} : downs[i] = down[i],
         pressed => downs[k] = down[k] \cup {key},
         ~ pressed => downs[k] = down[k] \ {key},
         NEW s \in HandleKey(k, key, pressed, downs)
  PROVE  /\ s \in Seats /\ s.keyboard \in listening \cup {None}
         /\ Agrees(s, listening, downs, alt)
         /\ s.keyboard = k \/ s.keys = seat.keys \/ s.focused # seat.focused
<1> USE DEF IInv
<1>1. /\ k \in Keyboards /\ listening \in SUBSET Keyboards
      /\ seat \in Seats /\ seat.keyboard \in listening \cup {None}
      /\ down \in [Keyboards -> SUBSET Keys]
      /\ Agrees(seat, listening, down, alt) /\ None \notin Keyboards
  BY DEF Types, ClientFollows, KeyboardsListed, KeyboardsAssumption
<1> HIDE DEF IInv
<1>2. CASE Bound(k, key, pressed)
  <2>1. pressed
    BY <1>2 DEF Bound
  <2>2. Agrees(seat, listening, downs, alt)
    <3>1. \A i \in listening : down[i] \subseteq downs[i]
      BY <1>1, <2>1
    <3> QED BY <1>1, <3>1 DEF Agrees
  <2>3. s = seat \/ \E surface \in Surfaces : s = FocusView(seat, surface, downs)
    BY <1>2 DEF HandleKey
  <2>4. ASSUME NEW surface \in Surfaces, s = FocusView(seat, surface, downs)
        PROVE  /\ s \in Seats /\ s.keyboard = seat.keyboard
               /\ Agrees(s, listening, downs, alt)
    BY <1>1, <2>2, <2>4, FocusAgrees
  <2>5. ASSUME NEW surface \in Surfaces, s = FocusView(seat, surface, downs)
        PROVE  s.keys = seat.keys \/ s.focused # seat.focused
    <3>1. CASE seat.keyboard = None \/ seat.focused = surface
      BY <2>5, <3>1 DEF FocusView
    <3>2. CASE ~ (seat.keyboard = None \/ seat.focused = surface)
      BY <1>1, <2>5, <3>2 DEF FocusView, Seats
    <3> QED BY <3>1, <3>2
  <2> QED BY <1>1, <2>2, <2>3, <2>4, <2>5
<1>3. CASE ~ Bound(k, key, pressed)
  <2>1. PICK added \in SUBSET Keys, removed \in SUBSET Keys :
          /\ s = Forward(k, added, removed)
          /\ added = IF pressed THEN {key} ELSE {}
          /\ removed = IF pressed THEN {} ELSE {key}
    BY <1>3 DEF HandleKey
  <2>2. /\ \A i \in listening : down[i] \ removed \subseteq downs[i]
        /\ added \ removed \subseteq downs[k]
    BY <1>1, <2>1
  <2>3. /\ Forward(k, added, removed) \in Seats
        /\ Forward(k, added, removed).keyboard = k
        /\ Agrees(Forward(k, added, removed), listening, downs, alt)
    <3>1. /\ added \in SUBSET Keys /\ removed \in SUBSET Keys /\ k \in listening
      OBVIOUS
    <3> QED BY ONLY <1>1, <2>2, <3>1, ForwardAgrees, Zenon
  <2> QED BY <1>1, <2>1, <2>3
<1> QED BY <1>2, <1>3

(* handle-wlr-keyboard-modifiers, of a keyboard that is listened to         *)
LEMMA ModifiersAgree ==
  ASSUME NEW k \in Keyboards, NEW heard \in SUBSET Keyboards, NEW downs, NEW alts,
         NEW s \in Seats, Agrees(s, heard, downs, alt),
         NEW a \in BOOLEAN, a <=> k \in alts
  PROVE  /\ HandleModifiers(s, k, a) \in Seats
         /\ HandleModifiers(s, k, a).keyboard = k
         /\ Agrees(HandleModifiers(s, k, a), heard, downs, alts)
<1>1. PICK t \in Seats : /\ t = SetKeyboard(s, k) /\ t.keyboard = k
                         /\ t.focused = s.focused /\ t.keys = s.keys
  BY SetsKeyboard
<1>2. PICK u \in Seats : /\ u = NotifyModifiers(t, a) /\ u.keyboard = k
                         /\ u.focused = s.focused /\ u.keys = s.keys
                         /\ s.focused # None => u.alt = a
  <2>1. /\ NotifyModifiers(t, a) \in Seats
        /\ NotifyModifiers(t, a).keyboard = t.keyboard
        /\ NotifyModifiers(t, a).focused = t.focused
        /\ NotifyModifiers(t, a).keys = t.keys
        /\ t.focused # None => NotifyModifiers(t, a).alt = a
    BY ONLY t \in Seats, a \in BOOLEAN, NotifiesModifiers
  <2> QED BY <1>1, <2>1
<1>3. HandleModifiers(s, k, a) = u
  BY <1>1, <1>2 DEF HandleModifiers
<1> QED BY <1>2, <1>3 DEF Agrees

(* A key goes down or up.                                                   *)
LEMMA KeyKeeps ==
  ASSUME IInv, KeyboardsAssumption, NEW k \in Keyboards, NEW key \in Keys, Key(k, key)
  PROVE  /\ IInv'
         /\ k \in listening =>
              seat'.keyboard = k \/ seat'.keys = seat.keys \/ seat'.focused # seat.focused
<1>p. PICK pressed \in BOOLEAN : pressed = (key \notin down[k])
  OBVIOUS
<1> DEFINE alters == key = "alt" /\ xkb[k].state
<1>1. /\ k \in plugged
      /\ down' = [down EXCEPT ![k] = IF pressed THEN @ \cup {key} ELSE @ \ {key}]
      /\ alt' = IF ~ alters THEN alt ELSE IF pressed THEN alt \cup {k} ELSE alt \ {k}
      /\ lifted' = lifted /\ plugged' = plugged /\ listed' = listed
      /\ listening' = listening /\ caps' = caps /\ xkb' = xkb
      /\ crashed' = (k \in listening /\ ~ xkb[k].state)
  BY <1>p DEF Key, devices
<1>2. k \notin listening => seat' = seat
  BY DEF Key
<1>3. k \in listening =>
        \E s \in HandleKey(k, key, pressed, down') :
          seat' = IF alters THEN HandleModifiers(s, k, pressed) ELSE s
  BY <1>p, <1>1 DEF Key
<1>4. alters \in BOOLEAN
  <2>1. Made.state \in BOOLEAN /\ NoXkb.state \in BOOLEAN /\ Leaked.state \in BOOLEAN
    BY DEF Made, NoXkb, Leaked
  <2>2. xkb[k] \in {NoXkb, Made, Leaked}
    BY DEF IInv, Types
  <2> QED BY <2>1, <2>2
<1>5. /\ listening \in SUBSET Keyboards /\ down \in [Keyboards -> SUBSET Keys]
      /\ alt \in SUBSET Keyboards /\ seat \in Seats
      /\ seat.keyboard \in listening \cup {None} /\ Agrees(seat, listening, down, alt)
  BY DEF IInv, Types, KeyboardsListed, ClientFollows
<1>6. /\ down' \in [Keyboards -> SUBSET Keys]
      /\ \A i \in Keyboards \ {k} : down'[i] = down[i]
  BY ONLY <1>1, <1>5, key \in Keys, pressed \in BOOLEAN
<1>7. k \in listening /\ alters => (pressed <=> k \in alt')
  BY <1>1
<1>8. k \notin listening => ~ alters
  <2>1. k \notin listening => xkb[k] = NoXkb \/ xkb[k] = Leaked
    BY DEF IInv, XkbFollows
  <2> QED BY <2>1 DEF NoXkb, Leaked
<1>9. alt' \in SUBSET Keyboards /\ \A i \in Keyboards \ {k} : i \in alt' <=> i \in alt
  BY <1>1, <1>5
<1>10. crashed' => "sets" \in lifted
  <2>1. k \in listening /\ ~ xkb[k].state => xkb[k] # Made
    BY DEF Made
  <2> QED BY <1>1, <2>1 DEF IInv, XkbFollows
<1> SUFFICES /\ seat' \in Seats /\ seat'.keyboard \in listening \cup {None}
             /\ Agrees(seat', listening, down', alt')
             /\ k \in listening =>
                  seat'.keyboard = k \/ seat'.keys = seat.keys \/ seat'.focused # seat.focused
  <2>1. Types'
    <3>1. crashed' \in BOOLEAN
      BY <1>1
    <3> HIDE DEF alters
    <3> QED BY <1>1, <1>6, <1>9, <3>1 DEF IInv, Types
  <2>2. XkbFollows'
    BY <1>1, <1>10 DEF IInv, XkbFollows
  <2>3. ClientFollows' /\ KeyboardsListed'
    BY <1>1 DEF IInv, ClientFollows, KeyboardsListed
  <2>4. GoneIsUp'
    BY <1>1, <1>6, <1>9 DEF IInv, GoneIsUp
  <2> QED BY <2>1, <2>2, <2>3, <2>4 DEF IInv
<1> HIDE DEF alters
<1>11. CASE k \notin listening
  <2>1. seat' = seat /\ alt' = alt /\ \A i \in listening : down'[i] = down[i]
    BY <1>1, <1>2, <1>5, <1>6, <1>8, <1>11
  <2> QED BY <1>5, <1>11, <2>1 DEF Agrees
<1>12. CASE k \in listening
  <2>1. PICK s \in HandleKey(k, key, pressed, down') :
               seat' = IF alters THEN HandleModifiers(s, k, pressed) ELSE s
    BY <1>3, <1>12
  <2>2. /\ s \in Seats /\ s.keyboard \in listening \cup {None}
        /\ Agrees(s, listening, down', alt)
        /\ s.keyboard = k \/ s.keys = seat.keys \/ s.focused # seat.focused
    <3>1. PICK downs \in [Keyboards -> SUBSET Keys] : downs = down'
      BY <1>6
    <3>2. /\ \A i \in Keyboards \ {k} : downs[i] = down[i]
          /\ pressed => downs[k] = down[k] \cup {key}
          /\ ~ pressed => downs[k] = down[k] \ {key}
      BY <1>1, <1>5, <1>6, <3>1
    <3>3. s \in HandleKey(k, key, pressed, downs)
      BY <2>1, <3>1
    <3>4. /\ s \in Seats /\ s.keyboard \in listening \cup {None}
          /\ Agrees(s, listening, downs, alt)
          /\ s.keyboard = k \/ s.keys = seat.keys \/ s.focused # seat.focused
      BY <1>12, <3>2, <3>3, HandleKeyAgrees
    <3> QED BY <3>1, <3>4
  <2>3. CASE alters
    <3>1. seat' = HandleModifiers(s, k, pressed) /\ (pressed <=> k \in alt')
      BY <1>7, <1>12, <2>1, <2>3
    <3>2. /\ seat' \in Seats /\ seat'.keyboard = k /\ Agrees(seat', listening, down', alt')
      <4>1. PICK downs, alts : downs = down' /\ alts = alt'
        OBVIOUS
      <4>2. /\ HandleModifiers(s, k, pressed) \in Seats
            /\ HandleModifiers(s, k, pressed).keyboard = k
            /\ Agrees(HandleModifiers(s, k, pressed), listening, downs, alts)
        BY <1>5, <2>2, <3>1, <4>1, ModifiersAgree
      <4> QED BY <3>1, <4>1, <4>2
    <3> QED BY <1>12, <3>2
  <2>4. CASE ~ alters
    BY <1>1, <2>1, <2>2, <2>4
  <2> QED BY <2>3, <2>4
<1> QED BY <1>11, <1>12

(* wlr_keyboard_finish, handle-wlr-input-device-destroy                     *)
LEMMA UnplugKeeps ==
  ASSUME IInv, KeyboardsAssumption, NEW k \in Keyboards, Unplug(k)
  PROVE  IInv'
<1>1. /\ plugged' = plugged \ {k} /\ listening' = listening \ {k}
      /\ listed' = RemoveFirst(listed, k) /\ lifted' = lifted /\ caps' = caps
      /\ xkb' = [xkb EXCEPT ![k] = Finish(xkb[k])]
      /\ down' = [down EXCEPT ![k] = {}] /\ alt' = alt \ {k}
      /\ crashed' = (k \in listening /\ down[k] # {} /\ ~ xkb[k].state)
  BY DEF Unplug, RemoveListeners
<1>2. /\ listening \in SUBSET Keyboards /\ down \in [Keyboards -> SUBSET Keys]
      /\ alt \in SUBSET Keyboards /\ seat \in Seats /\ None \notin Keyboards
      /\ seat.keyboard \in listening \cup {None} /\ Agrees(seat, listening, down, alt)
      /\ xkb \in [Keyboards -> {NoXkb, Made, Leaked}]
  BY DEF IInv, Types, KeyboardsListed, ClientFollows, KeyboardsAssumption
<1>3. PICK told \in Seats :
        /\ told.keyboard \in listening \cup {None}
        /\ Agrees(told, listening, down', alt)
        /\ seat' = [told EXCEPT !.keyboard = IF told.keyboard = k THEN None
                                             ELSE told.keyboard]
  <2>1. CASE k \in listening /\ down[k] # {}
    <3>1. PICK others : others = down'
      OBVIOUS
    <3>2. /\ \A i \in listening : down[i] \ down[k] \subseteq others[i]
          /\ {} \in SUBSET Keys /\ down[k] \in SUBSET Keys
          /\ {} \ down[k] \subseteq others[k]
      BY <1>1, <1>2, <2>1, <3>1
    <3>3. /\ Forward(k, {}, down[k]) \in Seats
          /\ Forward(k, {}, down[k]).keyboard = k
          /\ Agrees(Forward(k, {}, down[k]), listening, others, alt)
      BY <1>2, <2>1, <3>2, ForwardAgrees
    <3>4. seat' = [Forward(k, {}, down[k]) EXCEPT
                     !.keyboard = IF Forward(k, {}, down[k]).keyboard = k THEN None
                                  ELSE Forward(k, {}, down[k]).keyboard]
      BY <2>1 DEF Unplug
    <3> QED BY <2>1, <3>1, <3>3, <3>4
  <2>2. CASE ~ (k \in listening /\ down[k] # {})
    <3>1. seat' = [seat EXCEPT !.keyboard = IF seat.keyboard = k THEN None
                                            ELSE seat.keyboard]
      BY <2>2 DEF Unplug
    <3>2. \A i \in listening : down'[i] = down[i]
      BY <1>1, <1>2, <2>2
    <3>3. Agrees(seat, listening, down', alt)
      BY <1>2, <3>2 DEF Agrees
    <3> QED BY <1>2, <3>1, <3>3
  <2> QED BY <2>1, <2>2
<1>4. /\ seat' \in Seats /\ seat'.keyboard \in (listening \ {k}) \cup {None}
      /\ seat'.keyboard \in {told.keyboard, None} /\ seat'.keyboard # k
      /\ seat'.focused = told.focused /\ seat'.keys = told.keys /\ seat'.alt = told.alt
  BY <1>2, <1>3 DEF Seats
<1>5. down' \in [Keyboards -> SUBSET Keys] /\ down'[k] = {}
      /\ \A i \in Keyboards \ {k} : down'[i] = down[i]
  BY <1>1, <1>2
<1>6. ClientFollows'
  <2>1. seat'.keys \subseteq UNION {down'[i] : i \in listening'}
    BY <1>1, <1>3, <1>4, <1>5 DEF Agrees
  <2>2. seat'.focused = None => seat'.keys = {}
    BY <1>3, <1>4 DEF Agrees
  <2>3. ASSUME seat'.focused # None, seat'.keyboard # None
        PROVE  seat'.alt = (seat'.keyboard \in alt')
    <3>1. seat'.keyboard = told.keyboard
      BY <1>4, <2>3
    <3>2. told.alt = (told.keyboard \in alt)
      BY <1>3, <1>4, <2>3, <3>1 DEF Agrees
    <3>3. (told.keyboard \in alt) = (told.keyboard \in alt')
      BY <1>1, <1>4, <3>1
    <3> QED BY <1>4, <3>1, <3>2, <3>3
  <2> QED BY <2>1, <2>2, <2>3 DEF ClientFollows, Agrees
<1>7. /\ xkb' \in [Keyboards -> {NoXkb, Made, Leaked}]
      /\ xkb'[k] = NoXkb \/ (xkb'[k] = Leaked /\ "compiles" \in lifted)
      /\ \A i \in Keyboards \ {k} : xkb'[i] = xkb[i]
  <2>1. /\ Finish(Made) = NoXkb /\ Finish(NoXkb) = NoXkb /\ Finish(Leaked) = Leaked
    BY ONLY SetUpMakes, TRUE \in BOOLEAN
  <2>2. k \in listening => xkb[k] # Leaked
    BY DEF IInv, XkbFollows, Made, NoXkb, Leaked
  <2>3. xkb[k] = Leaked => "compiles" \in lifted
    BY <2>2 DEF IInv, XkbFollows, NoXkb, Leaked
  <2> QED BY <1>1, <1>2, <2>1, <2>3
<1>8. XkbFollows'
  <2>1. crashed' => "sets" \in lifted
    <3>1. ~ xkb[k].state => xkb[k] # Made
      BY DEF Made
    <3>2. crashed' => k \in listening /\ xkb[k] # Made
      BY <1>1, <3>1
    <3> QED BY <3>2 DEF IInv, XkbFollows
  <2> QED BY <1>1, <1>2, <1>7, <2>1 DEF IInv, XkbFollows
<1>9. listed' \in Seq(Keyboards) /\ IsInjective(listed') /\ ToSet(listed') = listening \ {k}
  BY <1>1, RemoveElement DEF IInv, Types, KeyboardsListed
<1>10. Types'
  <2>1. crashed' \in BOOLEAN
    BY <1>1
  <2> QED BY <1>1, <1>2, <1>4, <1>5, <1>7, <1>9, <2>1 DEF IInv, Types
<1>11. GoneIsUp'
  BY <1>1, <1>5 DEF IInv, GoneIsUp
<1>12. KeyboardsListed'
  BY <1>1, <1>4, <1>9 DEF IInv, KeyboardsListed
<1> QED BY <1>6, <1>8, <1>10, <1>11, <1>12 DEF IInv

(* No step breaks it.                                                       *)
LEMMA NextKeeps ==
  ASSUME IInv, [Next]_vars, KeyboardsAssumption
  PROVE  IInv'
<1>1. CASE NewPointer
  BY <1>1, NewPointerKeeps
<1>2. CASE \E k \in Keyboards, works \in BOOLEAN : NewKeyboard(k, works)
  BY <1>2, NewKeyboardKeeps DEF KeyboardsAssumption
<1>3. CASE \E k \in Keyboards : NewKeyboardFails(k)
  BY <1>3, NewKeyboardFailsKeeps
<1>4. CASE \E k \in Keyboards, key \in Keys : Key(k, key)
  BY <1>4, KeyKeeps
<1>5. CASE \E k \in Keyboards : Unplug(k)
  BY <1>5, UnplugKeeps
<1>6. CASE \E surface \in Surfaces : Focus(surface)
  BY <1>6, FocusKeeps
<1>7. CASE Unfocus
  BY <1>7, UnfocusKeeps
<1>8. CASE UNCHANGED vars
  BY <1>8 DEF vars, devices, IInv, Types, XkbFollows, ClientFollows, Agrees, GoneIsUp,
              KeyboardsListed
<1> QED BY <1>1, <1>2, <1>3, <1>4, <1>5, <1>6, <1>7, <1>8 DEF Next

LEMMA Invariance == Spec => []IInv
<1>1. Init => IInv
  BY InitHolds
<1>2. IInv /\ [Next]_vars => IInv'
  BY NextKeeps, KeyboardsAssumption
<1> QED BY <1>1, <1>2, PTL DEF Spec

-----------------------------------------------------------------------------
(* KeyboardsListed: server-new-keyboard and handle-wlr-input-device-destroy *)
(* keep the server's list, the listeners, the seat's keyboard and its       *)
(* capabilities in step.                                                    *)
THEOREM ListensToTheListed == Spec => []KeyboardsListed
<1>1. IInv => KeyboardsListed
  BY DEF IInv
<1> QED BY <1>1, Invariance, PTL

(* XkbBalanced: server-new-keyboard gives back every reference that the     *)
(* keyboard does not hold, and wlr_keyboard_finish the others, for any      *)
(* number of keyboards that come and go; the key handler finds a state.     *)
THEOREM ReferencesBalance == Spec => []XkbBalanced
<1>1. IInv => XkbBalanced
  <2> SUFFICES ASSUME IInv PROVE XkbBalanced
    OBVIOUS
  <2>1. /\ Made.state = TRUE /\ ~ Made.freed /\ ~ NoXkb.freed /\ ~ Leaked.freed
        /\ NoXkb.context = 0 /\ NoXkb.keymap = 0
    BY DEF Made, NoXkb, Leaked
  <2>2. \A k \in Keyboards : ~ xkb[k].freed
    BY <2>1 DEF IInv, Types
  <2>3. Keeping({"sets"}) => ~ crashed /\ \A k \in listening : xkb[k].state
    BY <2>1 DEF IInv, XkbFollows, Keeping
  <2>4. Keeping({"compiles"}) =>
          \A k \in Keyboards \ plugged : xkb[k].context = 0 /\ xkb[k].keymap = 0
    BY <2>1 DEF IInv, XkbFollows, Types, Keeping
  <2> QED BY <2>2, <2>3, <2>4 DEF XkbBalanced
<1> QED BY <1>1, Invariance, PTL

(* NoStuckKeys: handle-wlr-keyboard-key and the seat leave no client with a *)
(* key pressed that is down on no keyboard.                                 *)
THEOREM NoKeySticks == Spec => []NoStuckKeys
<1>1. IInv => NoStuckKeys
  BY DEF IInv, Types, ClientFollows, Agrees, NoStuckKeys
<1> QED BY <1>1, Invariance, PTL

(* KeysCarryModifiers: with a key from a keyboard that stays, a client has  *)
(* the modifiers of that keyboard.                                          *)
THEOREM ModifiersComeWithKeys == Spec => KeysCarryModifiers
<1> DEFINE carried ==
      \A k \in listening \cap listening' :
        down'[k] # down[k] /\ seat'.keys # seat.keys /\ seat'.focused = seat.focused
        => seat'.alt = (k \in alt')
<1>1. IInv /\ [Next]_vars => [carried]_vars
  <2> SUFFICES ASSUME IInv, Next, KeyboardsAssumption,
                      NEW k \in listening, k \in listening',
                      down'[k] # down[k], seat'.keys # seat.keys,
                      seat'.focused = seat.focused
               PROVE  seat'.alt = (k \in alt')
    BY KeyboardsAssumption
  <2>1. PICK key \in Keys : Key(k, key)
    <3>1. ASSUME NEW j \in Keyboards, NEW key \in Keys, Key(j, key) PROVE j = k
      BY <3>1 DEF Key, IInv, Types
    <3>2. ~ \E j \in Keyboards : Unplug(j)
      BY DEF Unplug, RemoveListeners, IInv, Types
    <3> QED BY <3>1, <3>2 DEF Next, NewPointer, NewKeyboard, NewKeyboardFails, Focus, Unfocus,
                             IInv, Types
  <2>2. IInv' /\ seat'.keyboard = k
    BY <2>1, KeyKeeps DEF IInv, Types
  <2>3. seat'.focused # None
    BY <2>2 DEF IInv, ClientFollows, Agrees
  <2>4. k # None
    BY DEF IInv, Types, KeyboardsAssumption
  <2> QED BY <2>2, <2>3, <2>4 DEF IInv, ClientFollows, Agrees
<1> QED BY <1>1, Invariance, PTL DEF Spec, KeysCarryModifiers
=============================================================================
